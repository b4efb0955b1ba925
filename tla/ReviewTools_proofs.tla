------------------------- MODULE ReviewTools_proofs -------------------------
(***************************************************************************)
(* Proofs about the two terminal programs, for all projects, patterns,     *)
(* batches and limits: demo_cli.py saves nothing but the scenario it showed*)
(* last; scrp_demo.py lets no approved scenario disappear and saves what   *)
(* the reviewer decided.                                                   *)
(***************************************************************************)
EXTENDS ReviewTools, Selections_proofs

(***************************************************************************)
(* demo_cli.py.  The log and the scenario on show are about numbers that   *)
(* were given out once each: a sibling still in the batch is not the one on*)
(* show, and neither was pruned or rejected.  Nothing is written before the*)
(* program is done, and it is done when the last refusal is spent.         *)
(***************************************************************************)
Unrefused(t) == <<"prune", t>> \notin trail /\ <<"reject", t>> \notin trail

DemoTypes ==
    /\ gate \in {"start", "menu", "approval", "done"}
    /\ count \in Nat /\ target \in Nat /\ refusals \in Nat
    /\ batch \in Seq(Nat)
    /\ \A t \in Nat : t > count => Unrefused(t)

Waiting ==
    /\ \A i \in 1..Len(batch) : batch[i] <= count /\ batch[i] # target /\ Unrefused(batch[i])
    /\ \A i, j \in 1..Len(batch) : i # j => batch[i] # batch[j]

OnShow ==
    gate \in {"menu", "approval"} =>
        /\ target <= count /\ target \in served
        /\ Unrefused(target)
        /\ refusals < MaxHumanRejections

NotYetWritten == gate # "done" => written = {}

Start == gate = "start" =>
            count = 0 /\ trail = {} /\ refusals = 0 /\ batch = <<>>

DemoInv == DemoTypes /\ Waiting /\ OnShow /\ NotYetWritten /\ Start /\ OnlyTheShownIsWritten

LEMMA DemoInitially == DemoInit => DemoInv
  BY DEF DemoInit, DemoInv, DemoTypes, Waiting, OnShow, NotYetWritten, Start,
         OnlyTheShownIsWritten, Unrefused

(* The sequences that DemoGenerate and MenuPrune leave in batch.           *)
LEMMA RestOfBatch ==
    ASSUME NEW s \in Seq(Nat), s # <<>>
    PROVE  /\ Head(s) = s[1] /\ Head(s) \in Nat /\ Len(s) \in Nat \ {0}
           /\ Tail(s) \in Seq(Nat)
           /\ Len(Tail(s)) = Len(s) - 1
           /\ \A i \in 1..Len(Tail(s)) : Tail(s)[i] = s[i + 1]
  OBVIOUS

LEMMA FreshBatch ==
    ASSUME count \in Nat, NEW n \in Nat
    PROVE  /\ NewBatch(n) \in Seq(Nat) /\ Len(NewBatch(n)) = n
           /\ \A i \in 1..n : NewBatch(n)[i] = count + i
  BY DEF NewBatch

LEMMA DemoStep == DemoInv /\ [DemoNext]_demovars => DemoInv'
<1> SUFFICES ASSUME DemoInv, [DemoNext]_demovars PROVE DemoInv'
  OBVIOUS
<1> USE DemoCliAssumption DEF DemoCliAssumption
<1> USE DEF DemoInv, DemoTypes, OnlyTheShownIsWritten, Unrefused
<1>1. CASE DemoGenerate
  <2>1. PICK n \in BatchSizes :
            /\ count' = count + n
            /\ IF n = 0
               THEN gate' = "done" /\ UNCHANGED <<batch, target, served>>
               ELSE /\ gate' = "menu"
                    /\ target' = Head(NewBatch(n))
                    /\ batch' = Tail(NewBatch(n))
                    /\ served' = {target'}
    BY <1>1 DEF DemoGenerate
  <2>2. /\ n \in Nat /\ gate = "start" /\ UNCHANGED <<refusals, trail, written>>
        /\ count = 0 /\ trail = {} /\ refusals = 0 /\ batch = <<>> /\ written = {}
    BY <1>1 DEF DemoGenerate, Start, NotYetWritten
  <2>3. CASE n = 0
    BY <2>1, <2>2, <2>3 DEF Waiting, OnShow, NotYetWritten, Start
  <2>4. CASE n # 0
    <3>1. NewBatch(n) # <<>>
      BY <2>2, <2>4, FreshBatch
    <3>2. /\ target' = 1 /\ batch' \in Seq(Nat) /\ Len(batch') = n - 1
          /\ \A i \in 1..Len(batch') : batch'[i] = i + 1
      <4>1. /\ NewBatch(n) \in Seq(Nat) /\ Len(NewBatch(n)) = n
            /\ \A i \in 1..n : NewBatch(n)[i] = count + i
        BY <2>2, FreshBatch
      <4>2. /\ Head(NewBatch(n)) = NewBatch(n)[1]
            /\ Tail(NewBatch(n)) \in Seq(Nat)
            /\ Len(Tail(NewBatch(n))) = Len(NewBatch(n)) - 1
            /\ \A i \in 1..Len(Tail(NewBatch(n))) :
                    Tail(NewBatch(n))[i] = NewBatch(n)[i + 1]
        BY <3>1, <4>1, RestOfBatch
      <4>3. target' = Head(NewBatch(n)) /\ batch' = Tail(NewBatch(n))
        BY <2>1, <2>4
      <4>4. /\ \A i \in 1..n : NewBatch(n)[i] = i
            /\ n >= 1
        BY <2>2, <2>4, <4>1
      <4>5. QED
        BY ONLY <2>2, <4>1, <4>2, <4>3, <4>4
    <3>3. QED
      BY <2>1, <2>2, <2>4, <3>2 DEF Waiting, OnShow, NotYetWritten, Start
  <2>5. QED
    BY <2>3, <2>4
<1>2. CASE MenuPrune
  <2>1. gate = "menu" /\ trail' = trail \cup {<<"prune", target>>} /\ written = {}
        /\ UNCHANGED <<refusals, written, count>>
        /\ target <= count /\ refusals < MaxHumanRejections
    BY <1>2 DEF MenuPrune, NotYetWritten, OnShow
  <2>2. CASE batch = <<>>
    BY <1>2, <2>1, <2>2 DEF MenuPrune, Waiting, OnShow, NotYetWritten, Start
  <2>3. CASE batch # <<>>
    <3>1. /\ gate' = "menu" /\ served' = served \cup {target'}
          /\ target' = batch[1] /\ batch' \in Seq(Nat) /\ Len(batch') = Len(batch) - 1
          /\ \A i \in 1..Len(batch') : batch'[i] = batch[i + 1]
          /\ Len(batch) \in Nat \ {0} /\ batch[1] \in Nat
      BY <1>2, <2>3, RestOfBatch DEF MenuPrune
    <3>2. \A i \in 1..Len(batch) :
            /\ batch[i] <= count /\ batch[i] # target
            /\ <<"prune", batch[i]>> \notin trail' /\ <<"reject", batch[i]>> \notin trail'
      BY <2>1 DEF Waiting
    <3>3. \A i \in 1..Len(batch') :
            /\ i + 1 \in 1..Len(batch) /\ batch'[i] = batch[i + 1] /\ batch'[i] # target'
      BY <3>1 DEF Waiting
    <3>4. 1 \in 1..Len(batch) /\ count' = count
      BY <2>1, <3>1
    <3>5. Waiting'
      <4>1. \A i \in 1..Len(batch') :
                /\ batch'[i] <= count' /\ batch'[i] # target'
                /\ <<"prune", batch'[i]>> \notin trail' /\ <<"reject", batch'[i]>> \notin trail'
        BY <3>2, <3>3, <3>4
      <4>2. \A i, j \in 1..Len(batch') : i # j => batch'[i] # batch'[j]
        <5> SUFFICES ASSUME NEW i \in 1..Len(batch'), NEW j \in 1..Len(batch'), i # j
                     PROVE  batch'[i] # batch'[j]
          OBVIOUS
        <5>1. /\ i + 1 \in 1..Len(batch) /\ j + 1 \in 1..Len(batch) /\ i + 1 # j + 1
              /\ batch'[i] = batch[i + 1] /\ batch'[j] = batch[j + 1]
          BY <3>3
        <5>2. \A k, l \in 1..Len(batch) : k # l => batch[k] # batch[l]
          BY DEF Waiting
        <5>3. QED
          BY ONLY <5>1, <5>2
      <4>3. QED
        BY ONLY <4>1, <4>2 DEF Waiting, Unrefused
    <3>6. OnShow'
      BY <2>1, <3>1, <3>2, <3>4 DEF OnShow
    <3>7. DemoTypes'
      BY <2>1, <3>1, <3>4
    <3>8. NotYetWritten' /\ Start' /\ OnlyTheShownIsWritten'
      BY <2>1, <3>1 DEF NotYetWritten, Start
    <3>9. QED
      BY <3>5, <3>6, <3>7, <3>8
  <2>4. QED
    BY <2>2, <2>3
<1>3. CASE MenuAdd
  BY <1>3 DEF MenuAdd, Waiting, OnShow, NotYetWritten, Start
<1>4. CASE MenuContinue
  BY <1>4 DEF MenuContinue, Waiting, OnShow, NotYetWritten, Start
<1>5. CASE GateApprove
  BY <1>5 DEF GateApprove, Waiting, OnShow, NotYetWritten, Start
<1>6. CASE GateReject
  BY <1>6 DEF GateReject, CapReached, NextTarget, Waiting, OnShow, NotYetWritten, Start
<1>7. CASE UNCHANGED demovars
  BY <1>7 DEF demovars, Waiting, OnShow, NotYetWritten, Start
<1>8. QED
  BY <1>1, <1>2, <1>3, <1>4, <1>5, <1>6, <1>7 DEF DemoNext

(* demo_cli.py saves at most the scenario it showed last, never one that   *)
(* the log says was refused, and none after the last refusal.              *)
THEOREM OnlyTheShownIsWrittenHolds == Spec => []OnlyTheShownIsWritten
<1>1. Init => DemoInv
  BY DemoInitially DEF Init
<1>2. DemoInv /\ [Next]_vars => DemoInv'
  <2>1. [Next]_vars => [DemoNext]_demovars
    BY DEF Next, Client, Demo, vars, demovars
  <2>2. QED
    BY <2>1, DemoStep
<1>3. DemoInv => OnlyTheShownIsWritten
  BY DEF DemoInv
<1>4. QED
  BY <1>1, <1>2, <1>3, PTL DEF Spec
----------------------------------------------------------------------------
(***************************************************************************)
(* scrp_demo.py.  Every id in the store was given out, and what a session  *)
(* has proposed or approved bears ids that the store does not hold: its one*)
(* save adds scenarios and replaces none.                                  *)
(***************************************************************************)
NewId(s) == s.tid \in Nat /\ s.tid <= made /\ s.tid \notin DOMAIN store

Counters == made \in Nat /\ runs \in Nat

StoreIds == \A t \in DOMAIN store : t \in Nat /\ t <= made

SessionShape ==
    /\ DOMAIN session = DOMAIN NoSession
    /\ Len(session.queue) \in Nat
    /\ DOMAIN session.queue = 1..Len(session.queue)
    /\ session.at \in Nat
    /\ step = "review" => session.at \in DOMAIN session.queue

NewIds ==
    /\ \A i \in DOMAIN session.queue : NewId(session.queue[i])
    /\ \A s \in session.approved : NewId(s)

ClientInv == Counters /\ StoreIds /\ SessionShape /\ NewIds

LEMMA NoSessionShape ==
    /\ NoSession.queue = <<>> /\ NoSession.at = 0 /\ NoSession.approved = {}
    /\ DOMAIN NoSession.queue = 1..0 /\ Len(NoSession.queue) = 0
  BY DEF NoSession

LEMMA ClientInitially == ClientInit => ClientInv
  BY NoSessionShape DEF ClientInit, ClientInv, Counters, StoreIds, SessionShape, NewIds, NewId

(* A session that has proposed nothing yet, and one that has ended.        *)
LEMMA EmptySession ==
    ASSUME ClientInv, made' = made, runs' \in Nat, 
           \A t \in DOMAIN store' : t \in DOMAIN store \/ (t \in Nat /\ t <= made),
           step' # "review",
           DOMAIN session' = DOMAIN NoSession,
           session'.queue = <<>>, session'.at = 0, session'.approved = {}
    PROVE  ClientInv'
  BY DEF ClientInv, Counters, StoreIds, SessionShape, NewIds, NewId

(* A step that saves and proposes nothing, and only adds approvals from    *)
(* the list under review.                                                  *)
LEMMA SameProposals ==
    ASSUME ClientInv, made' = made, runs' = runs,
           DOMAIN store' \subseteq DOMAIN store,
           DOMAIN session' = DOMAIN NoSession,
           session'.queue = session.queue, session'.at \in Nat,
           step' = "review" => session'.at \in DOMAIN session.queue,
           \A s \in session'.approved : NewId(s)
    PROVE  ClientInv'
  BY DEF ClientInv, Counters, StoreIds, SessionShape, NewIds, NewId

LEMMA Shown ==
    ASSUME ClientInv, step = "review"
    PROVE  NewId(Current) /\ session.at \in 1..Len(session.queue)
  BY DEF ClientInv, SessionShape, NewIds, Current

LEMMA AfterMoveOn ==
    ASSUME ClientInv, step = "review", NEW approved, MoveOn(approved),
           \A s \in approved : NewId(s), runs' = runs, store' = store
    PROVE  ClientInv'
<1>1. /\ session.at \in Nat /\ Len(session.queue) \in Nat
      /\ session.at \in 1..Len(session.queue)
  BY Shown DEF ClientInv, SessionShape
<1>2. DOMAIN session = DOMAIN NoSession
  BY DEF ClientInv, SessionShape
<1>3. /\ DOMAIN session' = DOMAIN NoSession
      /\ session'.queue = session.queue
      /\ session'.at = session.at + 1
      /\ session'.approved = approved
      /\ made' = made
  BY <1>2 DEF MoveOn, NoSession
<1>4. step' = "review" => session.at + 1 \in 1..Len(session.queue)
  BY <1>1 DEF MoveOn
<1>5. step' = "review" => session'.at \in DOMAIN session.queue
  BY <1>3, <1>4 DEF ClientInv, SessionShape
<1>6. QED
  BY <1>1, <1>3, <1>5, SameProposals

LEMMA AfterRunPipeline == ClientInv /\ RunPipeline => ClientInv'
<1> SUFFICES ASSUME ClientInv, RunPipeline PROVE ClientInv'
  OBVIOUS
<1> USE ScrpDemoAssumption DEF ScrpDemoAssumption
<1>1. PICK order \in Orders(session.assets) :
        \E out \in [DOMAIN Chosen(order) -> Outcome], n \in 0..MaxPaths :
        \E kept \in Ascending(n, {k \in DOMAIN Chosen(order) : out[k] # "none"}) :
            /\ made' = made + n
            /\ IF n = 0 /\ ApprovedFor(session.uc) = {}
               THEN step' = "idle" /\ session' = NoSession
               ELSE session' = [session EXCEPT
                        !.queue = Proposed(Chosen(order), out, kept),
                        !.used = {<<Chosen(order)[k].asset, Chosen(order)[k].pattern>> :
                                    k \in ToSet(kept)},
                        !.at = 1]
            /\ step' = "review" => n # 0
  BY ZenonT(60) DEF RunPipeline
<1>2. PICK out \in [DOMAIN Chosen(order) -> Outcome], n \in 0..MaxPaths :
        \E kept \in Ascending(n, {k \in DOMAIN Chosen(order) : out[k] # "none"}) :
            /\ made' = made + n
            /\ IF n = 0 /\ ApprovedFor(session.uc) = {}
               THEN step' = "idle" /\ session' = NoSession
               ELSE session' = [session EXCEPT
                        !.queue = Proposed(Chosen(order), out, kept),
                        !.used = {<<Chosen(order)[k].asset, Chosen(order)[k].pattern>> :
                                    k \in ToSet(kept)},
                        !.at = 1]
            /\ step' = "review" => n # 0
  BY <1>1
<1> DEFINE paths == Chosen(order)
           good == {k \in DOMAIN paths : out[k] # "none"}
<1>3. PICK kept \in Ascending(n, good) :
            /\ made' = made + n
            /\ \/ step' = "idle" /\ session' = NoSession
               \/ session' = [session EXCEPT
                        !.queue = Proposed(paths, out, kept),
                        !.used = {<<paths[k].asset, paths[k].pattern>> : k \in ToSet(kept)},
                        !.at = 1]
            /\ step' = "review" => n # 0
  BY <1>2
<1>4. n \in Nat /\ made' \in Nat /\ made' >= made /\ made' = made + n
  BY <1>3 DEF ClientInv, Counters
<1>5. runs' = runs /\ store' = store
  BY DEF RunPipeline
<1>6. CASE step' = "idle" /\ session' = NoSession
  BY <1>4, <1>5, <1>6, NoSessionShape
     DEF ClientInv, Counters, StoreIds, SessionShape, NewIds, NewId
<1>7. CASE session' = [session EXCEPT
                !.queue = Proposed(paths, out, kept),
                !.used = {<<paths[k].asset, paths[k].pattern>> : k \in ToSet(kept)},
                !.at = 1]
  <2>1. /\ DOMAIN session' = DOMAIN NoSession
        /\ session'.queue = Proposed(paths, out, kept)
        /\ session'.at = 1
        /\ session'.approved = session.approved
    BY <1>7 DEF ClientInv, SessionShape, NoSession
  <2>2. kept \in [1..n -> good]
    BY <1>3 DEF Ascending
  <2>3. /\ DOMAIN session'.queue = 1..n
        /\ Len(session'.queue) = n
        /\ \A i \in 1..n : session'.queue[i].tid = made + i
    <3>1. Proposed(paths, out, kept)
             = [i \in 1..n |-> Made(paths[kept[i]], out[kept[i]], made + i, made + i)]
      BY <2>2 DEF Proposed
    <3>2. ASSUME NEW path, NEW outcome, NEW tid
          PROVE  Made(path, outcome, tid, tid).tid = tid
      BY DEF Made
    <3> DEFINE entry(i) == Made(paths[kept[i]], out[kept[i]], made + i, made + i)
               list == [i \in 1..n |-> entry(i)]
    <3>3. session'.queue = list
      BY <2>1, <3>1
    <3>4. \A i \in 1..n : list[i].tid = made + i
      BY <3>2
    <3> HIDE DEF entry
    <3>5. DOMAIN list = 1..n /\ Len(list) = n
      BY <1>4
    <3> HIDE DEF list
    <3>6. QED
      BY <3>3, <3>4, <3>5
  <2>4. \A i \in 1..n : made + i \notin DOMAIN store /\ made + i \in Nat /\ made + i <= made'
    BY <1>4 DEF ClientInv, Counters, StoreIds
  <2>5. NewIds'
    <3> DEFINE IsNew(id) == id \in Nat /\ id <= made' /\ id \notin DOMAIN store'
    <3>1. \A i \in DOMAIN session'.queue : IsNew(session'.queue[i].tid)
      <4>1. \A i \in 1..n : IsNew(made + i)
        BY <1>5, <2>4
      <4> HIDE DEF IsNew
      <4>2. QED
        BY <2>3, <4>1
    <3>2. \A s \in session.approved : s.tid \in Nat /\ s.tid <= made /\ s.tid \notin DOMAIN store
      BY DEF ClientInv, NewIds, NewId
    <3>3. made \in Nat
      BY DEF ClientInv, Counters
    <3>4. \A s \in session'.approved : IsNew(s.tid)
      BY <1>4, <1>5, <2>1, <3>2, <3>3
    <3>5. QED
      BY <3>1, <3>4 DEF NewIds, NewId
  <2>6. SessionShape'
    BY <2>1, <2>3, <1>4, <1>3 DEF SessionShape
  <2>7. (Counters /\ StoreIds)'
    BY <1>4, <1>5 DEF ClientInv, Counters, StoreIds
  <2>8. QED
    BY <2>5, <2>6, <2>7 DEF ClientInv
<1>8. QED
  BY <1>3, <1>6, <1>7

LEMMA ClientStep == ClientInv /\ [ClientNext]_clientvars => ClientInv'
<1> SUFFICES ASSUME ClientInv, [ClientNext]_clientvars PROVE ClientInv'
  OBVIOUS
<1>0. /\ DOMAIN session = DOMAIN NoSession /\ session.at \in Nat
      /\ step = "review" => session.at \in DOMAIN session.queue
      /\ Len(session.queue) \in Nat
      /\ made \in Nat /\ runs \in Nat
      /\ \A s \in session.approved : NewId(s)
  BY DEF ClientInv, Counters, SessionShape, NewIds
<1>1. ASSUME NEW u \in UseCases, NEW p \in Edited(u), EditProject(u, p) PROVE ClientInv'
  BY <1>0, <1>1, SameProposals DEF EditProject
<1>2. ASSUME NEW u \in UseCases, NEW mode, NEW fresh \in BOOLEAN, Begin(u, mode, fresh)
      PROVE  ClientInv'
  <2>1. PICK stale : session' = [NoSession EXCEPT !.uc = u, !.mode = mode, !.due = stale,
                                                  !.assets = InputAssets(u)]
    BY <1>2 DEF Begin
  <2>2. /\ DOMAIN session' = DOMAIN NoSession
        /\ session'.queue = <<>> /\ session'.at = 0 /\ session'.approved = {}
    BY <2>1 DEF NoSession
  <2>3. step' # "review" /\ made' = made /\ runs' \in Nat
    BY <1>0, <1>2 DEF Begin
  <2>4. DOMAIN store' \subseteq DOMAIN store
    BY <1>2 DEF Begin
  <2>5. QED
    BY <2>2, <2>3, <2>4, EmptySession
<1>3. CASE AcceptStaleness
  <2>1. /\ DOMAIN session' = DOMAIN NoSession
        /\ session'.queue = session.queue /\ session'.at = session.at
        /\ session'.approved = session.approved
    BY <1>0, <1>3 DEF AcceptStaleness, NoSession
  <2>2. QED
    BY <1>0, <1>3, <2>1, SameProposals DEF AcceptStaleness, counters
<1>4. CASE KeepStale
  <2>1. /\ DOMAIN session' = DOMAIN NoSession
        /\ session'.queue = session.queue /\ session'.at = session.at
        /\ session'.approved = session.approved
    BY <1>0, <1>4 DEF KeepStale, NoSession
  <2>2. QED
    BY <1>0, <1>4, <2>1, SameProposals DEF KeepStale, counters
<1>5. ASSUME NEW reason, Retire(reason) PROVE ClientInv'
  <2>1. /\ DOMAIN session' = DOMAIN NoSession
        /\ session'.queue = session.queue /\ session'.at = session.at
        /\ session'.approved = session.approved
    BY <1>0, <1>5 DEF Retire, NoSession
  <2>2. DOMAIN store' \subseteq DOMAIN store /\ step' # "review"
    BY <1>5 DEF Retire
  <2>3. QED
    BY <1>0, <1>5, <2>1, <2>2, SameProposals DEF Retire, counters
<1>6. CASE RunPipeline
  BY <1>6, AfterRunPipeline
<1>7. CASE Approve
  <2>1. step = "review" /\ MoveOn(session.approved \cup {Current})
        /\ runs' = runs /\ store' = store
    BY <1>7 DEF Approve, Answer
  <2>2. \A s \in session.approved \cup {Current} : NewId(s)
    BY <1>0, <2>1, Shown
  <2>3. QED
    BY <2>1, <2>2, AfterMoveOn
<1>8. CASE Discard \/ RejectLast \/ RegenerateNone
  <2>1. step = "review" /\ MoveOn(session.approved) /\ runs' = runs /\ store' = store
    BY <1>8 DEF Discard, RejectLast, RegenerateNone, Answer
  <2>2. QED
    BY <1>0, <2>1, AfterMoveOn
<1>9. CASE ApproveAll
  <2> DEFINE rest == {session.queue[i] : i \in session.at..Len(session.queue)}
  <2>1. /\ DOMAIN session' = DOMAIN NoSession
        /\ session'.queue = session.queue /\ session'.at = Len(session.queue) + 1
        /\ session'.approved = session.approved \cup rest
    BY <1>0, <1>9 DEF ApproveAll, NoSession
  <2>2. \A s \in rest : NewId(s)
    BY <1>0, <1>9 DEF ClientInv, SessionShape, NewIds, ApproveAll
  <2>3. QED
    BY <1>0, <1>9, <2>1, <2>2, SameProposals DEF ApproveAll, counters
<1>10. CASE Quit
  <2>1. /\ DOMAIN session' = DOMAIN NoSession
        /\ session'.queue = session.queue /\ session'.at = session.at
        /\ session'.approved = session.approved
    BY <1>0, <1>10 DEF Quit, AfterQuit, NoSession
  <2>2. QED
    BY <1>0, <1>10, <2>1, SameProposals DEF Quit, counters
<1>11. ASSUME NEW outcome, Regenerate(outcome) PROVE ClientInv'
  <2>1. /\ step = "review" /\ made' = made + 1 /\ runs' = runs /\ store' = store
        /\ step' = "review"
    BY <1>11 DEF Regenerate, Answer
  <2>2. PICK path :
          session' = [session EXCEPT
            !.queue[session.at] = Revised(Current, path, outcome),
            !.rejections = @ + 1,
            !.used = @ \cup {<<path.asset, path.pattern>>}]
    BY <1>11 DEF Regenerate
  <2>3. Revised(Current, path, outcome).tid = Current.tid
    BY DEF Revised, Made
  <2>4. /\ DOMAIN session' = DOMAIN NoSession
        /\ session'.queue = [session.queue EXCEPT ![session.at] = Revised(Current, path, outcome)]
        /\ session'.at = session.at
        /\ session'.approved = session.approved
    BY <1>0, <2>2 DEF NoSession
  <2>5. /\ DOMAIN session'.queue = 1..Len(session.queue)
        /\ Len(session'.queue) = Len(session.queue)
    BY <1>0, <2>4 DEF ClientInv, SessionShape
  <2>6. \A i \in DOMAIN session'.queue :
            /\ session'.queue[i].tid \in Nat /\ session'.queue[i].tid <= made
            /\ session'.queue[i].tid \notin DOMAIN store
    BY <2>1, <2>3, <2>4, <2>5, Shown DEF ClientInv, SessionShape, NewIds, NewId
  <2>7. \A s \in session'.approved : s.tid \in Nat /\ s.tid <= made /\ s.tid \notin DOMAIN store
    BY <1>0, <2>4 DEF NewId
  <2>8. NewIds'
    BY <1>0, <2>1, <2>6, <2>7 DEF NewIds, NewId
  <2>9. SessionShape'
    BY <1>0, <2>1, <2>4, <2>5 DEF SessionShape, ClientInv
  <2>10. (Counters /\ StoreIds)'
    BY <1>0, <2>1 DEF Counters, StoreIds, ClientInv
  <2>11. QED
    BY <2>8, <2>9, <2>10 DEF ClientInv
<1>12. ASSUME NEW a, NEW p, AddExpert(a, p) PROVE ClientInv'
  <2>1. /\ made' = made + 1 /\ runs' = runs /\ store' = store /\ step' # "review"
    BY <1>12 DEF AddExpert
  <2>2. PICK s : /\ s = [Made([asset |-> a, pattern |-> p], "passed", made + 1, made + 1)
                            EXCEPT !.by = Expert]
                 /\ session' = [session EXCEPT !.approved = @ \cup {s}]
    BY <1>12 DEF AddExpert
  <2>3. s.tid = made + 1
    BY <2>2 DEF Made
  <2>4. /\ DOMAIN session' = DOMAIN NoSession
        /\ session'.queue = session.queue /\ session'.at = session.at
        /\ session'.approved = session.approved \cup {s}
    BY <1>0, <2>2 DEF NoSession
  <2>5. NewIds'
    BY <1>0, <2>1, <2>3, <2>4 DEF ClientInv, StoreIds, NewIds, NewId
  <2>6. SessionShape'
    BY <1>0, <2>1, <2>4 DEF SessionShape, ClientInv
  <2>7. (Counters /\ StoreIds)'
    BY <1>0, <2>1 DEF Counters, StoreIds, ClientInv
  <2>8. QED
    BY <2>5, <2>6, <2>7 DEF ClientInv
<1>13. CASE AddNothing
  BY <1>0, <1>13, SameProposals DEF AddNothing, counters
<1>14. CASE WriteResults
  <2>1. /\ session' = NoSession /\ step' # "review" /\ made' = made /\ runs' = runs
    BY <1>14 DEF WriteResults, counters
  <2>2. DOMAIN store' = DOMAIN store \cup {s.tid : s \in session.approved}
    BY <1>14 DEF WriteResults, Commit
  <2>3. \A t \in DOMAIN store' : t \in DOMAIN store \/ (t \in Nat /\ t <= made)
    BY <1>0, <2>2 DEF NewId
  <2>4. QED
    BY <1>0, <2>1, <2>3, NoSessionShape, EmptySession
<1>15. CASE Interrupt
  BY <1>0, <1>15, NoSessionShape, EmptySession DEF Interrupt, counters
<1>16. CASE UNCHANGED clientvars
  BY <1>0, <1>16, SameProposals DEF clientvars
<1>17. QED
  BY <1>1, <1>2, <1>3, <1>4, <1>5, <1>6, <1>7, <1>8, <1>9, <1>10, <1>11, <1>12, <1>13,
     <1>14, <1>15, <1>16 DEF ClientNext

(* The save of a session replaces nothing, a retirement is in the history, *)
(* and no other step touches the store but the start of a fresh session.   *)
Kept ==
    \/ \A t \in DOMAIN store :
            \/ t \in DOMAIN store' /\ store'[t] = store[t]
            \/ Note("stale", store[t]) \in history'
    \/ runs' > runs /\ history' = {}

LEMMA ClientKeeps == ClientInv /\ [ClientNext]_clientvars => Kept
<1> SUFFICES ASSUME ClientInv, [ClientNext]_clientvars PROVE Kept
  OBVIOUS
<1>1. CASE store' = store
  BY <1>1 DEF Kept
<1>2. ASSUME NEW u, NEW mode, NEW fresh \in BOOLEAN, Begin(u, mode, fresh) PROVE Kept
  <2>1. runs' > runs
    BY <1>2 DEF Begin, ClientInv, Counters
  <2>2. CASE fresh
    BY <1>2, <2>1, <2>2 DEF Begin, Kept
  <2>3. CASE ~fresh
    BY <1>2, <2>3 DEF Begin, Kept
  <2>4. QED
    BY <2>2, <2>3
<1>3. ASSUME NEW reason, Retire(reason) PROVE Kept
  <2>1. PICK gone : /\ history' = Retired(gone)
                    /\ store' = [t \in {x \in DOMAIN store : store[x] \notin gone} |-> store[t]]
    BY <1>3 DEF Retire
  <2>2. QED
    BY <2>1 DEF Retired, Kept
<1>4. CASE WriteResults
  <2>1. store' = Commit(session.approved)
    BY <1>4 DEF WriteResults
  <2>2. \A t \in DOMAIN store : ~ \E s \in session.approved : s.tid = t
    BY DEF ClientInv, NewIds, NewId
  <2>3. \A t \in DOMAIN store : t \in DOMAIN store' /\ store'[t] = store[t]
    BY <2>1, <2>2 DEF Commit
  <2>4. QED
    BY <2>3 DEF Kept
<1>5. QED
  BY <1>1, <1>2, <1>3, <1>4
     DEF ClientNext, clientvars, EditProject, AcceptStaleness, KeepStale, RunPipeline, Approve,
         Discard, ApproveAll, Quit, RejectLast, Regenerate, RegenerateNone, Answer, AddExpert,
         AddNothing, Interrupt

(* scrp_demo.py never loses an approved scenario: whatever the reviewer    *)
(* answers and whenever the program stops, a scenario leaves the store only*)
(* for the history, or because the user asked to start afresh.             *)
THEOREM ApprovedIsNeverLostHolds == Spec => ApprovedIsNeverLost
<1>1. Init => ClientInv
  BY ClientInitially DEF Init
<1>2. [Next]_vars => [ClientNext]_clientvars
  BY DEF Next, Client, Demo, vars, clientvars
<1>3. ClientInv /\ [Next]_vars => ClientInv'
  BY <1>2, ClientStep
<1>4. ClientInv /\ [Next]_vars => [Kept]_clientvars
  BY <1>2, ClientKeeps
<1>5. [Kept]_clientvars <=>
        [ \/ \A t \in DOMAIN store :
                \/ t \in DOMAIN store' /\ store'[t] = store[t]
                \/ Note("stale", store[t]) \in history'
          \/ runs' > runs /\ history' = {} ]_clientvars
  BY DEF Kept
<1>6. QED
  BY <1>1, <1>3, <1>4, <1>5, PTL DEF Spec, ApprovedIsNeverLost
----------------------------------------------------------------------------
(***************************************************************************)
(* The decisions of a review.  What was refused, approved or saved was on  *)
(* show; what is still to come was not, and is no two times in the list;   *)
(* and what lies behind the place in the list is decided.                  *)
(***************************************************************************)
Stands(s) == s.rev \in shown /\ \A r \in Refused : r.rev # s.rev

ShownIds == \A r \in shown : r \in Nat /\ r <= made

RefusedWasShown == \A r \in Refused : r.rev \in shown

ApprovedStands ==
    /\ \A s \in session.approved : Stands(s)
    /\ \A t \in DOMAIN store : Stands(store[t])

ToCome ==
    \A i \in DOMAIN session.queue : i >= session.at =>
        /\ session.queue[i].rev \in Nat /\ session.queue[i].rev <= made
        /\ session.queue[i].rev \notin shown
        /\ \A j \in DOMAIN session.queue :
                j # i /\ j >= session.at => session.queue[j].rev # session.queue[i].rev

Decided ==
    /\ \A i \in DOMAIN session.queue :
            i < session.at => session.queue[i] \in session.approved \cup Refused
    /\ step \in {"extra", "write"} /\ ~session.quit => session.at > Len(session.queue)

ReviewInv ==
    ClientInv /\ ShownIds /\ RefusedWasShown /\ ApprovedStands /\ ToCome /\ Decided

LEMMA ReviewInitially == ClientInit => ReviewInv
<1> SUFFICES ASSUME ClientInit PROVE ReviewInv
  OBVIOUS
<1>1. Refused = {}
  BY DEF ClientInit, Refused
<1>2. QED
  BY <1>1, ClientInitially, NoSessionShape
     DEF ClientInit, ReviewInv, ShownIds, RefusedWasShown, ApprovedStands, ToCome, Decided

LEMMA ReviewInvStands == ReviewInv => DecisionsStand
<1> SUFFICES ASSUME ReviewInv PROVE DecisionsStand
  OBVIOUS
<1>1. ASSUME step \in {"extra", "write"}, ~session.quit
      PROVE  ToSet(session.queue) \subseteq session.approved \cup Refused
  <2>1. \A i \in DOMAIN session.queue : i < session.at
    BY <1>1 DEF ReviewInv, Decided, ClientInv, SessionShape
  <2>2. QED
    BY <2>1 DEF ReviewInv, Decided, ToSet
<1>2. QED
  BY <1>1 DEF DecisionsStand, ReviewInv, ApprovedStands, Stands

(* Only a rejection and a discard add to what is refused.                  *)
LEMMA RefusedGrows ==
    ASSUME NEW S, NEW action, history' = history \cup {Note(action, s) : s \in S}
    PROVE  /\ action \in {"reject", "prune"} => Refused' = Refused \cup S
           /\ action \notin {"reject", "prune"} => Refused' = Refused
<1>1. \A s : Note(action, s).action = action /\ Note(action, s).s = s
  BY DEF Note
<1>2. CASE action \in {"reject", "prune"}
  <2>1. Refused' \subseteq Refused \cup S
    BY <1>1 DEF Refused
  <2>2. Refused \cup S \subseteq Refused'
    BY <1>1, <1>2 DEF Refused
  <2>3. QED
    BY <1>2, <2>1, <2>2
<1>3. CASE action \notin {"reject", "prune"}
  <2>1. Refused' \subseteq Refused
    BY <1>1, <1>3 DEF Refused
  <2>2. Refused \subseteq Refused'
    BY DEF Refused
  <2>3. QED
    BY <1>3, <2>1, <2>2
<1>4. QED
  BY <1>2, <1>3

(* A step outside the review: nothing is refused, shown or proposed, and   *)
(* what the store or the session gains stood before.                       *)
LEMMA NothingDecided ==
    ASSUME ReviewInv, ClientInv', made' = made, shown' = shown, Refused' = Refused,
           session'.queue = session.queue, session'.at = session.at,
           session'.approved = session.approved,
           \A t \in DOMAIN store' : Stands(store'[t]),
           step' \in {"extra", "write"} /\ ~session'.quit => session.at > Len(session.queue)
    PROVE  ReviewInv'
  BY DEF ReviewInv, ShownIds, RefusedWasShown, ApprovedStands, ToCome, Decided, Stands

(* A session begins or ends.                                               *)
LEMMA NothingProposed ==
    ASSUME ReviewInv, ClientInv', made' = made, shown' = shown, Refused' \subseteq Refused,
           session'.queue = <<>>, session'.approved = {}, step' \notin {"extra", "write"},
           \A t \in DOMAIN store' : Stands(store'[t])
    PROVE  ReviewInv'
<1>1. DOMAIN session'.queue = {}
  OBVIOUS
<1>2. QED
  BY <1>1 DEF ReviewInv, ShownIds, RefusedWasShown, ApprovedStands, ToCome, Decided, Stands

LEMMA AfterAnswer ==
    ASSUME ReviewInv, ClientInv', NEW action, NEW approved,
           Answer(action), MoveOn(approved),
           \/ action = "approve" /\ approved = session.approved \cup {Current}
           \/ action \in {"reject", "prune"} /\ approved = session.approved
    PROVE  ReviewInv'
<1>0. /\ step = "review" /\ store' = store /\ made' = made
      /\ shown' = shown \cup {Current.rev}
      /\ session.at \in DOMAIN session.queue /\ session.at \in Nat
      /\ DOMAIN session.queue = 1..Len(session.queue) /\ Len(session.queue) \in Nat
      /\ Current = session.queue[session.at]
  BY DEF Answer, MoveOn, ReviewInv, ClientInv, SessionShape, Current
<1>1. /\ session'.queue = session.queue /\ session'.at = session.at + 1
      /\ session'.approved = approved
  BY DEF MoveOn, ReviewInv, ClientInv, SessionShape, NoSession
<1>2. /\ action = "approve" => Refused' = Refused
      /\ action # "approve" => Refused' = Refused \cup {Current}
  <2>1. CASE action = "approve"
    BY <2>1 DEF Answer, Logged, Refused
  <2>2. CASE action # "approve"
    <3>1. history' = history \cup {Note(action, s) : s \in {Current}}
      BY <2>2 DEF Answer, Logged
    <3>2. QED
      BY <2>2, <3>1, RefusedGrows
  <2>3. QED
    BY <2>1, <2>2
<1>3. Current.rev \in Nat /\ Current.rev <= made /\ Current.rev \notin shown
  BY <1>0 DEF ReviewInv, ToCome
<1>4. ShownIds'
  BY <1>0, <1>3 DEF ReviewInv, ShownIds
<1>5. RefusedWasShown'
  BY <1>0, <1>2 DEF ReviewInv, RefusedWasShown
<1>6. ApprovedStands'
  BY <1>0, <1>1, <1>2, <1>3 DEF ReviewInv, RefusedWasShown, ApprovedStands, Stands
<1>7. ToCome'
  <2>1. \A i \in DOMAIN session.queue : i >= session.at + 1 =>
          /\ i >= session.at /\ i # session.at
          /\ session.queue[i].rev # Current.rev
    BY <1>0 DEF ReviewInv, ToCome
  <2>2. QED
    BY <1>0, <1>1, <2>1 DEF ReviewInv, ToCome
<1>8. Decided'
  <2>1. \A i \in DOMAIN session.queue : i < session.at + 1 => i < session.at \/ i = session.at
    BY <1>0
  <2>2. session.approved \cup Refused \cup {Current} \subseteq approved \cup Refused'
    BY <1>2
  <2>3. step' \in {"extra", "write"} => session.at = Len(session.queue)
    BY DEF MoveOn
  <2>4. QED
    BY <1>0, <1>1, <2>1, <2>2, <2>3 DEF ReviewInv, Decided
<1>9. QED
  BY <1>4, <1>5, <1>6, <1>7, <1>8 DEF ReviewInv

(* What RunPipeline leaves: nothing, or new scenarios numbered in order.   *)
LEMMA PipelineProposes ==
    ASSUME ClientInv, RunPipeline
    PROVE  \E n \in Nat :
            /\ made' = made + n
            /\ UNCHANGED <<store, history, shown>>
            /\ \/ step' = "idle" /\ session' = NoSession
               \/ /\ session'.at = 1 /\ session'.approved = session.approved
                  /\ DOMAIN session'.queue = 1..n /\ Len(session'.queue) = n
                  /\ \A i \in 1..n : session'.queue[i].rev = made + i
                  /\ step' \in {"extra", "write"} => n = 0
<1> USE ScrpDemoAssumption DEF ScrpDemoAssumption
<1>1. PICK order \in Orders(session.assets) :
        \E out \in [DOMAIN Chosen(order) -> Outcome], n \in 0..MaxPaths :
        \E kept \in Ascending(n, {k \in DOMAIN Chosen(order) : out[k] # "none"}) :
            /\ made' = made + n
            /\ IF n = 0 /\ ApprovedFor(session.uc) = {}
               THEN step' = "idle" /\ session' = NoSession
               ELSE session' = [session EXCEPT
                        !.queue = Proposed(Chosen(order), out, kept),
                        !.used = {<<Chosen(order)[k].asset, Chosen(order)[k].pattern>> :
                                    k \in ToSet(kept)},
                        !.at = 1]
            /\ step' \in {"extra", "write"} => n = 0
  BY ZenonT(60) DEF RunPipeline
<1> DEFINE paths == Chosen(order)
           good(out) == {k \in DOMAIN paths : out[k] # "none"}
<1>2. PICK out \in [DOMAIN paths -> Outcome], n \in 0..MaxPaths :
        \E kept \in Ascending(n, good(out)) :
            /\ made' = made + n
            /\ \/ step' = "idle" /\ session' = NoSession
               \/ session' = [session EXCEPT
                        !.queue = Proposed(paths, out, kept),
                        !.used = {<<paths[k].asset, paths[k].pattern>> : k \in ToSet(kept)},
                        !.at = 1]
            /\ step' \in {"extra", "write"} => n = 0
  BY <1>1
<1>3. PICK kept \in Ascending(n, good(out)) :
            /\ made' = made + n
            /\ \/ step' = "idle" /\ session' = NoSession
               \/ session' = [session EXCEPT
                        !.queue = Proposed(paths, out, kept),
                        !.used = {<<paths[k].asset, paths[k].pattern>> : k \in ToSet(kept)},
                        !.at = 1]
            /\ step' \in {"extra", "write"} => n = 0
  BY <1>2
<1>4. n \in Nat /\ UNCHANGED <<store, history, shown>>
  BY DEF RunPipeline
<1>5. CASE step' = "idle" /\ session' = NoSession
  BY <1>3, <1>4, <1>5
<1>6. CASE session' = [session EXCEPT
                !.queue = Proposed(paths, out, kept),
                !.used = {<<paths[k].asset, paths[k].pattern>> : k \in ToSet(kept)},
                !.at = 1]
  <2>1. /\ session'.queue = Proposed(paths, out, kept)
        /\ session'.at = 1 /\ session'.approved = session.approved
    BY <1>6 DEF ClientInv, SessionShape, NoSession
  <2>2. kept \in [1..n -> good(out)]
    BY <1>3 DEF Ascending
  <2>3. Proposed(paths, out, kept)
           = [i \in 1..n |-> Made(paths[kept[i]], out[kept[i]], made + i, made + i)]
    BY <2>2 DEF Proposed
  <2>4. ASSUME NEW path, NEW outcome, NEW tid, NEW rev
        PROVE  Made(path, outcome, tid, rev).rev = rev
    BY DEF Made
  <2>5. /\ DOMAIN session'.queue = 1..n /\ Len(session'.queue) = n
        /\ \A i \in 1..n : session'.queue[i].rev = made + i
    BY <1>4, <2>1, <2>3, <2>4
  <2>6. QED
    BY <1>3, <1>4, <2>1, <2>5
<1>7. QED
  BY <1>3, <1>5, <1>6

LEMMA ReviewStep == ReviewInv /\ [ClientNext]_clientvars => ReviewInv'
<1> SUFFICES ASSUME ReviewInv, [ClientNext]_clientvars PROVE ReviewInv'
  OBVIOUS
<1>0. /\ ClientInv /\ ClientInv'
      /\ DOMAIN session = DOMAIN NoSession
      /\ step = "review" => session.at \in DOMAIN session.queue
      /\ DOMAIN session.queue = 1..Len(session.queue) /\ Len(session.queue) \in Nat
      /\ session.at \in Nat /\ made \in Nat
      /\ \A t \in DOMAIN store : Stands(store[t])
      /\ \A s \in session.approved : Stands(s)
  BY ClientStep DEF ReviewInv, ClientInv, Counters, SessionShape, ApprovedStands
<1>1. ASSUME NEW u \in UseCases, NEW p \in Edited(u), EditProject(u, p) PROVE ReviewInv'
  <2>1. Refused' = Refused
    BY <1>1 DEF EditProject, Refused
  <2>2. step' \notin {"extra", "write"}
    BY <1>1 DEF EditProject
  <2>3. QED
    BY <1>0, <1>1, <2>1, <2>2, NothingDecided DEF EditProject
<1>2. ASSUME NEW u \in UseCases, NEW mode, NEW fresh \in BOOLEAN, Begin(u, mode, fresh)
      PROVE  ReviewInv'
  <2>1. PICK stale : session' = [NoSession EXCEPT !.uc = u, !.mode = mode, !.due = stale,
                                                  !.assets = InputAssets(u)]
    BY <1>2 DEF Begin
  <2>2. session'.queue = <<>> /\ session'.approved = {}
    BY <2>1 DEF NoSession
  <2>3. step' \notin {"extra", "write"} /\ made' = made /\ shown' = shown
    BY <1>2 DEF Begin
  <2>4. Refused' \subseteq Refused
    BY <1>2 DEF Begin, Refused
  <2>5. \A t \in DOMAIN store' : Stands(store'[t])
    BY <1>0, <1>2 DEF Begin
  <2>6. QED
    BY <1>0, <2>2, <2>3, <2>4, <2>5, NothingProposed
<1>3. CASE AcceptStaleness
  <2>1. /\ session'.queue = session.queue /\ session'.at = session.at
        /\ session'.approved = session.approved
    BY <1>0, <1>3 DEF AcceptStaleness, NoSession
  <2>2. Refused' = Refused
    BY <1>3 DEF AcceptStaleness, Refused
  <2>3. QED
    BY <1>0, <1>3, <2>1, <2>2, NothingDecided DEF AcceptStaleness, counters
<1>4. CASE KeepStale
  <2>1. /\ session'.queue = session.queue /\ session'.at = session.at
        /\ session'.approved = session.approved
    BY <1>0, <1>4 DEF KeepStale, NoSession
  <2>2. Refused' = Refused
    BY <1>4 DEF KeepStale, Refused
  <2>3. QED
    BY <1>0, <1>4, <2>1, <2>2, NothingDecided DEF KeepStale, counters
<1>5. ASSUME NEW reason, Retire(reason) PROVE ReviewInv'
  <2>1. /\ session'.queue = session.queue /\ session'.at = session.at
        /\ session'.approved = session.approved
    BY <1>0, <1>5 DEF Retire, NoSession
  <2>2. Refused' = Refused
    <3>1. PICK gone : history' = history \cup {Note("stale", s) : s \in gone}
      BY <1>5 DEF Retire, Retired
    <3>2. QED
      BY <3>1, RefusedGrows
  <2>3. \A t \in DOMAIN store' : Stands(store'[t])
    BY <1>0, <1>5 DEF Retire
  <2>4. step' \notin {"extra", "write"} /\ made' = made /\ shown' = shown
    BY <1>5 DEF Retire, counters
  <2>5. QED
    BY <1>0, <2>1, <2>2, <2>3, <2>4, NothingDecided
<1>6. CASE RunPipeline
  <2>1. PICK n \in Nat :
            /\ made' = made + n
            /\ UNCHANGED <<store, history, shown>>
            /\ \/ step' = "idle" /\ session' = NoSession
               \/ /\ session'.at = 1 /\ session'.approved = session.approved
                  /\ DOMAIN session'.queue = 1..n /\ Len(session'.queue) = n
                  /\ \A i \in 1..n : session'.queue[i].rev = made + i
                  /\ step' \in {"extra", "write"} => n = 0
    BY <1>0, <1>6, PipelineProposes
  <2>2. Refused' = Refused
    BY <2>1 DEF Refused
  <2>3. ShownIds' /\ RefusedWasShown'
    BY <1>0, <2>1, <2>2 DEF ReviewInv, ShownIds, RefusedWasShown
  <2>4. CASE step' = "idle" /\ session' = NoSession
    BY <1>0, <2>1, <2>2, <2>3, <2>4, NoSessionShape
       DEF ReviewInv, ApprovedStands, Stands, ToCome, Decided
  <2>5. CASE step' # "idle" \/ session' # NoSession
    <3>1. ApprovedStands'
      BY <1>0, <2>1, <2>2, <2>5 DEF ApprovedStands, Stands
    <3>2. \A i \in 1..n : made + i \notin shown /\ made + i \in Nat /\ made + i <= made'
      BY <1>0, <2>1 DEF ReviewInv, ShownIds
    <3>3. ToCome'
      <4>1. /\ DOMAIN session'.queue = 1..n
            /\ \A i \in 1..n : session'.queue[i].rev = made + i
            /\ shown' = shown
        BY <2>1, <2>5
      <4>2. \A i, j \in 1..n : j # i => made + j # made + i
        BY <1>0
      <4>3. \A i \in 1..n : session'.queue[i].rev \notin shown'
        BY <3>2, <4>1
      <4>4. QED
        BY ONLY <3>2, <4>1, <4>2, <4>3 DEF ToCome
    <3>4. Decided'
      BY <2>1, <2>5 DEF Decided
    <3>5. QED
      BY <1>0, <2>3, <3>1, <3>3, <3>4 DEF ReviewInv
  <2>6. QED
    BY <2>4, <2>5
<1>7. CASE Approve
  BY <1>0, <1>7, AfterAnswer DEF Approve
<1>8. CASE Discard
  BY <1>0, <1>8, AfterAnswer DEF Discard
<1>9. CASE RejectLast \/ RegenerateNone
  BY <1>0, <1>9, AfterAnswer DEF RejectLast, RegenerateNone
<1>10. CASE ApproveAll
  <2> DEFINE rest == {session.queue[i] : i \in session.at..Len(session.queue)}
  <2>1. /\ session'.queue = session.queue /\ session'.at = Len(session.queue) + 1
        /\ session'.approved = session.approved \cup rest
    BY <1>0, <1>10 DEF ApproveAll, NoSession
  <2>2. /\ shown' = shown \cup {s.rev : s \in rest} /\ made' = made
        /\ store' = store /\ Refused' = Refused /\ session.at \in DOMAIN session.queue
    BY <1>0, <1>10 DEF ApproveAll, counters, Refused
  <2>3. \A s \in rest : s.rev \in Nat /\ s.rev <= made /\ s.rev \notin shown
    BY <1>0, <2>2 DEF ReviewInv, ToCome
  <2>4. ShownIds' /\ RefusedWasShown'
    BY <2>2, <2>3 DEF ReviewInv, ShownIds, RefusedWasShown
  <2>5. ApprovedStands'
    BY <1>0, <2>1, <2>2, <2>3 DEF ReviewInv, RefusedWasShown, ApprovedStands, Stands
  <2>6. ToCome'
    BY <1>0, <2>1 DEF ToCome
  <2>7. \A i \in DOMAIN session.queue :
            i < session.at \/ session.queue[i] \in rest
    BY <1>0, <2>2
  <2>8. Decided'
    BY <1>0, <2>1, <2>2, <2>7 DEF ReviewInv, Decided
  <2>9. QED
    BY <1>0, <2>4, <2>5, <2>6, <2>8 DEF ReviewInv
<1>11. CASE Quit
  <2>1. /\ session'.queue = session.queue /\ session'.at = session.at
        /\ session'.approved = session.approved /\ session'.quit
    BY <1>0, <1>11 DEF Quit, AfterQuit, NoSession
  <2>2. Refused' = Refused
    BY <1>11 DEF Quit, Refused
  <2>3. QED
    BY <1>0, <1>11, <2>1, <2>2, NothingDecided DEF Quit, counters
<1>12. ASSUME NEW outcome, Regenerate(outcome) PROVE ReviewInv'
  <2>1. /\ step = "review" /\ step' = "review" /\ made' = made + 1 /\ store' = store
        /\ shown' = shown \cup {Current.rev}
        /\ history' = history \cup {Note("reject", s) : s \in {Current}}
        /\ Current = session.queue[session.at] /\ session.at \in DOMAIN session.queue
    BY <1>0, <1>12 DEF Regenerate, Answer, Logged, Current
  <2>2. Refused' = Refused \cup {Current}
    BY <2>1, RefusedGrows
  <2>3. PICK path :
          session' = [session EXCEPT
            !.queue[session.at] = Revised(Current, path, outcome),
            !.rejections = @ + 1,
            !.used = @ \cup {<<path.asset, path.pattern>>}]
    BY <1>12 DEF Regenerate
  <2>4. Revised(Current, path, outcome).rev = made + 1
    BY DEF Revised, Made
  <2>5. /\ session'.queue = [session.queue EXCEPT ![session.at] = Revised(Current, path, outcome)]
        /\ session'.at = session.at
        /\ session'.approved = session.approved
    BY <1>0, <2>3 DEF NoSession
  <2>6. /\ DOMAIN session'.queue = DOMAIN session.queue
        /\ session'.queue[session.at].rev = made + 1
        /\ \A i \in DOMAIN session.queue : i # session.at => session'.queue[i] = session.queue[i]
    BY <2>1, <2>4, <2>5
  <2>7. Current.rev \in Nat /\ Current.rev <= made /\ Current.rev \notin shown
    BY <1>0, <2>1 DEF ReviewInv, ToCome
  <2>8. ShownIds' /\ RefusedWasShown'
    BY <1>0, <2>1, <2>2, <2>7 DEF ReviewInv, ShownIds, RefusedWasShown
  <2>9. ApprovedStands'
    BY <1>0, <2>1, <2>2, <2>5, <2>7 DEF ApprovedStands, Stands
  <2>10. ToCome'
    <3>1. made + 1 \notin shown' /\ made + 1 \in Nat /\ made + 1 <= made'
      BY <1>0, <2>1, <2>7 DEF ReviewInv, ShownIds
    <3>2. \A i \in DOMAIN session.queue : i >= session.at /\ i # session.at =>
            /\ session'.queue[i].rev = session.queue[i].rev
            /\ session.queue[i].rev \in Nat /\ session.queue[i].rev <= made
            /\ session.queue[i].rev \notin shown'
            /\ \A j \in DOMAIN session.queue :
                  j # i /\ j >= session.at => session.queue[j].rev # session.queue[i].rev
      BY <1>0, <2>1, <2>6 DEF ReviewInv, ToCome
    <3>3. SUFFICES ASSUME NEW i \in DOMAIN session'.queue, i >= session.at
                   PROVE  /\ session'.queue[i].rev \in Nat
                          /\ session'.queue[i].rev <= made'
                          /\ session'.queue[i].rev \notin shown'
                          /\ \A j \in DOMAIN session'.queue : j # i /\ j >= session.at =>
                                session'.queue[j].rev # session'.queue[i].rev
      BY <2>5 DEF ToCome
    <3>4. CASE i = session.at
      <4>1. ASSUME NEW j \in DOMAIN session'.queue, j # i, j >= session.at
            PROVE  session'.queue[j].rev <= made /\ session'.queue[j].rev \in Nat
        BY <2>6, <3>2, <3>4, <4>1
      <4>2. QED
        BY <1>0, <2>6, <3>1, <3>4, <4>1
    <3>5. CASE i # session.at
      <4>1. /\ i \in DOMAIN session.queue
            /\ session'.queue[i].rev \in Nat /\ session'.queue[i].rev <= made
            /\ session'.queue[i].rev \notin shown'
        BY <2>6, <3>2, <3>3, <3>5
      <4>2. ASSUME NEW j \in DOMAIN session'.queue, j # i, j >= session.at
            PROVE  session'.queue[j].rev # session'.queue[i].rev
        <5>1. CASE j = session.at
          BY <1>0, <2>6, <4>1, <5>1
        <5>2. CASE j # session.at
          BY <2>6, <3>2, <3>3, <3>5, <4>1, <4>2, <5>2
        <5>3. QED
          BY <5>1, <5>2
      <4>3. QED
        BY <1>0, <2>1, <4>1, <4>2
    <3>6. QED
      BY <3>4, <3>5
  <2>11. Decided'
    BY <1>0, <2>1, <2>2, <2>5, <2>6 DEF ReviewInv, Decided
  <2>12. QED
    BY <1>0, <2>8, <2>9, <2>10, <2>11 DEF ReviewInv
<1>13. ASSUME NEW a, NEW p, AddExpert(a, p) PROVE ReviewInv'
  <2>1. PICK s : /\ s = [Made([asset |-> a, pattern |-> p], "passed", made + 1, made + 1)
                            EXCEPT !.by = Expert]
                 /\ session' = [session EXCEPT !.approved = @ \cup {s}]
                 /\ history' = history \cup {Note("add", r) : r \in {s}}
                 /\ shown' = shown \cup {s.rev}
                 /\ made' = made + 1 /\ store' = store
                 /\ step = "extra" /\ step' = "write"
    BY <1>13 DEF AddExpert
  <2>2. s.rev = made + 1
    BY <2>1 DEF Made
  <2>3. /\ session'.queue = session.queue /\ session'.at = session.at
        /\ session'.approved = session.approved \cup {s} /\ session'.quit = session.quit
    BY <1>0, <2>1 DEF NoSession
  <2>4. Refused' = Refused
    <3>1. history' = history \cup {Note("add", r) : r \in {s}}
      BY <2>1
    <3>2. "add" \notin {"reject", "prune"}
      OBVIOUS
    <3>3. QED
      BY <3>1, <3>2, RefusedGrows
  <2>5. s.rev \notin shown /\ s.rev \in Nat /\ s.rev <= made' /\ ~(s.rev <= made)
    BY <1>0, <2>1, <2>2 DEF ReviewInv, ShownIds
  <2>6. ShownIds' /\ RefusedWasShown'
    BY <1>0, <2>1, <2>4, <2>5 DEF ReviewInv, ShownIds, RefusedWasShown
  <2>7. ApprovedStands'
    BY <1>0, <2>1, <2>3, <2>4, <2>5 DEF ReviewInv, RefusedWasShown, ApprovedStands, Stands
  <2>8. ToCome'
    BY <1>0, <2>1, <2>3, <2>5 DEF ReviewInv, ToCome
  <2>9. Decided'
    BY <2>1, <2>3, <2>4 DEF ReviewInv, Decided
  <2>10. QED
    BY <1>0, <2>6, <2>7, <2>8, <2>9 DEF ReviewInv
<1>14. CASE AddNothing
  <2>1. Refused' = Refused /\ session' = session /\ step = "extra"
    BY <1>14 DEF AddNothing, Refused
  <2>2. ~session.quit => session.at > Len(session.queue)
    BY <2>1 DEF ReviewInv, Decided
  <2>3. QED
    BY <1>0, <1>14, <2>1, <2>2, NothingDecided DEF AddNothing, counters
<1>15. CASE WriteResults
  <2>1. /\ session' = NoSession /\ step' = "idle" /\ made' = made /\ shown' = shown
        /\ Refused' = Refused /\ store' = Commit(session.approved)
    BY <1>15 DEF WriteResults, counters, Refused
  <2>2. \A t \in DOMAIN store' : Stands(store'[t])
    <3>1. SUFFICES ASSUME NEW t \in DOMAIN store' PROVE Stands(store'[t])
      OBVIOUS
    <3>2. CASE \E s \in session.approved : s.tid = t
      <4>1. store'[t] = CHOOSE s \in session.approved : s.tid = t
        BY <2>1, <3>2 DEF Commit
      <4>2. store'[t] \in session.approved
        BY <3>2, <4>1
      <4>3. QED
        BY <1>0, <4>2
    <3>3. CASE ~ \E s \in session.approved : s.tid = t
      <4>1. t \in DOMAIN store /\ store'[t] = store[t]
        BY <2>1, <3>3 DEF Commit
      <4>2. QED
        BY <1>0, <4>1
    <3>4. QED
      BY <3>2, <3>3
  <2>3. QED
    BY <1>0, <2>1, <2>2, NoSessionShape, NothingProposed
<1>16. CASE Interrupt
  <2>1. Refused' = Refused
    BY <1>16 DEF Interrupt, Refused
  <2>2. QED
    BY <1>0, <1>16, <2>1, NoSessionShape, NothingProposed DEF Interrupt, counters
<1>17. CASE UNCHANGED clientvars
  <2>1. Refused' = Refused /\ session' = session /\ step' = step /\ store' = store
        /\ shown' = shown /\ made' = made
    BY <1>17 DEF clientvars, Refused
  <2>2. step' \in {"extra", "write"} /\ ~session'.quit => session.at > Len(session.queue)
    BY <2>1 DEF ReviewInv, Decided
  <2>3. QED
    BY <1>0, <2>1, <2>2, NothingDecided
<1>18. QED
  BY <1>1, <1>2, <1>3, <1>4, <1>5, <1>6, <1>7, <1>8, <1>9, <1>10, <1>11, <1>12, <1>13,
     <1>14, <1>15, <1>16, <1>17 DEF ClientNext

(* Every saved scenario is, in the very revision that is saved, one the    *)
(* reviewer saw, added or waved through, and never one that was refused;   *)
(* and a review that is not quit decides on every proposal of its list.    *)
THEOREM DecisionsStandHolds == Spec => []DecisionsStand
<1>1. Init => ReviewInv
  BY ReviewInitially DEF Init
<1>2. ReviewInv /\ [Next]_vars => ReviewInv'
  <2>1. [Next]_vars => [ClientNext]_clientvars
    BY DEF Next, Client, Demo, vars, clientvars
  <2>2. QED
    BY <2>1, ReviewStep
<1>3. QED
  BY <1>1, <1>2, ReviewInvStands, PTL DEF Spec
----------------------------------------------------------------------------
(***************************************************************************)
(* What a session of scrp_demo.py works with: the patterns left, the paths *)
(* chosen from them, and the actions of the review.                        *)
(***************************************************************************)
Reviewing ==
    \/ Approve \/ Discard \/ ApproveAll \/ Quit
    \/ RejectLast \/ RegenerateNone \/ \E outcome \in Outcomes : Regenerate(outcome)
    \/ \E pair \in Expertise : AddExpert(pair[1], pair[2])
    \/ AddNothing

(* The review leaves alone what the session was begun with, and the store. *)
LEMMA DuringReview ==
    ASSUME DOMAIN session = DOMAIN NoSession, Reviewing
    PROVE  /\ step \in {"review", "extra"} /\ step' \in {"review", "extra", "write"}
           /\ session'.uc = session.uc /\ session'.mode = session.mode
           /\ session'.assets = session.assets /\ session'.due = session.due
           /\ UNCHANGED <<project, store, runs, edits>>
<1>1. ASSUME NEW approved, MoveOn(approved)
      PROVE  /\ step' \in {"review", "extra"}
             /\ session'.uc = session.uc /\ session'.mode = session.mode
             /\ session'.assets = session.assets /\ session'.due = session.due
  BY <1>1 DEF MoveOn, NoSession
<1>2. ASSUME NEW action, Answer(action)
      PROVE  step = "review" /\ UNCHANGED <<project, store, runs, edits>>
  BY <1>2 DEF Answer
<1>3. CASE Approve \/ Discard \/ RejectLast \/ RegenerateNone
  BY <1>1, <1>2, <1>3 DEF Approve, Discard, RejectLast, RegenerateNone
<1>4. CASE ApproveAll
  BY <1>4 DEF ApproveAll, counters, NoSession
<1>5. CASE Quit
  BY <1>5 DEF Quit, counters, NoSession
<1>6. ASSUME NEW outcome, Regenerate(outcome)
      PROVE  /\ step = "review" /\ step' = "review"
             /\ session'.uc = session.uc /\ session'.mode = session.mode
             /\ session'.assets = session.assets /\ session'.due = session.due
             /\ UNCHANGED <<project, store, runs, edits>>
  <2>1. PICK revised, reused :
          session' = [session EXCEPT !.queue[session.at] = revised,
                                     !.rejections = @ + 1, !.used = reused]
    BY <1>6 DEF Regenerate
  <2>2. QED
    BY <1>2, <1>6, <2>1 DEF Regenerate, NoSession
<1>7. ASSUME NEW a, NEW p, AddExpert(a, p)
      PROVE  /\ step = "extra" /\ step' = "write"
             /\ session'.uc = session.uc /\ session'.mode = session.mode
             /\ session'.assets = session.assets /\ session'.due = session.due
             /\ UNCHANGED <<project, store, runs, edits>>
  <2>1. PICK approved : session' = [session EXCEPT !.approved = approved]
    BY <1>7 DEF AddExpert
  <2>2. QED
    BY <1>7, <2>1 DEF AddExpert, NoSession
<1>8. CASE AddNothing
  BY <1>8 DEF AddNothing, counters
<1>9. QED
  BY <1>3, <1>4, <1>5, <1>6, <1>7, <1>8 DEF Reviewing

LEMMA ClientNextCases ==
    ASSUME [ClientNext]_clientvars
    PROVE  \/ \E u \in UseCases : \E p \in Edited(u) : EditProject(u, p)
           \/ \E u \in UseCases, mode \in {"live", "replay"}, fresh \in BOOLEAN :
                    Begin(u, mode, fresh)
           \/ AcceptStaleness
           \/ KeepStale
           \/ \E reason \in {"removed", "context", "facts"} : Retire(reason)
           \/ RunPipeline
           \/ Reviewing
           \/ WriteResults
           \/ Interrupt
           \/ UNCHANGED clientvars
  BY DEF ClientNext, Reviewing

LEMMA PatternsFinite ==
    /\ IsFiniteSet(Assets) /\ IsFiniteSet(Patterns)
    /\ \A a \in Assets : /\ Retrieved[a] \in Seq(Patterns)
                         /\ Len(Retrieved[a]) \in Nat
                         /\ DOMAIN Retrieved[a] = 1..Len(Retrieved[a])
                         /\ \A i, j \in 1..Len(Retrieved[a]) :
                                Retrieved[a][i] = Retrieved[a][j] => i = j
<1>1. IsFiniteSet(Assets)
  BY ScrpDemoAssumption DEF ScrpDemoAssumption
<1>2. ASSUME NEW a \in Assets
      PROVE  /\ Retrieved[a] \in Seq(Patterns) /\ IsInjective(Retrieved[a])
             /\ Len(Retrieved[a]) \in Nat
             /\ DOMAIN Retrieved[a] = 1..Len(Retrieved[a])
  <2>1. Retrieved[a] \in Seq(Patterns) /\ IsInjective(Retrieved[a])
    BY ScrpDemoAssumption DEF ScrpDemoAssumption
  <2>2. QED
    BY <2>1, LenProperties
<1>3. \A a \in Assets : IsFiniteSet(ToSet(Retrieved[a]))
  <2>1. ASSUME NEW a \in Assets PROVE IsFiniteSet(ToSet(Retrieved[a]))
    <3> DEFINE s == Retrieved[a]
    <3>1. DOMAIN s = 1..Len(s) /\ Len(s) \in Nat
      BY <1>2
    <3>2. s \in Surjection(1..Len(s), ToSet(s))
      <4>0. s \in Seq(Patterns)
        BY <1>2
      <4>1. s = [i \in 1..Len(s) |-> s[i]]
        BY <4>0
      <4> HIDE DEF s
      <4>2. \A i \in 1..Len(s) : s[i] \in ToSet(s)
        BY <3>1 DEF ToSet
      <4>3. \A x \in ToSet(s) : \E i \in 1..Len(s) : s[i] = x
        BY <3>1 DEF ToSet
      <4>4. QED
        BY <4>1, <4>2, <4>3 DEF Surjection
    <3>3. IsFiniteSet(1..Len(s))
      BY <3>1, FS_Interval
    <3>4. QED
      BY <3>2, <3>3, FS_Surjection
  <2>2. QED
    BY <2>1
<1>4. IsFiniteSet({ToSet(Retrieved[a]) : a \in Assets})
  <2> DEFINE f == [a \in Assets |-> ToSet(Retrieved[a])]
             S == {ToSet(Retrieved[a]) : a \in Assets}
  <2>1. f \in Surjection(Assets, S)
    BY DEF Surjection
  <2> HIDE DEF f, S
  <2>2. IsFiniteSet(S)
    BY <1>1, <2>1, FS_Surjection
  <2>3. QED
    BY <2>2 DEF S
<1>5. IsFiniteSet(Patterns)
  BY <1>3, <1>4, FS_UNION DEF Patterns
<1>6. QED
  BY <1>1, <1>2, <1>5 DEF IsInjective

(* The patterns left for an asset are known, not approved, and different.  *)
LEMMA LeftProperties ==
    ASSUME NEW a \in Assets
    PROVE  /\ Left(a) \in Seq(Patterns) /\ Len(Left(a)) \in Nat
           /\ \A k \in 1..Len(Left(a)) : Left(a)[k] \in Patterns /\ ~Skipped(a, Left(a)[k])
           /\ \A k, l \in 1..Len(Left(a)) : Left(a)[k] = Left(a)[l] => k = l
<1> DEFINE s == Retrieved[a]
           P == {i \in DOMAIN s : ~Skipped(a, s[i])}
<1>1. s \in Seq(Patterns) /\ P \in SUBSET (1..Len(s)) /\ Left(a) = Picked(s, P)
  BY PatternsFinite DEF Left
<1>2. \A i, j \in 1..Len(s) : s[i] = s[j] => i = j
  BY PatternsFinite
<1>3. \A i \in P : ~Skipped(a, s[i]) /\ s[i] \in Patterns
  BY <1>1, ElementOfSeq
<1> HIDE DEF s, P
<1>4. /\ Left(a) \in Seq(Patterns)
      /\ \E order : IsSelection(s, P, Left(a), order)
  BY <1>1, PickedProperties
<1>5. PICK order : IsSelection(s, P, Left(a), order)
  BY <1>4
<1>6. /\ \A k \in 1..Len(Left(a)) : order[k] \in P /\ Left(a)[k] = s[order[k]]
      /\ \A k, l \in 1..Len(Left(a)) : order[k] = order[l] => k = l
  BY <1>5 DEF IsSelection
<1>7. \A k, l \in 1..Len(Left(a)) : Left(a)[k] = Left(a)[l] => k = l
  <2>1. \A k, l \in 1..Len(Left(a)) : Left(a)[k] = Left(a)[l] => order[k] = order[l]
    BY <1>1, <1>2, <1>6, ZenonT(60)
  <2>2. QED
    BY <1>6, <2>1, Zenon
<1>8. Len(Left(a)) \in Nat
  BY <1>4, LenProperties
<1>9. QED
  BY <1>3, <1>4, <1>6, <1>7, <1>8

(* The paths of a run are of its assets, of patterns that are known and not*)
(* approved, and no two of them are the same.                              *)
ArePaths(paths, S) ==
    /\ DOMAIN paths \subseteq Nat
    /\ \A k \in DOMAIN paths :
        /\ paths[k].asset \in S /\ paths[k].pattern \in Patterns
        /\ ~Skipped(paths[k].asset, paths[k].pattern)
    /\ \A k, l \in DOMAIN paths :
        paths[k].asset = paths[l].asset /\ paths[k].pattern = paths[l].pattern => k = l

LEMMA OrderProperties ==
    ASSUME NEW S \in SUBSET Assets, NEW order \in Orders(S)
    PROVE  /\ DOMAIN order = 1..Cardinality(S) /\ IsFiniteSet(DOMAIN order)
           /\ DOMAIN order \subseteq Nat
           /\ \A i \in DOMAIN order : order[i] \in S
           /\ \A i, j \in DOMAIN order : order[i] = order[j] => i = j
<1> DEFINE c == Cardinality(S)
<1>1. IsFiniteSet(S) /\ c \in Nat
  BY PatternsFinite, FS_Subset, FS_CardinalityType
<1>2. order \in [1..c -> S] /\ ToSet(order) = S
  BY DEF Orders
<1> HIDE DEF c
<1>3. IsFiniteSet(1..c) /\ Cardinality(1..c) = c
  BY <1>1, FS_Interval
<1>4. order \in Surjection(1..c, S)
  BY <1>2 DEF ToSet, Surjection
<1>5. order \in Injection(1..c, S)
  BY <1>3, <1>4, FS_Surjection DEF c
<1>6. QED
  BY <1>1, <1>2, <1>3, <1>5 DEF Injection, IsInjective, c

LEMMA ChosenProperties ==
    ASSUME NEW S \in SUBSET Assets, NEW order \in Orders(S)
    PROVE  ArePaths(Chosen(order), S)
<1> DEFINE T == Turns(order)
           Before(x, y) == x[1] < y[1] \/ (x[1] = y[1] /\ x[2] < y[2])
           R == {p \in T \X T : Before(p[1], p[2])}
           Pick(n) == CHOOSE x \in T : Cardinality({y \in T : Before(y, x)}) = n - 1
           turns == [n \in 1..Cardinality(T) |-> Pick(n)]
           taken == First(MaxPaths, turns)
<1>1. Chosen(order) = [n \in DOMAIN taken |-> PathOf(order, taken[n])]
  BY DEF Chosen, Ordered
<1>2. \A t \in T : /\ t = <<t[1], t[2]>> /\ t[1] \in Nat /\ t[1] >= 1
                   /\ t[2] \in DOMAIN order /\ t[2] \in Nat
                   /\ t[1] <= Len(Left(order[t[2]]))
  BY OrderProperties DEF Turns
<1>3. IsFiniteSet(T)
  <2> DEFINE D == (1..Cardinality(Patterns)) \X DOMAIN order
  <2>1. Cardinality(Patterns) \in Nat
    BY PatternsFinite, FS_CardinalityType
  <2>2. IsFiniteSet(1..Cardinality(Patterns)) /\ IsFiniteSet(DOMAIN order)
    <3>1. 1 \in Int /\ Cardinality(Patterns) \in Int
      BY <2>1
    <3>2. IsFiniteSet(1..Cardinality(Patterns))
      BY <3>1, FS_Interval
    <3>3. QED
      BY <3>2, OrderProperties
  <2>3. IsFiniteSet(D)
    BY <2>2, FS_Product
  <2>4. T \in SUBSET D
    BY DEF Turns
  <2>5. QED
    BY <2>3, <2>4, FS_Subset
<1>4. \A x, y \in T : <<x, y>> \in R <=> Before(x, y)
  OBVIOUS
<1> HIDE DEF T, R
<1>5. IsOrderOf(R, T)
  <2>1. \A x \in T : <<x, x>> \notin R
    BY <1>2, <1>4
  <2>2. \A x, y, z \in T : <<x, y>> \in R /\ <<y, z>> \in R => <<x, z>> \in R
    BY <1>2, <1>4
  <2>3. \A x, y \in T : x # y => <<x, y>> \in R \/ <<y, x>> \in R
    <3>1. ASSUME NEW x \in T, NEW y \in T, x # y PROVE <<x, y>> \in R \/ <<y, x>> \in R
      <4>1. x[1] # y[1] \/ x[2] # y[2]
        BY <1>2, <3>1
      <4>2. Before(x, y) \/ Before(y, x)
        BY <1>2, <4>1
      <4>3. QED
        BY <1>4, <4>2
    <3>2. QED
      BY <3>1
  <2>4. QED
    BY <2>1, <2>2, <2>3 DEF IsOrderOf
<1>6. \A x \in T : {y \in T : Before(y, x)} = Below(R, T, x)
  BY <1>4 DEF Below
<1>7. \A n : (\E x \in T : Cardinality({y \in T : Before(y, x)}) = n - 1)
                => Pick(n) \in T /\ Cardinality({y \in T : Before(y, Pick(n))}) = n - 1
  OBVIOUS
<1> HIDE DEF Before, Pick
<1>8. turns = [n \in 1..Cardinality(T) |-> turns[n]]
      /\ \A n \in DOMAIN turns : turns[n] = Pick(n)
  OBVIOUS
<1> HIDE DEF turns
<1>9. ASSUME NEW n \in DOMAIN turns, \E x \in T : Cardinality(Below(R, T, x)) = n - 1
      PROVE  turns[n] \in T /\ Cardinality(Below(R, T, turns[n])) = n - 1
  <2>1. \E x \in T : Cardinality({y \in T : Before(y, x)}) = n - 1
    BY <1>6, <1>9
  <2>2. turns[n] \in T /\ Cardinality({y \in T : Before(y, turns[n])}) = n - 1
    BY <1>7, <1>8, <2>1
  <2>3. QED
    BY <1>6, <2>2
<1>10. IsRanking(turns, R, T)
  BY <1>8, <1>9 DEF IsRanking
<1>11. /\ \A n \in DOMAIN turns : turns[n] \in T
       /\ \A m, n \in DOMAIN turns : turns[m] = turns[n] => m = n
  BY <1>3, <1>5, <1>10, RankOrder
<1>12. turns \in Seq(T) /\ DOMAIN turns = 1..Len(turns)
  <2>1. Cardinality(T) \in Nat
    BY <1>3, FS_CardinalityType
  <2>2. turns = [n \in 1..Cardinality(T) |-> turns[n]] /\ DOMAIN turns = 1..Cardinality(T)
    BY <1>8
  <2>3. QED
    BY <1>11, <2>1, <2>2
<1>13. MaxPaths \in Nat
  BY ScrpDemoAssumption DEF ScrpDemoAssumption
<1>14. /\ taken \in Seq(T) /\ Len(taken) \in Nat /\ Len(taken) <= Len(turns)
       /\ \A i \in 1..Len(taken) : taken[i] = turns[i]
  BY <1>12, <1>13, FirstProperties
<1>15. DOMAIN taken = 1..Len(taken) /\ DOMAIN taken \subseteq DOMAIN turns
  BY <1>12, <1>14, LenProperties
<1> HIDE DEF taken
<1>16. \A n \in DOMAIN taken : taken[n] \in T
  BY <1>11, <1>14, <1>15
<1>17. \A m, n \in DOMAIN taken : taken[m] = taken[n] => m = n
  BY <1>11, <1>14, <1>15
<1>18. \A t \in T : LET path == PathOf(order, t)
                    IN  /\ path.asset = order[t[2]] /\ path.pattern = Left(order[t[2]])[t[1]]
                        /\ path.asset \in S /\ path.pattern \in Patterns
                        /\ ~Skipped(path.asset, path.pattern)
  <2>1. ASSUME NEW t \in T
        PROVE  /\ order[t[2]] \in S /\ order[t[2]] \in Assets
               /\ t[1] \in 1..Len(Left(order[t[2]]))
    <3>1. order[t[2]] \in S
      BY <1>2, OrderProperties
    <3>2. Len(Left(order[t[2]])) \in Nat
      BY <3>1, LeftProperties
    <3>3. QED
      BY <1>2, <3>1, <3>2
  <2>2. QED
    BY <2>1, LeftProperties DEF PathOf
<1>19. \A t, u \in T :
            PathOf(order, t).asset = PathOf(order, u).asset
            /\ PathOf(order, t).pattern = PathOf(order, u).pattern => t = u
  <2>1. ASSUME NEW t \in T, NEW u \in T,
               PathOf(order, t).asset = PathOf(order, u).asset,
               PathOf(order, t).pattern = PathOf(order, u).pattern
        PROVE  t = u
    <3>1. /\ order[t[2]] = order[u[2]]
          /\ Left(order[t[2]])[t[1]] = Left(order[u[2]])[u[1]]
      BY <1>18, <2>1
    <3>2. t[2] = u[2] /\ order[t[2]] \in Assets
      BY <1>2, <3>1, OrderProperties
    <3>3. Len(Left(order[t[2]])) \in Nat
      BY <3>2, LeftProperties
    <3>4. t[1] \in 1..Len(Left(order[t[2]])) /\ u[1] \in 1..Len(Left(order[t[2]]))
      BY <1>2, <3>2, <3>3
    <3>5. t[1] = u[1]
      BY <3>1, <3>2, <3>4, LeftProperties
    <3>6. QED
      BY <1>2, <3>2, <3>5
  <2>2. QED
    BY <2>1
<1>20. /\ DOMAIN Chosen(order) = DOMAIN taken
       /\ \A n \in DOMAIN taken : Chosen(order)[n] = PathOf(order, taken[n])
  BY <1>1
<1>21. ASSUME NEW k \in DOMAIN Chosen(order)
       PROVE  /\ Chosen(order)[k].asset \in S /\ Chosen(order)[k].pattern \in Patterns
              /\ ~Skipped(Chosen(order)[k].asset, Chosen(order)[k].pattern)
  BY <1>16, <1>18, <1>20
<1>22. ASSUME NEW k \in DOMAIN Chosen(order), NEW l \in DOMAIN Chosen(order),
              Chosen(order)[k].asset = Chosen(order)[l].asset,
              Chosen(order)[k].pattern = Chosen(order)[l].pattern
       PROVE  k = l
  BY <1>16, <1>17, <1>19, <1>20, <1>22
<1>23. DOMAIN Chosen(order) \subseteq Nat
  BY <1>14, <1>15, <1>20
<1>24. QED
  BY <1>21, <1>22, <1>23 DEF ArePaths

(* What the pipeline proposes is made of such paths, numbered in order.    *)
Generated(queue) ==
    /\ \A i \in DOMAIN queue :
        \E path, outcome :
            /\ path.asset \in session.assets /\ path.pattern \in Patterns
            /\ ~Skipped(path.asset, path.pattern)
            /\ queue[i] = Made(path, outcome, made + i, made + i)
    /\ \A i, j \in DOMAIN queue :
        queue[i].asset = queue[j].asset /\ queue[i].pattern = queue[j].pattern => i = j

LEMMA MadeFields ==
    ASSUME NEW path, NEW outcome, NEW tid, NEW rev
    PROVE  LET s == Made(path, outcome, tid, rev)
           IN  /\ s.tid = tid /\ s.rev = rev /\ s.by = Ai /\ s.uc = session.uc
               /\ s.asset = path.asset /\ s.pattern = path.pattern
               /\ s.mode = session.mode /\ s.run = runs
  BY DEF Made

LEMMA ProposedIsGenerated ==
    ASSUME NEW paths, NEW out, NEW n \in Nat, NEW S, S \subseteq DOMAIN paths,
           NEW kept \in Ascending(n, S), ArePaths(paths, session.assets)
    PROVE  /\ DOMAIN Proposed(paths, out, kept) = 1..n
           /\ Generated(Proposed(paths, out, kept))
<1> DEFINE queue == Proposed(paths, out, kept)
<1>1. /\ kept \in [1..n -> S]
      /\ \A i, j \in 1..n : i < j => kept[i] < kept[j]
  BY DEF Ascending
<1>2. /\ DOMAIN queue = 1..n
      /\ \A i \in 1..n : queue[i] = Made(paths[kept[i]], out[kept[i]], made + i, made + i)
  BY <1>1 DEF Proposed
<1> HIDE DEF queue
<1>3. \A i \in 1..n : kept[i] \in DOMAIN paths
  BY <1>1
<1>4. ASSUME NEW i \in 1..n
      PROVE  \E path, outcome :
                /\ path.asset \in session.assets /\ path.pattern \in Patterns
                /\ ~Skipped(path.asset, path.pattern)
                /\ queue[i] = Made(path, outcome, made + i, made + i)
  BY <1>2, <1>3 DEF ArePaths
<1>5. \A i \in 1..n : queue[i].asset = paths[kept[i]].asset
                      /\ queue[i].pattern = paths[kept[i]].pattern
  BY <1>2, MadeFields
<1>6. ASSUME NEW i \in 1..n, NEW j \in 1..n,
             queue[i].asset = queue[j].asset, queue[i].pattern = queue[j].pattern
      PROVE  i = j
  <2>1. kept[i] = kept[j]
    BY <1>3, <1>5, <1>6 DEF ArePaths
  <2>2. \A k, l \in 1..n : k < l => kept[k] < kept[l]
    BY <1>1
  <2>3. i \in Int /\ j \in Int /\ kept[i] \in Int
    BY <1>3 DEF ArePaths
  <2>4. ~(kept[i] < kept[j]) /\ ~(kept[j] < kept[i])
    BY <2>1, <2>3
  <2>5. ~(i < j) /\ ~(j < i)
    BY <2>2, <2>4
  <2>6. QED
    BY <2>3, <2>5
<1>7. QED
  BY <1>2, <1>4, <1>6 DEF Generated, queue

LEMMA PipelineGenerates ==
    ASSUME ClientInv, session.assets \subseteq Assets, RunPipeline
    PROVE  /\ UNCHANGED <<project, store, history, runs, edits, shown>>
           /\ \/ step' = "idle" /\ session' = NoSession
              \/ /\ step' \in {"review", "extra"}
                 /\ session'.uc = session.uc /\ session'.mode = session.mode
                 /\ session'.assets = session.assets /\ session'.due = session.due
                 /\ session'.rejections = session.rejections
                 /\ session'.approved = session.approved
                 /\ session'.at = 1
                 /\ Generated(session'.queue)
<1> USE ScrpDemoAssumption DEF ScrpDemoAssumption
<1>1. PICK order \in Orders(session.assets) :
        \E out \in [DOMAIN Chosen(order) -> Outcome], n \in 0..MaxPaths :
        \E kept \in Ascending(n, {k \in DOMAIN Chosen(order) : out[k] # "none"}) :
            \/ step' = "idle" /\ session' = NoSession
            \/ /\ step' \in {"review", "extra"}
               /\ session' = [session EXCEPT
                        !.queue = Proposed(Chosen(order), out, kept),
                        !.used = {<<Chosen(order)[k].asset, Chosen(order)[k].pattern>> :
                                    k \in ToSet(kept)},
                        !.at = 1]
  BY ZenonT(60) DEF RunPipeline
<1> DEFINE paths == Chosen(order)
<1>2. PICK out \in [DOMAIN paths -> Outcome], n \in 0..MaxPaths :
        \E kept \in Ascending(n, {k \in DOMAIN paths : out[k] # "none"}) :
            \/ step' = "idle" /\ session' = NoSession
            \/ /\ step' \in {"review", "extra"}
               /\ session' = [session EXCEPT
                        !.queue = Proposed(paths, out, kept),
                        !.used = {<<paths[k].asset, paths[k].pattern>> : k \in ToSet(kept)},
                        !.at = 1]
  BY <1>1
<1> DEFINE good == {k \in DOMAIN paths : out[k] # "none"}
<1>3. PICK kept \in Ascending(n, good) :
            \/ step' = "idle" /\ session' = NoSession
            \/ /\ step' \in {"review", "extra"}
               /\ session' = [session EXCEPT
                        !.queue = Proposed(paths, out, kept),
                        !.used = {<<paths[k].asset, paths[k].pattern>> : k \in ToSet(kept)},
                        !.at = 1]
  BY <1>2
<1>4. ArePaths(paths, session.assets) /\ good \subseteq DOMAIN paths /\ n \in Nat
  BY ChosenProperties
<1> HIDE DEF paths, good
<1>5. Generated(Proposed(paths, out, kept))
  BY <1>4, ProposedIsGenerated
<1>6. UNCHANGED <<project, store, history, runs, edits, shown>>
  BY DEF RunPipeline
<1>7. CASE step' = "idle" /\ session' = NoSession
  BY <1>6, <1>7
<1>8. ASSUME step' \in {"review", "extra"}, NEW queue, NEW used,
             session' = [session EXCEPT !.queue = queue, !.used = used, !.at = 1]
      PROVE  /\ session'.uc = session.uc /\ session'.mode = session.mode
             /\ session'.assets = session.assets /\ session'.due = session.due
             /\ session'.rejections = session.rejections
             /\ session'.approved = session.approved
             /\ session'.at = 1
             /\ session'.queue = queue
  BY <1>8 DEF ClientInv, SessionShape, NoSession
<1>9. CASE /\ step' \in {"review", "extra"}
           /\ session' = [session EXCEPT
                        !.queue = Proposed(paths, out, kept),
                        !.used = {<<paths[k].asset, paths[k].pattern>> : k \in ToSet(kept)},
                        !.at = 1]
  BY <1>5, <1>6, <1>8, <1>9
<1>10. QED
  BY <1>3, <1>7, <1>9
----------------------------------------------------------------------------
(***************************************************************************)
(* Types.  The facts and the texts of the project are as old as its edits; *)
(* a session that has begun has a use case, a mode and assets of the       *)
(* project; what is due is gone before the first approval.                 *)
(***************************************************************************)
ProjectTypes ==
    /\ edits \in 0..MaxEdits
    /\ project \in [UseCases -> [facts : [Assets -> 0..edits], out : SUBSET Assets,
                                 text : 0..edits]]

SavedTypes ==
    /\ \A t \in DOMAIN store : store[t] \in Scenario /\ store[t].tid = t
    /\ \A h \in history : h.s \in Scenario /\ h.action \in {"stale", "reject", "prune", "add"}

SessionTypes ==
    /\ step \in Steps
    /\ step = "idle" => session = NoSession
    /\ step # "idle" => /\ session.uc \in UseCases /\ session.mode \in {"live", "replay"}
                        /\ session.assets \subseteq Assets
    /\ session.rejections \in 0..(MaxRejections - 1)
    /\ session.approved \subseteq Scenario /\ session.due \subseteq Scenario
    /\ \A i \in DOMAIN session.queue : session.queue[i] \in Scenario /\ session.queue[i].rev # 0
    /\ step \in {"stale", "retire", "pipeline"} => session.approved = {}
    /\ step \notin {"stale", "retire"} => session.due = {}
    /\ 0 \notin shown

TypesInv == ReviewInv /\ ProjectTypes /\ SavedTypes /\ SessionTypes

LEMMA LimitTypes == MaxEdits \in Nat /\ MaxRejections \in Nat \ {0} /\ MaxPaths \in Nat
  BY ScrpDemoAssumption DEF ScrpDemoAssumption

LEMMA NoSessionTypes ==
    /\ NoSession.rejections = 0 /\ NoSession.approved = {} /\ NoSession.due = {}
    /\ NoSession.queue = <<>> /\ DOMAIN NoSession.queue = {} /\ NoSession.mode = ""
  BY DEF NoSession

LEMMA TypesInitially == ClientInit => TypesInv
<1> SUFFICES ASSUME ClientInit PROVE TypesInv
  OBVIOUS
<1>1. ProjectTypes
  BY LimitTypes DEF ClientInit, ProjectTypes
<1>2. SavedTypes
  BY DEF ClientInit, SavedTypes
<1>3. SessionTypes
  <2>1. step = "idle" /\ session = NoSession /\ shown = {}
    BY DEF ClientInit
  <2>2. /\ session.rejections = 0 /\ session.approved = {} /\ session.due = {}
        /\ DOMAIN session.queue = {}
    BY <2>1, NoSessionTypes
  <2>3. 0 \in 0..(MaxRejections - 1)
    BY LimitTypes
  <2>4. QED
    BY <2>1, <2>2, <2>3 DEF SessionTypes, Steps
<1>4. QED
  BY <1>1, <1>2, <1>3, ReviewInitially DEF TypesInv

LEMMA TypesInvTypes == TypesInv => ClientTypeOK
<1> SUFFICES ASSUME TypesInv PROVE ClientTypeOK
  OBVIOUS
<1>1. project \in [UseCases -> Project]
  <2>1. edits \in Nat /\ 0..edits \subseteq 0..MaxEdits
    BY LimitTypes DEF TypesInv, ProjectTypes
  <2>2. [Assets -> 0..edits] \subseteq [Assets -> 0..MaxEdits]
    BY <2>1
  <2>3. [facts : [Assets -> 0..edits], out : SUBSET Assets, text : 0..edits] \subseteq Project
    BY <2>1, <2>2 DEF Project
  <2>4. QED
    BY <2>3 DEF TypesInv, ProjectTypes
<1>2. (step = "idle") = (session = NoSession)
  <2>1. step = "idle" => session = NoSession
    BY DEF TypesInv, SessionTypes
  <2>2. step # "idle" => session # NoSession
    <3>1. step # "idle" => session.mode # ""
      BY DEF TypesInv, SessionTypes
    <3>2. QED
      BY <3>1, NoSessionTypes
  <2>3. QED
    BY <2>1, <2>2
<1>3. ToSet(session.queue) \cup session.approved \cup session.due \subseteq Scenario
  BY DEF TypesInv, SessionTypes, ToSet
<1>4. session.approved \cap session.due = {}
  BY DEF TypesInv, SessionTypes
<1>5. shown \subseteq 1..made
  <2>1. made \in Nat /\ 0 \notin shown /\ \A r \in shown : r \in Nat /\ r <= made
    BY DEF TypesInv, SessionTypes, ReviewInv, ClientInv, Counters, ShownIds
  <2>2. QED
    BY <2>1
<1>6. QED
  BY <1>1, <1>2, <1>3, <1>4, <1>5 DEF ClientTypeOK, TypesInv, SavedTypes, SessionTypes

LEMMA MadeType ==
    ASSUME TypesInv, step # "idle", NEW path, NEW outcome, NEW tid \in Nat, NEW rev \in Nat,
           path.asset \in Assets, path.pattern \in Patterns
    PROVE  Made(path, outcome, tid, rev) \in Scenario
<1>1. /\ session.uc \in UseCases /\ session.mode \in {"live", "replay"} /\ runs \in Nat
      /\ edits \in Nat /\ 0..edits \subseteq 0..MaxEdits
  BY LimitTypes DEF TypesInv, SessionTypes, ProjectTypes, ReviewInv, ClientInv, Counters
<1>2. project[session.uc] \in [facts : [Assets -> 0..edits], out : SUBSET Assets, text : 0..edits]
  BY <1>1 DEF TypesInv, ProjectTypes
<1>3. /\ project[session.uc].facts[path.asset] \in 0..MaxEdits
      /\ project[session.uc].text \in 0..MaxEdits
  BY <1>1, <1>2
<1>4. (IF outcome = "short" THEN "part" ELSE "id") \in {"id", "part"}
      /\ (outcome = "flagged") \in BOOLEAN
  OBVIOUS
<1>5. QED
  BY <1>1, <1>3, <1>4 DEF Made, Scenario

LEMMA EditTypes ==
    ASSUME TypesInv, NEW u \in UseCases, NEW p \in Edited(u), EditProject(u, p)
    PROVE  ProjectTypes' /\ SavedTypes' /\ SessionTypes'
<1> DEFINE Entry(n) == [facts : [Assets -> 0..n], out : SUBSET Assets, text : 0..n]
<1>1. /\ edits \in Nat /\ edits < MaxEdits /\ edits' = edits + 1 /\ edits' \in 0..MaxEdits
      /\ project \in [UseCases -> Entry(edits)]
      /\ project' = [project EXCEPT ![u] = p]
  BY LimitTypes DEF TypesInv, ProjectTypes, EditProject
<1>2. 0..edits \subseteq 0..(edits + 1) /\ \A k \in 0..edits : k + 1 \in 0..(edits + 1)
  BY <1>1
<1>3. \A q \in Entry(edits) : q \in Entry(edits + 1)
  <2>1. [Assets -> 0..edits] \subseteq [Assets -> 0..(edits + 1)]
    BY <1>2
  <2>2. QED
    BY <1>2, <2>1
<1>4. project[u] \in Entry(edits)
  BY <1>1
<1>5. p \in Entry(edits + 1)
  <2> DEFINE old == project[u]
  <2>1. \/ \E a \in InputAssets(u) : p = [old EXCEPT !.facts[a] = @ + 1]
        \/ p = [old EXCEPT !.text = @ + 1]
        \/ \E a \in InputAssets(u) : p = [old EXCEPT !.out = @ \cup {a}]
    BY DEF Edited
  <2>2. InputAssets(u) \subseteq Assets
    BY DEF InputAssets
  <2> HIDE DEF old
  <2>3. old \in Entry(edits) /\ old \in Entry(edits + 1)
    BY <1>3, <1>4 DEF old
  <2>4. ASSUME NEW a \in InputAssets(u), p = [old EXCEPT !.facts[a] = @ + 1]
        PROVE  p \in Entry(edits + 1)
    <3>1. a \in Assets /\ old.facts[a] + 1 \in 0..(edits + 1)
      BY <1>2, <2>2, <2>3
    <3>2. [old.facts EXCEPT ![a] = @ + 1] \in [Assets -> 0..(edits + 1)]
      BY <2>3, <3>1
    <3>3. QED
      BY <2>3, <2>4, <3>2
  <2>5. CASE p = [old EXCEPT !.text = @ + 1]
    BY <1>2, <2>3, <2>5
  <2>6. ASSUME NEW a \in InputAssets(u), p = [old EXCEPT !.out = @ \cup {a}]
        PROVE  p \in Entry(edits + 1)
    BY <2>2, <2>3, <2>6
  <2>7. QED
    BY <2>1, <2>4, <2>5, <2>6
<1>6. ProjectTypes'
  <2>1. project' \in [UseCases -> Entry(edits + 1)]
    <3> HIDE DEF Entry
    <3>1. QED
      BY <1>1, <1>3, <1>5
  <2>2. QED
    BY <1>1, <2>1 DEF ProjectTypes
<1>7. QED
  BY <1>6 DEF EditProject, TypesInv, SavedTypes, SessionTypes

LEMMA BeginTypes ==
    ASSUME TypesInv, NEW u \in UseCases, NEW mode \in {"live", "replay"}, NEW fresh \in BOOLEAN,
           Begin(u, mode, fresh)
    PROVE  ProjectTypes' /\ SavedTypes' /\ SessionTypes'
<1> DEFINE stale == IF fresh THEN {} ELSE Stale(u)
<1>1. /\ session' = [NoSession EXCEPT !.uc = u, !.mode = mode, !.due = stale,
                                      !.assets = InputAssets(u)]
      /\ step' = IF stale = {} THEN "pipeline" ELSE "stale"
  BY DEF Begin
<1>2. stale \subseteq Scenario
  BY DEF TypesInv, SavedTypes, Stale, ApprovedFor
<1>3. /\ UNCHANGED <<project, edits, shown>>
      /\ \/ store' = [t \in {} |-> t] /\ history' = {}
         \/ UNCHANGED <<store, history>>
  BY DEF Begin
<1> HIDE DEF stale
<1>4. /\ session'.uc = u /\ session'.mode = mode /\ session'.due = stale
      /\ session'.assets = InputAssets(u) /\ session'.rejections = 0
      /\ session'.approved = {} /\ DOMAIN session'.queue = {}
  BY <1>1 DEF NoSession
<1>5. SavedTypes'
  BY <1>3 DEF TypesInv, SavedTypes
<1>6. ProjectTypes'
  BY <1>3 DEF TypesInv, ProjectTypes
<1>7. SessionTypes'
  BY <1>1, <1>2, <1>3, <1>4, LimitTypes DEF TypesInv, SessionTypes, Steps, InputAssets
<1>8. QED
  BY <1>5, <1>6, <1>7

LEMMA StalenessTypes ==
    ASSUME TypesInv, 
           AcceptStaleness \/ KeepStale
           \/ (\E reason \in {"removed", "context", "facts"} : Retire(reason))
    PROVE  ProjectTypes' /\ SavedTypes' /\ SessionTypes'
<1>0. DOMAIN session = DOMAIN NoSession
  BY DEF TypesInv, ReviewInv, ClientInv, SessionShape
<1>1. CASE AcceptStaleness
  <2>1. /\ session'.uc = session.uc /\ session'.mode = session.mode
        /\ session'.assets = ToAnalyse(session.uc, session.due) /\ session'.due = session.due
        /\ session'.rejections = session.rejections /\ session'.approved = session.approved
        /\ session'.queue = session.queue
    BY <1>0, <1>1 DEF AcceptStaleness, NoSession
  <2>2. ToAnalyse(session.uc, session.due) \subseteq Assets
    <3>1. \A s \in session.due : Reason(s) # "removed" => s.asset \in Assets
      BY DEF TypesInv, SessionTypes, Scenario
    <3>2. InputAssets(session.uc) \subseteq Assets
      BY DEF InputAssets
    <3>3. QED
      BY <3>1, <3>2 DEF ToAnalyse, Affected, Changed, AssetsOf
  <2>3. QED
    BY <1>1, <2>1, <2>2
       DEF AcceptStaleness, counters, TypesInv, ProjectTypes, SavedTypes, SessionTypes, Steps
<1>2. CASE KeepStale
  <2>1. /\ session'.uc = session.uc /\ session'.mode = session.mode
        /\ session'.assets = session.assets /\ session'.due = {}
        /\ session'.rejections = session.rejections /\ session'.approved = session.approved
        /\ session'.queue = session.queue
    BY <1>0, <1>2 DEF KeepStale, NoSession
  <2>2. QED
    BY <1>2, <2>1 DEF KeepStale, counters, TypesInv, ProjectTypes, SavedTypes, SessionTypes, Steps
<1>3. ASSUME NEW reason, Retire(reason)
      PROVE  ProjectTypes' /\ SavedTypes' /\ SessionTypes'
  <2> DEFINE gone == {s \in session.due : Reason(s) = reason}
  <2>1.     /\ gone \subseteq session.due
            /\ session' = [session EXCEPT !.due = @ \ gone]
            /\ history' = history \cup {Note("stale", s) : s \in gone}
            /\ store' = [t \in {x \in DOMAIN store : store[x] \notin gone} |-> store[t]]
            /\ step' = IF session.due = gone THEN "pipeline" ELSE "retire"
            /\ step = "retire"
            /\ UNCHANGED <<project, edits, shown>>
    BY <1>3 DEF Retire, Retired, counters
  <2> HIDE DEF gone
  <2>2. /\ session'.uc = session.uc /\ session'.mode = session.mode
        /\ session'.assets = session.assets /\ session'.due = session.due \ gone
        /\ session'.rejections = session.rejections /\ session'.approved = session.approved
        /\ session'.queue = session.queue
    BY <1>0, <2>1 DEF NoSession
  <2>3. \A s \in gone : s \in Scenario
    BY <2>1 DEF TypesInv, SessionTypes
  <2>4. SavedTypes'
    BY <2>1, <2>3 DEF TypesInv, SavedTypes, Note
  <2>5. SessionTypes'
    BY <2>1, <2>2 DEF TypesInv, SessionTypes, Steps
  <2>6. QED
    BY <2>1, <2>4, <2>5 DEF TypesInv, ProjectTypes
<1>4. QED
  BY <1>1, <1>2, <1>3

LEMMA PipelineTypes ==
    ASSUME TypesInv, RunPipeline
    PROVE  ProjectTypes' /\ SavedTypes' /\ SessionTypes'
<1>1. /\ ClientInv /\ session.assets \subseteq Assets /\ made \in Nat
      /\ step = "pipeline" /\ session.approved = {} /\ session.due = {}
      /\ session.uc \in UseCases /\ session.mode \in {"live", "replay"}
  BY DEF RunPipeline, TypesInv, ReviewInv, ClientInv, Counters, SessionTypes
<1>2. /\ UNCHANGED <<project, store, history, edits, shown>>
      /\ \/ step' = "idle" /\ session' = NoSession
         \/ /\ step' \in {"review", "extra"}
            /\ session'.uc = session.uc /\ session'.mode = session.mode
            /\ session'.assets = session.assets /\ session'.due = session.due
            /\ session'.rejections = session.rejections
            /\ session'.approved = session.approved
            /\ Generated(session'.queue)
  BY <1>1, PipelineGenerates
<1>3. ProjectTypes' /\ SavedTypes'
  BY <1>2 DEF TypesInv, ProjectTypes, SavedTypes
<1>4. CASE step' = "idle" /\ session' = NoSession
  <2>1. SessionTypes'
    <3>1. 0 \in 0..(MaxRejections - 1)
      BY LimitTypes
    <3>2. /\ session'.rejections = 0 /\ session'.approved = {} /\ session'.due = {}
          /\ DOMAIN session'.queue = {}
      BY <1>4, NoSessionTypes
    <3>3. 0 \notin shown'
      BY <1>2 DEF TypesInv, SessionTypes
    <3>4. QED
      BY <1>4, <3>1, <3>2, <3>3 DEF SessionTypes, Steps
  <2>2. QED
    BY <1>3, <2>1
<1>5. CASE step' \in {"review", "extra"} /\ session'.uc = session.uc
  <2>1. ClientInv'
    BY <1>1, AfterRunPipeline
  <2>2. ASSUME NEW i \in DOMAIN session'.queue
        PROVE  session'.queue[i] \in Scenario /\ session'.queue[i].rev # 0
    <3>1. /\ session'.uc = session.uc /\ Generated(session'.queue)
          /\ session'.uc \in UseCases
      BY <1>1, <1>2, <1>5, SMT
    <3>2. PICK path, outcome :
            /\ path.asset \in session.assets /\ path.pattern \in Patterns
            /\ session'.queue[i] = Made(path, outcome, made + i, made + i)
      BY <3>1 DEF Generated
    <3>3. i \in Nat /\ i >= 1
      BY <2>1 DEF ClientInv, SessionShape
    <3>4. made + i \in Nat /\ made + i # 0
      BY <1>1, <3>3
    <3>5. Made(path, outcome, made + i, made + i) \in Scenario
      BY <1>1, <3>2, <3>4, MadeType
    <3>6. QED
      BY <3>2, <3>4, <3>5, MadeFields
  <2>3. QED
    BY <1>1, <1>2, <1>3, <1>5, <2>2 DEF TypesInv, SessionTypes, Steps
<1>6. QED
  BY <1>2, <1>4, <1>5

(* An answer adds to the history what it is about, and approves scenarios  *)
(* of the list or the reviewer's own.                                      *)
LEMMA AfterReviewing ==
    ASSUME TypesInv, Reviewing,
           session'.rejections \in 0..(MaxRejections - 1),
           session'.approved \subseteq Scenario,
           \A i \in DOMAIN session'.queue :
                session'.queue[i] \in Scenario /\ session'.queue[i].rev # 0,
           0 \notin shown',
           NEW S \in SUBSET Scenario, NEW action \in {"reject", "prune", "add"},
           history' \subseteq history \cup {Note(action, s) : s \in S}
    PROVE  ProjectTypes' /\ SavedTypes' /\ SessionTypes'
<1>1. /\ step \in {"review", "extra"} /\ step' \in {"review", "extra", "write"}
      /\ session'.uc = session.uc /\ session'.mode = session.mode
      /\ session'.assets = session.assets /\ session'.due = session.due
      /\ UNCHANGED <<project, store, runs, edits>>
  BY DuringReview DEF TypesInv, ReviewInv, ClientInv, SessionShape
<1>2. ProjectTypes'
  BY <1>1 DEF TypesInv, ProjectTypes
<1>3. SavedTypes'
  BY <1>1 DEF TypesInv, SavedTypes, Note
<1>4. SessionTypes'
  BY <1>1 DEF TypesInv, SessionTypes, Steps
<1>5. QED
  BY <1>2, <1>3, <1>4

LEMMA MoveOnTypes ==
    ASSUME TypesInv, Reviewing, NEW action \in {"approve", "reject", "prune"}, Answer(action),
           NEW approved, MoveOn(approved), approved \subseteq session.approved \cup {Current}
    PROVE  ProjectTypes' /\ SavedTypes' /\ SessionTypes'
<1>1. /\ session'.rejections = 0 /\ session'.approved = approved
      /\ session'.queue = session.queue
  BY DEF MoveOn, TypesInv, ReviewInv, ClientInv, SessionShape, NoSession
<1>2. Current \in Scenario /\ Current.rev # 0
  BY DEF Answer, Current, TypesInv, SessionTypes, ReviewInv, ClientInv, SessionShape
<1>3. shown' = shown \cup {Current.rev} /\ history' = history \cup Logged(action)
  BY DEF Answer
<1>4. 0 \in 0..(MaxRejections - 1)
  BY LimitTypes
<1>5. approved \subseteq Scenario
  BY <1>2 DEF TypesInv, SessionTypes
<1>6. 0 \notin shown'
  BY <1>2, <1>3 DEF TypesInv, SessionTypes
<1>7. PICK a \in {"reject", "prune", "add"} :
        history' \subseteq history \cup {Note(a, s) : s \in {Current}}
  <2>1. CASE action = "approve"
    BY <1>3, <2>1 DEF Logged
  <2>2. CASE action # "approve"
    BY <1>3, <2>2 DEF Logged
  <2>3. QED
    BY <2>1, <2>2
<1>8. \A i \in DOMAIN session'.queue :
            session'.queue[i] \in Scenario /\ session'.queue[i].rev # 0
  BY <1>1 DEF TypesInv, SessionTypes
<1>9. {Current} \in SUBSET Scenario
  BY <1>2
<1>10. QED
  BY <1>1, <1>4, <1>5, <1>6, <1>7, <1>8, <1>9, AfterReviewing

LEMMA ReviewTypes ==
    ASSUME TypesInv, Reviewing
    PROVE  ProjectTypes' /\ SavedTypes' /\ SessionTypes'
<1>0. /\ DOMAIN session = DOMAIN NoSession /\ made \in Nat
      /\ step = "review" => session.at \in DOMAIN session.queue
      /\ DOMAIN session.queue = 1..Len(session.queue) /\ Len(session.queue) \in Nat
      /\ session.at \in Nat
      /\ session.rejections \in 0..(MaxRejections - 1) /\ session.approved \subseteq Scenario
      /\ \A i \in DOMAIN session.queue :
            session.queue[i] \in Scenario /\ session.queue[i].rev # 0
      /\ 0 \notin shown
  BY DEF TypesInv, SessionTypes, ReviewInv, ClientInv, Counters, SessionShape
<1>1. CASE Approve
  BY <1>1, MoveOnTypes DEF Approve
<1>2. CASE Discard
  BY <1>2, MoveOnTypes DEF Discard
<1>3. CASE RejectLast
  BY <1>3, MoveOnTypes DEF RejectLast
<1>4. CASE RegenerateNone
  BY <1>4, MoveOnTypes DEF RegenerateNone
<1>5. CASE ApproveAll
  <2> DEFINE rest == {session.queue[i] : i \in session.at..Len(session.queue)}
  <2>1. /\ session'.rejections = session.rejections
        /\ session'.approved = session.approved \cup rest
        /\ session'.queue = session.queue
        /\ shown' = shown \cup {s.rev : s \in rest}
        /\ history' = history /\ step = "review"
    BY <1>0, <1>5 DEF ApproveAll, NoSession
  <2>2. \A s \in rest : s \in Scenario /\ s.rev # 0
    BY <1>0, <2>1
  <2>3. history' \subseteq history \cup {Note("add", s) : s \in {}}
    BY <2>1
  <2>4. session'.approved \subseteq Scenario /\ 0 \notin shown'
    BY <1>0, <2>1, <2>2
  <2> HIDE DEF rest
  <2>5. QED
    BY <1>0, <2>1, <2>3, <2>4, AfterReviewing
<1>6. CASE Quit
  <2>1. /\ session'.rejections = session.rejections
        /\ session'.approved = session.approved
        /\ session'.queue = session.queue
        /\ shown' = shown /\ history' = history
    BY <1>0, <1>6 DEF Quit, AfterQuit, counters, NoSession
  <2>2. history' \subseteq history \cup {Note("add", s) : s \in {}}
    BY <2>1
  <2>3. QED
    BY <1>0, <2>1, <2>2, AfterReviewing
<1>7. ASSUME NEW outcome \in Outcomes, Regenerate(outcome)
      PROVE  ProjectTypes' /\ SavedTypes' /\ SessionTypes'
  <2> DEFINE path == [asset |-> Current.asset,
                      pattern |-> IF session.mode = "live" THEN Current.pattern
                                  ELSE Head(Alternatives(Current))]
             new == Revised(Current, path, outcome)
  <2>1. /\ step = "review" /\ ~RejectedAgain
        /\ session.mode = "replay" => Alternatives(Current) # <<>>
        /\ session' = [session EXCEPT !.queue[session.at] = new,
                                      !.rejections = @ + 1,
                                      !.used = @ \cup {<<path.asset, path.pattern>>}]
        /\ shown' = shown \cup {Current.rev}
        /\ history' = history \cup {Note("reject", s) : s \in {Current}}
    BY <1>7 DEF Regenerate, Answer, Logged
  <2>2. Current \in Scenario /\ Current.rev # 0 /\ Current.tid \in Nat
        /\ Current.asset \in Assets /\ Current.pattern \in Patterns
    BY <1>0, <2>1 DEF Current, Scenario
  <2>3. path.asset \in Assets /\ path.pattern \in Patterns
    <3>1. session.mode \in {"live", "replay"}
      BY <2>1 DEF TypesInv, SessionTypes
    <3>2. CASE session.mode = "live"
      BY <2>2, <3>2
    <3>3. CASE session.mode = "replay"
      <4> DEFINE s == Retrieved[Current.asset]
                 P == {i \in DOMAIN s : /\ s[i] # Current.pattern
                                        /\ <<Current.asset, s[i]>> \in Recorded \ session.used}
      <4>1. Alternatives(Current) = Picked(s, P)
        BY DEF Alternatives
      <4>2. s \in Seq(Patterns) /\ P \in SUBSET (1..Len(s))
        BY <2>2, PatternsFinite
      <4> HIDE DEF s, P
      <4>3. Alternatives(Current) \in Seq(Patterns) /\ Alternatives(Current) # <<>>
        BY <2>1, <3>3, <4>1, <4>2, PickedProperties
      <4>4. Head(Alternatives(Current)) \in Patterns
        BY <4>3, HeadTailProperties
      <4>5. QED
        BY <2>2, <3>3, <4>4
    <3>4. QED
      BY <3>1, <3>2, <3>3
  <2> HIDE DEF path
  <2>4. new \in Scenario /\ new.rev # 0
    <3>1. made + 1 \in Nat /\ made + 1 # 0 /\ step # "idle"
      BY <1>0, <2>1
    <3>2. QED
      BY <2>2, <2>3, <3>1, MadeType, MadeFields DEF Revised
  <2> HIDE DEF new
  <2>5. /\ session'.rejections = session.rejections + 1
        /\ session'.approved = session.approved
        /\ session'.queue = [session.queue EXCEPT ![session.at] = new]
    BY <1>0, <2>1 DEF NoSession
  <2>6. session.rejections + 1 \in 0..(MaxRejections - 1)
    BY <1>0, <2>1, LimitTypes DEF RejectedAgain
  <2>7. \A i \in DOMAIN session'.queue :
            session'.queue[i] \in Scenario /\ session'.queue[i].rev # 0
    BY <1>0, <2>4, <2>5
  <2>8. 0 \notin shown'
    BY <1>0, <2>1, <2>2
  <2>9. {Current} \in SUBSET Scenario
    BY <2>2
  <2>10. QED
    BY <1>0, <2>1, <2>5, <2>6, <2>7, <2>8, <2>9, AfterReviewing
<1>8. ASSUME NEW pair \in Expertise, AddExpert(pair[1], pair[2])
      PROVE  ProjectTypes' /\ SavedTypes' /\ SessionTypes'
  <2> DEFINE own == Made([asset |-> pair[1], pattern |-> pair[2]], "passed", made + 1, made + 1)
             s == [own EXCEPT !.by = Expert]
  <2>1. /\ step = "extra"
        /\ session' = [session EXCEPT !.approved = @ \cup {s}]
        /\ history' = history \cup {Note("add", s)}
        /\ shown' = shown \cup {s.rev}
    BY <1>8 DEF AddExpert
  <2>2. pair[1] \in Assets /\ pair[2] \in Patterns
    BY ScrpDemoAssumption DEF ScrpDemoAssumption
  <2>3. own \in Scenario /\ own.rev = made + 1
    <3>1. made + 1 \in Nat /\ step # "idle"
      BY <1>0, <2>1
    <3>2. QED
      BY <2>2, <3>1, MadeType, MadeFields
  <2> HIDE DEF own
  <2>4. s \in Scenario /\ s.rev = made + 1
    BY <2>3 DEF Scenario
  <2> HIDE DEF s
  <2>5. /\ session'.rejections = session.rejections
        /\ session'.approved = session.approved \cup {s}
        /\ session'.queue = session.queue
    BY <1>0, <2>1 DEF NoSession
  <2>6. history' \subseteq history \cup {Note("add", r) : r \in {s}}
    BY <2>1
  <2>7. 0 \notin shown' /\ session'.approved \subseteq Scenario /\ {s} \in SUBSET Scenario
    BY <1>0, <2>1, <2>4, <2>5
  <2>8. QED
    BY <1>0, <2>5, <2>6, <2>7, AfterReviewing
<1>9. CASE AddNothing
  <2>1. session' = session /\ shown' = shown /\ history' = history
    BY <1>9 DEF AddNothing
  <2>2. history' \subseteq history \cup {Note("add", s) : s \in {}}
    BY <2>1
  <2>3. QED
    BY <1>0, <2>1, <2>2, AfterReviewing
<1>10. QED
  BY <1>1, <1>2, <1>3, <1>4, <1>5, <1>6, <1>7, <1>8, <1>9 DEF Reviewing

LEMMA TypesStep == TypesInv /\ [ClientNext]_clientvars => TypesInv'
<1> SUFFICES ASSUME TypesInv, [ClientNext]_clientvars PROVE TypesInv'
  OBVIOUS
<1>1. ReviewInv'
  BY ReviewStep DEF TypesInv
<1>2. ASSUME UNCHANGED <<project, history, edits, shown>>, step' = "idle",
             session' = NoSession,
             \A t \in DOMAIN store' : store'[t] \in Scenario /\ store'[t].tid = t
      PROVE  ProjectTypes' /\ SavedTypes' /\ SessionTypes'
  <2>1. 0 \in 0..(MaxRejections - 1)
    BY LimitTypes
  <2>2. /\ session'.rejections = 0 /\ session'.approved = {} /\ session'.due = {}
        /\ DOMAIN session'.queue = {}
    BY <1>2, NoSessionTypes
  <2>3. SessionTypes'
    BY <1>2, <2>1, <2>2 DEF TypesInv, SessionTypes, Steps
  <2>4. QED
    BY <1>2, <2>3 DEF TypesInv, ProjectTypes, SavedTypes
<1>3. CASE WriteResults
  <2>1. ASSUME NEW t \in DOMAIN store' PROVE store'[t] \in Scenario /\ store'[t].tid = t
    <3>1. store' = Commit(session.approved) /\ session.approved \subseteq Scenario
      BY <1>3 DEF WriteResults, TypesInv, SessionTypes
    <3>2. CASE \E s \in session.approved : s.tid = t
      <4>1. store'[t] = CHOOSE s \in session.approved : s.tid = t
        BY <3>1, <3>2 DEF Commit
      <4>2. QED
        BY <3>1, <3>2, <4>1
    <3>3. CASE ~ \E s \in session.approved : s.tid = t
      <4>1. t \in DOMAIN store /\ store'[t] = store[t]
        BY <3>1, <3>3 DEF Commit
      <4>2. QED
        BY <4>1 DEF TypesInv, SavedTypes
    <3>4. QED
      BY <3>2, <3>3
  <2>2. /\ UNCHANGED <<project, history, edits, shown>> /\ step' = "idle"
        /\ session' = NoSession
    BY <1>3 DEF WriteResults, counters
  <2>3. QED
    BY <1>1, <1>2, <2>1, <2>2 DEF TypesInv
<1>4. CASE Interrupt
  <2>1. /\ UNCHANGED <<project, history, edits, shown, store>> /\ step' = "idle"
        /\ session' = NoSession
    BY <1>4 DEF Interrupt, counters
  <2>2. \A t \in DOMAIN store' : store'[t] \in Scenario /\ store'[t].tid = t
    BY <2>1 DEF TypesInv, SavedTypes
  <2>3. QED
    BY <1>1, <1>2, <2>1, <2>2 DEF TypesInv
<1>5. CASE UNCHANGED clientvars
  BY <1>1, <1>5 DEF clientvars, TypesInv, ProjectTypes, SavedTypes, SessionTypes
<1>6. CASE RunPipeline
  BY <1>1, <1>6, PipelineTypes DEF TypesInv
<1>7. CASE Reviewing
  BY <1>1, <1>7, ReviewTypes DEF TypesInv
<1>8. CASE AcceptStaleness \/ KeepStale
           \/ (\E reason \in {"removed", "context", "facts"} : Retire(reason))
  BY <1>1, <1>8, StalenessTypes DEF TypesInv
<1>9. ASSUME NEW u \in UseCases, NEW p \in Edited(u), EditProject(u, p) PROVE TypesInv'
  BY <1>1, <1>9, EditTypes DEF TypesInv
<1>10. ASSUME NEW u \in UseCases, NEW mode \in {"live", "replay"}, NEW fresh \in BOOLEAN,
              Begin(u, mode, fresh)
       PROVE  TypesInv'
  BY <1>1, <1>10, BeginTypes DEF TypesInv
<1>11. QED
  BY <1>3, <1>4, <1>5, <1>6, <1>7, <1>8, <1>9, <1>10, ClientNextCases

(* demo_cli.py: every number in use was given out.                         *)
DemoRanges ==
    /\ DemoInv
    /\ target \in 0..count /\ refusals \in 0..MaxHumanRejections
    /\ trail \subseteq {"prune", "add", "reject"} \X (1..count)
    /\ served \subseteq 1..count
    /\ \A i \in 1..Len(batch) : batch[i] \in 1..count

LEMMA DemoRangesStep == DemoRanges /\ [DemoNext]_demovars => DemoRanges'
<1> SUFFICES ASSUME DemoRanges, [DemoNext]_demovars PROVE DemoRanges'
  OBVIOUS
<1>1. DemoInv' /\ MaxHumanRejections \in Nat \ {0} /\ BatchSizes \subseteq Nat
  BY DemoStep, DemoCliAssumption DEF DemoRanges, DemoCliAssumption
<1>2. /\ count \in Nat /\ refusals \in Nat /\ target \in Nat /\ batch \in Seq(Nat)
      /\ gate \in {"menu", "approval"} =>
            target \in 1..count /\ refusals < MaxHumanRejections
      /\ gate = "start" => count = 0 /\ trail = {} /\ refusals = 0 /\ batch = <<>>
  BY DEF DemoRanges, DemoInv, DemoTypes, OnShow, Start
<1>3. ASSUME NEW n \in Nat
      PROVE  /\ 0..count \subseteq 0..(count + n) /\ 1..count \subseteq 1..(count + n)
             /\ n # 0 => count + 1 \in 1..(count + n)
  BY <1>2
<1>4. CASE DemoGenerate
  <2>1. PICK n \in BatchSizes :
            /\ count' = count + n
            /\ IF n = 0
               THEN gate' = "done" /\ UNCHANGED <<batch, target, served>>
               ELSE /\ gate' = "menu"
                    /\ target' = Head(NewBatch(n))
                    /\ batch' = Tail(NewBatch(n))
                    /\ served' = {target'}
    BY <1>4 DEF DemoGenerate
  <2>2. /\ n \in Nat /\ UNCHANGED <<refusals, trail>> /\ count = 0 /\ trail = {} /\ refusals = 0
    BY <1>1, <1>2, <1>4 DEF DemoGenerate
  <2>3. CASE n = 0
    <3>1. UNCHANGED <<batch, target, served, refusals, trail, count>>
      BY <2>1, <2>2, <2>3
    <3>2. QED
      BY <1>1, <3>1 DEF DemoRanges
  <2>4. CASE n # 0
    <3>1. /\ NewBatch(n) \in Seq(Nat) /\ Len(NewBatch(n)) = n /\ NewBatch(n) # <<>>
          /\ \A i \in 1..n : NewBatch(n)[i] = count + i
      BY <1>2, <2>2, <2>4, FreshBatch
    <3>2. /\ Head(NewBatch(n)) = NewBatch(n)[1]
          /\ Len(Tail(NewBatch(n))) = n - 1
          /\ \A i \in 1..(n - 1) : Tail(NewBatch(n))[i] = NewBatch(n)[i + 1]
      BY <3>1, RestOfBatch
    <3>3. 1 \in 1..n /\ \A i \in 1..(n - 1) : i + 1 \in 1..n
      BY <2>2, <2>4
    <3>4. target' = 1 /\ count' = n /\ served' = {1}
      BY <2>1, <2>2, <2>4, <3>1, <3>2, <3>3
    <3>5. Len(batch') = n - 1 /\ \A i \in 1..(n - 1) : batch'[i] = i + 1
      BY <2>1, <2>2, <2>4, <3>1, <3>2, <3>3
    <3>6. QED
      BY <1>1, <2>2, <3>3, <3>4, <3>5 DEF DemoRanges
  <2>5. QED
    BY <2>3, <2>4
<1>5. CASE MenuPrune
  <2>1. /\ gate = "menu" /\ trail' = trail \cup {<<"prune", target>>}
        /\ UNCHANGED <<refusals, count>> /\ target \in 1..count
    BY <1>2, <1>5 DEF MenuPrune
  <2>2. trail' \subseteq {"prune", "add", "reject"} \X (1..count)
    BY <2>1 DEF DemoRanges
  <2>3. CASE batch = <<>>
    BY <1>1, <1>5, <2>1, <2>2, <2>3 DEF MenuPrune, DemoRanges
  <2>4. CASE batch # <<>>
    <3>1. /\ target' = batch[1] /\ served' = served \cup {target'}
          /\ Len(batch') = Len(batch) - 1 /\ Len(batch) \in Nat \ {0}
          /\ \A i \in 1..Len(batch') : batch'[i] = batch[i + 1]
      BY <1>2, <1>5, <2>4, RestOfBatch DEF MenuPrune
    <3>2. 1 \in 1..Len(batch) /\ \A i \in 1..Len(batch') : i + 1 \in 1..Len(batch)
      BY <3>1
    <3>3. target' \in 1..count /\ \A i \in 1..Len(batch') : batch'[i] \in 1..count
      BY <3>1, <3>2 DEF DemoRanges
    <3>4. served' \subseteq 1..count /\ target' \in 0..count
      <4>1. served \subseteq 1..count /\ count \in Nat
        BY <1>2 DEF DemoRanges
      <4>2. served' = served \cup {target'} /\ target' \in 1..count
        BY <3>1, <3>3
      <4>3. QED
        BY ONLY <4>1, <4>2
    <3>5. count' = count /\ refusals' \in 0..MaxHumanRejections
      BY <2>1 DEF DemoRanges
    <3>6. target' \in 0..count' /\ served' \subseteq 1..count'
      BY <3>4, <3>5
    <3>7. trail' \subseteq {"prune", "add", "reject"} \X (1..count')
      BY <2>2, <3>5
    <3>8. \A i \in 1..Len(batch') : batch'[i] \in 1..count'
      BY <3>3, <3>5
    <3>9. QED
      BY <1>1, <3>5, <3>6, <3>7, <3>8 DEF DemoRanges
  <2>5. QED
    BY <2>3, <2>4
<1>6. CASE MenuAdd
  <2>1. /\ count' = count + 1 /\ target' = count + 1
        /\ trail' = trail \cup {<<"add", count + 1>>}
        /\ served' = served \cup {count + 1}
        /\ UNCHANGED <<batch, refusals>>
    BY <1>6 DEF MenuAdd
  <2>2. count + 1 \in 1..(count + 1) /\ 1..count \subseteq 1..(count + 1)
    BY <1>2
  <2>3. trail' \subseteq {"prune", "add", "reject"} \X (1..(count + 1))
    BY <2>1, <2>2 DEF DemoRanges
  <2>4. served' \subseteq 1..(count + 1)
    BY <2>1, <2>2 DEF DemoRanges
  <2>5. \A i \in 1..Len(batch') : batch'[i] \in 1..(count + 1)
    BY <2>1, <2>2 DEF DemoRanges
  <2>6. QED
    BY <1>1, <1>2, <2>1, <2>3, <2>4, <2>5 DEF DemoRanges
<1>7. CASE MenuContinue
  BY <1>1, <1>7 DEF MenuContinue, DemoRanges
<1>8. CASE GateApprove
  BY <1>1, <1>8 DEF GateApprove, DemoRanges
<1>9. CASE GateReject
  <2>1. /\ target \in 1..count /\ refusals < MaxHumanRejections
        /\ trail' \subseteq trail \cup {<<"reject", target>>}
        /\ refusals' = refusals + 1 /\ batch' = <<>>
    BY <1>2, <1>9 DEF GateReject
  <2>2. refusals' \in 0..MaxHumanRejections
    BY <1>1, <1>2, <2>1
  <2>3. trail' \subseteq {"prune", "add", "reject"} \X (1..count)
    BY <2>1 DEF DemoRanges
  <2>4. PICK n \in Nat : /\ count' = count + n
                         /\ \/ UNCHANGED <<target, served>>
                            \/ /\ n # 0 /\ target' = count + 1
                               /\ served' = served \cup {count + 1}
    <3>1. CASE CapReached /\ UNCHANGED <<target, served, count>>
      <4>1. count' = count + 0
        BY <1>2, <3>1
      <4>2. QED
        BY <3>1, <4>1
    <3>2. CASE ~CapReached
      <4>1. PICK n \in BatchSizes :
                /\ count' = count + n
                /\ IF n = 0
                   THEN gate' = "done" /\ UNCHANGED <<target, served>>
                   ELSE /\ target' = NextTarget(n)
                        /\ served' = served \cup {target'}
                        /\ gate' = "approval"
        BY <1>9, <3>2 DEF GateReject
      <4>2. QED
        BY <1>1, <4>1 DEF NextTarget
    <3>3. QED
      BY <1>9, <3>1, <3>2 DEF GateReject
  <2>5. /\ target' \in 0..count' /\ served' \subseteq 1..count'
        /\ 1..count \subseteq 1..count'
    <3>1. count' = count + n /\ target \in 0..count /\ served \subseteq 1..count
      BY <2>4 DEF DemoRanges
    <3>2. 0..count \subseteq 0..count' /\ 1..count \subseteq 1..count'
      BY <1>3, <3>1
    <3>3. CASE UNCHANGED <<target, served>>
      BY <3>1, <3>2, <3>3
    <3>4. CASE n # 0 /\ target' = count + 1 /\ served' = served \cup {count + 1}
      <4>1. count + 1 \in 1..count' /\ count + 1 \in 0..count'
        BY <1>2, <3>1, <3>4
      <4>2. QED
        BY <3>1, <3>2, <3>4, <4>1
    <3>5. QED
      BY <2>4, <3>3, <3>4
  <2>6. trail' \subseteq {"prune", "add", "reject"} \X (1..count')
    BY <2>3, <2>5
  <2>7. QED
    BY <1>1, <2>1, <2>2, <2>5, <2>6 DEF DemoRanges
<1>10. CASE UNCHANGED demovars
  BY <1>1, <1>10 DEF demovars, DemoRanges
<1>11. QED
  BY <1>4, <1>5, <1>6, <1>7, <1>8, <1>9, <1>10 DEF DemoNext

(* The variables of both programs keep their types; in scrp_demo.py a      *)
(* retirement is over before the first approval, and a scenario is stored  *)
(* under the id it bears.                                                  *)
THEOREM TypeCorrect == Spec => []TypeOK
<1>1. Init => TypesInv /\ DemoRanges
  <2>1. DemoInit => DemoRanges
    BY DemoInitially, DemoCliAssumption
       DEF DemoInit, DemoRanges, DemoCliAssumption
  <2>2. QED
    BY <2>1, TypesInitially DEF Init
<1>2. [Next]_vars => [ClientNext]_clientvars /\ [DemoNext]_demovars
  BY DEF Next, Client, Demo, vars, clientvars, demovars
<1>3. (TypesInv /\ DemoRanges) /\ [Next]_vars => (TypesInv /\ DemoRanges)'
  BY <1>2, TypesStep, DemoRangesStep
<1>4. TypesInv /\ DemoRanges => TypeOK
  <2>1. DemoRanges => DemoTypeOK
    BY DEF DemoRanges, DemoTypeOK, DemoInv, DemoTypes, OnlyTheShownIsWritten, ToSet
  <2>2. QED
    BY <2>1, TypesInvTypes DEF TypeOK
<1>5. QED
  BY <1>1, <1>3, <1>4, PTL DEF Spec
----------------------------------------------------------------------------
(***************************************************************************)
(* The assets a session leaves out.  Until the user has answered, it would *)
(* analyse all of them, and what it would retire is what is stale; an asset*)
(* that is then left out has an approved threat that is not, and neither   *)
(* the retirements nor the rest of the session touch that one.             *)
(***************************************************************************)
LeftInv ==
    /\ ClientInv
    /\ LeftOutIsCovered
    /\ step = "stale" => session.due = Stale(session.uc)

LEMMA CoveredNext ==
    ASSUME NEW u, session'.uc = u,
           \A a \in InputAssets(u)' \ session'.assets :
                \E t \in DOMAIN store' : /\ store'[t].uc = u /\ store'[t].asset = a
                                         /\ \E s : s = store'[t] /\ Reason(s)' = "fresh"
    PROVE  LeftOutIsCovered'
<1>1. \A s : Reason(s)' = "fresh" <=>
            /\ s.asset \in Assets \ project'[s.uc].out
            /\ s.text = project'[s.uc].text
            /\ s.facts = project'[s.uc].facts[s.asset]
  BY DEF Reason, InputAssets
<1>2. QED
  BY <1>1 DEF LeftOutIsCovered, ApprovedFor, Reason, InputAssets

(* A step under which the project and the session's assets stay the same,  *)
(* and that takes nothing fresh out of the store.                          *)
LEMMA FreshIsKept ==
    ASSUME LeftOutIsCovered, step # "idle", project' = project,
           session'.uc = session.uc, session'.assets = session.assets,
           \A t \in DOMAIN store : Reason(store[t]) = "fresh" =>
                t \in DOMAIN store' /\ store'[t] = store[t]
    PROVE  LeftOutIsCovered'
<1>1. PICK u : u = session.uc
  OBVIOUS
<1>2. InputAssets(u)' \ session'.assets = InputAssets(session.uc) \ session.assets
  BY <1>1 DEF InputAssets
<1>3. \A s : Reason(s)' = Reason(s)
  BY DEF Reason, InputAssets
<1>4. ASSUME NEW a \in InputAssets(session.uc) \ session.assets
      PROVE  \E t \in DOMAIN store' : /\ store'[t].uc = u /\ store'[t].asset = a
                                      /\ \E s : s = store'[t] /\ Reason(s)' = "fresh"
  <2>1. PICK s \in ApprovedFor(session.uc) : s.asset = a /\ Reason(s) = "fresh"
    BY <1>4 DEF LeftOutIsCovered
  <2>2. PICK t \in DOMAIN store : store[t].uc = session.uc /\ s = store[t]
    BY <2>1 DEF ApprovedFor
  <2>3. t \in DOMAIN store' /\ store'[t] = store[t]
    BY <2>1, <2>2
  <2>4. QED
    BY <1>1, <1>3, <2>1, <2>2, <2>3
<1>5. QED
  BY <1>1, <1>2, <1>4, CoveredNext

LEMMA LeftStep == LeftInv /\ [ClientNext]_clientvars => LeftInv'
<1> SUFFICES ASSUME LeftInv, [ClientNext]_clientvars PROVE LeftInv'
  OBVIOUS
<1>0. ClientInv /\ ClientInv' /\ DOMAIN session = DOMAIN NoSession
  BY ClientStep DEF LeftInv, ClientInv, SessionShape
<1>1. CASE step' = "idle"
  BY <1>0, <1>1 DEF LeftInv, LeftOutIsCovered
<1>2. ASSUME NEW u \in UseCases, NEW mode, NEW fresh \in BOOLEAN, Begin(u, mode, fresh)
      PROVE  LeftInv'
  <2> DEFINE stale == IF fresh THEN {} ELSE Stale(u)
  <2>1. /\ session' = [NoSession EXCEPT !.uc = u, !.mode = mode, !.due = stale,
                                        !.assets = InputAssets(u)]
        /\ step' = IF stale = {} THEN "pipeline" ELSE "stale"
        /\ project' = project
        /\ ~fresh => store' = store
    BY <1>2 DEF Begin
  <2>2. session'.uc = u /\ session'.due = stale /\ session'.assets = InputAssets(u)
    BY <2>1 DEF NoSession
  <2>3. InputAssets(u)' = InputAssets(u)
    BY <2>1 DEF InputAssets
  <2>4. LeftOutIsCovered'
    BY <2>2, <2>3, CoveredNext
  <2>5. ASSUME step' = "stale" PROVE (session.due = Stale(session.uc))'
    <3>1. ~fresh /\ project' = project /\ store' = store
      BY <2>1, <2>5
    <3>2. session'.due = Stale(u)
      BY <2>2, <3>1
    <3>3. (session.due = Stale(session.uc))' <=> session'.due = Stale(u)
      BY <2>2, <3>1 DEF Stale, ApprovedFor, Reason, InputAssets
    <3>4. QED
      BY <3>2, <3>3
  <2>6. QED
    BY <1>0, <2>4, <2>5 DEF LeftInv
<1>3. CASE AcceptStaleness
  <2>1. /\ session' = [session EXCEPT !.assets = ToAnalyse(session.uc, session.due)]
        /\ step = "stale" /\ step' = "retire" /\ UNCHANGED <<project, store>>
        /\ session.due = Stale(session.uc)
    BY <1>3 DEF AcceptStaleness, LeftInv
  <2>2. session'.uc = session.uc /\ session'.assets = ToAnalyse(session.uc, session.due)
    BY <1>0, <2>1 DEF NoSession
  <2>3. PICK u : u = session.uc
    OBVIOUS
  <2>4. LeftOutIsCovered'
    <3>1. InputAssets(u)' = InputAssets(u) /\ \A s : Reason(s)' = Reason(s)
      BY <2>1 DEF Reason, InputAssets
    <3>2. ASSUME NEW a \in InputAssets(u) \ session'.assets
          PROVE  \E t \in DOMAIN store' : /\ store'[t].uc = u /\ store'[t].asset = a
                                          /\ \E s : s = store'[t] /\ Reason(s)' = "fresh"
      <4>1. a \notin Affected(u, Stale(u)) /\ a \in InputAssets(u)
        BY <2>1, <2>2, <2>3, <3>2 DEF ToAnalyse
      <4>2. a \in AssetsOf(ApprovedFor(u) \ Stale(u))
        BY <4>1 DEF Affected
      <4>3. PICK s \in ApprovedFor(u) \ Stale(u) : s.asset = a
        BY <4>2 DEF AssetsOf
      <4>4. Reason(s) = "fresh"
        BY <4>3 DEF Stale
      <4>5. PICK t \in DOMAIN store : store[t].uc = u /\ s = store[t]
        BY <4>3 DEF ApprovedFor
      <4>6. QED
        BY <2>1, <3>1, <4>3, <4>4, <4>5
    <3>3. QED
      BY <2>2, <2>3, <3>1, <3>2, CoveredNext
  <2>5. QED
    BY <1>0, <2>1, <2>4 DEF LeftInv
<1>4. CASE KeepStale
  <2>1. /\ session'.uc = session.uc /\ session'.assets = session.assets
        /\ step = "stale" /\ step' = "pipeline" /\ UNCHANGED <<project, store>>
    BY <1>0, <1>4 DEF KeepStale, NoSession
  <2>2. LeftOutIsCovered'
    BY <2>1, FreshIsKept DEF LeftInv
  <2>3. QED
    BY <1>0, <2>1, <2>2 DEF LeftInv
<1>5. ASSUME NEW reason \in {"removed", "context", "facts"}, Retire(reason) PROVE LeftInv'
  <2> DEFINE gone == {s \in session.due : Reason(s) = reason}
  <2>1. /\ session' = [session EXCEPT !.due = @ \ gone]
        /\ store' = [t \in {x \in DOMAIN store : store[x] \notin gone} |-> store[t]]
        /\ step = "retire" /\ step' \in {"pipeline", "retire"} /\ project' = project
    BY <1>5 DEF Retire
  <2>2. session'.uc = session.uc /\ session'.assets = session.assets
    BY <1>0, <2>1 DEF NoSession
  <2>3. \A s : Reason(s) = "fresh" => s \notin gone
    OBVIOUS
  <2> HIDE DEF gone
  <2>4. \A t \in DOMAIN store : Reason(store[t]) = "fresh" =>
            t \in DOMAIN store' /\ store'[t] = store[t]
    BY <2>1, <2>3
  <2>5. LeftOutIsCovered'
    BY <2>1, <2>2, <2>4, FreshIsKept DEF LeftInv
  <2>6. QED
    BY <1>0, <2>1, <2>5 DEF LeftInv
<1>6. CASE RunPipeline /\ step' # "idle"
  <2>1. PICK queue, used : 
            /\ session' = [session EXCEPT !.queue = queue, !.used = used, !.at = 1]
            /\ step = "pipeline" /\ step' \in {"extra", "review"}
            /\ UNCHANGED <<project, store>>
    BY <1>6 DEF RunPipeline
  <2>2. session'.uc = session.uc /\ session'.assets = session.assets
    BY <1>0, <2>1 DEF NoSession
  <2>3. LeftOutIsCovered'
    BY <2>1, <2>2, FreshIsKept DEF LeftInv
  <2>4. QED
    BY <1>0, <2>1, <2>3 DEF LeftInv
<1>7. CASE Reviewing
  <2>1. /\ step \in {"review", "extra"} /\ step' \in {"review", "extra", "write"}
        /\ session'.uc = session.uc /\ session'.assets = session.assets
        /\ UNCHANGED <<project, store>>
    BY <1>0, <1>7, DuringReview
  <2>2. LeftOutIsCovered'
    BY <2>1, FreshIsKept DEF LeftInv
  <2>3. QED
    BY <1>0, <2>1, <2>2 DEF LeftInv
<1>8. CASE UNCHANGED clientvars
  <2>1. UNCHANGED <<project, store, session, step>>
    BY <1>8 DEF clientvars
  <2>3. (session.due = Stale(session.uc))' <=> session.due = Stale(session.uc)
    BY <2>1 DEF Stale, ApprovedFor, Reason, InputAssets
  <2>4. LeftOutIsCovered'
    <3>1. CASE step = "idle"
      BY <2>1, <3>1 DEF LeftOutIsCovered
    <3>2. CASE step # "idle"
      BY <2>1, <3>2, FreshIsKept DEF LeftInv
    <3>3. QED
      BY <3>1, <3>2
  <2>5. QED
    BY <1>0, <2>1, <2>3, <2>4 DEF LeftInv
<1>9. QED
  BY <1>1, <1>2, <1>3, <1>4, <1>5, <1>6, <1>7, <1>8, ClientNextCases
     DEF EditProject, WriteResults, Interrupt, LeftInv

(* When scrp_demo.py analyses only some assets again, each of the others   *)
(* keeps an approved threat that still matches its facts, up to the end of *)
(* the session.                                                            *)
THEOREM LeftOutIsCoveredHolds == Spec => []LeftOutIsCovered
<1>1. Init => LeftInv
  BY ClientInitially DEF Init, ClientInit, LeftInv, LeftOutIsCovered
<1>2. LeftInv /\ [Next]_vars => LeftInv'
  <2>1. [Next]_vars => [ClientNext]_clientvars
    BY DEF Next, Client, Demo, vars, clientvars
  <2>2. QED
    BY <2>1, LeftStep
<1>3. LeftInv => LeftOutIsCovered
  BY DEF LeftInv
<1>4. QED
  BY <1>1, <1>2, <1>3, PTL DEF Spec
----------------------------------------------------------------------------
(***************************************************************************)
(* Nothing is approved twice.  What a session saves bears its number and   *)
(* its mode; its list is of pairs of an asset and a pattern that differ,   *)
(* and in a live session none of them is approved under a whole id: a      *)
(* revision keeps its pair, and the store is the same until the save.      *)
(***************************************************************************)
OldRuns ==
    /\ \A t \in DOMAIN store : store[t].run \in Nat /\ store[t].run <= runs
    /\ step # "idle" => \A t \in DOMAIN store : store[t].run < runs

OfSession ==
    /\ \A i \in DOMAIN session.queue :
        LET s == session.queue[i]
        IN  s.run = runs /\ s.uc = session.uc /\ s.mode = session.mode /\ s.by = Ai
    /\ \A s \in session.approved :
        /\ s.run = runs /\ s.uc = session.uc /\ s.mode = session.mode
        /\ \/ s.by = Expert
           \/ \E i \in DOMAIN session.queue : i < session.at /\ s = session.queue[i]

Approved(u, a, p) ==
    \E t \in DOMAIN store : /\ store[t].uc = u /\ store[t].asset = a /\ store[t].pattern = p
                            /\ store[t].ref = "id"

NotApprovedYet ==
    session.mode = "live" =>
        /\ \A i \in DOMAIN session.queue :
            ~Approved(session.uc, session.queue[i].asset, session.queue[i].pattern)
        /\ \A i, j \in DOMAIN session.queue :
            session.queue[i].asset = session.queue[j].asset
            /\ session.queue[i].pattern = session.queue[j].pattern => i = j

OnceInv ==
    TypesInv /\ OldRuns /\ OfSession /\ NotApprovedYet /\ ApprovedOnceLive

LEMMA SkippedIsApproved ==
    ASSUME NEW a, NEW p
    PROVE  Skipped(a, p) <=> Approved(session.uc, a, p)
  BY DEF Skipped, ApprovedFor, Approved

LEMMA TwoSources == Ai # Expert
  BY DEF Ai, Expert

LEMMA OnceInitially == ClientInit => OnceInv
<1> SUFFICES ASSUME ClientInit PROVE OnceInv
  OBVIOUS
<1>1. DOMAIN store = {} /\ step = "idle" /\ session = NoSession
  BY DEF ClientInit
<1>2. TypesInv
  BY TypesInitially
<1>3. DOMAIN session.queue = {} /\ session.approved = {}
  BY <1>1, NoSessionTypes
<1>4. QED
  BY <1>1, <1>2, <1>3
     DEF OnceInv, OldRuns, OfSession, NotApprovedYet, ApprovedOnceLive

(* No session, or one that has neither proposed nor approved anything.     *)
LEMMA OnceOutside ==
    ASSUME OnceInv, TypesInv', runs' \in Nat, runs' >= runs,
           \A t \in DOMAIN store' : t \in DOMAIN store /\ store'[t] = store[t],
           DOMAIN session'.queue = {}, session'.approved = {},
           step' # "idle" => step # "idle" \/ runs' > runs
    PROVE  OnceInv'
<1>1. runs \in Nat
  BY DEF OnceInv, TypesInv, ReviewInv, ClientInv, Counters
<1>2. OldRuns'
  BY <1>1 DEF OnceInv, OldRuns
<1>3. ApprovedOnceLive'
  BY DEF OnceInv, ApprovedOnceLive
<1>4. OfSession' /\ NotApprovedYet'
  BY DEF OfSession, NotApprovedYet
<1>5. QED
  BY <1>2, <1>3, <1>4 DEF OnceInv

(* A step of the review: the list keeps its pairs in a live session.       *)
LEMMA OnceInReview ==
    ASSUME OnceInv, TypesInv', Reviewing,
           OfSession',
           session'.mode = "live" =>
                /\ DOMAIN session'.queue = DOMAIN session.queue
                /\ \A i \in DOMAIN session.queue :
                        /\ session'.queue[i].asset = session.queue[i].asset
                        /\ session'.queue[i].pattern = session.queue[i].pattern
    PROVE  OnceInv'
<1>1. /\ step \in {"review", "extra"} /\ step' \in {"review", "extra", "write"}
      /\ session'.uc = session.uc /\ session'.mode = session.mode
      /\ UNCHANGED <<store, runs>>
  BY DuringReview DEF OnceInv, TypesInv, ReviewInv, ClientInv, SessionShape
<1>2. OldRuns'
  BY <1>1 DEF OnceInv, OldRuns
<1>3. ApprovedOnceLive'
  BY <1>1 DEF OnceInv, ApprovedOnceLive
<1>4. NotApprovedYet'
  <2>1. ASSUME session'.mode = "live"
        PROVE  /\ \A i \in DOMAIN session.queue :
                    ~Approved(session.uc, session.queue[i].asset, session.queue[i].pattern)
               /\ \A i, j \in DOMAIN session.queue :
                    session.queue[i].asset = session.queue[j].asset
                    /\ session.queue[i].pattern = session.queue[j].pattern => i = j
    BY <1>1, <2>1 DEF OnceInv, NotApprovedYet
  <2>2. QED
    BY <1>1, <2>1 DEF NotApprovedYet, Approved
<1>5. QED
  BY <1>2, <1>3, <1>4 DEF OnceInv

(* A step that leaves the list and the approvals as they are, and puts     *)
(* nothing in the store.                                                   *)
LEMMA OnceKept ==
    ASSUME OnceInv, TypesInv', runs' = runs,
           \A t \in DOMAIN store' : t \in DOMAIN store /\ store'[t] = store[t],
           session'.queue = session.queue, session'.at = session.at,
           session'.approved = session.approved,
           session'.uc = session.uc, session'.mode = session.mode,
           step' # "idle" => step # "idle"
    PROVE  OnceInv'
<1>1. OldRuns'
  BY DEF OnceInv, OldRuns
<1>2. OfSession'
  BY DEF OnceInv, OfSession
<1>3. ApprovedOnceLive'
  BY DEF OnceInv, ApprovedOnceLive
<1>4. NotApprovedYet'
  BY DEF OnceInv, NotApprovedYet, Approved
<1>5. QED
  BY <1>1, <1>2, <1>3, <1>4 DEF OnceInv

LEMMA OncePipeline ==
    ASSUME OnceInv, TypesInv', RunPipeline
    PROVE  OnceInv'
<1>1. /\ ClientInv /\ session.assets \subseteq Assets /\ runs \in Nat
      /\ step = "pipeline" /\ session.approved = {}
  BY DEF RunPipeline, OnceInv, TypesInv, ReviewInv, ClientInv, Counters, SessionTypes
<1>2. /\ UNCHANGED <<store, runs>>
      /\ \/ step' = "idle" /\ session' = NoSession
         \/ /\ step' \in {"review", "extra"}
            /\ session'.uc = session.uc /\ session'.mode = session.mode
            /\ session'.approved = session.approved
            /\ Generated(session'.queue)
  BY <1>1, PipelineGenerates
<1>3. CASE step' = "idle" /\ session' = NoSession
  <2>1. DOMAIN session'.queue = {} /\ session'.approved = {}
    BY <1>3, NoSessionTypes
  <2>2. QED
    BY <1>1, <1>2, <1>3, <2>1, OnceOutside
<1>4. CASE step' \in {"review", "extra"}
  <2>1. /\ session'.uc = session.uc /\ session'.mode = session.mode
        /\ session'.approved = {}
        /\ Generated(session'.queue)
    BY <1>1, <1>2, <1>4
  <2>2. OldRuns'
    BY <1>1, <1>2 DEF OnceInv, OldRuns
  <2>3. ApprovedOnceLive'
    BY <1>2 DEF OnceInv, ApprovedOnceLive
  <2>4. ASSUME NEW i \in DOMAIN session'.queue
        PROVE  LET s == session'.queue[i]
               IN  /\ s.run = runs /\ s.uc = session.uc /\ s.mode = session.mode /\ s.by = Ai
                   /\ ~Approved(session.uc, s.asset, s.pattern)
    <3>1. PICK path, outcome :
            /\ ~Skipped(path.asset, path.pattern)
            /\ session'.queue[i] = Made(path, outcome, made + i, made + i)
      BY <2>1 DEF Generated
    <3>2. ~Approved(session.uc, path.asset, path.pattern)
      BY <3>1, SkippedIsApproved
    <3>3. LET s == Made(path, outcome, made + i, made + i)
          IN  /\ s.by = Ai /\ s.uc = session.uc /\ s.mode = session.mode /\ s.run = runs
              /\ s.asset = path.asset /\ s.pattern = path.pattern
      BY MadeFields
    <3>4. QED
      BY <3>1, <3>2, <3>3
  <2>5. OfSession'
    BY <1>2, <2>1, <2>4 DEF OfSession
  <2>6. NotApprovedYet'
    <3>1. \A i, j \in DOMAIN session'.queue :
            session'.queue[i].asset = session'.queue[j].asset
            /\ session'.queue[i].pattern = session'.queue[j].pattern => i = j
      BY <2>1 DEF Generated
    <3>2. QED
      BY <1>2, <2>1, <2>4, <3>1 DEF NotApprovedYet, Approved
  <2>7. QED
    BY <2>2, <2>3, <2>5, <2>6 DEF OnceInv
<1>5. QED
  BY <1>2, <1>3, <1>4

LEMMA OnceReview ==
    ASSUME OnceInv, TypesInv', Reviewing
    PROVE  OnceInv'
<1>0. /\ DOMAIN session = DOMAIN NoSession
      /\ step = "review" => session.at \in DOMAIN session.queue
      /\ DOMAIN session.queue = 1..Len(session.queue) /\ Len(session.queue) \in Nat
      /\ session.at \in Nat
      /\ OfSession
  BY DEF OnceInv, TypesInv, ReviewInv, ClientInv, SessionShape
<1>1. /\ session'.uc = session.uc /\ session'.mode = session.mode
      /\ UNCHANGED <<store, runs>> /\ step # "idle"
  BY <1>0, DuringReview
<1>2. ASSUME session'.queue = session.queue, session'.at \in Nat, session'.at >= session.at,
             \A s \in session'.approved :
                \/ s \in session.approved
                \/ \E i \in DOMAIN session.queue : i < session'.at /\ s = session.queue[i]
                \/ s.run = runs /\ s.uc = session.uc /\ s.mode = session.mode /\ s.by = Expert
      PROVE  OnceInv'
  <2>1. \A i \in DOMAIN session.queue :
            LET s == session.queue[i]
            IN  s.run = runs /\ s.uc = session.uc /\ s.mode = session.mode /\ s.by = Ai
    BY <1>0 DEF OfSession
  <2>2. ASSUME NEW s \in session'.approved
        PROVE  /\ s.run = runs /\ s.uc = session.uc /\ s.mode = session.mode
               /\ \/ s.by = Expert
                  \/ \E i \in DOMAIN session.queue : i < session'.at /\ s = session.queue[i]
    <3>1. CASE s \in session.approved
      <4>1. /\ s.run = runs /\ s.uc = session.uc /\ s.mode = session.mode
            /\ \/ s.by = Expert
               \/ \E i \in DOMAIN session.queue : i < session.at /\ s = session.queue[i]
        BY <1>0, <3>1 DEF OfSession
      <4>2. \A i \in DOMAIN session.queue : i < session.at => i < session'.at
        BY <1>0, <1>2
      <4>3. QED
        BY <4>1, <4>2
    <3>2. CASE \E i \in DOMAIN session.queue : i < session'.at /\ s = session.queue[i]
      BY <2>1, <3>2
    <3>3. QED
      BY <1>2, <3>1, <3>2
  <2>3. OfSession'
    BY <1>1, <1>2, <2>1, <2>2 DEF OfSession
  <2>4. QED
    BY <1>2, <2>3, OnceInReview
<1>3. ASSUME NEW approved, MoveOn(approved), approved \subseteq session.approved \cup {Current},
             step = "review"
      PROVE  OnceInv'
  <2>1. /\ session'.queue = session.queue /\ session'.at = session.at + 1
        /\ session'.approved = approved
    BY <1>0, <1>3 DEF MoveOn, NoSession
  <2>2. session.at \in DOMAIN session.queue /\ Current = session.queue[session.at]
        /\ session.at < session.at + 1
    BY <1>0, <1>3 DEF Current
  <2>3. \A s \in approved : s \in session.approved \/ s = session.queue[session.at]
    BY <1>3, <2>2
  <2>4. session'.at \in Nat /\ session'.at >= session.at /\ session.at < session'.at
    BY <1>0, <2>1
  <2>5. QED
    BY <1>2, <2>1, <2>2, <2>3, <2>4
<1>4. CASE Approve \/ Discard \/ RejectLast \/ RegenerateNone
  BY <1>3, <1>4 DEF Approve, Discard, RejectLast, RegenerateNone, Answer
<1>5. CASE ApproveAll
  <2> DEFINE rest == {session.queue[i] : i \in session.at..Len(session.queue)}
  <2>1. /\ session'.queue = session.queue /\ session'.at = Len(session.queue) + 1
        /\ session'.approved = session.approved \cup rest /\ step = "review"
    BY <1>0, <1>5 DEF ApproveAll, NoSession
  <2>2. session.at \in 1..Len(session.queue)
    BY <1>0, <2>1
  <2>3. \A i \in session.at..Len(session.queue) : i \in DOMAIN session.queue /\ i < session'.at
    BY <1>0, <2>1, <2>2
  <2>4. session'.at \in Nat /\ session'.at >= session.at
    BY <1>0, <2>1, <2>2
  <2>5. \A s \in session'.approved : s \in session.approved
            \/ \E i \in DOMAIN session.queue : i < session'.at /\ s = session.queue[i]
    BY <2>1, <2>3
  <2>6. QED
    BY <1>2, <2>1, <2>4, <2>5
<1>6. CASE Quit
  <2>1. /\ session'.queue = session.queue /\ session'.at = session.at
        /\ session'.approved = session.approved
    BY <1>0, <1>6 DEF Quit, AfterQuit, NoSession
  <2>2. QED
    BY <1>0, <1>2, <2>1
<1>7. CASE AddNothing
  <2>1. session' = session
    BY <1>7 DEF AddNothing
  <2>2. QED
    BY <1>0, <1>2, <2>1
<1>8. ASSUME NEW a, NEW p, AddExpert(a, p) PROVE OnceInv'
  <2> DEFINE own == Made([asset |-> a, pattern |-> p], "passed", made + 1, made + 1)
             s == [own EXCEPT !.by = Expert]
  <2>1. session' = [session EXCEPT !.approved = @ \cup {s}]
    BY <1>8 DEF AddExpert
  <2>2. s.run = runs /\ s.uc = session.uc /\ s.mode = session.mode /\ s.by = Expert
    BY DEF Made
  <2> HIDE DEF s
  <2>3. /\ session'.queue = session.queue /\ session'.at = session.at
        /\ session'.approved = session.approved \cup {s}
    BY <1>0, <2>1 DEF NoSession
  <2>4. \A r \in session'.approved : r \in session.approved \/ r = s
    BY <2>3
  <2>5. QED
    BY <1>0, <1>2, <2>2, <2>3, <2>4
<1>9. ASSUME NEW outcome \in Outcomes, Regenerate(outcome) PROVE OnceInv'
  <2> DEFINE path == [asset |-> Current.asset,
                      pattern |-> IF session.mode = "live" THEN Current.pattern
                                  ELSE Head(Alternatives(Current))]
             new == Revised(Current, path, outcome)
  <2>1. /\ step = "review" /\ Current = session.queue[session.at]
        /\ session.at \in DOMAIN session.queue
        /\ session' = [session EXCEPT !.queue[session.at] = new,
                                      !.rejections = @ + 1,
                                      !.used = @ \cup {<<path.asset, path.pattern>>}]
    BY <1>0, <1>9 DEF Regenerate, Answer, Current
  <2>2. /\ new.run = runs /\ new.uc = session.uc /\ new.mode = session.mode /\ new.by = Ai
        /\ new.asset = Current.asset
        /\ session.mode = "live" => new.pattern = Current.pattern
    BY MadeFields DEF Revised
  <2> HIDE DEF new, path
  <2>3. /\ session'.queue = [session.queue EXCEPT ![session.at] = new]
        /\ session'.at = session.at /\ session'.approved = session.approved
    BY <1>0, <2>1 DEF NoSession
  <2>4. /\ DOMAIN session'.queue = DOMAIN session.queue
        /\ session'.queue[session.at] = new
        /\ \A i \in DOMAIN session.queue : i # session.at => session'.queue[i] = session.queue[i]
    BY <2>1, <2>3
  <2>5. ASSUME NEW i \in DOMAIN session'.queue
        PROVE  LET s == session'.queue[i]
               IN  s.run = runs /\ s.uc = session.uc /\ s.mode = session.mode /\ s.by = Ai
    <3>1. CASE i = session.at
      BY <2>2, <2>4, <3>1
    <3>2. CASE i # session.at
      BY <1>0, <2>4, <3>2 DEF OfSession
    <3>3. QED
      BY <3>1, <3>2
  <2>6. ASSUME NEW s \in session'.approved
        PROVE  /\ s.run = runs /\ s.uc = session.uc /\ s.mode = session.mode
               /\ \/ s.by = Expert
                  \/ \E i \in DOMAIN session'.queue : i < session'.at /\ s = session'.queue[i]
    <3>1. /\ s.run = runs /\ s.uc = session.uc /\ s.mode = session.mode
          /\ \/ s.by = Expert
             \/ \E i \in DOMAIN session.queue : i < session.at /\ s = session.queue[i]
      BY <1>0, <2>3 DEF OfSession
    <3>2. \A i \in DOMAIN session.queue : i < session.at => i # session.at
      BY <1>0
    <3>3. QED
      BY <2>3, <2>4, <3>1, <3>2
  <2>7. OfSession'
    BY <1>1, <2>5, <2>6 DEF OfSession
  <2>8. ASSUME session'.mode = "live"
        PROVE  /\ DOMAIN session'.queue = DOMAIN session.queue
               /\ \A i \in DOMAIN session.queue :
                        /\ session'.queue[i].asset = session.queue[i].asset
                        /\ session'.queue[i].pattern = session.queue[i].pattern
    BY <1>1, <2>1, <2>2, <2>4, <2>8
  <2>9. QED
    BY <2>7, <2>8, OnceInReview
<1>10. QED
  BY <1>4, <1>5, <1>6, <1>7, <1>8, <1>9 DEF Reviewing

LEMMA OnceWrite ==
    ASSUME OnceInv, TypesInv', WriteResults
    PROVE  OnceInv'
<1>1. /\ store' = Commit(session.approved) /\ step = "write" /\ step' = "idle"
      /\ session' = NoSession /\ runs' = runs
  BY DEF WriteResults, counters
<1>2. /\ runs \in Nat
      /\ \A s \in session.approved : s.tid \notin DOMAIN store
      /\ \A t \in DOMAIN store : store[t].run \in Nat /\ store[t].run < runs
  BY <1>1 DEF OnceInv, OldRuns, TypesInv, ReviewInv, ClientInv, Counters, NewIds, NewId
<1>3. ASSUME NEW t \in DOMAIN store'
      PROVE  \/ t \in DOMAIN store /\ store'[t] = store[t]
             \/ store'[t] \in session.approved /\ store'[t].tid = t
  <2>1. CASE \E s \in session.approved : s.tid = t
    <3>1. store'[t] = CHOOSE s \in session.approved : s.tid = t
      BY <1>1, <2>1 DEF Commit
    <3>2. QED
      BY <2>1, <3>1
  <2>2. CASE ~ \E s \in session.approved : s.tid = t
    BY <1>1, <2>2 DEF Commit
  <2>3. QED
    BY <2>1, <2>2
<1>4. \A s \in session.approved : s.run = runs /\ s.uc = session.uc /\ s.mode = session.mode
  BY DEF OnceInv, OfSession
<1>5. OldRuns'
  BY <1>1, <1>2, <1>3, <1>4 DEF OldRuns
<1>6. OfSession' /\ NotApprovedYet'
  BY <1>1, NoSessionTypes DEF OfSession, NotApprovedYet
<1>7. ASSUME NEW s \in session.approved, s.by = Ai
      PROVE  \E i \in DOMAIN session.queue : s = session.queue[i]
  BY <1>7, TwoSources DEF OnceInv, OfSession
<1>8. ASSUME NEW t1 \in DOMAIN store', NEW t2 \in DOMAIN store', t1 # t2,
             store'[t1].run <= store'[t2].run, store'[t1].uc = store'[t2].uc,
             store'[t2].mode = "live", store'[t2].by = Ai, store'[t1].ref = "id",
             store'[t1].by = Ai \/ store'[t1].run < store'[t2].run,
             store'[t1].asset = store'[t2].asset, store'[t1].pattern = store'[t2].pattern
      PROVE  FALSE
  <2>1. CASE /\ t1 \in DOMAIN store /\ store'[t1] = store[t1]
             /\ t2 \in DOMAIN store /\ store'[t2] = store[t2]
    BY <1>8, <2>1 DEF OnceInv, ApprovedOnceLive
  <2>2. CASE store'[t1] \in session.approved /\ t2 \in DOMAIN store /\ store'[t2] = store[t2]
    <3>1. runs <= store[t2].run /\ store[t2].run \in Nat /\ store[t2].run < runs
      BY <1>2, <1>4, <1>8, <2>2
    <3>2. QED
      BY <1>2, <3>1
  <2>3. CASE t1 \in DOMAIN store /\ store'[t1] = store[t1] /\ store'[t2] \in session.approved
    <3>1. PICK i \in DOMAIN session.queue : store'[t2] = session.queue[i]
      BY <1>7, <1>8, <2>3
    <3>2. session.mode = "live" /\ store[t1].uc = session.uc
      BY <1>4, <1>8, <2>3
    <3>3. ~Approved(session.uc, session.queue[i].asset, session.queue[i].pattern)
      BY <3>2 DEF OnceInv, NotApprovedYet
    <3>4. QED
      BY <1>8, <2>3, <3>1, <3>2, <3>3 DEF Approved
  <2>4. CASE /\ store'[t1] \in session.approved /\ store'[t1].tid = t1
             /\ store'[t2] \in session.approved /\ store'[t2].tid = t2
    <3>1. store'[t1].by = Ai /\ session.mode = "live"
      BY <1>2, <1>4, <1>8, <2>4
    <3>2. PICK i \in DOMAIN session.queue : store'[t1] = session.queue[i]
      BY <1>7, <2>4, <3>1
    <3>3. PICK j \in DOMAIN session.queue : store'[t2] = session.queue[j]
      BY <1>7, <1>8, <2>4
    <3>4. i = j
      BY <1>8, <3>1, <3>2, <3>3 DEF OnceInv, NotApprovedYet
    <3>5. QED
      BY <1>8, <2>4, <3>2, <3>3, <3>4
  <2>5. QED
    BY <1>3, <2>1, <2>2, <2>3, <2>4
<1>9. ApprovedOnceLive'
  BY <1>8 DEF ApprovedOnceLive
<1>10. QED
  BY <1>5, <1>6, <1>9 DEF OnceInv

LEMMA OnceStep == OnceInv /\ [ClientNext]_clientvars => OnceInv'
<1> SUFFICES ASSUME OnceInv, [ClientNext]_clientvars PROVE OnceInv'
  OBVIOUS
<1>0. TypesInv' /\ DOMAIN session = DOMAIN NoSession /\ runs \in Nat
  BY TypesStep DEF OnceInv, TypesInv, ReviewInv, ClientInv, Counters, SessionShape
<1>1. ASSUME NEW u, NEW p, EditProject(u, p) PROVE OnceInv'
  BY <1>0, <1>1, OnceKept DEF EditProject
<1>2. ASSUME NEW u \in UseCases, NEW mode, NEW fresh \in BOOLEAN, Begin(u, mode, fresh)
      PROVE  OnceInv'
  <2>1. PICK stale : session' = [NoSession EXCEPT !.uc = u, !.mode = mode, !.due = stale,
                                                  !.assets = InputAssets(u)]
    BY <1>2 DEF Begin
  <2>2. DOMAIN session'.queue = {} /\ session'.approved = {}
    BY <2>1 DEF NoSession
  <2>3. /\ runs' = runs + 1
        /\ \A t \in DOMAIN store' : t \in DOMAIN store /\ store'[t] = store[t]
    BY <1>2 DEF Begin
  <2>4. runs' \in Nat /\ runs' >= runs /\ runs' > runs
    BY <1>0, <2>3
  <2>5. QED
    BY <1>0, <2>2, <2>3, <2>4, OnceOutside
<1>3. ASSUME NEW assets, NEW due, step # "idle", runs' = runs,
             session' = [session EXCEPT !.assets = assets, !.due = due],
             \A t \in DOMAIN store' : t \in DOMAIN store /\ store'[t] = store[t]
      PROVE  OnceInv'
  <2>1. /\ session'.queue = session.queue /\ session'.at = session.at
        /\ session'.approved = session.approved
        /\ session'.uc = session.uc /\ session'.mode = session.mode
    BY <1>0, <1>3 DEF NoSession
  <2>2. QED
    BY <1>0, <1>3, <2>1, OnceKept
<1>4. CASE AcceptStaleness
  <2>1. session' = [session EXCEPT !.assets = ToAnalyse(session.uc, session.due),
                                   !.due = session.due]
    BY <1>0, <1>4 DEF AcceptStaleness, NoSession
  <2>2. QED
    BY <1>3, <1>4, <2>1 DEF AcceptStaleness, counters
<1>5. CASE KeepStale
  <2>1. session' = [session EXCEPT !.assets = session.assets, !.due = {}]
    BY <1>0, <1>5 DEF KeepStale, NoSession
  <2>2. QED
    BY <1>3, <1>5, <2>1 DEF KeepStale, counters
<1>6. ASSUME NEW reason, Retire(reason) PROVE OnceInv'
  <2> DEFINE gone == {s \in session.due : Reason(s) = reason}
  <2>1. /\ session' = [session EXCEPT !.due = @ \ gone]
        /\ store' = [t \in {x \in DOMAIN store : store[x] \notin gone} |-> store[t]]
        /\ step = "retire" /\ runs' = runs
    BY <1>6 DEF Retire, counters
  <2> HIDE DEF gone
  <2>2. session' = [session EXCEPT !.assets = session.assets, !.due = session.due \ gone]
    BY <1>0, <2>1 DEF NoSession
  <2>3. \A t \in DOMAIN store' : t \in DOMAIN store /\ store'[t] = store[t]
    BY <2>1
  <2>4. QED
    BY <1>3, <2>1, <2>2, <2>3
<1>7. CASE RunPipeline
  BY <1>0, <1>7, OncePipeline
<1>8. CASE Reviewing
  BY <1>0, <1>8, OnceReview
<1>9. CASE WriteResults
  BY <1>0, <1>9, OnceWrite
<1>10. CASE Interrupt
  <2>1. DOMAIN session'.queue = {} /\ session'.approved = {} /\ step' = "idle"
        /\ store' = store /\ runs' = runs
    BY <1>10, NoSessionTypes DEF Interrupt, counters
  <2>2. QED
    BY <1>0, <2>1, OnceOutside
<1>11. CASE UNCHANGED clientvars
  BY <1>0, <1>11, OnceKept DEF clientvars
<1>12. QED
  BY <1>1, <1>2, <1>4, <1>5, <1>6, <1>7, <1>8, <1>9, <1>10, <1>11, ClientNextCases

(* A live session of scrp_demo.py never gets a pattern approved a second   *)
(* time for an asset of the use case, over retirements, interruptions and  *)
(* further sessions, where the first approval cites the pattern by its     *)
(* whole id.                                                               *)
THEOREM ApprovedOnceLiveHolds == Spec => []ApprovedOnceLive
<1>1. Init => OnceInv
  BY OnceInitially DEF Init
<1>2. OnceInv /\ [Next]_vars => OnceInv'
  <2>1. [Next]_vars => [ClientNext]_clientvars
    BY DEF Next, Client, Demo, vars, clientvars
  <2>2. QED
    BY <2>1, OnceStep
<1>3. OnceInv => ApprovedOnceLive
  BY DEF OnceInv
<1>4. QED
  BY <1>1, <1>2, <1>3, PTL DEF Spec
=============================================================================
