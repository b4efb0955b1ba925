------------------------------ MODULE ScrpDemo ------------------------------
(***************************************************************************)
(* The interactive client scrp_demo.py over many runs of the program: a    *)
(* session retires what the staleness check lists, skips the patterns that *)
(* are already approved, lets the reviewer decide on each new scenario, and*)
(* writes the approved ones in one save.  The user may edit the project    *)
(* between two sessions, and may stop the program at any step (Interrupt:  *)
(* Ctrl-C, or an exception of the fetch, which nothing catches).           *)
(*                                                                         *)
(* The gate and its retries are Orchestrator's, the save protocol is       *)
(* ScrsStore's: here a generation has one outcome and a save is one step.  *)
(***************************************************************************)
EXTENDS Selections, SequencesExt

CONSTANTS
    UseCases,       \* use cases of the project
    Retrieved,      \* the patterns found for an asset, best score first
    Recorded,       \* <<asset, pattern>> pairs with a recorded scenario
    MaxPaths,       \* --max-paths
    MaxRejections,  \* MAX_REJECTIONS
    Outcomes,       \* what a generation may give: see Outcome
    Expertise,      \* bound: <<asset, pattern>> pairs the reviewer may add
    MaxOdd,         \* bound: generations other than "passed"
    MaxMade,        \* bound: generations
    MaxSessions,    \* bound: sessions
    MaxEdits        \* bound: edits of the project

Assets == DOMAIN Retrieved
Patterns == UNION {ToSet(Retrieved[a]) : a \in Assets}

(* "short" passes the gate and cites the pattern by a part of its id;      *)
(* "flagged" does not pass; "none" is an answer without scenarios.         *)
Outcome == {"passed", "short", "flagged", "none"}
Ai == "ai"
Expert == "expert"

ASSUME ScrpDemoAssumption ==
    /\ Assets # {} /\ IsFiniteSet(Assets) /\ UseCases # {}
    /\ \A a \in Assets : Retrieved[a] \in Seq(Patterns) /\ IsInjective(Retrieved[a])
    /\ Recorded \subseteq Assets \X Patterns
    /\ Expertise \subseteq Assets \X Patterns
    /\ MaxPaths \in Nat /\ MaxRejections \in Nat \ {0} /\ MaxEdits \in Nat
    /\ Outcomes \subseteq Outcome /\ "passed" \in Outcomes

VARIABLES
    project,   \* the input file: the assets of a use case with their facts, and its text
    store,     \* threat_scenarios of SCRS_demo.json: tid to scenario
    history,   \* revision_history
    step,      \* where the session is
    session,   \* Session, and the locals of review_all and review_one
    made,      \* history: generations so far; also the source of new ids
    odd,       \* history: generations other than "passed"
    runs,      \* history: sessions so far
    edits,     \* history: edits of the project so far
    shown      \* history: revisions the reviewer has seen or waved through

clientvars == <<project, store, history, step, session, made, odd, runs, edits, shown>>
counters == <<made, odd, runs, edits>>

Steps == {"idle", "stale", "retire", "pipeline", "review", "extra", "write"}
Project == [facts : [Assets -> 0..MaxEdits], out : SUBSET Assets, text : 0..MaxEdits]
Scenario == [tid : Nat, rev : Nat, by : {Ai, Expert}, uc : UseCases, asset : Assets,
             pattern : Patterns, ref : {"id", "part"}, flagged : BOOLEAN,
             facts : 0..MaxEdits, text : 0..MaxEdits, mode : {"live", "replay"}, run : Nat]

NoSession == [uc |-> "", mode |-> "", assets |-> {}, due |-> {}, queue |-> <<>>, at |-> 0,
              rejections |-> 0, used |-> {}, approved |-> {}, quit |-> FALSE]

ClientInit ==
    /\ project = [u \in UseCases |-> [facts |-> [a \in Assets |-> 0], out |-> {}, text |-> 0]]
    /\ store = [t \in {} |-> t]
    /\ history = {}
    /\ step = "idle"
    /\ session = NoSession
    /\ made = 0 /\ odd = 0 /\ runs = 0 /\ edits = 0
    /\ shown = {}
----------------------------------------------------------------------------
(* The user edits an asset, takes one out, or changes the use case's text. *)
InputAssets(u) == Assets \ project[u].out

EditProject(u, p) ==
    /\ step = "idle"
    /\ edits < MaxEdits
    /\ project' = [project EXCEPT ![u] = p]
    /\ edits' = edits + 1
    /\ UNCHANGED <<store, history, step, session, made, odd, runs, shown>>

Edited(u) ==
    LET p == project[u]
    IN  {[p EXCEPT !.facts[a] = @ + 1] : a \in InputAssets(u)}
        \cup {[p EXCEPT !.text = @ + 1]}
        \cup {q \in {[p EXCEPT !.out = @ \cup {a}] : a \in InputAssets(u)} : q.out # Assets}

(* approved_for and check_staleness of staleness.py.                       *)
ApprovedFor(u) == {store[t] : t \in {t \in DOMAIN store : store[t].uc = u}}

Reason(s) ==
    CASE s.asset \notin InputAssets(s.uc) -> "removed"
      [] s.text # project[s.uc].text -> "context"
      [] s.asset \in InputAssets(s.uc) /\ s.text = project[s.uc].text
         /\ s.facts # project[s.uc].facts[s.asset] -> "facts"
      [] OTHER -> "fresh"

Stale(u) == {s \in ApprovedFor(u) : Reason(s) # "fresh"}
AssetsOf(S) == {s.asset : s \in S}

(* The assets to analyse again: changed ones, and those without a threat.  *)
Changed(u, stale) == AssetsOf({s \in stale : Reason(s) # "removed"})

MutantAffected(u, stale) ==      \* Mutant: assets without a threat are not counted
    IF \E s \in stale : Reason(s) = "context" THEN InputAssets(u) ELSE Changed(u, stale)

Affected(u, stale) ==
    IF \E s \in stale : Reason(s) = "context"
    THEN InputAssets(u)
    ELSE Changed(u, stale) \cup (InputAssets(u) \ AssetsOf(ApprovedFor(u) \ stale))

(* handle_staleness: if nothing is affected, everything is analysed.       *)
ToAnalyse(u, stale) ==
    IF Affected(u, stale) = {} THEN InputAssets(u) ELSE Affected(u, stale)

Begin(u, mode, fresh) ==
    /\ step = "idle"
    /\ runs < MaxSessions
    /\ runs' = runs + 1
    /\ IF fresh
       THEN store' = [t \in {} |-> t] /\ history' = {}
       ELSE UNCHANGED <<store, history>>
    /\ LET stale == IF fresh THEN {} ELSE Stale(u)
       IN  /\ session' = [NoSession EXCEPT !.uc = u, !.mode = mode, !.due = stale,
                                           !.assets = InputAssets(u)]
           /\ step' = IF stale = {} THEN "pipeline" ELSE "stale"
    /\ UNCHANGED <<project, made, odd, edits, shown>>

(* "Retire them and re-run the affected assets?"  If not, they are kept.   *)
AcceptStaleness ==
    /\ step = "stale"
    /\ session' = [session EXCEPT !.assets = ToAnalyse(session.uc, session.due)]
    /\ step' = "retire"
    /\ UNCHANGED <<project, store, history, counters, shown>>

KeepStale ==
    /\ step = "stale"
    /\ session' = [session EXCEPT !.due = {}]
    /\ step' = "pipeline"
    /\ UNCHANGED <<project, store, history, counters, shown>>

Note(action, s) == [action |-> action, s |-> s]

(* Each reason is a call of retire_scenarios and a save of its own.        *)
MutantRetired(S) == history      \* Mutant: nothing is written to the history
Retired(S) == history \cup {Note("stale", s) : s \in S}

Retire(reason) ==
    /\ step = "retire"
    /\ LET batch == {s \in session.due : Reason(s) = reason}
       IN  /\ batch # {}
           /\ session' = [session EXCEPT !.due = @ \ batch]
           /\ history' = Retired(batch)
           /\ store' = [t \in {x \in DOMAIN store : store[x] \notin batch} |-> store[t]]
           /\ step' = IF session.due = batch THEN "pipeline" ELSE "retire"
    /\ UNCHANGED <<project, counters, shown>>
----------------------------------------------------------------------------
(* load_previous: what is approved is skipped, under the id it cites.      *)
MutantSkipped(a, p) == FALSE     \* Mutant: the skip list is never read
Skipped(a, p) ==
    \E s \in ApprovedFor(session.uc) : s.asset = a /\ s.pattern = p /\ s.ref = "id"

Left(a) == Picked(Retrieved[a], {i \in DOMAIN Retrieved[a] : ~Skipped(a, Retrieved[a][i])})

(* One path from each asset in turn, up to MaxPaths.  Which asset comes    *)
(* first is decided by scores the model leaves out: any order of them.     *)
Orders(S) == {o \in [1..Cardinality(S) -> S] : ToSet(o) = S}

Turns(order) ==
    {t \in (1..Cardinality(Patterns)) \X DOMAIN order : t[1] <= Len(Left(order[t[2]]))}

PathOf(order, t) == [asset |-> order[t[2]], pattern |-> Left(order[t[2]])[t[1]]]

Chosen(order) ==
    LET turns == Ordered(Turns(order), LAMBDA x, y : x[1] < y[1] \/ (x[1] = y[1] /\ x[2] < y[2]))
        taken == First(MaxPaths, turns)
    IN  [n \in DOMAIN taken |-> PathOf(order, taken[n])]

(* Replay.generate gives the recorded scenario of the path, once.          *)
Possible(path, used) ==
    IF session.mode = "live" THEN Outcomes
    ELSE IF <<path.asset, path.pattern>> \in Recorded \ used
         THEN Outcomes \cap {"passed", "flagged"} ELSE {"none"}

Made(path, outcome, tid, rev) ==
    [tid |-> tid, rev |-> rev, by |-> Ai, uc |-> session.uc, asset |-> path.asset,
     pattern |-> path.pattern, ref |-> IF outcome = "short" THEN "part" ELSE "id",
     flagged |-> outcome = "flagged", facts |-> project[session.uc].facts[path.asset],
     text |-> project[session.uc].text, mode |-> session.mode, run |-> runs]

OddOf(out) ==
    IF session.mode = "live" THEN Cardinality({n \in DOMAIN out : out[n] # "passed"})
    ELSE Cardinality({n \in DOMAIN out : out[n] = "flagged"})

(* The paths that gave a scenario, in their order.                         *)
Ascending(n, S) ==
    {kept \in [1..n -> S] : ToSet(kept) = S /\ \A i, j \in 1..n : i < j => kept[i] < kept[j]}

(* Session.run_pipeline; a session with nothing to show ends.              *)
Proposed(paths, out, kept) ==
    [i \in DOMAIN kept |-> Made(paths[kept[i]], out[kept[i]], made + i, made + i)]

RunPipeline ==
    /\ step = "pipeline"
    /\ \E order \in Orders(session.assets) :
        LET paths == Chosen(order)
        IN  \E out \in [DOMAIN paths -> Outcome] :
            /\ \A k \in DOMAIN paths : out[k] \in Possible(paths[k], {})
            /\ odd + OddOf(out) <= MaxOdd
            /\ odd' = odd + OddOf(out)
            /\ \E n \in 0..MaxPaths :
               \E kept \in Ascending(n, {k \in DOMAIN paths : out[k] # "none"}) :
                /\ made + n <= MaxMade
                /\ made' = made + n
                /\ IF n = 0 /\ ApprovedFor(session.uc) = {}
                   THEN step' = "idle" /\ session' = NoSession
                   ELSE /\ step' = IF n = 0 THEN "extra" ELSE "review"
                        /\ session' = [session EXCEPT
                            !.queue = Proposed(paths, out, kept),
                            !.used = {<<paths[k].asset, paths[k].pattern>> : k \in ToSet(kept)},
                            !.at = 1]
    /\ UNCHANGED <<project, store, history, runs, edits, shown>>
----------------------------------------------------------------------------
(* review_all and review_one.  Every answer is about the scenario on show. *)
Current == session.queue[session.at]

Logged(action) == IF action = "approve" THEN {} ELSE {Note(action, Current)}

Answer(action) ==
    /\ step = "review"
    /\ shown' = shown \cup {Current.rev}
    /\ history' = history \cup Logged(action)
    /\ UNCHANGED <<project, store, runs, edits>>

MoveOn(approved) ==
    /\ session' = [session EXCEPT !.at = @ + 1, !.rejections = 0, !.approved = approved]
    /\ step' = IF session.at = Len(session.queue) THEN "extra" ELSE "review"
    /\ UNCHANGED <<made, odd>>

Approve == Answer("approve") /\ MoveOn(session.approved \cup {Current})

Discard == Answer("prune") /\ MoveOn(session.approved)

(* "all": the rest is approved without being shown.                        *)
ApproveAll ==
    /\ step = "review"
    /\ LET rest == {session.queue[i] : i \in session.at..Len(session.queue)}
       IN  /\ session' = [session EXCEPT !.approved = @ \cup rest,
                                         !.at = Len(session.queue) + 1]
           /\ shown' = shown \cup {s.rev : s \in rest}
    /\ step' = "extra"
    /\ UNCHANGED <<project, store, history, counters>>

MutantAfterQuit(approved) == ToSet(session.queue)  \* Mutant: what was not reviewed is written too
AfterQuit(approved) == approved

Quit ==
    /\ step = "review"
    /\ session' = [session EXCEPT !.quit = TRUE, !.approved = AfterQuit(session.approved)]
    /\ step' = "extra"
    /\ UNCHANGED <<project, store, history, counters, shown>>

(* The path a rejected scenario is made again from.  Recorded mode takes   *)
(* the best other pattern of the asset that has a recording left, and does *)
(* not ask whether it is approved already.                                 *)
Alternatives(s) ==
    LET found == Retrieved[s.asset]
    IN  Picked(found, {i \in DOMAIN found : /\ found[i] # s.pattern
                                            /\ <<s.asset, found[i]>> \in Recorded \ session.used})

MutantRejectedAgain == session.rejections >= MaxRejections  \* Mutant: one rejection more
RejectedAgain == session.rejections + 1 >= MaxRejections

RejectLast ==
    /\ RejectedAgain
    /\ Answer("reject")
    /\ MoveOn(session.approved)

(* regenerate: the tid stays, the content is new.                          *)
Revised(s, path, outcome) == Made(path, outcome, s.tid, made + 1)

Regenerate(outcome) ==
    /\ ~RejectedAgain
    /\ outcome # "none"
    /\ Answer("reject")
    /\ session.mode = "replay" => Alternatives(Current) # <<>>
    /\ made < MaxMade
    /\ odd + (IF outcome = "passed" THEN 0 ELSE 1) <= MaxOdd
    /\ LET path == [asset |-> Current.asset,
                    pattern |-> IF session.mode = "live" THEN Current.pattern
                                ELSE Head(Alternatives(Current))]
       IN  /\ outcome \in Possible(path, session.used)
           /\ session' = [session EXCEPT
                !.queue[session.at] = Revised(Current, path, outcome),
                !.rejections = @ + 1,
                !.used = @ \cup {<<path.asset, path.pattern>>}]
    /\ made' = made + 1
    /\ odd' = odd + (IF outcome = "passed" THEN 0 ELSE 1)
    /\ step' = "review"

(* "No new version could be produced."                                     *)
RegenerateNone ==
    /\ ~RejectedAgain
    /\ Answer("reject")
    /\ IF session.mode = "live" THEN "none" \in Outcomes ELSE Alternatives(Current) = <<>>
    /\ MoveOn(session.approved)

(* A scenario of the reviewer's own, that the knowledge base and the       *)
(* validator accept; its log entry is saved at once, the scenario later.   *)
AddExpert(a, p) ==
    /\ step = "extra"
    /\ a \in session.assets
    /\ session.at > 1 \/ ApprovedFor(session.uc) # {}
    /\ made < MaxMade
    /\ made' = made + 1
    /\ LET s == [Made([asset |-> a, pattern |-> p], "passed", made + 1, made + 1)
                    EXCEPT !.by = Expert]
       IN  /\ session' = [session EXCEPT !.approved = @ \cup {s}]
           /\ history' = history \cup {Note("add", s)}
           /\ shown' = shown \cup {s.rev}
    /\ step' = "write"
    /\ UNCHANGED <<project, store, odd, runs, edits>>

AddNothing ==
    /\ step = "extra"
    /\ step' = "write"
    /\ UNCHANGED <<project, store, history, session, counters, shown>>

(* write_results: one save, under the tids.                                *)
Commit(S) ==
    [t \in DOMAIN store \cup {s.tid : s \in S} |->
        IF \E s \in S : s.tid = t THEN CHOOSE s \in S : s.tid = t ELSE store[t]]

WriteResults ==
    /\ step = "write"
    /\ store' = Commit(session.approved)
    /\ step' = "idle"
    /\ session' = NoSession
    /\ UNCHANGED <<project, history, counters, shown>>

(* The program ends here; what it had not saved is lost.                   *)
Interrupt ==
    /\ step # "idle"
    /\ step' = "idle"
    /\ session' = NoSession
    /\ UNCHANGED <<project, store, history, counters, shown>>

ClientNext ==
    \/ \E u \in UseCases : \E p \in Edited(u) : EditProject(u, p)
    \/ \E u \in UseCases, mode \in {"live", "replay"}, fresh \in BOOLEAN : Begin(u, mode, fresh)
    \/ AcceptStaleness \/ KeepStale
    \/ \E reason \in {"removed", "context", "facts"} : Retire(reason)
    \/ RunPipeline
    \/ Approve \/ Discard \/ ApproveAll \/ Quit
    \/ RejectLast \/ RegenerateNone \/ \E outcome \in Outcomes : Regenerate(outcome)
    \/ \E pair \in Expertise : AddExpert(pair[1], pair[2])
    \/ AddNothing \/ WriteResults \/ Interrupt

ClientSpec == ClientInit /\ [][ClientNext]_clientvars
----------------------------------------------------------------------------
ClientTypeOK ==
    /\ project \in [UseCases -> Project]
    /\ \A t \in DOMAIN store : store[t] \in Scenario /\ store[t].tid = t
    /\ \A h \in history : h.s \in Scenario /\ h.action \in {"stale", "reject", "prune", "add"}
    /\ step \in Steps /\ (step = "idle") = (session = NoSession)
    /\ ToSet(session.queue) \cup session.approved \cup session.due \subseteq Scenario
    /\ session.rejections \in 0..(MaxRejections - 1)
    /\ session.approved \cap session.due = {}
    /\ shown \subseteq 1..made

Refused == {h.s : h \in {x \in history : x.action \in {"reject", "prune"}}}

(* What is decided in the review stands: every saved scenario is, in the   *)
(* very revision that is saved, one the reviewer saw, added, or waved      *)
(* through with "all", and never one that was rejected or discarded; and a *)
(* review that is not quit leaves no proposal undecided, although revisions*)
(* replace each other under one tid in the list it walks.                  *)
DecisionsStand ==
    /\ \A t \in DOMAIN store : store[t].rev \in shown
    /\ \A t \in DOMAIN store : \A r \in Refused : r.rev # store[t].rev
    /\ step \in {"extra", "write"} /\ ~session.quit =>
            ToSet(session.queue) \subseteq session.approved \cup Refused

(* A live session never gets a pattern approved a second time for an asset *)
(* of the use case, over retirements, interruptions and further sessions,  *)
(* where the first approval cites the pattern by its whole id.             *)
ApprovedOnceLive ==
    \A t1, t2 \in DOMAIN store :
        LET old == store[t1]
            new == store[t2]
        IN  /\ t1 # t2 /\ old.run <= new.run /\ old.uc = new.uc
            /\ new.mode = "live" /\ new.by = Ai /\ old.ref = "id"
            /\ old.by = Ai \/ old.run < new.run
            => <<old.asset, old.pattern>> # <<new.asset, new.pattern>>

(* When only some assets are analysed again, each of the others keeps an   *)
(* approved threat that still matches its facts (handle_staleness).        *)
LeftOutIsCovered ==
    step # "idle" =>
        \A a \in InputAssets(session.uc) \ session.assets :
            \E s \in ApprovedFor(session.uc) : s.asset = a /\ Reason(s) = "fresh"

(* No approved scenario leaves the store or changes in it unless the       *)
(* history keeps it as stale, or the user asked for --fresh.               *)
ApprovedIsNeverLost ==
    [][ \/ \A t \in DOMAIN store :
            \/ t \in DOMAIN store' /\ store'[t] = store[t]
            \/ Note("stale", store[t]) \in history'
        \/ runs' > runs /\ history' = {} ]_clientvars
=============================================================================
