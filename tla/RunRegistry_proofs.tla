------------------------- MODULE RunRegistry_proofs -------------------------
(***************************************************************************)
(* Proofs about RunRegistry for any number of requests, scenarios and      *)
(* saves and any cap.  TypeOK and PrunedStaysOut hold however the run id   *)
(* and /reject are used; NothingDropped and the life of a run hold when    *)
(* the id is used once and one reviewer rejects at a time (AsDocumented).  *)
(***************************************************************************)
EXTENDS RunRegistry, TLAPS

USE ConstantsAssumption DEF ConstantsAssumption

AsDocumented == Resubmit = FALSE /\ OneReviewer = TRUE

(* A rejection leaves a row.                                               *)
LEMMA RejectionType ==
    ASSUME run \in Rows, NEW p, snap[p].list \subseteq Scenarios,
           NEW st \in Statuses, NEW ls \in SUBSET Scenarios, Rejection(p, st, ls)
    PROVE  run' \in Rows
<1> DEFINE n == run.rejections + 1
           r == run.rejected \cup snap[p].list
<1>1. n \in Nat /\ r \in SUBSET Scenarios
  BY DEF Rows
<1>2. run' = [run EXCEPT !.status = st, !.list = ls, !.rejections = n, !.rejected = r]
  BY DEF Rejection
<1> HIDE DEF n, r
<1>3. QED
  BY <1>1, <1>2 DEF Rows

(* Every reachable state is well typed.                                    *)
THEOREM TypeCorrect == Spec => []TypeOK
<1> USE DEF TypeOK, Rows, Statuses, Phases, NoRun, NoSnap, requests
<1>1. Init => TypeOK
  BY DEF Init
<1>2. TypeOK /\ [Next]_vars => TypeOK'
  <2> SUFFICES ASSUME TypeOK, [Next]_vars PROVE TypeOK'
    OBVIOUS
  <2>1. ASSUME NEW new \in Fresh, Analyze(new) PROVE TypeOK'
    BY <2>1 DEF Analyze, Fresh
  <2>2. CASE Restore
    BY <2>2 DEF Restore
  <2>3. CASE OtherSave
    BY <2>3 DEF OtherSave, Saved
  <2>4. ASSUME NEW p \in Requests, Start(p) PROVE TypeOK'
    BY <2>4 DEF Start, Goto
  <2>5. ASSUME NEW p \in Requests, Abort(p) PROVE TypeOK'
    BY <2>5 DEF Abort, End
  <2>6. ASSUME NEW p \in Requests, ApproveTransition(p) PROVE TypeOK'
    BY <2>6 DEF ApproveTransition, Goto
  <2>7. ASSUME NEW p \in Requests, ApproveCommit(p) PROVE TypeOK'
    BY <2>7 DEF ApproveCommit, Saved, End
  <2>8. ASSUME NEW p \in Requests, RejectRead(p) PROVE TypeOK'
    BY <2>8 DEF RejectRead, Goto
  <2>9. ASSUME NEW p \in Requests, RejectLog(p) PROVE TypeOK'
    BY <2>9 DEF RejectLog, Saved, Goto
  <2>10. ASSUME NEW p \in Requests, Escalate(p) PROVE TypeOK'
    <3>1. snap[p].list \subseteq Scenarios
      OBVIOUS
    <3>2. run' \in Rows
      <4>1. run.list \in SUBSET Scenarios /\ Rejection(p, "rejected", run.list)
        BY <2>10 DEF Escalate
      <4>2. QED
        BY ONLY run \in Rows, <3>1, <4>1, RejectionType DEF Statuses
    <3>3. UNCHANGED <<scrs, used>> /\ End(p)
      BY <2>10 DEF Escalate
    <3>4. QED
      BY <3>2, <3>3 DEF End
  <2>11. ASSUME NEW p \in Requests, EditLog(p) PROVE TypeOK'
    BY <2>11 DEF EditLog, Saved, End
  <2>12. ASSUME NEW p \in Requests, NEW new \in Fresh, Regenerate(p, new) PROVE TypeOK'
    <3>1. snap[p].list \subseteq Scenarios /\ new \subseteq Scenarios
      BY DEF Fresh
    <3>2. run' \in Rows
      <4>1. Rejection(p, "pending_human", new)
        BY <2>12 DEF Regenerate
      <4>2. QED
        BY ONLY run \in Rows, <3>1, <4>1, RejectionType DEF Statuses
    <3>3. UNCHANGED scrs /\ used' = used \cup new /\ End(p)
      BY <2>12 DEF Regenerate
    <3>4. QED
      BY <3>1, <3>2, <3>3 DEF End
  <2>13. ASSUME NEW p \in Requests, NEW s \in Scenarios, Prune(p, s) PROVE TypeOK'
    BY <2>13 DEF Prune, Goto
  <2>14. ASSUME NEW p \in Requests, NEW s \in Scenarios, Add(p, s) PROVE TypeOK'
    BY <2>14 DEF Add, Goto
  <2>15. CASE UNCHANGED vars
    BY <2>15 DEF vars
  <2>16. QED
    BY <2>1, <2>2, <2>3, <2>4, <2>5, <2>6, <2>7, <2>8, <2>9, <2>10, <2>11, <2>12, <2>13,
       <2>14, <2>15 DEF Next
<1>3. QED
  BY <1>1, <1>2, PTL DEF Spec
----------------------------------------------------------------------------
(***************************************************************************)
(* Pruned scenarios.  PrunedStaysOut alone is not inductive: a commit      *)
(* stores what its approval took earlier.  Nothing that was taken or stored*)
(* is up for review (Apart), so that no later prune can be about it.       *)
(***************************************************************************)
HandedOut ==
    /\ scrs.threats \subseteq used /\ run.list \subseteq used /\ run.pruned \subseteq used
    /\ \A p \in Requests : taken[p] \subseteq used

Apart ==
    run.status = "pending_human" =>
        /\ scrs.threats \cap run.list = {}
        /\ \A p \in Requests : taken[p] \cap run.list = {}

PrunedIsGone ==
    /\ run.pruned \cap run.list = {}
    /\ \A p \in Requests : taken[p] \cap run.pruned = {}

PruneInv == TypeOK /\ HandedOut /\ Apart /\ PrunedIsGone /\ PrunedStaysOut

(* A scenario the expert pruned is never saved as approved, whichever      *)
(* approvals, rejections and regenerations ran at the same time.           *)
THEOREM PrunedStaysOutHolds == Spec => []PrunedStaysOut
<1> USE DEF PruneInv, HandedOut, Apart, PrunedIsGone, PrunedStaysOut
<1>1. Init => PruneInv
  <2>1. Init => TypeOK
    BY DEF Init, TypeOK, Rows, Statuses, Phases, NoRun, NoSnap
  <2>2. QED
    BY <2>1 DEF Init, NoRun
<1>2. PruneInv /\ TypeOK' /\ [Next]_vars => PruneInv'
  <2> SUFFICES ASSUME PruneInv, TypeOK', [Next]_vars PROVE PruneInv'
    OBVIOUS
  <2> USE DEF TypeOK, Rows, requests
  <2>1. ASSUME NEW new \in Fresh, Analyze(new) PROVE PruneInv'
    BY <2>1 DEF Analyze, Fresh, NoRun
  <2>2. CASE Restore
    BY <2>2 DEF Restore, NoRun
  <2>3. CASE OtherSave
    BY <2>3 DEF OtherSave, Saved
  <2>4. ASSUME NEW p \in Requests, Start(p) PROVE PruneInv'
    BY <2>4 DEF Start
  <2>5. ASSUME NEW p \in Requests, Abort(p) PROVE PruneInv'
    BY <2>5 DEF Abort, End
  <2>6. ASSUME NEW p \in Requests, ApproveTransition(p) PROVE PruneInv'
    BY <2>6 DEF ApproveTransition
  <2>7. ASSUME NEW p \in Requests, ApproveCommit(p) PROVE PruneInv'
    BY <2>7 DEF ApproveCommit, Saved, End
  <2>8. ASSUME NEW p \in Requests, RejectRead(p) PROVE PruneInv'
    BY <2>8 DEF RejectRead
  <2>9. ASSUME NEW p \in Requests, RejectLog(p) PROVE PruneInv'
    BY <2>9 DEF RejectLog, Saved
  <2>10. ASSUME NEW p \in Requests, Escalate(p) PROVE PruneInv'
    BY <2>10 DEF Escalate, Rejection, End
  <2>11. ASSUME NEW p \in Requests, EditLog(p) PROVE PruneInv'
    BY <2>11 DEF EditLog, Saved, End
  <2>12. ASSUME NEW p \in Requests, NEW new \in Fresh, Regenerate(p, new) PROVE PruneInv'
    BY <2>12 DEF Regenerate, Rejection, End, Fresh
  <2>13. ASSUME NEW p \in Requests, NEW s \in Scenarios, Prune(p, s) PROVE PruneInv'
    BY <2>13 DEF Prune
  <2>14. ASSUME NEW p \in Requests, NEW s \in Scenarios, Add(p, s) PROVE PruneInv'
    BY <2>14 DEF Add
  <2>15. CASE UNCHANGED vars
    BY <2>15 DEF vars
  <2>16. QED
    BY <2>1, <2>2, <2>3, <2>4, <2>5, <2>6, <2>7, <2>8, <2>9, <2>10, <2>11, <2>12, <2>13,
       <2>14, <2>15 DEF Next
<1>3. PruneInv => PrunedStaysOut
  OBVIOUS
<1>4. QED
  BY <1>1, <1>2, <1>3, TypeCorrect, PTL DEF Spec
----------------------------------------------------------------------------
(***************************************************************************)
(* The life of the run.  A handler works with what it read: an approval    *)
(* with the list of its own transition, a rejection with the list and the  *)
(* count of its first read.  With one reviewer and one use of the id, both *)
(* still describe the row when they are used.                              *)
(***************************************************************************)
Rejecting(p) == pc[p] \in {"rejecting", "logged"}

NotYetKnown == run.status = "none" => run = NoRun /\ used \subseteq scrs.threats

OneRejects == \A p, q \in Requests : Rejecting(p) /\ Rejecting(q) => p = q

RejectsWhatItRead ==
    \A p \in Requests : Rejecting(p) =>
        /\ run.status # "none"
        /\ run.status = "pending_human" =>
              run.list \subseteq snap[p].list \cup run.added /\ run.rejections = snap[p].rejections

ApprovesWhatItTook ==
    \A p \in Requests : pc[p] = "approving" => run.status = "approved" /\ taken[p] = run.list

LifeInv ==
    /\ TypeOK
    /\ NotYetKnown
    /\ OneRejects
    /\ RejectsWhatItRead
    /\ ApprovesWhatItTook
    /\ NothingDropped

(* The invariant of the life of a run.                                     *)
THEOREM LifeInvariant == ASSUME AsDocumented PROVE Spec => []LifeInv
<1> USE DEF LifeInv, NotYetKnown, OneRejects, Rejecting, RejectsWhatItRead,
            ApprovesWhatItTook, NothingDropped
<1>1. Init => LifeInv
  <2>1. Init => TypeOK
    BY DEF Init, TypeOK, Rows, Statuses, Phases, NoRun, NoSnap
  <2>2. QED
    BY <2>1 DEF Init, NoRun
<1>2. ASSUME AsDocumented PROVE LifeInv /\ TypeOK' /\ [Next]_vars => LifeInv'
  <2> SUFFICES ASSUME LifeInv, TypeOK', [Next]_vars PROVE LifeInv'
    OBVIOUS
  <2> USE <1>2 DEF AsDocumented, TypeOK, Rows, requests
  <2>1. ASSUME NEW new \in Fresh, Analyze(new) PROVE LifeInv'
    BY <2>1 DEF Analyze, Fresh, NoRun
  <2>2. CASE Restore
    BY <2>2 DEF Restore, NoRun
  <2>3. CASE OtherSave
    BY <2>3 DEF OtherSave, Saved
  <2>4. ASSUME NEW p \in Requests, Start(p) PROVE LifeInv'
    BY <2>4 DEF Start, Goto
  <2>5. ASSUME NEW p \in Requests, Abort(p) PROVE LifeInv'
    BY <2>5 DEF Abort, End
  <2>6. ASSUME NEW p \in Requests, ApproveTransition(p) PROVE LifeInv'
    BY <2>6 DEF ApproveTransition, Goto
  <2>7. ASSUME NEW p \in Requests, ApproveCommit(p) PROVE LifeInv'
    BY <2>7 DEF ApproveCommit, Saved, End
  <2>8. ASSUME NEW p \in Requests, RejectRead(p) PROVE LifeInv'
    BY <2>8 DEF RejectRead, Goto
  <2>9. ASSUME NEW p \in Requests, RejectLog(p) PROVE LifeInv'
    BY <2>9 DEF RejectLog, Saved, Goto
  <2>10. ASSUME NEW p \in Requests, Escalate(p) PROVE LifeInv'
    BY <2>10 DEF Escalate, Rejection, End
  <2>11. ASSUME NEW p \in Requests, EditLog(p) PROVE LifeInv'
    BY <2>11 DEF EditLog, Saved, End
  <2>12. ASSUME NEW p \in Requests, NEW new \in Fresh, Regenerate(p, new) PROVE LifeInv'
    BY <2>12 DEF Regenerate, Rejection, End, Fresh
  <2>13. ASSUME NEW p \in Requests, NEW s \in Scenarios, Prune(p, s) PROVE LifeInv'
    BY <2>13 DEF Prune, Goto
  <2>14. ASSUME NEW p \in Requests, NEW s \in Scenarios, Add(p, s) PROVE LifeInv'
    BY <2>14 DEF Add, Goto
  <2>15. CASE UNCHANGED vars
    BY <2>15 DEF vars
  <2>16. QED
    BY <2>1, <2>2, <2>3, <2>4, <2>5, <2>6, <2>7, <2>8, <2>9, <2>10, <2>11, <2>12, <2>13,
       <2>14, <2>15 DEF Next
<1>3. QED
  BY <1>1, <1>2, TypeCorrect, PTL DEF Spec

(* "Never a silent delete": a scenario that was once up for review still   *)
(* is, or the rejection history, the edit history or the shared state has  *)
(* it.                                                                     *)
THEOREM NothingDroppedHolds == ASSUME AsDocumented PROVE Spec => []NothingDropped
<1>1. LifeInv => NothingDropped
  BY DEF LifeInv
<1>2. QED
  BY <1>1, LifeInvariant, PTL

(* The handlers of the registry implement the documented life of a run:    *)
(* terminal states stay, the last rejection ends the run, and the shared   *)
(* state gets the approved list whole or not at all.                       *)
THEOREM Refinement == ASSUME AsDocumented PROVE Spec => ImplementsReviewCycle
<1>1. Init => Cycle!Init
  BY DEF Init, Cycle!Init, NoRun
<1>2. ASSUME AsDocumented PROVE LifeInv /\ [Next]_vars => [Cycle!Next]_Cycle!vars
  <2> SUFFICES ASSUME LifeInv, [Next]_vars PROVE [Cycle!Next]_Cycle!vars
    OBVIOUS
  <2> USE <1>2 DEF AsDocumented, LifeInv, TypeOK, Rows, requests
  <2>1. ASSUME NEW new \in Fresh, Analyze(new) PROVE Cycle!Submit
    BY <2>1 DEF Analyze, Fresh, NoRun, NotYetKnown, Cycle!Submit
  <2>2. ASSUME Restore PROVE Cycle!Restore
    BY <2>2 DEF Restore, NoRun, NotYetKnown, Cycle!Restore
  <2>3. ASSUME NEW p \in Requests, ApproveTransition(p) PROVE Cycle!Approve
    BY <2>3 DEF ApproveTransition, Cycle!Approve
  <2>4. ASSUME NEW p \in Requests, ApproveCommit(p) PROVE Cycle!Store \/ UNCHANGED Cycle!vars
    BY <2>4 DEF ApproveCommit, Saved, ApprovesWhatItTook, Cycle!Store, Cycle!vars
  <2>5. ASSUME NEW p \in Requests, Escalate(p) PROVE Cycle!Reject
    BY <2>5 DEF Escalate, LastRejection, Rejection, RejectsWhatItRead, Rejecting, Cycle!Reject
  <2>6. ASSUME NEW p \in Requests, NEW new \in Fresh, Regenerate(p, new) PROVE Cycle!Reject
    BY <2>6 DEF Regenerate, Fresh, LastRejection, Rejection, RejectsWhatItRead, Rejecting, Cycle!Reject
  <2>7. ASSUME NEW p \in Requests, NEW s \in Scenarios, Prune(p, s) \/ Add(p, s) PROVE Cycle!Edit
    <3>1. run'.list \subseteq Scenarios /\ run'.status = run.status /\ run'.rejections = run.rejections
      <4>1. CASE Prune(p, s)
        BY <4>1 DEF Prune
      <4>2. CASE Add(p, s)
        BY <4>2 DEF Add
      <4>3. QED
        BY <2>7, <4>1, <4>2
    <3>2. run.status = "pending_human" /\ scrs' = scrs
      BY <2>7 DEF Prune, Add
    <3>3. QED
      BY <3>1, <3>2 DEF Cycle!Edit
  <2>8. ASSUME NEW p \in Requests,
               OtherSave \/ Start(p) \/ Abort(p) \/ RejectRead(p) \/ RejectLog(p) \/ EditLog(p)
        PROVE  UNCHANGED Cycle!vars
    BY <2>8 DEF OtherSave, Start, Abort, RejectRead, RejectLog, EditLog, Saved, Cycle!vars
  <2>9. ASSUME OtherSave PROVE UNCHANGED Cycle!vars
    BY <2>9 DEF OtherSave, Saved, Cycle!vars
  <2>10. ASSUME UNCHANGED vars PROVE UNCHANGED Cycle!vars
    BY <2>10 DEF vars, Cycle!vars
  <2>11. QED
    BY <2>1, <2>2, <2>3, <2>4, <2>5, <2>6, <2>7, <2>8, <2>9, <2>10 DEF Next, Cycle!Next
<1>3. QED
  BY <1>1, <1>2, LifeInvariant, PTL DEF Spec, ImplementsReviewCycle, Cycle!Spec
=============================================================================
