---------------------------- MODULE RunRegistry ----------------------------
(***************************************************************************)
(* One run of the threat agent between /analyze and the shared state: its  *)
(* row in the run registry (agents/threat_agent/run_store.py, the Postgres *)
(* store) and the handlers of agents/threat_agent/router.py that review    *)
(* it.  A handler is several steps: it loads the shared state, reads the   *)
(* row, calls the language model, changes the row, saves the shared state; *)
(* handlers of other requests, in other worker processes, come between.    *)
(***************************************************************************)
EXTENDS Naturals, FiniteSets

CONSTANTS
    Requests,      \* review requests in flight
    Scenarios,     \* scenario ids
    MaxRejections, \* MAX_HUMAN_REJECTIONS
    MaxVersion,    \* bound: saves of the shared state
    Resubmit,      \* /analyze may be called again with the run_id of the run
    OneReviewer    \* no second /reject starts while one is in flight

VARIABLES
    run,           \* the row of threat_agent_runs
    scrs,          \* what SCRS_state.json holds about this run
    used,          \* history: scenario ids handed out
    pc,            \* where each request is
    loaded,        \* state_version of the copy its StateManager loaded
    snap,          \* what /reject read: the list and the rejection count
    taken          \* the list /approve got with its transition

requests == <<pc, loaded, snap, taken>>
vars == <<run, scrs, used, requests>>

Statuses == {"none", "pending_human", "approved", "rejected"}
Phases == {"idle", "started", "approving", "rejecting", "logged", "editing"}

NoRun == [status |-> "none", list |-> {}, rejections |-> 0,
          rejected |-> {}, pruned |-> {}, added |-> {}]
NoSnap == [list |-> {}, rejections |-> 0]

ASSUME ConstantsAssumption ==
    /\ MaxRejections \in Nat \ {0}
    /\ MaxVersion \in Nat
    /\ Resubmit \in BOOLEAN
    /\ OneReviewer \in BOOLEAN

(* A run approved in the past may be in the shared state alone.            *)
Init ==
    /\ run = NoRun
    /\ \E old \in SUBSET Scenarios :
          /\ scrs = [version |-> IF old = {} THEN 0 ELSE 1, threats |-> old]
          /\ used = old
    /\ pc = [p \in Requests |-> "idle"]
    /\ loaded = [p \in Requests |-> 0]
    /\ snap = [p \in Requests |-> NoSnap]
    /\ taken = [p \in Requests |-> {}]

Goto(p, phase) == pc' = [pc EXCEPT ![p] = phase]
----------------------------------------------------------------------------
(* New scenarios have new ids: a path id is random, and so is THR-EXP-.    *)
Fresh == SUBSET (Scenarios \ used) \ {{}}

(* Mutant: the row is created with the status of the answer.               *)
MutantAnalyze(new) ==
    /\ run.status = "none" /\ scrs.threats = {}
    /\ run' = [NoRun EXCEPT !.status = "pending_test", !.list = new]
    /\ used' = used \cup new
    /\ UNCHANGED <<scrs, requests>>

(* /analyze: generate, validate, then create_run.  The row is inserted, or *)
(* overwritten but for its edit_history.                                   *)
Analyze(new) ==
    /\ Resubmit \/ (run.status = "none" /\ scrs.threats = {})
    /\ run' = [NoRun EXCEPT !.status = "pending_human", !.list = new,
                            !.pruned = run.pruned, !.added = run.added]
    /\ used' = used \cup new
    /\ UNCHANGED <<scrs, requests>>

(* _get_run_or_404 finds no row, but the shared state has the run.         *)
Restore ==
    /\ run.status = "none"
    /\ scrs.threats # {}
    /\ run' = [NoRun EXCEPT !.status = "approved"]
    /\ UNCHANGED <<scrs, used, requests>>

(* A review request arrives: get_state_manager loads the shared state.     *)
Start(p) ==
    /\ pc[p] = "idle"
    /\ loaded' = [loaded EXCEPT ![p] = scrs.version]
    /\ Goto(p, "started")
    /\ UNCHANGED <<run, scrs, used, snap, taken>>

(* The request ends early: 404, 409 or 422, an exception, or its process   *)
(* is killed.                                                              *)
End(p) ==
    /\ pc' = [pc EXCEPT ![p] = "idle"]
    /\ loaded' = [loaded EXCEPT ![p] = 0]
    /\ snap' = [snap EXCEPT ![p] = NoSnap]
    /\ taken' = [taken EXCEPT ![p] = {}]

Abort(p) ==
    /\ pc[p] # "idle"
    /\ End(p)
    /\ UNCHANGED <<run, scrs, used>>

(* A save of the shared state by p.  ScrsStore: it takes effect only if    *)
(* nobody saved since p loaded it.                                         *)
CanSave(p) == loaded[p] = scrs.version /\ scrs.version < MaxVersion
Saved(threats) ==
    scrs' = [version |-> scrs.version + 1, threats |-> scrs.threats \cup threats]

(* Somebody saves results of another run, a risk or a mapping.             *)
OtherSave ==
    /\ scrs.version < MaxVersion
    /\ Saved({})
    /\ UNCHANGED <<run, used, requests>>
----------------------------------------------------------------------------
(* transition_run(PENDING_HUMAN, APPROVED): one conditional UPDATE, which  *)
(* returns the row as it is then.                                          *)
ApproveTransition(p) ==
    /\ pc[p] = "started"
    /\ run.status = "pending_human"
    /\ run' = [run EXCEPT !.status = "approved"]
    /\ taken' = [taken EXCEPT ![p] = run.list]
    /\ Goto(p, "approving")
    /\ UNCHANGED <<scrs, used, loaded, snap>>

(* commit_approved_run writes the list in one save; an empty one needs     *)
(* none.  If it raises, the handler answers 500: Abort.                    *)
ApproveCommit(p) ==
    /\ pc[p] = "approving"
    /\ IF taken[p] = {} THEN UNCHANGED scrs
       ELSE CanSave(p) /\ Saved(taken[p])
    /\ End(p)
    /\ UNCHANGED <<run, used>>

(* /reject reads the row and checks its status.                            *)
RejectRead(p) ==
    /\ pc[p] = "started"
    /\ run.status = "pending_human"
    /\ OneReviewer => \A q \in Requests : pc[q] \notin {"rejecting", "logged"}
    /\ snap' = [snap EXCEPT ![p] = [list |-> run.list, rejections |-> run.rejections]]
    /\ Goto(p, "rejecting")
    /\ UNCHANGED <<run, scrs, used, loaded, taken>>

(* log_rejection puts the list into the revision history of the shared     *)
(* state; a failure is only logged as a warning.                           *)
RejectLog(p) ==
    /\ pc[p] = "rejecting"
    /\ \/ CanSave(p) /\ Saved({})
       \/ UNCHANGED scrs
    /\ Goto(p, "logged")
    /\ UNCHANGED <<run, used, loaded, snap, taken>>

(* Mutant: the rejected list is not recorded.                              *)
MutantRejection(p, status, list) ==
    run' = [run EXCEPT !.status = status, !.list = list,
                       !.rejections = run.rejections + 1]

(* transition_run with increment_retry and a rejection_entry.              *)
Rejection(p, status, list) ==
    run' = [run EXCEPT !.status = status, !.list = list,
                       !.rejections = run.rejections + 1,
                       !.rejected = run.rejected \cup snap[p].list]

(* Mutant: > for >=.                                                       *)
MutantLastRejection(p) == snap[p].rejections + 1 > MaxRejections

LastRejection(p) == snap[p].rejections + 1 >= MaxRejections

(* The cap is reached: the transition ends the run.                        *)
Escalate(p) ==
    /\ pc[p] = "logged"
    /\ LastRejection(p)
    /\ run.status = "pending_human"
    /\ Rejection(p, "rejected", run.list)
    /\ End(p)
    /\ UNCHANGED <<scrs, used>>

(* Mutant: the new scenarios are added to the list that was rejected.      *)
MutantRegenerate(p, new) ==
    /\ pc[p] = "logged"
    /\ ~LastRejection(p)
    /\ run.status = "pending_human"
    /\ Rejection(p, "pending_human", snap[p].list \cup new)
    /\ used' = used \cup new
    /\ End(p)
    /\ UNCHANGED scrs

(* Under the cap: generate a new list, then replace the row's list.        *)
Regenerate(p, new) ==
    /\ pc[p] = "logged"
    /\ ~LastRejection(p)
    /\ run.status = "pending_human"
    /\ Rejection(p, "pending_human", new)
    /\ used' = used \cup new
    /\ End(p)
    /\ UNCHANGED scrs

(* edit_scenarios under a row lock, with the prune editor ...              *)
Prune(p, s) ==
    /\ pc[p] = "started"
    /\ run.status = "pending_human"
    /\ s \in run.list
    /\ run' = [run EXCEPT !.list = run.list \ {s}, !.pruned = run.pruned \cup {s}]
    /\ Goto(p, "editing")
    /\ UNCHANGED <<scrs, used, loaded, snap, taken>>

(* ... or the add editor.                                                  *)
Add(p, s) ==
    /\ pc[p] = "started"
    /\ run.status = "pending_human"
    /\ s \notin used
    /\ run' = [run EXCEPT !.list = run.list \cup {s}, !.added = run.added \cup {s}]
    /\ used' = used \cup {s}
    /\ Goto(p, "editing")
    /\ UNCHANGED <<scrs, loaded, snap, taken>>

(* log_edit; a failure is only logged as a warning: Abort.                 *)
EditLog(p) ==
    /\ pc[p] = "editing"
    /\ CanSave(p)
    /\ Saved({})
    /\ End(p)
    /\ UNCHANGED <<run, used>>

Next ==
    \/ \E new \in Fresh : Analyze(new)
    \/ Restore
    \/ OtherSave
    \/ \E p \in Requests :
          \/ Start(p) \/ Abort(p)
          \/ ApproveTransition(p) \/ ApproveCommit(p)
          \/ RejectRead(p) \/ RejectLog(p) \/ Escalate(p)
          \/ EditLog(p)
          \/ \E new \in Fresh : Regenerate(p, new)
          \/ \E s \in Scenarios : Prune(p, s) \/ Add(p, s)

Spec == Init /\ [][Next]_vars
----------------------------------------------------------------------------
Rows == [status : Statuses, list : SUBSET Scenarios, rejections : Nat,
         rejected : SUBSET Scenarios, pruned : SUBSET Scenarios, added : SUBSET Scenarios]

TypeOK ==
    /\ run \in Rows
    /\ scrs \in [version : Nat, threats : SUBSET Scenarios]
    /\ used \subseteq Scenarios
    /\ pc \in [Requests -> Phases]
    /\ loaded \in [Requests -> Nat]
    /\ snap \in [Requests -> [list : SUBSET Scenarios, rejections : Nat]]
    /\ taken \in [Requests -> SUBSET Scenarios]

(* A scenario the expert pruned is never saved as approved, whichever      *)
(* approvals, rejections and regenerations ran at the same time.           *)
PrunedStaysOut == scrs.threats \cap run.pruned = {}

(* "Never a silent delete": a scenario that was once up for review still   *)
(* is, or is in the rejection history or the edit history of its run (or   *)
(* in the shared state, for a run the registry never had).                 *)
NothingDropped ==
    used \subseteq run.list \cup run.rejected \cup run.pruned \cup run.added \cup scrs.threats

(* The row and the shared state go through the documented life of a run:   *)
(* terminal states stay, the last rejection ends the run, and the shared   *)
(* state gets the approved list whole or not at all.                       *)
Cycle == INSTANCE ReviewCycle WITH
            status <- run.status, list <- run.list,
            rejections <- run.rejections, stored <- scrs.threats
ImplementsReviewCycle == Cycle!Spec

(* "approved: Terminal state; human approved run, scenarios persisted to   *)
(* SCRS": once /approve has answered, the approved list is stored.         *)
ApprovedIsStored ==
    run.status = "approved" /\ (\A p \in Requests : pc[p] # "approving")
        => run.list \subseteq scrs.threats

(* "At human_rejection_count >= 3, escalates to status=rejected".          *)
CapHolds == run.rejections >= MaxRejections => run.status = "rejected"
=============================================================================
