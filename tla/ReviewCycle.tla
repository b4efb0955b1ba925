---------------------------- MODULE ReviewCycle ----------------------------
(***************************************************************************)
(* The life of one run as docs/threat_agent.md section 8 draws it: after   *)
(* /analyze it waits for a person, who edits the scenario list, rejects it *)
(* (and gets a new one, until the last rejection ends the run) or approves *)
(* it; only an approved list reaches the shared state, whole.              *)
(***************************************************************************)
EXTENDS Naturals

CONSTANTS
    Scenarios,     \* scenario ids
    MaxRejections  \* MAX_HUMAN_REJECTIONS

VARIABLES
    status,        \* "none" until the run is known
    list,          \* the scenarios up for review
    rejections,    \* human_rejection_count
    stored         \* the scenarios of this run in the shared state

vars == <<status, list, rejections, stored>>

Init ==
    /\ status = "none" /\ list = {} /\ rejections = 0
    /\ stored \in SUBSET Scenarios

Submit ==
    /\ status = "none"
    /\ status' = "pending_human"
    /\ list' \in SUBSET Scenarios
    /\ UNCHANGED <<rejections, stored>>

(* The run was approved before the registry knew it.                       *)
Restore ==
    /\ status = "none" /\ stored # {}
    /\ status' = "approved"
    /\ UNCHANGED <<list, rejections, stored>>

Edit ==
    /\ status = "pending_human"
    /\ list' \in SUBSET Scenarios
    /\ UNCHANGED <<status, rejections, stored>>

Reject ==
    /\ status = "pending_human"
    /\ rejections' = rejections + 1
    /\ status' = IF rejections' >= MaxRejections THEN "rejected" ELSE status
    /\ list' \in SUBSET Scenarios
    /\ UNCHANGED stored

Approve ==
    /\ status = "pending_human"
    /\ status' = "approved"
    /\ UNCHANGED <<list, rejections, stored>>

Store ==
    /\ status = "approved"
    /\ stored' = stored \cup list
    /\ UNCHANGED <<status, list, rejections>>

Next == Submit \/ Restore \/ Edit \/ Reject \/ Approve \/ Store

Spec == Init /\ [][Next]_vars
=============================================================================
