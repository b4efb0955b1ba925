------------------------------ MODULE DemoCli -------------------------------
(***************************************************************************)
(* The walk-through demo_cli.py: one batch of scenarios, an optional expert*)
(* menu that prunes the one on show or puts the expert's own in its place, *)
(* and one approval gate.  A rejection generates a whole new batch, whose  *)
(* first scenario comes to the gate; the others are never shown.  Failed   *)
(* writes to the store are printed or logged and the program goes on.      *)
(***************************************************************************)
EXTENDS Integers, FiniteSets, Sequences, SequencesExt

CONSTANTS
    BatchSizes,           \* numbers of scenarios a generation may give
    MaxHumanRejections,   \* orchestrator.MAX_HUMAN_REJECTIONS
    MaxAdded              \* bound: scenarios the expert adds

VARIABLES
    gate,      \* where the program is
    batch,     \* scenarios, by number; those the menu has not shown yet
    target,    \* target_scenario, 0 before there is one
    refusals,  \* rejection_count
    trail,     \* revision_history of the store: what happened to which scenario
    written,   \* threat_scenarios of the store
    served,    \* history: scenarios that were put before the reviewer
    count      \* history: scenarios so far; the source of new ids

demovars == <<gate, batch, target, refusals, trail, written, served, count>>

ASSUME DemoCliAssumption ==
    /\ BatchSizes \subseteq Nat
    /\ MaxHumanRejections \in Nat \ {0}

DemoInit ==
    /\ gate = "start" /\ batch = <<>> /\ target = 0 /\ refusals = 0
    /\ trail = {} /\ written = {} /\ served = {} /\ count = 0

NewBatch(n) == [i \in 1..n |-> count + i]

(* Stage 4.  A failed stage, or an empty batch, ends the program.          *)
DemoGenerate ==
    /\ gate = "start"
    /\ \E n \in BatchSizes :
        /\ count' = count + n
        /\ IF n = 0
           THEN gate' = "done" /\ UNCHANGED <<batch, target, served>>
           ELSE /\ gate' = "menu"
                /\ target' = Head(NewBatch(n))
                /\ batch' = Tail(NewBatch(n))
                /\ served' = {target'}
    /\ UNCHANGED <<refusals, trail, written>>

(* _expert_review_menu: p, a, or Enter.                                    *)
MenuPrune ==
    /\ gate = "menu"
    /\ trail' = trail \cup {<<"prune", target>>}
    /\ IF batch = <<>>
       THEN gate' = "done" /\ UNCHANGED <<target, batch, served>>
       ELSE /\ target' = Head(batch)
            /\ batch' = Tail(batch)
            /\ served' = served \cup {target'}
            /\ gate' = "menu"
    /\ UNCHANGED <<refusals, written, count>>

Added == {e[2] : e \in {x \in trail : x[1] = "add"}}

MenuAdd ==
    /\ gate = "menu"
    /\ Cardinality(Added) < MaxAdded
    /\ count' = count + 1
    /\ target' = count'
    /\ trail' = trail \cup {<<"add", target'>>}
    /\ served' = served \cup {target'}
    /\ UNCHANGED <<gate, batch, refusals, written>>

MenuContinue ==
    /\ gate = "menu"
    /\ gate' = "approval"
    /\ UNCHANGED <<batch, target, refusals, trail, written, served, count>>

(* "y": one write; a refused or failed write is only printed.              *)
GateApprove ==
    /\ gate = "approval"
    /\ written' \in {written, written \cup {target}}
    /\ gate' = "done"
    /\ UNCHANGED <<batch, target, refusals, trail, served, count>>

(* "n": a failed log entry is only a warning; then, up to the cap, a new   *)
(* batch, of which the first scenario is shown.                            *)
CapReached == refusals + 1 >= MaxHumanRejections

MutantNextTarget(n) == target    \* Mutant: the rejected scenario stays on show
NextTarget(n) == count + 1

GateReject ==
    /\ gate = "approval"
    /\ trail' \in {trail, trail \cup {<<"reject", target>>}}
    /\ refusals' = refusals + 1
    /\ \/ /\ CapReached
          /\ gate' = "done"
          /\ UNCHANGED <<target, served, count>>
       \/ /\ ~CapReached
          /\ \E n \in BatchSizes :
                /\ count' = count + n
                /\ IF n = 0
                   THEN gate' = "done" /\ UNCHANGED <<target, served>>
                   ELSE /\ target' = NextTarget(n)
                        /\ served' = served \cup {target'}
                        /\ gate' = "approval"
    /\ batch' = <<>>
    /\ UNCHANGED written

DemoNext ==
    DemoGenerate \/ MenuPrune \/ MenuAdd \/ MenuContinue \/ GateApprove \/ GateReject

DemoSpec == DemoInit /\ [][DemoNext]_demovars
----------------------------------------------------------------------------
DemoTypeOK ==
    /\ gate \in {"start", "menu", "approval", "done"}
    /\ ToSet(batch) \subseteq 1..count /\ target \in 0..count
    /\ refusals \in 0..MaxHumanRejections
    /\ trail \subseteq {"prune", "add", "reject"} \X (1..count)
    /\ written \cup served \subseteq 1..count

(* The program saves at most the scenario it showed last, never one that   *)
(* the log says was pruned or rejected, and none once the cap is reached.  *)
OnlyTheShownIsWritten ==
    /\ written \subseteq served \cap {target}
    /\ \A t \in written : <<"prune", t>> \notin trail /\ <<"reject", t>> \notin trail
    /\ refusals = MaxHumanRejections => written = {}
=============================================================================
