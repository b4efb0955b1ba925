---------------------------- MODULE ReviewTools -----------------------------
(***************************************************************************)
(* The two terminal programs of the repository.  They keep different stores*)
(* and never run against each other: a behaviour uses one of them.         *)
(***************************************************************************)
EXTENDS ScrpDemo, DemoCli

VARIABLE tool    \* the program that was started

vars == <<clientvars, demovars, tool>>

Init ==
    /\ ClientInit /\ DemoInit
    /\ tool \in {"scrp_demo", "demo_cli"}

Client == tool = "scrp_demo" /\ ClientNext /\ UNCHANGED <<demovars, tool>>
Demo == tool = "demo_cli" /\ DemoNext /\ UNCHANGED <<clientvars, tool>>

Next == Client \/ Demo

Spec == Init /\ [][Next]_vars

TypeOK == ClientTypeOK /\ DemoTypeOK
=============================================================================
