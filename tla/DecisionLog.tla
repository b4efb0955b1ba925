---------------------------- MODULE DecisionLog ----------------------------
(***************************************************************************)
(* What the shared state file promises its callers: a log of decisions,    *)
(* one version per decision, that only ever grows.  A decision a caller    *)
(* was told is saved is in the log, and stays there.  This is the promise  *)
(* of StateManager ("safe for several processes on one host: saves take a  *)
(* lock file and refuse to overwrite a newer version"); ScrsStore is the   *)
(* file protocol that keeps it.                                            *)
(***************************************************************************)
EXTENDS Naturals

CONSTANT Changes     \* the decisions a caller may ask to save

VARIABLES log,       \* the saved state: its version and the decisions in it
          acked        \* the decisions whose save returned without an error

vars == <<log, acked>>

Init ==
    /\ log = [version |-> 0, changes |-> {}]
    /\ acked = {}

(* A save takes effect: it extends the log it finds, whatever it is.       *)
Commit(c) ==
    /\ c \notin log.changes
    /\ log' = [version |-> log.version + 1, changes |-> log.changes \cup {c}]
    /\ UNCHANGED acked

(* A save returns to its caller, who may now rely on what the log holds.   *)
Acknowledge(S) ==
    /\ S \subseteq log.changes
    /\ acked' = acked \cup S
    /\ UNCHANGED log

Next ==
    \/ \E c \in Changes : Commit(c)
    \/ \E S \in SUBSET Changes : Acknowledge(S)

Spec == Init /\ [][Next]_vars
=============================================================================
