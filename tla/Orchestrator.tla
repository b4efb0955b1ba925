---------------------------- MODULE Orchestrator ----------------------------
(***************************************************************************)
(* generate_and_validate_with_retry of agents/threat_agent/orchestrator.py:*)
(* one call, which generates threat scenarios for the attack paths, checks *)
(* them (Validator and grounding), and generates again, for the failing    *)
(* paths alone where it can, until all pass or the attempts are used up.   *)
(*                                                                         *)
(* What a scenario says is abstracted to good, what the checks say of it.  *)
(* A path id is random in the code; here it is the attempt that retrieved  *)
(* the path and its place among the paths of that retrieval.               *)
(***************************************************************************)
EXTENDS Selections, SequencesExt

CONSTANTS
    MaxAttempts,   \* MAX_VALIDATION_ATTEMPTS
    MaxPaths,      \* bound: paths of one retrieval
    MaxItems,      \* bound: scenarios the model returns for one path
    LastSeq,       \* the last sequence number a tid keeps its shape with (999)
    MoreOnRetry    \* a retried path may get more scenarios than it had

VARIABLES
    phase,         \* where the loop is
    attempt,       \* attempts begun
    retry_paths,   \* the paths to generate for, NoPaths for a new retrieval
    list,          \* last_scenarios
    outcomes,      \* tid -> the verdict of its last check
    retries,       \* validator_retry_count
    asked          \* history: path -> attempts that generated for it

vars == <<phase, attempt, retry_paths, list, outcomes, retries, asked>>

Phases == {"generate", "checked", "passed", "escalated", "failed"}
PathIds == [round : 1..MaxAttempts, n : 1..MaxPaths]
Tids == [path : PathIds, seq : Nat \ {0}]
Scenario == [tid : Tids, good : BOOLEAN]
NoPaths == <<>>
NotTraceable == [round |-> 0, n |-> 0]

ASSUME ConstantsAssumption ==
    /\ MaxAttempts \in Nat \ {0}
    /\ MaxPaths \in Nat \ {0}
    /\ MaxItems \in Nat
    /\ LastSeq \in Nat
    /\ MoreOnRetry \in BOOLEAN

Init ==
    /\ phase = "generate"
    /\ attempt = 1
    /\ retry_paths = NoPaths
    /\ list = <<>>
    /\ outcomes = [t \in {} |-> TRUE]
    /\ retries = 0
    /\ asked = [p \in {} |-> 0]
----------------------------------------------------------------------------
(* path_id_from_tid: the pattern wants exactly three digits.               *)
PathIdFromTid(tid) == IF tid.seq <= LastSeq THEN tid.path ELSE NotTraceable
Pid(s) == PathIdFromTid(s.tid)
OfPath(scenarios, p) == Picked(scenarios, {i \in DOMAIN scenarios : Pid(scenarios[i]) = p})

(* generate_scenarios: one list of items per path, numbered through all    *)
(* paths of this call.                                                     *)
GenerateScenarios(paths, items) ==
    LET flat == FlattenSeq([i \in DOMAIN paths |->
                    [k \in DOMAIN items[i] |-> [path |-> paths[i], good |-> items[i][k]]]])
    IN  [n \in DOMAIN flat |->
            [tid |-> [path |-> flat[n].path, seq |-> n], good |-> flat[n].good]]

(* Mutant: nothing takes the place of a path with no new scenarios.        *)
MutantReplacement(old, fresh) ==
    [i \in DOMAIN fresh |->
        IF i <= Len(old) THEN [fresh[i] EXCEPT !.tid = old[i].tid] ELSE fresh[i]]

(* The new scenarios of a path take over its tids in order; with none the  *)
(* old ones stay.                                                          *)
Replacement(old, fresh) ==
    IF fresh = <<>> THEN old
    ELSE [i \in DOMAIN fresh |->
            IF i <= Len(old) THEN [fresh[i] EXCEPT !.tid = old[i].tid] ELSE fresh[i]]

(* _merge_retried: the scenarios of a retried path are replaced where the  *)
(* first of them stands.                                                   *)
MergeRetried(current, new, retried) ==
    FlattenSeq([i \in DOMAIN current |->
        LET p == Pid(current[i])
        IN  IF p \notin retried THEN <<current[i]>>
            ELSE IF \E j \in 1..(i - 1) : Pid(current[j]) = p THEN <<>>
            ELSE Replacement(OfPath(current, p), OfPath(new, p))])

(* Validate in list order what has no verdict yet; a tid that occurs twice *)
(* keeps the later verdict.                                                *)
Checked(known, scenarios, needs_check) ==
    LET LastOf(t) == CHOOSE i \in DOMAIN scenarios :
                        /\ scenarios[i].tid = t
                        /\ \A j \in DOMAIN scenarios : scenarios[j].tid = t => j <= i
    IN  [t \in DOMAIN known \cup needs_check |->
            IF t \in needs_check THEN scenarios[LastOf(t)].good ELSE known[t]]

TidsOf(scenarios) == {s.tid : s \in ToSet(scenarios)}

(* Mutant: only tids never seen before are checked.                        *)
MutantNeedsCheck(scenarios, retried) ==
    {t \in TidsOf(scenarios) : PathIdFromTid(t) \in retried /\ t \notin DOMAIN outcomes}

NeedsCheck(scenarios, retried) ==
    {t \in TidsOf(scenarios) : PathIdFromTid(t) \in retried}

(* An attempt with a new retrieval.                                        *)
FullAttempt(count, items) ==
    LET paths == [i \in 1..count |-> [round |-> attempt, n |-> i]]
    IN  /\ phase = "generate" /\ retry_paths = NoPaths
        /\ list' = GenerateScenarios(paths, items)
        /\ outcomes' = Checked([t \in {} |-> TRUE], list', TidsOf(list'))
        /\ asked' = [p \in ToSet(paths) |-> 1]
        /\ phase' = "checked"
        /\ UNCHANGED <<attempt, retry_paths, retries>>

(* An attempt for retry_paths alone.                                       *)
SubsetAttempt(items) ==
    LET retried == ToSet(retry_paths)
    IN  /\ phase = "generate" /\ retry_paths # NoPaths
        /\ MoreOnRetry \/ \A i \in DOMAIN items :
                             Len(items[i]) <= Len(OfPath(list, retry_paths[i]))
        /\ list' = MergeRetried(list, GenerateScenarios(retry_paths, items), retried)
        /\ outcomes' = Checked(outcomes, list', NeedsCheck(list', retried))
        /\ asked' = [p \in DOMAIN asked |-> IF p \in retried THEN asked[p] + 1 ELSE asked[p]]
        /\ phase' = "checked"
        /\ UNCHANGED <<attempt, retry_paths, retries>>

(* No path at all, an answer that is not the expected JSON, or a scenario  *)
(* the schema refuses: the exception leaves the loop.                      *)
Fail ==
    /\ phase = "generate"
    /\ phase' = "failed"
    /\ UNCHANGED <<attempt, retry_paths, list, outcomes, retries, asked>>

Failed == Picked(list, {i \in DOMAIN list : ~outcomes[list[i].tid]})

Pass ==
    /\ phase = "checked"
    /\ Failed = <<>>
    /\ phase' = "passed"
    /\ UNCHANGED <<attempt, retry_paths, list, outcomes, retries, asked>>

(* Mutant: only the path of first_failed_scenario is retried.              *)
MutantFailedPaths == <<Pid(Failed[1])>>

(* seen_pids: the paths of the failed scenarios, each once, in order.      *)
FailedPaths ==
    LET ids == [i \in DOMAIN Failed |-> Pid(Failed[i])]
    IN  FlattenSeq([i \in DOMAIN ids |->
            IF \E j \in 1..(i - 1) : ids[j] = ids[i] THEN <<>> ELSE <<ids[i]>>])

(* Mutant: <= for <.                                                       *)
MutantAttemptsLeft == attempt <= MaxAttempts

AttemptsLeft == attempt < MaxAttempts

(* Only the failing paths are tried again if each of them can be told from *)
(* its tid, else everything, with a new retrieval.                         *)
Retry ==
    /\ phase = "checked"
    /\ Failed # <<>>
    /\ AttemptsLeft
    /\ retry_paths' = IF NotTraceable \in ToSet(FailedPaths) THEN NoPaths ELSE FailedPaths
    /\ attempt' = attempt + 1
    /\ retries' = retries + 1
    /\ phase' = "generate"
    /\ UNCHANGED <<list, outcomes, asked>>

Exhaust ==
    /\ phase = "checked"
    /\ Failed # <<>>
    /\ ~AttemptsLeft
    /\ retries' = MaxAttempts
    /\ phase' = "escalated"
    /\ UNCHANGED <<attempt, retry_paths, list, outcomes, asked>>

(* What the language model may return: per path a list of scenarios.       *)
Answers(count) == [1..count -> UNION {[1..n -> BOOLEAN] : n \in 0..MaxItems}]

Next ==
    \/ \E count \in 1..MaxPaths : \E items \in Answers(count) : FullAttempt(count, items)
    \/ \E items \in Answers(Len(retry_paths)) : SubsetAttempt(items)
    \/ Fail
    \/ Pass
    \/ Retry
    \/ Exhaust

Spec == Init /\ [][Next]_vars
----------------------------------------------------------------------------
TypeOK ==
    /\ phase \in Phases
    /\ attempt \in 1..MaxAttempts
    /\ retries \in 0..MaxAttempts
    /\ ToSet(retry_paths) \subseteq PathIds
    /\ ToSet(list) \subseteq Scenario
    /\ TidsOf(list) \subseteq DOMAIN outcomes
    /\ \A t \in DOMAIN outcomes : outcomes[t] \in BOOLEAN
    /\ \A s \in ToSet(list) : s.tid.path \in DOMAIN asked

(* validation_status, as _stamp puts it into each returned scenario.       *)
Stamp(s) == IF outcomes[s.tid] THEN "passed" ELSE "escalated_after_retries"

(* "Every scenario reaching pending_human has passed all validator         *)
(* invariants, or carries the explicit flag": the stamp a scenario is      *)
(* returned with is the verdict on what it says now, not on a scenario it  *)
(* replaced or shares its tid with; a call that reports "passed" returns   *)
(* none that failed.                                                       *)
PassedOrFlagged ==
    phase \in {"passed", "escalated"} =>
        /\ \A s \in ToSet(list) : s.good <=> Stamp(s) = "passed"
        /\ phase = "passed" => \A s \in ToSet(list) : s.good

(* A scenario is only flagged "escalated_after_retries" after every        *)
(* attempt since its path was retrieved was spent on that path.            *)
FlaggedAfterAllTries ==
    phase = "escalated" =>
        \A s \in ToSet(Failed) :
            asked[s.tid.path] = MaxAttempts - s.tid.path.round + 1

(* A partial retry keeps every scenario of the other paths, the order of   *)
(* the paths, and at least one scenario of each path: no threat is lost    *)
(* because the model answered the retry with nothing.                      *)
PathOrder(scenarios) ==
    FlattenSeq([i \in DOMAIN scenarios |->
        IF i > 1 /\ scenarios[i - 1].tid.path = scenarios[i].tid.path
        THEN <<>> ELSE <<scenarios[i].tid.path>>])

Others(scenarios) ==
    Picked(scenarios, {i \in DOMAIN scenarios : Pid(scenarios[i]) \notin ToSet(retry_paths)})

RetryKeepsTheRest ==
    [][phase = "generate" /\ phase' = "checked" /\ retry_paths # NoPaths =>
          /\ Others(list') = Others(list)
          /\ PathOrder(list') = PathOrder(list)]_vars
=============================================================================
