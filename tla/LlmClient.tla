----------------------------- MODULE LlmClient ------------------------------
(***************************************************************************)
(* chat_completion of common/llm_client.py: one call of a language model,  *)
(* with two separate budgets for the failures worth another try.  Rate     *)
(* limits (HTTP 429) are waited out; other transient failures back off.    *)
(*                                                                         *)
(* An answer of the service, with the retries the client library makes on  *)
(* its own before it reports anything, is one Answer here.                 *)
(***************************************************************************)
EXTENDS Naturals

CONSTANTS
    MaxAttempts,         \* _MAX_ATTEMPTS
    MaxRateLimitRetries, \* _MAX_RATE_LIMIT_RETRIES
    DefaultWait,         \* _RATE_LIMIT_DEFAULT_WAIT_SECONDS
    MaxWait,             \* _RATE_LIMIT_MAX_WAIT_SECONDS
    Backoff,             \* seconds to sleep after the n-th other failure
    RetryAfter,          \* bound: the Retry-After values the service sends
    NoHeader             \* a 429 without one, or one that is not a number

VARIABLES
    phase,               \* where the call is
    attempt,             \* the loop variable
    other_failures,
    rate_limit_retries,
    backoff,             \* seconds of the pending time.sleep
    waited,              \* history: seconds slept so far
    seen                 \* history: answers of each kind so far

vars == <<phase, attempt, other_failures, rate_limit_retries, backoff, waited, seen>>

Kinds == {"ok", "empty", "timeout", "429", "5xx", "dropped", "4xx", "malformed"}
Returned == {"returned", "timed_out", "api_error", "invalid"}
Phases == {"calling", "sleeping", "fell_through"} \cup Returned

ASSUME ConstantsAssumption ==
    /\ MaxAttempts \in Nat \ {0}
    /\ MaxRateLimitRetries \in Nat
    /\ DefaultWait \in Nat /\ MaxWait \in Nat
    /\ 1 <= DefaultWait /\ DefaultWait <= MaxWait
    /\ Backoff \in [1..MaxAttempts -> Nat]
    /\ Backoff[1] = 1
    /\ \A n \in 1..(MaxAttempts - 1) : Backoff[n + 1] = 2 * Backoff[n]
    /\ RetryAfter \subseteq Nat
    /\ NoHeader \notin Nat

Init ==
    /\ phase = "calling"
    /\ attempt = 1
    /\ other_failures = 0
    /\ rate_limit_retries = 0
    /\ backoff = 0
    /\ waited = 0
    /\ seen = [k \in Kinds |-> 0]
----------------------------------------------------------------------------
(* Mutant: no upper bound on what the service asks for.                    *)
MutantRateLimitWait(header) ==
    IF header = NoHeader THEN DefaultWait
    ELSE IF header < 1 THEN 1
    ELSE header

(* _rate_limit_wait: at least a second, at most MaxWait.                   *)
RateLimitWait(header) ==
    IF header = NoHeader THEN DefaultWait
    ELSE IF header < 1 THEN 1
    ELSE IF header > MaxWait THEN MaxWait
    ELSE header

(* A try is over: the answer arrives in the try block.                     *)
Answer(kind) ==
    /\ phase = "calling"
    /\ seen' = [seen EXCEPT ![kind] = @ + 1]

(* The call ends, with an answer or an exception.                          *)
End(how) ==
    /\ phase' = how
    /\ UNCHANGED <<attempt, backoff, waited>>

Sleep(seconds) ==
    /\ phase' = "sleeping"
    /\ backoff' = seconds
    /\ UNCHANGED <<attempt, waited>>

Success ==
    /\ Answer("ok")
    /\ End("returned")
    /\ UNCHANGED <<other_failures, rate_limit_retries>>

(* No content: a ValueError no handler of the loop takes.                  *)
EmptyContent ==
    /\ Answer("empty")
    /\ End("invalid")
    /\ UNCHANGED <<other_failures, rate_limit_retries>>

(* Mutant: a timeout is retried, and counts as no failure.                 *)
MutantTimeout ==
    /\ Answer("timeout")
    /\ Sleep(1)
    /\ UNCHANGED <<other_failures, rate_limit_retries>>

Timeout ==
    /\ Answer("timeout")
    /\ End("timed_out")
    /\ UNCHANGED <<other_failures, rate_limit_retries>>

(* Mutant: a rate limit also uses up an ordinary attempt.                  *)
MutantRateLimited(header) ==
    /\ Answer("429")
    /\ rate_limit_retries' = rate_limit_retries + 1
    /\ other_failures' = other_failures + 1
    /\ IF rate_limit_retries' > MaxRateLimitRetries \/ other_failures' >= MaxAttempts
       THEN End("api_error")
       ELSE Sleep(RateLimitWait(header))

RateLimited(header) ==
    /\ Answer("429")
    /\ rate_limit_retries' = rate_limit_retries + 1
    /\ IF rate_limit_retries' > MaxRateLimitRetries
       THEN End("api_error")
       ELSE Sleep(RateLimitWait(header))
    /\ UNCHANGED other_failures

(* Mutant: > for >=.                                                       *)
MutantTransientFailure(kind) ==
    /\ Answer(kind)
    /\ other_failures' = other_failures + 1
    /\ IF other_failures' > MaxAttempts
       THEN End("api_error")
       ELSE Sleep(Backoff[other_failures'])
    /\ UNCHANGED rate_limit_retries

(* 500, 502, 503, 504, or a connection that was refused or dropped.        *)
TransientFailure(kind) ==
    /\ Answer(kind)
    /\ other_failures' = other_failures + 1
    /\ IF other_failures' >= MaxAttempts
       THEN End("api_error")
       ELSE Sleep(Backoff[other_failures'])
    /\ UNCHANGED rate_limit_retries

(* Any other status: counted, and never retried.                           *)
ClientError ==
    /\ Answer("4xx")
    /\ other_failures' = other_failures + 1
    /\ End("api_error")
    /\ UNCHANGED rate_limit_retries

(* Any other error of the library: not counted.                            *)
OtherApiError ==
    /\ Answer("malformed")
    /\ End("api_error")
    /\ UNCHANGED <<other_failures, rate_limit_retries>>

(* The range of the for loop.                                              *)
Turns == MaxAttempts + MaxRateLimitRetries

(* The sleep ends and the loop goes on, or runs out of turns.              *)
WakeUp ==
    /\ phase = "sleeping"
    /\ waited' = waited + backoff
    /\ backoff' = 0
    /\ IF attempt < Turns
       THEN phase' = "calling" /\ attempt' = attempt + 1
       ELSE phase' = "fell_through" /\ UNCHANGED attempt
    /\ UNCHANGED <<other_failures, rate_limit_retries, seen>>

Next ==
    \/ Success
    \/ EmptyContent
    \/ Timeout
    \/ \E header \in RetryAfter \cup {NoHeader} : RateLimited(header)
    \/ \E kind \in {"5xx", "dropped"} : TransientFailure(kind)
    \/ ClientError
    \/ OtherApiError
    \/ WakeUp

(* Every request has a timeout and every sleep ends, so each step happens. *)
Fairness == WF_vars(Next)

Spec == Init /\ [][Next]_vars /\ Fairness
----------------------------------------------------------------------------
TypeOK ==
    /\ phase \in Phases
    /\ attempt \in 1..Turns
    /\ other_failures \in 0..MaxAttempts
    /\ rate_limit_retries \in 0..(MaxRateLimitRetries + 1)
    /\ backoff \in Nat
    /\ waited \in Nat
    /\ seen \in [Kinds -> Nat]

(* "Should not be reachable - the loop always raises or returns": whatever *)
(* mixture of the two kinds of failure arrives, one of the two budgets is  *)
(* spent before the turns of the loop are.                                 *)
NeverFallsThrough == phase # "fell_through"

(* "Rate limits are waited out separately": a call gives up only on an     *)
(* answer not worth a retry, on the MaxAttempts-th transient failure       *)
(* however many rate limits came between, or on the rate limit after the   *)
(* last allowed one however many failures came between.                    *)
GivesUpOnlyWhenSpent ==
    phase = "api_error" =>
        \/ seen["4xx"] + seen["malformed"] = 1
        \/ seen["5xx"] + seen["dropped"] = MaxAttempts
        \/ seen["429"] = MaxRateLimitRetries + 1

(* However long the service asks to wait, one call sleeps at most MaxWait  *)
(* for each rate limit it met and 1 + 2 + 4 ... seconds for its other      *)
(* failures.                                                               *)
WaitBounded ==
    waited + backoff <=
        rate_limit_retries * MaxWait
            + (IF other_failures = 0 THEN 0 ELSE 2 * Backoff[other_failures] - 1)

(* The caller gets an answer or an exception: no service behaviour keeps   *)
(* it in the loop.                                                         *)
CallReturns == <>(phase \in Returned)
=============================================================================
