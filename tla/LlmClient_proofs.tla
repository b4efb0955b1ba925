-------------------------- MODULE LlmClient_proofs --------------------------
(***************************************************************************)
(* Proofs about LlmClient for every budget, wait and service behaviour.    *)
(*                                                                         *)
(* The loop variable and the two budgets are separate counters in the      *)
(* code; Loop is the relation between them that makes the statement after  *)
(* the loop unreachable: every turn but the last was one failure.          *)
(***************************************************************************)
EXTENDS LlmClient, Integers, TLAPS

USE ConstantsAssumption DEF ConstantsAssumption

Going == phase \in {"calling", "sleeping"}

(* What the counters count, and that neither budget is spent while the     *)
(* call goes on.                                                           *)
Loop ==
    /\ phase = "calling" => attempt = 1 + other_failures + rate_limit_retries
    /\ phase = "sleeping" => attempt = other_failures + rate_limit_retries
    /\ Going => /\ other_failures < MaxAttempts
                /\ rate_limit_retries <= MaxRateLimitRetries
                /\ seen["429"] = rate_limit_retries
                /\ seen["5xx"] + seen["dropped"] = other_failures
                /\ seen["4xx"] = 0 /\ seen["malformed"] = 0
    /\ phase = "calling" => backoff = 0
    /\ phase # "fell_through"

IInv == TypeOK /\ Loop /\ GivesUpOnlyWhenSpent /\ WaitBounded

(* A wait for a rate limit is a number of seconds, and at most MaxWait.    *)
LEMMA RateLimitWaitClamped ==
    ASSUME NEW header \in RetryAfter \cup {NoHeader}
    PROVE  RateLimitWait(header) \in Nat /\ RateLimitWait(header) <= MaxWait
BY DEF RateLimitWait

(* Each further other failure more than pays for its own backoff.          *)
LEMMA BackoffPaidFor ==
    ASSUME NEW n \in 0..(MaxAttempts - 1)
    PROVE  /\ n + 1 \in 1..MaxAttempts
           /\ Backoff[n + 1] \in Nat
           /\ (IF n = 0 THEN 0 ELSE 2 * Backoff[n] - 1) + Backoff[n + 1]
                = 2 * Backoff[n + 1] - 1
<1>1. CASE n = 0
  BY <1>1
<1>2. CASE n # 0
  <2>1. n \in 1..(MaxAttempts - 1) /\ n \in 1..MaxAttempts /\ n + 1 \in 1..MaxAttempts
    BY <1>2
  <2>2. Backoff[n + 1] = 2 * Backoff[n] /\ Backoff[n] \in Nat
    BY <2>1
  <2>3. QED
    BY <1>2, <2>1, <2>2
<1>3. QED
  BY <1>1, <1>2

(* One rate limit more allows MaxWait seconds more.                        *)
LEMMA OneMoreRateLimit ==
    ASSUME NEW n \in Nat
    PROVE  /\ (n + 1) * MaxWait = n * MaxWait + MaxWait
           /\ n * MaxWait \in Nat
BY SMT

LEMMA InitIInv == Init => IInv
<1> SUFFICES ASSUME Init PROVE IInv
  OBVIOUS
<1>1. 0 * MaxWait = 0
  BY SMT
<1>2. TypeOK
  BY DEF Init, TypeOK, Phases, Turns, Kinds
<1>3. Loop
  BY DEF Init, Loop, Going, Kinds
<1>4. GivesUpOnlyWhenSpent
  BY DEF Init, GivesUpOnlyWhenSpent
<1>5. WaitBounded
  BY <1>1 DEF Init, WaitBounded
<1>6. QED
  BY <1>2, <1>3, <1>4, <1>5 DEF IInv

(* An answer is counted under its kind and no other.                       *)
LEMMA AnswerCounted ==
    ASSUME TypeOK, NEW kind \in Kinds, Answer(kind)
    PROVE  /\ phase = "calling"
           /\ seen' \in [Kinds -> Nat]
           /\ \A k \in Kinds : seen'[k] = IF k = kind THEN seen[k] + 1 ELSE seen[k]
BY DEF TypeOK, Answer

(* The budgets: all of the invariant that does not speak of seconds.       *)
Budgets == TypeOK /\ Loop /\ GivesUpOnlyWhenSpent

LEMMA BudgetsPreserved == Budgets /\ [Next]_vars => Budgets'
<1> SUFFICES ASSUME Budgets, [Next]_vars PROVE Budgets'
  OBVIOUS
<1> DEFINE Counted(kind) ==
        /\ phase = "calling"
        /\ seen' \in [Kinds -> Nat]
        /\ \A k \in Kinds : seen'[k] = IF k = kind THEN seen[k] + 1 ELSE seen[k]
<1>a. ASSUME NEW kind \in Kinds, Answer(kind) PROVE Counted(kind)
  BY <1>a, AnswerCounted DEF Budgets
<1>b. {"429", "5xx", "dropped", "4xx", "malformed"} \subseteq Kinds
  BY DEF Kinds
<1> HIDE DEF Counted
<1> USE DEF Budgets, TypeOK, Loop, Going, GivesUpOnlyWhenSpent, End, Sleep,
            Phases, Returned, Turns
<1>1. CASE Success
  <2>1. Counted("ok")
    BY <1>1, <1>a DEF Success, Kinds
  <2>2. QED
    BY <1>1, <2>1, <1>b DEF Success, Counted
<1>2. CASE EmptyContent
  <2>1. Counted("empty")
    BY <1>2, <1>a DEF EmptyContent, Kinds
  <2>2. QED
    BY <1>2, <2>1, <1>b DEF EmptyContent, Counted
<1>3. CASE Timeout
  <2>1. Counted("timeout")
    BY <1>3, <1>a DEF Timeout, Kinds
  <2>2. QED
    BY <1>3, <2>1, <1>b DEF Timeout, Counted
<1>4. ASSUME NEW header \in RetryAfter \cup {NoHeader}, RateLimited(header)
      PROVE  Budgets'
  <2>1. Counted("429")
    BY <1>4, <1>a, <1>b DEF RateLimited
  <2>2. /\ phase = "calling" /\ seen' \in [Kinds -> Nat]
        /\ seen'["429"] = seen["429"] + 1
    BY <2>1, <1>b DEF Counted
  <2>3. \A k \in {"5xx", "dropped", "4xx", "malformed"} : seen'[k] = seen[k]
    BY <2>1, <1>b DEF Counted
  <2>4. CASE rate_limit_retries + 1 > MaxRateLimitRetries
    BY <1>4, <2>2, <2>3, <2>4 DEF RateLimited
  <2>5. CASE ~(rate_limit_retries + 1 > MaxRateLimitRetries)
    <3>1. /\ phase' = "sleeping" /\ attempt' = attempt /\ waited' = waited
          /\ other_failures' = other_failures
          /\ rate_limit_retries' = rate_limit_retries + 1
          /\ backoff' = RateLimitWait(header)
      BY <1>4, <2>5 DEF RateLimited
    <3>2. /\ rate_limit_retries + 1 \in 0..(MaxRateLimitRetries + 1)
          /\ rate_limit_retries + 1 <= MaxRateLimitRetries
      BY <2>5
    <3>3. RateLimitWait(header) \in Nat
      BY RateLimitWaitClamped
    <3>4. TypeOK'
      BY <2>2, <3>1, <3>2, <3>3
    <3>5. /\ seen'["429"] = rate_limit_retries'
          /\ seen'["5xx"] + seen'["dropped"] = other_failures'
          /\ seen'["4xx"] = 0 /\ seen'["malformed"] = 0
      BY <2>2, <2>3, <3>1
    <3>6. Loop' /\ GivesUpOnlyWhenSpent'
      BY <2>2, <3>1, <3>2, <3>5
    <3>7. QED
      BY <3>4, <3>6
  <2>6. QED
    BY <2>4, <2>5
<1>5. ASSUME NEW kind \in {"5xx", "dropped"}, TransientFailure(kind)
      PROVE  Budgets'
  <2>1. /\ phase = "calling" /\ seen' \in [Kinds -> Nat]
        /\ seen'["5xx"] + seen'["dropped"] = seen["5xx"] + seen["dropped"] + 1
        /\ \A k \in {"429", "4xx", "malformed"} : seen'[k] = seen[k]
    <3>1. Counted(kind)
      BY <1>5, <1>a, <1>b DEF TransientFailure
    <3>2. \A k \in {"429", "5xx", "dropped", "4xx", "malformed"} :
             seen'[k] = IF k = kind THEN seen[k] + 1 ELSE seen[k]
      BY <3>1, <1>b DEF Counted
    <3>3. phase = "calling" /\ seen' \in [Kinds -> Nat]
      BY <3>1 DEF Counted
    <3>4. seen["5xx"] \in Nat /\ seen["dropped"] \in Nat
      BY <1>b
    <3>5. \/ seen'["5xx"] = seen["5xx"] + 1 /\ seen'["dropped"] = seen["dropped"]
          \/ seen'["5xx"] = seen["5xx"] /\ seen'["dropped"] = seen["dropped"] + 1
      BY <3>2
    <3>6. seen'["5xx"] + seen'["dropped"] = seen["5xx"] + seen["dropped"] + 1
      BY <3>4, <3>5
    <3>7. \A k \in {"429", "4xx", "malformed"} : seen'[k] = seen[k]
      BY <3>2
    <3>8. QED
      BY <3>3, <3>6, <3>7
  <2>2. Backoff[other_failures + 1] \in Nat
    BY <2>1, BackoffPaidFor
  <2>3. CASE other_failures + 1 >= MaxAttempts
    BY <1>5, <2>1, <2>3 DEF TransientFailure
  <2>4. CASE ~(other_failures + 1 >= MaxAttempts)
    <3>1. /\ phase' = "sleeping" /\ attempt' = attempt /\ waited' = waited
          /\ other_failures' = other_failures + 1
          /\ rate_limit_retries' = rate_limit_retries
          /\ backoff' = Backoff[other_failures + 1]
      BY <1>5, <2>4 DEF TransientFailure
    <3>2. other_failures + 1 \in 0..MaxAttempts /\ other_failures + 1 < MaxAttempts
      BY <2>1, <2>4
    <3>3. TypeOK'
      BY <2>1, <2>2, <3>1, <3>2
    <3>4. seen'["5xx"] + seen'["dropped"] = other_failures'
      BY <2>1, <3>1
    <3>5. /\ seen'["429"] = rate_limit_retries' /\ seen'["4xx"] = 0
          /\ seen'["malformed"] = 0
      BY <2>1, <3>1
    <3>6. Loop' /\ GivesUpOnlyWhenSpent'
      BY <2>1, <3>1, <3>2, <3>4, <3>5
    <3>7. QED
      BY <3>3, <3>6
  <2>5. QED
    BY <2>3, <2>4
<1>6. CASE ClientError
  <2>1. /\ phase = "calling" /\ seen' \in [Kinds -> Nat]
        /\ seen'["4xx"] = 1 /\ seen'["malformed"] = 0
    BY <1>6, <1>a, <1>b DEF ClientError, Counted
  <2>2. QED
    BY <1>6, <2>1 DEF ClientError
<1>7. CASE OtherApiError
  <2>1. /\ phase = "calling" /\ seen' \in [Kinds -> Nat]
        /\ seen'["malformed"] = 1 /\ seen'["4xx"] = 0
    BY <1>7, <1>a, <1>b DEF OtherApiError, Counted
  <2>2. QED
    BY <1>7, <2>1 DEF OtherApiError
<1>8. CASE WakeUp
  BY <1>8 DEF WakeUp
<1>9. CASE UNCHANGED vars
  BY <1>9 DEF vars
<1>10. QED
  BY <1>1, <1>2, <1>3, <1>4, <1>5, <1>6, <1>7, <1>8, <1>9 DEF Next

(* The seconds that two counts of failures allow.                          *)
Allowed(rate, other) ==
    rate * MaxWait + (IF other = 0 THEN 0 ELSE 2 * Backoff[other] - 1)

LEMMA RateLimitAllows ==
    ASSUME NEW rate \in Nat, NEW other \in 0..MaxAttempts
    PROVE  Allowed(rate, other) \in Int /\ Allowed(rate + 1, other) = Allowed(rate, other) + MaxWait
<1>1. (rate + 1) * MaxWait = rate * MaxWait + MaxWait /\ rate * MaxWait \in Nat
  BY OneMoreRateLimit
<1>2. other # 0 => Backoff[other] \in Nat
  OBVIOUS
<1>3. QED
  BY <1>1, <1>2 DEF Allowed

LEMMA FailureAllows ==
    ASSUME NEW rate \in Nat, NEW other \in 0..(MaxAttempts - 1)
    PROVE  /\ Backoff[other + 1] \in Nat
           /\ Allowed(rate, other + 1) = Allowed(rate, other) + Backoff[other + 1]
<1> DEFINE spent == IF other = 0 THEN 0 ELSE 2 * Backoff[other] - 1
<1>1. Backoff[other + 1] \in Nat /\ spent + Backoff[other + 1] = 2 * Backoff[other + 1] - 1
  BY BackoffPaidFor
<1>2. rate * MaxWait \in Nat
  BY OneMoreRateLimit
<1>3. spent \in Int
  OBVIOUS
<1>4. Allowed(rate, other) = rate * MaxWait + spent
  BY DEF Allowed
<1>5. Allowed(rate, other + 1) = rate * MaxWait + (2 * Backoff[other + 1] - 1)
  BY DEF Allowed
<1> HIDE DEF spent
<1>6. QED
  BY <1>1, <1>2, <1>3, <1>4, <1>5

LEMMA WaitPreserved == IInv /\ [Next]_vars => WaitBounded'
<1> SUFFICES ASSUME IInv, [Next]_vars PROVE WaitBounded'
  OBVIOUS
<1> DEFINE now == Allowed(rate_limit_retries, other_failures)
<1>a. /\ rate_limit_retries \in Nat /\ other_failures \in 0..MaxAttempts
      /\ waited \in Nat /\ backoff \in Nat
  BY DEF IInv, TypeOK
<1>b. now \in Int /\ waited + backoff <= now
  BY <1>a, RateLimitAllows DEF IInv, WaitBounded, Allowed
<1>c. ASSUME waited' + backoff' <= Allowed(rate_limit_retries', other_failures')
      PROVE  WaitBounded'
  BY <1>c DEF WaitBounded, Allowed
<1>d. ASSUME UNCHANGED <<rate_limit_retries, other_failures, waited, backoff>>
      PROVE  WaitBounded'
  BY <1>b, <1>c, <1>d
<1>e. phase = "calling" => backoff = 0 /\ other_failures \in 0..(MaxAttempts - 1)
  BY <1>a DEF IInv, Loop, Going
<1> HIDE DEF now
<1>1. CASE Success \/ EmptyContent \/ Timeout \/ OtherApiError
  BY <1>1, <1>d DEF Success, EmptyContent, Timeout, OtherApiError, End
<1>2. ASSUME NEW header \in RetryAfter \cup {NoHeader}, RateLimited(header)
      PROVE  WaitBounded'
  <2>1. waited' = waited /\ (backoff' = backoff \/ backoff' = RateLimitWait(header))
    BY <1>2 DEF RateLimited, End, Sleep
  <2>2. Allowed(rate_limit_retries', other_failures') = now + MaxWait
    BY <1>2, <1>a, RateLimitAllows DEF RateLimited, now
  <2>3. backoff = 0 /\ RateLimitWait(header) \in Nat /\ RateLimitWait(header) <= MaxWait
    BY <1>2, <1>e, RateLimitWaitClamped DEF RateLimited, Answer
  <2>4. QED
    BY <1>a, <1>b, <1>c, <2>1, <2>2, <2>3
<1>3. ASSUME NEW kind \in {"5xx", "dropped"}, TransientFailure(kind)
      PROVE  WaitBounded'
  <2>1. /\ waited' = waited
        /\ backoff' = backoff \/ backoff' = Backoff[other_failures + 1]
        /\ phase = "calling"
    BY <1>3 DEF TransientFailure, End, Sleep, Answer
  <2>2. /\ Backoff[other_failures + 1] \in Nat
        /\ Allowed(rate_limit_retries, other_failures + 1)
              = now + Backoff[other_failures + 1]
    BY <2>1, <1>a, <1>e, FailureAllows DEF now
  <2>3. other_failures' = other_failures + 1 /\ rate_limit_retries' = rate_limit_retries
    BY <1>3 DEF TransientFailure
  <2>4. QED
    BY <1>a, <1>b, <1>c, <1>e, <2>1, <2>2, <2>3
<1>4. CASE ClientError
  <2>1. waited' = waited /\ backoff' = backoff /\ phase = "calling"
    BY <1>4 DEF ClientError, End, Answer
  <2>2. /\ Backoff[other_failures + 1] \in Nat
        /\ Allowed(rate_limit_retries, other_failures + 1)
              = now + Backoff[other_failures + 1]
    BY <2>1, <1>a, <1>e, FailureAllows DEF now
  <2>3. other_failures' = other_failures + 1 /\ rate_limit_retries' = rate_limit_retries
    BY <1>4 DEF ClientError
  <2>4. QED
    BY <1>a, <1>b, <1>c, <2>1, <2>2, <2>3
<1>5. CASE WakeUp
  <2>1. /\ waited' = waited + backoff /\ backoff' = 0
        /\ UNCHANGED <<rate_limit_retries, other_failures>>
    BY <1>5 DEF WakeUp
  <2>2. QED
    BY <2>1, <1>a, <1>b, <1>c DEF now
<1>6. CASE UNCHANGED vars
  BY <1>6, <1>d DEF vars
<1>7. QED
  BY <1>1, <1>2, <1>3, <1>4, <1>5, <1>6 DEF Next

LEMMA NextIInv == IInv /\ [Next]_vars => IInv'
BY BudgetsPreserved, WaitPreserved DEF IInv, Budgets

(* The counters stay within their budgets, whatever the service answers.   *)
THEOREM TypeCorrect == Spec => []TypeOK
<1>1. IInv => TypeOK
  BY DEF IInv
<1>2. QED
  BY InitIInv, NextIInv, <1>1, PTL DEF Spec

(* The statement after the loop is unreachable for every choice of the two *)
(* budgets, not only for 3 and 8.                                          *)
THEOREM NeverFallsThroughHolds == Spec => []NeverFallsThrough
<1>1. IInv => NeverFallsThrough
  BY DEF IInv, Loop, NeverFallsThrough
<1>2. QED
  BY InitIInv, NextIInv, <1>1, PTL DEF Spec

(* Neither budget is charged for the other kind of failure.                *)
THEOREM GivesUpOnlyWhenSpentHolds == Spec => []GivesUpOnlyWhenSpent
<1>1. IInv => GivesUpOnlyWhenSpent
  BY DEF IInv
<1>2. QED
  BY InitIInv, NextIInv, <1>1, PTL DEF Spec

(* The time one call sleeps is bounded by its budgets.                     *)
THEOREM WaitBoundedHolds == Spec => []WaitBounded
<1>1. IInv => WaitBounded
  BY DEF IInv
<1>2. QED
  BY InitIInv, NextIInv, <1>1, PTL DEF Spec
=============================================================================
