---------------------------- MODULE MCLlmClient -----------------------------
(* Instances of LlmClient for TLC.  The values of Retry-After lie below,   *)
(* within and above the range a wait is clamped to.                        *)
EXTENDS LlmClient

MCRetryAfter == {0, 7, 60, 61, 3600}
MCBackoff == [n \in 1..MaxAttempts |-> 2 ^ (n - 1)]
=============================================================================
