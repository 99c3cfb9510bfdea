----------------------------- MODULE RetryPolicy -----------------------------
(***************************************************************************)
(* The retry policy of the factory (scripts/factory_retry_policy.py): how  *)
(* long failed work waits before its next attempt, and when there is no    *)
(* next one.  The jitter is a digest of job and attempt in the code; here  *)
(* it is any value of its range.                                           *)
(***************************************************************************)
EXTENDS Integers

CONSTANTS
  BaseDelay,      \* base_delay_seconds
  MaxDelay,       \* max_delay_seconds
  JitterPercent,  \* jitter_percent
  RetryHints,     \* retry_after_seconds hints, at most the ceiling; 0 for none
  MaxAttempts,    \* max_attempts
  MaxElapsed      \* max_elapsed_seconds

(* RetryPolicy.validate_bounds and its field bounds.                       *)
ASSUME RetryAssumption ==
  /\ BaseDelay \in Nat \ {0}
  /\ MaxDelay \in BaseDelay .. MaxElapsed
  /\ JitterPercent \in 0 .. 50
  /\ RetryHints \subseteq Nat
  /\ MaxAttempts \in 1 .. 20
  /\ MaxElapsed \in Nat

Least(a, b) == IF a <= b THEN a ELSE b
Greatest(a, b) == IF a <= b THEN b ELSE a

(* The delay after attempt n, before jitter: doubled every time.           *)
Backoff(n) == Least(BaseDelay * 2 ^ (n - 1), MaxDelay)
JitterSpan(n) == (Backoff(n) * JitterPercent) \div 100

(* retry_not_before: jittered, at least the capped hint, at least a second,*)
(* at most the maximum.                                                    *)
Delay(n, jitter, hint) ==
  Least(Greatest(1, Greatest(Backoff(n) + jitter, Least(hint, MaxDelay))), MaxDelay)

RetryDelays(n) ==
  {Delay(n, jitter, hint) : jitter \in - JitterSpan(n) .. JitterSpan(n), hint \in RetryHints}

(* No further attempt: the count or the time since acceptance is used up.  *)
Exhausted(attempts, created, t) ==
  attempts >= MaxAttempts \/ t >= created + MaxElapsed

-----------------------------------------------------------------------------
(* The shortest wait the policy can choose after attempt n.                *)
ShortestDelay(n) == Greatest(1, Backoff(n) - JitterSpan(n))

(* The least time n attempts take: each lasts a lease of a second or more, *)
(* and a delay follows it.                                                 *)
EarliestStart[n \in 1 .. MaxAttempts] ==
  IF n = 1 THEN 0 ELSE EarliestStart[n - 1] + 1 + ShortestDelay(n - 1)
=============================================================================
