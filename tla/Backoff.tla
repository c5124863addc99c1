------------------------------ MODULE Backoff ------------------------------
(***************************************************************************)
(* The retry policy of packages/queue/src/retry.ts: capped exponential     *)
(* delay with equal jitter.  Time is counted in ticks; `random()` is the   *)
(* choice of one delay out of the set of every delay it can produce.       *)
(***************************************************************************)
EXTENDS Naturals

CONSTANTS BackoffBase,    \* options.baseMs, in ticks
          BackoffFactor,  \* options.factor
          BackoffMax      \* options.maxDelayMs, in ticks

ASSUME BackoffAssumption ==
  /\ BackoffBase \in Nat
  /\ BackoffFactor \in Nat
  /\ BackoffMax \in Nat

\* `capped`: the exponential delay after the attempt-th failure (1-based), cut
\* at the ceiling.
CappedDelay(attempt) ==
  LET uncapped == BackoffBase * BackoffFactor ^ (IF attempt = 0 THEN 0 ELSE attempt - 1)
  IN  IF uncapped < BackoffMax THEN uncapped ELSE BackoffMax

\* Math.round(half + random() * half): anything from half the capped delay,
\* rounded up, to the whole of it.
BackoffDelays(attempt) ==
  { d \in 0 .. BackoffMax : /\ CappedDelay(attempt) <= 2 * d
                            /\ d <= CappedDelay(attempt) }
=============================================================================
