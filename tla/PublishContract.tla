-------------------------- MODULE PublishContract --------------------------
(***************************************************************************)
(* What the queue promises about one job, without workers, claims, leases  *)
(* or a clock: an enqueued job stays open over a bounded number of         *)
(* attempts, its connector call takes effect at most once per attempt, and *)
(* it ends once and for all, either succeeded after it took effect, or     *)
(* dead with exactly one dead letter.                                      *)
(***************************************************************************)
EXTENDS Naturals

CONSTANTS Jobs,
          Limit      \* [Jobs -> Nat]: attempts allowed; the first is always made

VARIABLES phase,     \* "absent", "open", "succeeded" or "dead"
          tries,     \* attempts whose outcome was recorded
          posted,    \* how often the connector call took effect
          letters    \* dead letters

contractVars == <<phase, tries, posted, letters>>

\* One more attempt is recorded for j, which ends the job or keeps it open.
Close(j, end) ==
  /\ phase[j] = "open"
  /\ tries[j] = 0 \/ tries[j] < Limit[j]
  /\ phase' = [phase EXCEPT ![j] = end]
  /\ tries' = [tries EXCEPT ![j] = @ + 1]
  /\ UNCHANGED posted

Submit(j) ==
  /\ phase[j] = "absent"
  /\ phase' = [phase EXCEPT ![j] = "open"]
  /\ UNCHANGED <<tries, posted, letters>>

\* The attempt under way takes effect on the platform.
Post(j) ==
  /\ phase[j] = "open"
  /\ posted[j] <= tries[j]
  /\ posted' = [posted EXCEPT ![j] = @ + 1]
  /\ UNCHANGED <<phase, tries, letters>>

Succeed(j) ==
  /\ posted[j] >= 1
  /\ Close(j, "succeeded")
  /\ UNCHANGED letters

\* A failed attempt that is not the last one.
Retry(j) ==
  /\ tries[j] + 1 < Limit[j]
  /\ Close(j, "open")
  /\ UNCHANGED letters

Bury(j) ==
  /\ Close(j, "dead")
  /\ letters' = [letters EXCEPT ![j] = @ + 1]

Init ==
  /\ phase = [j \in Jobs |-> "absent"]
  /\ tries = [j \in Jobs |-> 0]
  /\ posted = [j \in Jobs |-> 0]
  /\ letters = [j \in Jobs |-> 0]

Next == \E j \in Jobs : Submit(j) \/ Post(j) \/ Succeed(j) \/ Retry(j) \/ Bury(j)

Spec == Init /\ [][Next]_contractVars
=============================================================================
