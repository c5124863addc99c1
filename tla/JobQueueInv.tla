---------------------------- MODULE JobQueueInv ----------------------------
(***************************************************************************)
(* The inductive invariant of JobQueue in a deployment whose lease covers  *)
(* the work (LeaseCoversWork).  The writes of the store carry no guard of  *)
(* their own, so the properties of JobQueue hold only because of what each *)
(* actor's memory still has in common with the rows when it writes: that   *)
(* relation is stated here, part by part.                                  *)
(***************************************************************************)
EXTENDS JobQueue

\* The copies of rows that w read when it claimed them and has still to settle.
InHand(w) ==
  batch[w] \cup (IF pc[w] \in {"handling", "settled"} THEN {current[w]} ELSE {})

\* A worker's copies are not stale: the rows are still its own, within the
\* lease, with the attempts it read.
HeldRows ==
  \A w \in Workers : \A r \in InHand(w) :
    /\ claimedBy[r.job] = w
    /\ age[r.job] < Lease
    /\ attempts[r.job] = r.attempts

\* How far the worker is with a job shows in the row.
ProgressShows ==
  \A w \in Workers :
    /\ \A r \in batch[w] : status[r.job] = "claimed"
    /\ pc[w] \in {"handling", "settled"} => status[current[w].job] = "running"

\* The worker's memory fits the place its loop stands at.
MemoryFits ==
  \A w \in Workers :
    /\ pc[w] \in {"down", "idle"} => batch[w] = {}
    /\ pc[w] \in {"handling", "settled", "emit"} => current[w] \in Records
    /\ \A r, s \in batch[w] : r.job = s.job => r = s

\* What the sweeper read is not stale either: nobody else can touch a row whose
\* lease is over.
StuckRows ==
  /\ \A r \in stuck : /\ status[r.job] \in InFlight
                      /\ age[r.job] = Lease
                      /\ attempts[r.job] = r.attempts
  /\ \A r, s \in stuck : r.job = s.job => r = s

\* A job that is not over has an attempt left, or has not made its first.
AttemptLeft ==
  \A j \in Jobs :
    /\ status[j] = "absent" => attempts[j] = 0
    /\ status[j] \in {"pending"} \cup InFlight => attempts[j] = 0 \/ attempts[j] < MaxAttempts[j]

\* The attempt under way has not taken effect before its handler settles, and
\* has when the handler resolved.
EffectOfAttempt ==
  \A w \in Workers :
    /\ pc[w] = "handling" => effects[current[w].job] <= attempts[current[w].job]
    /\ pc[w] = "settled" /\ verdict[w] = "ok" => effects[current[w].job] >= 1

\* The sweeper's event describes its row, too.
SweepEventAgrees ==
  sweepEvent # None /\ sweepEvent.type = "job.dead_lettered" => status[sweepEvent.job] = "dead"

\* The event job.published never comes from the sweeper.
SweeperNeverPublishes == sweepEvent # None => sweepEvent.type # "job.published"

IInv ==
  /\ TypeOK
  /\ HeldRows
  /\ ProgressShows
  /\ MemoryFits
  /\ StuckRows
  /\ AttemptLeft
  /\ EffectOfAttempt
  /\ SweepEventAgrees
  /\ SweeperNeverPublishes
  /\ NoOrphanWithoutExit
  /\ EffectsAreCounted
  /\ AttemptsBounded
  /\ SuccessIsReal
  /\ OneDeadLetter
  /\ EventsAgreeWithRows
  /\ VariantsAreTrue
=============================================================================
