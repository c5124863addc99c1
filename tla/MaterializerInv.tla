-------------------------- MODULE MaterializerInv --------------------------
(***************************************************************************)
(* The inductive invariant of Materializer: where the cursor of a schedule *)
(* stands relative to what was claimed, and what the hand of a sweep has   *)
(* in common with the rows it writes.                                      *)
(***************************************************************************)
EXTENDS Materializer

InHand(w) == pc[w] \in {"claimed", "composing"}

\* A sweep that is submitting has an occurrence, and it won the claim of it.
HandsClaimed ==
  \A w \in Sweeps : InHand(w) => /\ current[w] \in Occurrences
                                 /\ outcome[current[w]] = "claimed"

\* No two sweeps have the same occurrence.
HandsApart ==
  \A w, other \in Sweeps : InHand(w) /\ InHand(other) /\ current[w] = current[other] => w = other

\* The cursor is ahead of the last run, and the last run ahead of everything
\* that was ever claimed.
CursorAhead ==
  /\ \A s \in Schedules :
       /\ nextRun[s] # NoInstant => lastRun[s] < nextRun[s]
       /\ status[s] = "absent" => lastRun[s] = NoInstant
  /\ \A o \in Occurrences : outcome[o] # "none" => o.at <= lastRun[o.sched]

\* The cursor stands on an instant of the schedule, and between the last run
\* and the cursor the rule has none.
CursorOnRule ==
  \A s \in Schedules : nextRun[s] # NoInstant =>
    /\ Mode[s] = "once" => nextRun[s] = Anchor[s]
    /\ Mode[s] = "recurring" =>
         /\ nextRun[s] \in Rule[s]
         /\ \A t \in Rule[s] : Anchor[s] <= t /\ t < nextRun[s] => t <= lastRun[s]

\* What a sweep read is due, for as long as it keeps it.
TodoIsDue == \A w \in Sweeps : \A o \in todo[w] : o.at <= now

\* The rows of the occurrence in hand are those its sweep knows of.
ProgressIsTrue ==
  \A w \in Sweeps, x \in Targets :
    /\ pc[w] = "claimed" => variants[current[w]][x] = 0 /\ jobs[current[w]][x] = 0
    /\ pc[w] = "composing" =>
         CASE progress[w][x] = "waiting" -> variants[current[w]][x] = 0 /\ jobs[current[w]][x] = 0
           [] progress[w][x] = "variant" -> variants[current[w]][x] = 1 /\ jobs[current[w]][x] = 0
           [] progress[w][x] = "enqueued" -> variants[current[w]][x] = 1 /\ jobs[current[w]][x] = 1
           [] OTHER -> faults = 0 => variants[current[w]][x] = 0 /\ jobs[current[w]][x] = 0

IInv ==
  /\ TypeOK
  /\ HandsClaimed
  /\ HandsApart
  /\ CursorAhead
  /\ CursorOnRule
  /\ TodoIsDue
  /\ ProgressIsTrue
  /\ AtMostOneJob
  /\ NoneSkipped
  /\ OnTime
  /\ NothingLost
  /\ ReportsAreTrue
=============================================================================
