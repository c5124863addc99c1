---------------------------- MODULE Materializer ----------------------------
(***************************************************************************)
(* Scheduling: the rows of schedules and scheduled_campaigns               *)
(* (packages/db/src/repositories), their creation                          *)
(* (packages/scheduler/src/schedule-service.ts and scheduleCampaign in     *)
(* packages/pipeline/src/pipeline.ts), and the sweeps that turn due        *)
(* occurrences into post variants and publish jobs                         *)
(* (packages/scheduler/src/materializer.ts, CampaignService and            *)
(* PublishService in packages/pipeline/src).                               *)
(*                                                                         *)
(* Every request to POST /api/schedules/materialize-due runs a sweep of    *)
(* its own, so sweeps overlap: in one process at each await, and at each   *)
(* database call when two processes share the database.                    *)
(*                                                                         *)
(* An instant is a natural number.  A recurrence rule is the set of        *)
(* instants it describes.                                                  *)
(***************************************************************************)
EXTENDS Integers

CONSTANTS
  Schedules,   \* schedules anyone ever creates
  Targets,     \* ComposeAndSubmitInput.platforms: platform and account
  Sweeps,      \* materializeDue() calls that may run at the same time
  Mode,        \* [Schedules -> mode]
  Anchor,      \* [Schedules -> Nat]: runAt, the local start converted to UTC
  Rule,        \* [Schedules -> SUBSET Nat]: recurrence_rule
  Window,      \* the 366 days that nextOccurrence looks ahead
  Horizon,     \* bound: the last instant the clock reaches
  MaxExits,    \* bound: process exits
  MaxFaults,   \* bound: calls that throw
  None         \* an empty hand

Modes == {"immediate", "once", "recurring"}

ASSUME MaterializerAssumption ==
  /\ Mode \in [Schedules -> Modes]
  /\ Anchor \in [Schedules -> Nat]
  /\ Rule \in [Schedules -> SUBSET Nat]
  /\ Window \in Nat
  /\ Horizon \in Nat
  /\ MaxExits \in Nat
  /\ MaxFaults \in Nat

VARIABLES
  \* The durable rows.
  status,    \* schedules.status, "absent" before the row exists
  nextRun,   \* schedules.next_run_at
  lastRun,   \* schedules.last_run_at
  spec,      \* is there a scheduled_campaigns row?
  variants,  \* post_variants rows written for an occurrence and a target
  jobs,      \* publish_jobs rows written for an occurrence and a target
  \* The memory of the handlers.
  saving,    \* schedules whose row is written and whose compose spec is not
  pc,        \* where each sweep stands
  todo,      \* what its listDue returned and it has not come to yet
  current,   \* the occurrence it is submitting
  progress,  \* how far processTarget is with each target of that occurrence
  \* What is logged, and the environment.
  outcome,   \* MaterializeOutcome of an occurrence, "claimed" until then
  now, exits, faults

rowVars    == <<status, nextRun, lastRun, spec>>
outputVars == <<variants, jobs>>
sweepVars  == <<pc, todo, current, progress>>
vars == <<rowVars, outputVars, saving, sweepVars, outcome, now, exits, faults>>

NoInstant == -1     \* NULL in next_run_at and last_run_at
Instants == 0 .. Horizon
Occurrences == [sched : Schedules, at : Instants]
Live == {"pending", "active"}
Locations == {"idle", "sweeping", "claimed", "composing"}
Steps == {"waiting", "variant", "enqueued", "failed"}

TypeOK ==
  /\ status \in [Schedules -> {"absent", "completed"} \cup Live]
  /\ nextRun \in [Schedules -> Nat \cup {NoInstant}]
  /\ lastRun \in [Schedules -> Nat \cup {NoInstant}]
  /\ spec \in [Schedules -> BOOLEAN]
  /\ variants \in [Occurrences -> [Targets -> Nat]]
  /\ jobs \in [Occurrences -> [Targets -> Nat]]
  /\ saving \in SUBSET Schedules
  /\ pc \in [Sweeps -> Locations]
  /\ todo \in [Sweeps -> SUBSET Occurrences]
  /\ current \in [Sweeps -> Occurrences \cup {None}]
  /\ progress \in [Sweeps -> [Targets -> Steps]]
  /\ outcome \in [Occurrences -> {"none", "claimed", "submitted", "submit_failed"}]
  /\ now \in Instants
  /\ exits \in 0 .. MaxExits
  /\ faults \in 0 .. MaxFaults

\* Sweep w won the claim of occurrence o and has not reported on it yet.
Submitting(w, o) == pc[w] \in {"claimed", "composing"} /\ current[w] = o

-----------------------------------------------------------------------------
(***************************************************************************)
(* Recurrence.                                                             *)
(***************************************************************************)
\* occurrencesInRange, as the instants from `from` up to `upto`.
OccurrencesInRange(s, from, upto) == { t \in Rule[s] : from <= t /\ t <= upto }

\* found[0]: a set, empty when nothing was found.
Earliest(S) == { t \in S : \A u \in S : t <= u }

\* Defect: the lower bound is inclusive.
NextInclusive(o) ==
  LET found == OccurrencesInRange(o.sched, o.at, o.at + Window)
  IN  IF Mode[o.sched] = "recurring" /\ found # {} THEN Earliest(found) ELSE {NoInstant}

\* Defect: the next occurrence is looked for after now instead of after this one.
NextAfterNow(o) ==
  LET found == OccurrencesInRange(o.sched, now + 1, now + Window)
  IN  IF Mode[o.sched] = "recurring" /\ found # {} THEN Earliest(found) ELSE {NoInstant}

\* computeNextRunAt: NULL for a one-shot; for a recurring schedule the next
\* occurrence strictly after this one, if there is one in the window.
NextRunAt(o) ==
  LET found == OccurrencesInRange(o.sched, o.at + 1, o.at + Window)
  IN  IF Mode[o.sched] = "recurring" /\ found # {} THEN Earliest(found) ELSE {NoInstant}

\* The first next_run_at of a new schedule; empty when scheduleRecurring throws.
FirstRunAt(s) ==
  CASE Mode[s] = "immediate" -> {now}
    [] Mode[s] = "once"      -> {Anchor[s]}
    [] Mode[s] = "recurring" ->
         Earliest(OccurrencesInRange(s, Anchor[s], Anchor[s] + Window))

-----------------------------------------------------------------------------
(***************************************************************************)
(* scheduleCampaign: two rows, two transactions.                           *)
(***************************************************************************)
CreateSchedule(s) ==
  /\ status[s] = "absent"
  /\ \E t \in FirstRunAt(s) : nextRun' = [nextRun EXCEPT ![s] = t]
  /\ status' = [status EXCEPT ![s] = "pending"]
  /\ saving' = saving \cup {s}
  /\ UNCHANGED <<lastRun, spec, outputVars, sweepVars, outcome, now, exits, faults>>

PersistSpec(s) ==
  /\ s \in saving
  /\ spec' = [spec EXCEPT ![s] = TRUE]
  /\ saving' = saving \ {s}
  /\ UNCHANGED <<status, nextRun, lastRun, outputVars, sweepVars, outcome, now, exits, faults>>

\* The insert throws: the request is answered 400, the schedule row stays.
PersistSpecThrows(s) ==
  /\ s \in saving
  /\ faults < MaxFaults
  /\ faults' = faults + 1
  /\ saving' = saving \ {s}
  /\ UNCHANGED <<rowVars, outputVars, sweepVars, outcome, now, exits>>

CreatorExit(s) ==
  /\ s \in saving
  /\ exits < MaxExits
  /\ exits' = exits + 1
  /\ saving' = saving \ {s}
  /\ UNCHANGED <<rowVars, outputVars, sweepVars, outcome, now, faults>>

-----------------------------------------------------------------------------
(***************************************************************************)
(* The sweep.                                                              *)
(***************************************************************************)
ListDue ==
  { o \in Occurrences : /\ status[o.sched] \in Live
                        /\ nextRun[o.sched] = o.at
                        /\ o.at <= now }

StartSweep(w) ==
  /\ pc[w] = "idle"
  /\ ListDue # {}
  /\ todo' = [todo EXCEPT ![w] = ListDue]
  /\ pc' = [pc EXCEPT ![w] = "sweeping"]
  /\ UNCHANGED <<rowVars, outputVars, saving, current, progress, outcome, now, exits, faults>>

\* o is next in sweep w: ORDER BY next_run_at ASC, ties in any order.
UpNext(w, o) ==
  /\ pc[w] = "sweeping"
  /\ o \in todo[w]
  /\ \A other \in todo[w] : o.at <= other.at

\* Defect: the claim does not compare next_run_at with what was read.
ClaimableById(o) == status[o.sched] \in Live

\* The WHERE of claimOccurrence.
Claimable(o) == nextRun[o.sched] = o.at /\ status[o.sched] \in Live

StatusAfter(t) == IF t = NoInstant THEN "completed" ELSE "active"

ClaimOccurrence(w, o) ==
  /\ UpNext(w, o)
  /\ Claimable(o)
  /\ \E t \in NextRunAt(o) :
       /\ nextRun' = [nextRun EXCEPT ![o.sched] = t]
       /\ status' = [status EXCEPT ![o.sched] = StatusAfter(t)]
  /\ lastRun' = [lastRun EXCEPT ![o.sched] = o.at]
  /\ outcome' = [outcome EXCEPT ![o] = "claimed"]
  /\ pc' = [pc EXCEPT ![w] = "claimed"]
  /\ todo' = [todo EXCEPT ![w] = @ \ {o}]
  /\ current' = [current EXCEPT ![w] = o]
  /\ UNCHANGED <<spec, outputVars, saving, progress, now, exits, faults>>

\* The loop of materializeDue goes on with what is left, or the sweep returns.
Continue(w, left) ==
  /\ pc' = [pc EXCEPT ![w] = IF left = {} THEN "idle" ELSE "sweeping"]
  /\ todo' = [todo EXCEPT ![w] = left]
  /\ current' = [current EXCEPT ![w] = None]

\* skipped_lost_claim: another sweep moved next_run_at first.
LoseClaim(w, o) ==
  /\ UpNext(w, o)
  /\ ~Claimable(o)
  /\ Continue(w, todo[w] \ {o})
  /\ UNCHANGED <<rowVars, outputVars, saving, progress, outcome, now, exits, faults>>

\* submitOccurrence loads the compose spec and composeAndSubmit starts on it.
Compose(w) ==
  /\ pc[w] = "claimed"
  /\ spec[current[w].sched]
  /\ pc' = [pc EXCEPT ![w] = "composing"]
  /\ progress' = [progress EXCEPT ![w] = [x \in Targets |-> "waiting"]]
  /\ UNCHANGED <<rowVars, outputVars, saving, todo, current, outcome, now, exits, faults>>

\* Defect: what the submission throws is not caught.
ComposeFailsUncaught(w) ==
  /\ pc[w] = "claimed"
  /\ \/ ~spec[current[w].sched] /\ UNCHANGED faults
     \/ faults < MaxFaults /\ faults' = faults + 1
  /\ Continue(w, {})
  /\ UNCHANGED <<rowVars, outputVars, saving, progress, outcome, now, exits>>

\* submit_failed: no spec row, or planning the media throws.
ComposeFails(w) ==
  /\ pc[w] = "claimed"
  /\ \/ ~spec[current[w].sched] /\ UNCHANGED faults
     \/ faults < MaxFaults /\ faults' = faults + 1
  /\ outcome' = [outcome EXCEPT ![current[w]] = "submit_failed"]
  /\ Continue(w, todo[w])
  /\ UNCHANGED <<rowVars, outputVars, saving, progress, now, exits>>

\* Generating, validating or writing the variant fails for one target; the
\* others go on.
TargetFails(w, x) ==
  /\ pc[w] = "composing"
  /\ progress[w][x] = "waiting"
  /\ progress' = [progress EXCEPT ![w][x] = "failed"]
  /\ UNCHANGED <<rowVars, outputVars, saving, pc, todo, current, outcome, now, exits, faults>>

CreateVariant(w, x) ==
  /\ pc[w] = "composing"
  /\ progress[w][x] = "waiting"
  /\ variants' = [variants EXCEPT ![current[w]][x] = @ + 1]
  /\ progress' = [progress EXCEPT ![w][x] = "variant"]
  /\ UNCHANGED <<rowVars, jobs, saving, pc, todo, current, outcome, now, exits, faults>>

\* Defect: the submission is repeated for a target that is already enqueued.
EnqueueJobAgain(w, x) ==
  /\ pc[w] = "composing"
  /\ progress[w][x] \in {"variant", "enqueued"}
  /\ jobs' = [jobs EXCEPT ![current[w]][x] = @ + 1]
  /\ progress' = [progress EXCEPT ![w][x] = "enqueued"]
  /\ UNCHANGED <<rowVars, variants, saving, pc, todo, current, outcome, now, exits, faults>>

\* The idempotency key holds the id of the variant just created, so this
\* insert never meets an older row.
EnqueueJob(w, x) ==
  /\ pc[w] = "composing"
  /\ progress[w][x] = "variant"
  /\ jobs' = [jobs EXCEPT ![current[w]][x] = @ + 1]
  /\ progress' = [progress EXCEPT ![w][x] = "enqueued"]
  /\ UNCHANGED <<rowVars, variants, saving, pc, todo, current, outcome, now, exits, faults>>

EnqueueThrows(w, x) ==
  /\ pc[w] = "composing"
  /\ progress[w][x] = "variant"
  /\ faults < MaxFaults
  /\ faults' = faults + 1
  /\ progress' = [progress EXCEPT ![w][x] = "failed"]
  /\ UNCHANGED <<rowVars, outputVars, saving, pc, todo, current, outcome, now, exits>>

\* Defect: the first target to settle ends the submission.
AnySettled(w) == \E x \in Targets : progress[w][x] \in {"enqueued", "failed"}

\* Promise.all over the targets.
AllSettled(w) == \A x \in Targets : progress[w][x] \in {"enqueued", "failed"}

\* "submitted", whatever became of the targets.
FinishOccurrence(w) ==
  /\ pc[w] = "composing"
  /\ AllSettled(w)
  /\ outcome' = [outcome EXCEPT ![current[w]] = "submitted"]
  /\ Continue(w, todo[w])
  /\ UNCHANGED <<rowVars, outputVars, saving, progress, now, exits, faults>>

\* computeNextRunAt or claimOccurrence throws, outside the try: the request
\* fails and the rest of the sweep with it.
SweepThrows(w) ==
  /\ pc[w] = "sweeping"
  /\ faults < MaxFaults
  /\ faults' = faults + 1
  /\ Continue(w, {})
  /\ UNCHANGED <<rowVars, outputVars, saving, progress, outcome, now, exits>>

\* The process goes away in the middle of a sweep.
Exit(w) ==
  /\ pc[w] # "idle"
  /\ exits < MaxExits
  /\ exits' = exits + 1
  /\ Continue(w, {})
  /\ UNCHANGED <<rowVars, outputVars, saving, progress, outcome, now, faults>>

Tick ==
  /\ now < Horizon
  /\ now' = now + 1
  /\ UNCHANGED <<rowVars, outputVars, saving, sweepVars, outcome, exits, faults>>

-----------------------------------------------------------------------------
Init ==
  /\ status = [s \in Schedules |-> "absent"]
  /\ nextRun = [s \in Schedules |-> NoInstant]
  /\ lastRun = [s \in Schedules |-> NoInstant]
  /\ spec = [s \in Schedules |-> FALSE]
  /\ variants = [o \in Occurrences |-> [x \in Targets |-> 0]]
  /\ jobs = [o \in Occurrences |-> [x \in Targets |-> 0]]
  /\ saving = {}
  /\ pc = [w \in Sweeps |-> "idle"]
  /\ todo = [w \in Sweeps |-> {}]
  /\ current = [w \in Sweeps |-> None]
  /\ progress = [w \in Sweeps |-> [x \in Targets |-> "waiting"]]
  /\ outcome = [o \in Occurrences |-> "none"]
  /\ now = 0
  /\ exits = 0
  /\ faults = 0

CreatorStep(s) == PersistSpec(s) \/ PersistSpecThrows(s) \/ CreatorExit(s)

TargetStep(w, x) ==
  \/ TargetFails(w, x)
  \/ CreateVariant(w, x)
  \/ EnqueueJob(w, x)
  \/ EnqueueThrows(w, x)

\* A step of a sweep that is under way.
SweepStep(w) ==
  \/ \E o \in todo[w] : ClaimOccurrence(w, o) \/ LoseClaim(w, o)
  \/ Compose(w)
  \/ ComposeFails(w)
  \/ \E x \in Targets : TargetStep(w, x)
  \/ FinishOccurrence(w)
  \/ SweepThrows(w)

Next ==
  \/ \E s \in Schedules : CreateSchedule(s) \/ CreatorStep(s)
  \/ \E w \in Sweeps : StartSweep(w) \/ SweepStep(w) \/ Exit(w)
  \/ Tick

Spec == Init /\ [][Next]_vars

\* A sweep that was started goes on: every await in it settles.  Nobody is
\* obliged to start one, there is no poller.
FairSpec == Spec /\ \A w \in Sweeps : WF_vars(SweepStep(w))

-----------------------------------------------------------------------------
(***************************************************************************)
(* What scheduling is for.                                                 *)
(***************************************************************************)

\* However many sweeps overlap and wherever they break off, one occurrence
\* yields at most one variant and one job per target.
AtMostOneJob ==
  \A o \in Occurrences, x \in Targets :
    jobs[o][x] <= variants[o][x] /\ variants[o][x] <= 1

\* Only the sweep that won the claim submits an occurrence, and while it does
\* the schedule has moved past it.
SoleSubmitter ==
  \A w \in Sweeps, o \in Occurrences : Submitting(w, o) =>
    /\ outcome[o] = "claimed"
    /\ o.at <= lastRun[o.sched]
    /\ \A other \in Sweeps \ {w} : ~Submitting(other, o)

\* A backlog drains one occurrence at a time: once a schedule has moved past an
\* instant of its rule, that instant was claimed.
NoneSkipped ==
  \A o \in Occurrences :
    (/\ Mode[o.sched] = "recurring"
     /\ o.at \in Rule[o.sched]
     /\ Anchor[o.sched] <= o.at
     /\ o.at <= lastRun[o.sched]) => outcome[o] # "none"

\* Nothing is materialized before its time, or at an instant the schedule does
\* not name.
OnTime ==
  \A o \in Occurrences : outcome[o] # "none" =>
    /\ o.at <= now
    /\ Mode[o.sched] = "recurring" => o.at \in Rule[o.sched]
    /\ Mode[o.sched] = "once" => o.at = Anchor[o.sched]

\* An occurrence that was consumed without a report is in the hands of a sweep,
\* as long as no process went away.
NothingLost ==
  exits = 0 => \A o \in Occurrences :
    outcome[o] = "claimed" => \E w \in Sweeps : Submitting(w, o)

\* However sweeps overlap, one of them submits an occurrence, once per target.
SubmittedOnce == AtMostOneJob /\ SoleSubmitter

\* Every occurrence a schedule has moved past is accounted for: it was taken, at
\* its time, and is reported on or in the hands of a sweep.
OccurrencesAccounted == NoneSkipped /\ OnTime /\ NothingLost

\* A report tells what was written: nothing after submit_failed, and after
\* submitted a job for every variant, unless a call threw in between.
ReportsAreTrue ==
  \A o \in Occurrences, x \in Targets :
    /\ outcome[o] \in {"none", "submit_failed"} => variants[o][x] = 0
    /\ outcome[o] = "submitted" /\ faults = 0 => jobs[o][x] = variants[o][x]

\* A schedule never goes back to an occurrence it has moved past, and is over
\* for good when it is completed.
CursorMovesOn ==
  [][\A s \in Schedules :
       /\ lastRun[s] <= lastRun'[s]
       /\ nextRun'[s] # NoInstant => lastRun'[s] < nextRun'[s]
       /\ status[s] = "completed" => status'[s] = "completed" /\ lastRun'[s] = lastRun[s]]_vars

\* A claimed occurrence is reported on in the end.
ClaimedIsReported ==
  \A o \in Occurrences : outcome[o] = "claimed" ~> outcome[o] # "claimed"

-----------------------------------------------------------------------------
Stage(o) == CASE outcome[o] = "none"    -> "none"
              [] outcome[o] = "claimed" -> "taken"
              [] OTHER                  -> "reported"

Contract == INSTANCE OccurrenceContract WITH
  stage <- [o \in Occurrences |-> Stage(o)],
  submitted <- jobs

\* Overlapping sweeps with their claims, failures and exits are an
\* implementation of OccurrenceContract.
ImplementsContract == Contract!Spec
=============================================================================
