------------------------------ MODULE JobQueue ------------------------------
(***************************************************************************)
(* The persisted publish queue: the rows of publish_jobs and               *)
(* dead_letter_jobs (packages/db/src/repositories/jobs.ts), the workers    *)
(* that drain them (packages/queue/src/worker.ts), the sweeper that takes  *)
(* back what a crashed worker left behind (packages/queue/src/reclaim.ts), *)
(* and the pipeline's listener that copies each outcome onto the           *)
(* post_variants row (packages/pipeline/src/pipeline.ts).                  *)
(*                                                                         *)
(* One JobStore call is one step: each of them runs synchronously inside   *)
(* the SQLite driver.  Between two calls of one worker every other worker, *)
(* the sweeper, the clock and a crash may run.                             *)
(*                                                                         *)
(* Time is relative, so that the model needs no last instant: a pending    *)
(* job carries the ticks left until available_at, a claimed one the ticks  *)
(* passed since claimed_at.                                                *)
(***************************************************************************)
EXTENDS Integers, FiniteSets, Backoff

CONSTANTS
  Jobs,            \* one element per idempotency key ever enqueued
  Variants,        \* rows of post_variants
  Workers,         \* Worker instances, each with its own workerId
  Operation,       \* [Jobs -> operation]: which connector call the job makes
  VariantOf,       \* [Jobs -> Variants]: publish_jobs.post_variant_id
  MaxAttempts,     \* [Jobs -> Nat]: publish_jobs.max_attempts
  BatchSize,       \* WorkerOptions.batchSize
  Lease,           \* ReclaimSweeperOptions.leaseMs, in ticks
  SweeperRuns,     \* is a ReclaimSweeper started at all?
  LeaseCoversWork, \* does every worker finish what it claimed within the lease?
  AmbiguousFailures, \* may a connector call fail after the platform acted?
  MaxOverdue,      \* bound: how long an overdue job's age is told apart
  MaxExits,        \* bound: process exits (crashes and graceful stops)
  MaxFaults,       \* bound: store or listener calls that throw
  None             \* NULL in a column, and an empty hand

Operations == {"publish", "edit", "delete", "collect_analytics"}

ASSUME JobQueueAssumption ==
  /\ Operation \in [Jobs -> Operations]
  /\ VariantOf \in [Jobs -> Variants]
  /\ MaxAttempts \in [Jobs -> Nat]
  /\ BatchSize \in Nat \ {0}
  /\ Lease \in Nat \ {0}
  /\ SweeperRuns \in BOOLEAN
  /\ LeaseCoversWork \in BOOLEAN
  /\ AmbiguousFailures \in BOOLEAN
  /\ MaxOverdue \in Nat
  /\ MaxExits \in Nat
  /\ MaxFaults \in Nat

VARIABLES
  \* The durable rows.
  status,      \* publish_jobs.status, "absent" before the row exists
  attempts,    \* publish_jobs.attempts
  dueIn,       \* available_at - now, for a pending job (0 otherwise)
  age,         \* now - claimed_at, for a claimed job, saturating at Lease
  claimedBy,   \* publish_jobs.claimed_by
  deadLetters, \* number of dead_letter_jobs rows of the job
  variant,     \* post_variants.status
  \* The memory of each worker.
  pc,          \* where its loop stands
  batch,       \* what runOnce claimed and has not started yet
  current,     \* the job record that process() was called with
  verdict,     \* how the handler ended, then which event is to be emitted
  \* The memory of the sweeper.
  stuck,       \* what findStuckJobs returned and is not reclaimed yet
  sweepEvent,  \* the event the sweeper is about to emit
  \* What happened outside.
  effects,     \* how often the job's connector call took effect remotely
  exits, faults

rowVars     == <<status, attempts, dueIn, age, claimedBy, deadLetters>>
workerVars  == <<pc, batch, current, verdict>>
sweeperVars == <<stuck, sweepEvent>>
vars == <<rowVars, variant, workerVars, sweeperVars, effects, exits, faults>>

Terminal  == {"succeeded", "dead"}
InFlight  == {"claimed", "running"}
Statuses  == {"absent", "pending"} \cup InFlight \cup Terminal
Locations == {"down", "idle", "batch", "handling", "settled", "emit"}
Outcomes  == {"ok", "retryable", "fatal"}
Events    == {"job.published", "job.retry_scheduled", "job.dead_lettered"}

\* The part of a PublishJobRecord copy that is read after an await: its id, the
\* attempts it had when it was read, and its place in the ORDER BY of the read.
Records == [job : Jobs, attempts : Nat, rank : Int]
SweepEvents == [job : Jobs, type : Events]

TypeOK ==
  /\ status \in [Jobs -> Statuses]
  /\ attempts \in [Jobs -> Nat]
  /\ dueIn \in [Jobs -> -MaxOverdue .. BackoffMax]
  /\ age \in [Jobs -> 0 .. Lease]
  /\ claimedBy \in [Jobs -> Workers \cup {None}]
  /\ deadLetters \in [Jobs -> Nat]
  /\ variant \in [Variants -> {"queued", "published", "failed"}]
  /\ pc \in [Workers -> Locations]
  /\ batch \in [Workers -> SUBSET Records]
  /\ current \in [Workers -> Records \cup {None}]
  /\ verdict \in [Workers -> Outcomes \cup Events \cup {None}]
  /\ stuck \in SUBSET Records
  /\ sweepEvent \in SweepEvents \cup {None}
  /\ effects \in [Jobs -> Nat]
  /\ exits \in 0 .. MaxExits
  /\ faults \in 0 .. MaxFaults

\* Worker w has job j in its memory and has not recorded an outcome for it yet.
Holds(w, j) ==
  \/ \E r \in batch[w] : r.job = j
  \/ pc[w] \in {"handling", "settled"} /\ current[w].job = j

-----------------------------------------------------------------------------
(***************************************************************************)
(* The writes of SqliteJobStore.  None of them looks at the status or the  *)
(* owner of the row: `WHERE id = ?` is the only condition.                 *)
(***************************************************************************)
WriteClaimed(S, w) ==
  /\ status' = [j \in Jobs |-> IF j \in S THEN "claimed" ELSE status[j]]
  /\ claimedBy' = [j \in Jobs |-> IF j \in S THEN w ELSE claimedBy[j]]
  /\ age' = [j \in Jobs |-> IF j \in S THEN 0 ELSE age[j]]
  /\ dueIn' = [j \in Jobs |-> IF j \in S THEN 0 ELSE dueIn[j]]
  /\ UNCHANGED <<attempts, deadLetters>>

MarkRunning(j) ==
  /\ status' = [status EXCEPT ![j] = "running"]
  /\ UNCHANGED <<attempts, dueIn, age, claimedBy, deadLetters>>

\* Defect: the failed attempt is not counted.
UncountedRelease(j) ==
  /\ UNCHANGED attempts
  /\ claimedBy' = [claimedBy EXCEPT ![j] = None]
  /\ age' = [age EXCEPT ![j] = 0]

\* claimed_at = NULL, claimed_by = NULL, attempts = attempts + 1: the part
\* markSucceeded, markFailedForRetry and markDead share.
CountAndRelease(j) ==
  /\ attempts' = [attempts EXCEPT ![j] = @ + 1]
  /\ claimedBy' = [claimedBy EXCEPT ![j] = None]
  /\ age' = [age EXCEPT ![j] = 0]

MarkSucceeded(j) ==
  /\ status' = [status EXCEPT ![j] = "succeeded"]
  /\ CountAndRelease(j)
  /\ UNCHANGED <<dueIn, deadLetters>>

MarkFailedForRetry(j, delay) ==
  /\ status' = [status EXCEPT ![j] = "pending"]
  /\ dueIn' = [dueIn EXCEPT ![j] = delay]
  /\ CountAndRelease(j)
  /\ UNCHANGED deadLetters

\* The row and its dead letter are written in one transaction.
MarkDead(j) ==
  /\ status' = [status EXCEPT ![j] = "dead"]
  /\ deadLetters' = [deadLetters EXCEPT ![j] = @ + 1]
  /\ CountAndRelease(j)
  /\ UNCHANGED dueIn

\* The branch Worker.process and ReclaimSweeper.reclaim share: the attempt that
\* just failed was the last one, judged by the copy r, not by the row.
Exhausted(r) == r.attempts + 1 >= MaxAttempts[r.job]

-----------------------------------------------------------------------------
(***************************************************************************)
(* The pipeline's listener.  Both Worker.emit and ReclaimSweeper.emit      *)
(* swallow what it throws.                                                 *)
(***************************************************************************)
\* Defect: dead-lettered collections are not told apart.
OnEventAnyOperation(type, j) ==
  variant' = [variant EXCEPT ![VariantOf[j]] =
                IF type = "job.published" THEN "published"
                ELSE IF type = "job.dead_lettered" THEN "failed" ELSE @]

\* Defect: job.published is not listened to.
OnEventDeadOnly(type, j) ==
  variant' = IF type = "job.dead_lettered" THEN [variant EXCEPT ![VariantOf[j]] = "failed"] ELSE variant

OnEvent(type, j) ==
  variant' =
    IF type = "job.published" /\ Operation[j] = "publish"
      THEN [variant EXCEPT ![VariantOf[j]] = "published"]
    ELSE IF type = "job.dead_lettered" /\ Operation[j] # "collect_analytics"
      THEN [variant EXCEPT ![VariantOf[j]] = "failed"]
    ELSE variant

-----------------------------------------------------------------------------
(***************************************************************************)
(* Enqueueing.  A second enqueue under the same key returns the row that   *)
(* is there and writes nothing, so only the first one is a step.  A        *)
(* collection is only asked for a variant that has a remote id.            *)
(***************************************************************************)
\* Defect: a second enqueue under the key of a finished job runs it again.
EnqueueAgain(j) ==
  /\ status[j] \in {"absent", "dead"}
  /\ status' = [status EXCEPT ![j] = "pending"]
  /\ UNCHANGED <<attempts, dueIn, age, claimedBy, deadLetters, variant,
                 workerVars, sweeperVars, effects, exits, faults>>

Enqueue(j) ==
  /\ status[j] = "absent"
  /\ Operation[j] = "collect_analytics" => variant[VariantOf[j]] = "published"
  /\ status' = [status EXCEPT ![j] = "pending"]
  /\ UNCHANGED <<attempts, dueIn, age, claimedBy, deadLetters, variant,
                 workerVars, sweeperVars, effects, exits, faults>>

-----------------------------------------------------------------------------
(***************************************************************************)
(* The worker loop.                                                        *)
(***************************************************************************)
\* Defect: claimed rows are selected as well.
DueOrClaimed == { j \in Jobs : status[j] \in {"pending", "claimed"} /\ dueIn[j] <= 0 }

Due == { j \in Jobs : status[j] = "pending" /\ dueIn[j] <= 0 }

\* ORDER BY available_at ASC LIMIT batchSize: as many as fit, the longest due
\* first, ties in any order.
ClaimChoices ==
  { S \in SUBSET Due :
      /\ IF Cardinality(Due) <= BatchSize THEN S = Due ELSE Cardinality(S) = BatchSize
      /\ \A j \in S, k \in Due \ S : dueIn[j] <= dueIn[k] }

ClaimDueJobs(w) ==
  /\ pc[w] = "idle"
  /\ \E S \in ClaimChoices \ {{}} :
       /\ WriteClaimed(S, w)
       /\ batch' = [batch EXCEPT ![w] =
                      { [job |-> j, attempts |-> attempts[j], rank |-> dueIn[j]] : j \in S }]
  /\ pc' = [pc EXCEPT ![w] = "batch"]
  /\ UNCHANGED <<current, verdict, variant, sweeperVars, effects, exits, faults>>

\* process() takes the next record of the batch and marks its row running.
StartJob(w) ==
  /\ pc[w] = "batch"
  /\ \E r \in batch[w] :
       /\ \A other \in batch[w] : r.rank <= other.rank
       /\ MarkRunning(r.job)
       /\ batch' = [batch EXCEPT ![w] = @ \ {r}]
       /\ current' = [current EXCEPT ![w] = r]
  /\ pc' = [pc EXCEPT ![w] = "handling"]
  /\ UNCHANGED <<verdict, variant, sweeperVars, effects, exits, faults>>

\* The handler settles: the connector call took effect or not, and it resolved,
\* threw a retryable ConnectorError, or threw anything else.
RunHandler(w) ==
  /\ pc[w] = "handling"
  /\ \E acted \in BOOLEAN, outcome \in Outcomes :
       /\ outcome = "ok" => acted
       /\ (acted /\ outcome # "ok") => AmbiguousFailures
       /\ effects' = [effects EXCEPT ![current[w].job] = @ + (IF acted THEN 1 ELSE 0)]
       /\ verdict' = [verdict EXCEPT ![w] = outcome]
  /\ pc' = [pc EXCEPT ![w] = "settled"]
  /\ UNCHANGED <<rowVars, batch, current, variant, sweeperVars, exits, faults>>

\* What every recording step does to the worker: the event is emitted next.
ToEmit(w, event) ==
  /\ pc' = [pc EXCEPT ![w] = "emit"]
  /\ verdict' = [verdict EXCEPT ![w] = event]
  /\ UNCHANGED <<batch, current, variant, sweeperVars, effects, exits, faults>>

RecordSucceeded(w) ==
  /\ pc[w] = "settled"
  /\ verdict[w] = "ok"
  /\ MarkSucceeded(current[w].job)
  /\ ToEmit(w, "job.published")

\* markSucceeded throws: the call sits inside the try, so the catch takes the
\* plain Error for a handler failure that is not retryable.
RecordSucceededThrows(w) ==
  /\ pc[w] = "settled"
  /\ verdict[w] = "ok"
  /\ faults < MaxFaults
  /\ faults' = faults + 1
  /\ verdict' = [verdict EXCEPT ![w] = "fatal"]
  /\ UNCHANGED <<rowVars, variant, pc, batch, current, sweeperVars, effects, exits>>

RecordDead(w) ==
  /\ pc[w] = "settled"
  /\ verdict[w] = "fatal" \/ (verdict[w] = "retryable" /\ Exhausted(current[w]))
  /\ MarkDead(current[w].job)
  /\ ToEmit(w, "job.dead_lettered")

\* Defect: a retry is announced as a dead letter.
RecordRetryWrongEvent(w) ==
  /\ pc[w] = "settled"
  /\ verdict[w] = "retryable" /\ ~Exhausted(current[w])
  /\ \E delay \in BackoffDelays(current[w].attempts + 1) :
       MarkFailedForRetry(current[w].job, delay)
  /\ ToEmit(w, "job.dead_lettered")

RecordRetry(w) ==
  /\ pc[w] = "settled"
  /\ verdict[w] = "retryable" /\ ~Exhausted(current[w])
  /\ \E delay \in BackoffDelays(current[w].attempts + 1) :
       MarkFailedForRetry(current[w].job, delay)
  /\ ToEmit(w, "job.retry_scheduled")

\* process() returns: on to the rest of the batch, or back to polling.
FinishJob(w) ==
  /\ pc' = [pc EXCEPT ![w] = IF batch[w] = {} THEN "idle" ELSE "batch"]
  /\ verdict' = [verdict EXCEPT ![w] = None]
  /\ current' = [current EXCEPT ![w] = None]
  /\ UNCHANGED <<rowVars, batch, sweeperVars, effects, exits>>

Emit(w) ==
  /\ pc[w] = "emit"
  /\ OnEvent(verdict[w], current[w].job)
  /\ FinishJob(w)
  /\ UNCHANGED faults

EmitThrows(w) ==
  /\ pc[w] = "emit"
  /\ faults < MaxFaults
  /\ faults' = faults + 1
  /\ FinishJob(w)
  /\ UNCHANGED variant

\* The process goes away and the worker's memory with it: a kill, or a store
\* call outside the try (claimDueJobs, markRunning) or inside the catch
\* (markDead, markFailedForRetry) that throws, which rejects the loop's promise
\* with nobody awaiting it.  stop() waits for the batch, so a graceful stop is
\* the case pc = "idle".
Exit(w) ==
  /\ pc[w] # "down"
  /\ exits < MaxExits
  /\ exits' = exits + 1
  /\ pc' = [pc EXCEPT ![w] = "down"]
  /\ batch' = [batch EXCEPT ![w] = {}]
  /\ current' = [current EXCEPT ![w] = None]
  /\ verdict' = [verdict EXCEPT ![w] = None]
  /\ UNCHANGED <<rowVars, variant, sweeperVars, effects, faults>>

\* start() in a new process; nothing is repaired on the way up.
Restart(w) ==
  /\ pc[w] = "down"
  /\ pc' = [pc EXCEPT ![w] = "idle"]
  /\ UNCHANGED <<rowVars, variant, batch, current, verdict, sweeperVars, effects,
                 exits, faults>>

-----------------------------------------------------------------------------
(***************************************************************************)
(* The reclaim sweeper: one read, then one write per job it returned, each *)
(* judged by the copy that was read.                                       *)
(***************************************************************************)
SweepIdle == stuck = {} /\ sweepEvent = None

\* Defect: the cutoff is one tick early.
StuckEarly ==
  { [job |-> j, attempts |-> attempts[j], rank |-> 0] :
      j \in { k \in Jobs : status[k] \in InFlight /\ age[k] + 1 >= Lease } }

\* Defect: only claimed rows are looked for.
StuckClaimedOnly ==
  { [job |-> j, attempts |-> attempts[j], rank |-> 0] :
      j \in { k \in Jobs : status[k] = "claimed" /\ age[k] >= Lease } }

StuckRecords ==
  { [job |-> j, attempts |-> attempts[j], rank |-> 0] :
      j \in { k \in Jobs : status[k] \in InFlight /\ age[k] >= Lease } }

FindStuckJobs ==
  /\ SweeperRuns
  /\ SweepIdle
  /\ StuckRecords # {}
  /\ stuck' = StuckRecords
  /\ UNCHANGED <<rowVars, variant, workerVars, sweepEvent, effects, exits, faults>>

Reclaim(r) ==
  /\ r \in stuck
  /\ sweepEvent = None
  /\ \/ /\ Exhausted(r)
        /\ MarkDead(r.job)
        /\ sweepEvent' = [job |-> r.job, type |-> "job.dead_lettered"]
     \/ /\ ~Exhausted(r)
        /\ \E delay \in BackoffDelays(r.attempts + 1) : MarkFailedForRetry(r.job, delay)
        /\ sweepEvent' = [job |-> r.job, type |-> "job.retry_scheduled"]
  /\ stuck' = stuck \ {r}
  /\ UNCHANGED <<variant, workerVars, effects, exits, faults>>

SweepEmit ==
  /\ sweepEvent # None
  /\ OnEvent(sweepEvent.type, sweepEvent.job)
  /\ sweepEvent' = None
  /\ UNCHANGED <<rowVars, workerVars, stuck, effects, exits, faults>>

SweeperExit ==
  /\ ~SweepIdle
  /\ exits < MaxExits
  /\ exits' = exits + 1
  /\ stuck' = {}
  /\ sweepEvent' = None
  /\ UNCHANGED <<rowVars, variant, workerVars, effects, faults>>

-----------------------------------------------------------------------------
(***************************************************************************)
(* The clock.  Under LeaseCoversWork the environment is one where a live   *)
(* worker records an outcome for everything in its batch before the lease  *)
(* on it, which starts at the claim and is never renewed, runs out.        *)
(***************************************************************************)
Tick ==
  /\ LeaseCoversWork =>
       \A w \in Workers, j \in Jobs : Holds(w, j) => age[j] + 1 < Lease
  /\ dueIn' = [j \in Jobs |-> IF status[j] = "pending" /\ dueIn[j] > -MaxOverdue
                                THEN dueIn[j] - 1 ELSE dueIn[j]]
  /\ age' = [j \in Jobs |-> IF status[j] \in InFlight /\ age[j] < Lease
                              THEN age[j] + 1 ELSE age[j]]
  /\ UNCHANGED <<status, attempts, claimedBy, deadLetters, variant, workerVars,
                 sweeperVars, effects, exits, faults>>

-----------------------------------------------------------------------------
Init ==
  /\ status = [j \in Jobs |-> "absent"]
  /\ attempts = [j \in Jobs |-> 0]
  /\ dueIn = [j \in Jobs |-> 0]
  /\ age = [j \in Jobs |-> 0]
  /\ claimedBy = [j \in Jobs |-> None]
  /\ deadLetters = [j \in Jobs |-> 0]
  /\ variant = [v \in Variants |-> "queued"]
  /\ pc = [w \in Workers |-> "idle"]
  /\ batch = [w \in Workers |-> {}]
  /\ current = [w \in Workers |-> None]
  /\ verdict = [w \in Workers |-> None]
  /\ stuck = {}
  /\ sweepEvent = None
  /\ effects = [j \in Jobs |-> 0]
  /\ exits = 0
  /\ faults = 0

WorkerStep(w) ==
  \/ ClaimDueJobs(w)
  \/ StartJob(w)
  \/ RunHandler(w)
  \/ RecordSucceeded(w)
  \/ RecordSucceededThrows(w)
  \/ RecordDead(w)
  \/ RecordRetry(w)
  \/ Emit(w)
  \/ EmitThrows(w)

SweeperStep ==
  \/ FindStuckJobs
  \/ \E r \in stuck : Reclaim(r)
  \/ SweepEmit

Next ==
  \/ \E j \in Jobs : Enqueue(j)
  \/ \E w \in Workers : WorkerStep(w) \/ Exit(w) \/ Restart(w)
  \/ SweeperStep
  \/ SweeperExit
  \/ Tick

Spec == Init /\ [][Next]_vars

\* The polling loop and the sweeper's timer keep running, a connector call
\* settles in the end, time passes, and a process that went away comes back.
\* Nothing obliges anyone to enqueue a job or a process to exit.
Fairness ==
  /\ \A w \in Workers : WF_vars(WorkerStep(w)) /\ WF_vars(Restart(w))
  /\ WF_vars(SweeperStep)
  /\ WF_vars(Tick)

FairSpec == Spec /\ Fairness

-----------------------------------------------------------------------------
(***************************************************************************)
(* What the queue is for.                                                  *)
(***************************************************************************)

\* Two workers never have the same job in hand, and whoever has it is the one
\* the row names: claimDueJobs selects and claims in one transaction, and no
\* row goes back to pending while a live worker works on it.
SoleHolder ==
  \A w \in Workers, j \in Jobs :
    Holds(w, j) => /\ status[j] \in InFlight
                   /\ claimedBy[j] = w
                   /\ \A other \in Workers \ {w} : ~Holds(other, j)

\* A job whose process never went away is never left behind: every row that is
\* claimed or running is in the memory of a live worker.
NoOrphanWithoutExit ==
  exits = 0 => \A j \in Jobs : status[j] \in InFlight => \E w \in Workers : Holds(w, j)

\* The attempts column counts what happened: each time the connector call took
\* effect some attempt was counted for it, except for one that is still running.
EffectsAreCounted ==
  \A j \in Jobs : effects[j] <= attempts[j] + (IF status[j] = "running" THEN 1 ELSE 0)

\* max_attempts bounds the attempts of every job, through retries, crashes and
\* reclaims alike; the first attempt is always made.
AttemptsBounded ==
  \A j \in Jobs : attempts[j] <= MaxAttempts[j] \/ attempts[j] <= 1

\* succeeded is never written for a job whose connector call did not take
\* effect, whatever interleaving of workers and sweeper led there.
SuccessIsReal ==
  \A j \in Jobs : status[j] = "succeeded" => effects[j] >= 1

\* A dead job has exactly one dead letter, every other job none: nothing is
\* dead-lettered twice and no dead letter outlives a requeue of its job.
OneDeadLetter ==
  \A j \in Jobs : deadLetters[j] = IF status[j] = "dead" THEN 1 ELSE 0

\* An event that is about to be delivered still describes the row.
EventsAgreeWithRows ==
  \A w \in Workers : pc[w] = "emit" =>
    /\ verdict[w] = "job.published" => status[current[w].job] = "succeeded"
    /\ verdict[w] = "job.dead_lettered" => status[current[w].job] = "dead"

\* The variant shown to the user never claims an outcome its jobs do not have.
VariantsAreTrue ==
  \A v \in Variants :
    /\ variant[v] = "published" =>
         \E j \in Jobs : /\ VariantOf[j] = v /\ Operation[j] = "publish"
                         /\ status[j] = "succeeded"
    /\ variant[v] = "failed" =>
         \E j \in Jobs : /\ VariantOf[j] = v /\ Operation[j] # "collect_analytics"
                         /\ status[j] = "dead"

\* The columns of a row account for what was done: attempts, effects, success
\* and dead letters stay in step through retries, crashes and reclaims.
RowsAreAccounted == EffectsAreCounted /\ AttemptsBounded /\ SuccessIsReal /\ OneDeadLetter

\* No row is forgotten, and what is told of a row, in an event or on a variant,
\* is what became of it.
OutcomesAreTrue == NoOrphanWithoutExit /\ EventsAgreeWithRows /\ VariantsAreTrue

\* succeeded and dead are final, and the platform is not called again after
\* them: a late writer never takes a finished job back.
FinalIsFinal ==
  [][\A j \in Jobs : status[j] \in Terminal =>
        /\ status'[j] = status[j]
        /\ effects'[j] = effects[j]
        /\ deadLetters'[j] = deadLetters[j]]_vars

\* What the user was shown as published is not taken back when a later job on
\* the same variant, such as the collection of its metrics, goes wrong.
PublishedStays ==
  [][\A v \in Variants : variant[v] = "published" => variant'[v] = "published"]_vars

\* The connector call of a job takes effect at most once.
AtMostOnce == \A j \in Jobs : effects[j] <= 1

\* Every job that was enqueued ends, in success or in the dead-letter queue.
EveryJobEnds ==
  \A j \in Jobs : status[j] = "pending" ~> status[j] \in Terminal

\* As long as no process goes away, the event of a successful publish is
\* delivered and ends up on the variant.
SuccessIsReported ==
  \A j \in Jobs : (status[j] = "succeeded" /\ Operation[j] = "publish" /\ exits = 0)
                     ~> (variant[VariantOf[j]] = "published" \/ exits > 0)

-----------------------------------------------------------------------------
(***************************************************************************)
(* The contract the queue implements.                                      *)
(***************************************************************************)
Phase(j) == IF status[j] \in {"pending"} \cup InFlight THEN "open" ELSE status[j]

Contract == INSTANCE PublishContract WITH
  Limit <- MaxAttempts,
  phase <- [j \in Jobs |-> Phase(j)],
  tries <- attempts,
  posted <- effects,
  letters <- deadLetters

\* Workers, claims, crashes, reclaims and retries together are an
\* implementation of PublishContract.
ImplementsContract == Contract!Spec
=============================================================================
