--------------------------- MODULE JobQueueProofs ---------------------------
(***************************************************************************)
(* What holds of JobQueue for every set of jobs and workers and every      *)
(* value of the other constants: the types; IInv, which is inductive       *)
(* wherever the lease covers the work, and with it the safety properties   *)
(* of the queue; and that the queue implements PublishContract.            *)
(***************************************************************************)
EXTENDS JobQueueInv, TLAPS

\* No delay is longer than the ceiling: all that the queue needs of the policy.
LEMMA DelaysInRange ==
  ASSUME NEW a, NEW d \in BackoffDelays(a)
  PROVE  d \in -MaxOverdue .. BackoffMax
BY JobQueueAssumption, BackoffAssumption DEF BackoffDelays

-----------------------------------------------------------------------------
(***************************************************************************)
(* Type correctness, by one lemma per group of actions.                    *)
(***************************************************************************)
LEMMA TypeInit == Init => TypeOK
BY JobQueueAssumption, BackoffAssumption DEF Init, TypeOK, Statuses, Locations

\* Adding to one entry of a table of counters leaves a table of counters.
LEMMA CounterUpdate ==
  ASSUME NEW f \in [Jobs -> Nat], NEW j, NEW n \in Nat
  PROVE  [f EXCEPT ![j] = @ + n] \in [Jobs -> Nat]
<1>1. CASE j \in Jobs
  BY <1>1
<1>2. CASE j \notin Jobs
  BY <1>2
<1> QED BY <1>1, <1>2

RowsOK ==
  /\ status \in [Jobs -> Statuses]
  /\ attempts \in [Jobs -> Nat]
  /\ dueIn \in [Jobs -> -MaxOverdue .. BackoffMax]
  /\ age \in [Jobs -> 0 .. Lease]
  /\ claimedBy \in [Jobs -> Workers \cup {None}]
  /\ deadLetters \in [Jobs -> Nat]

\* The writes that record an outcome keep the rows well typed.
LEMMA RecordingTypes ==
  ASSUME TypeOK, NEW j,
         \/ MarkSucceeded(j)
         \/ MarkDead(j)
         \/ \E a : \E delay \in BackoffDelays(a) : MarkFailedForRetry(j, delay)
  PROVE  RowsOK'
<1> USE JobQueueAssumption, BackoffAssumption
<1>1. CountAndRelease(j)
  BY DEF MarkSucceeded, MarkDead, MarkFailedForRetry
<1>2. attempts' \in [Jobs -> Nat]
  BY <1>1, CounterUpdate DEF CountAndRelease, TypeOK
<1>3. claimedBy' \in [Jobs -> Workers \cup {None}]
  BY <1>1 DEF CountAndRelease, TypeOK
<1>4. age' \in [Jobs -> 0 .. Lease]
  <2>1. 0 \in 0 .. Lease
    OBVIOUS
  <2> QED
    BY <1>1, <2>1 DEF CountAndRelease, TypeOK
<1>5. status' \in [Jobs -> Statuses]
  BY DEF MarkSucceeded, MarkDead, MarkFailedForRetry, TypeOK, Statuses, Terminal
<1>6. deadLetters' \in [Jobs -> Nat]
  BY CounterUpdate DEF MarkSucceeded, MarkDead, MarkFailedForRetry, TypeOK
<1>7. dueIn' \in [Jobs -> -MaxOverdue .. BackoffMax]
  BY DelaysInRange DEF MarkSucceeded, MarkDead, MarkFailedForRetry, TypeOK
<1> QED
  BY <1>2, <1>3, <1>4, <1>5, <1>6, <1>7 DEF RowsOK

\* And so does the step of the worker around them.
LEMMA EmitTypes ==
  ASSUME TypeOK, NEW w \in Workers, NEW e \in Events, ToEmit(w, e), RowsOK'
  PROVE  TypeOK'
<1>1. pc' \in [Workers -> Locations]
  BY DEF TypeOK, ToEmit, Locations
<1>2. verdict' \in [Workers -> Outcomes \cup Events \cup {None}]
  BY DEF TypeOK, ToEmit
<1> QED
  BY <1>1, <1>2 DEF TypeOK, RowsOK, ToEmit, sweeperVars

LEMMA TypeNext == TypeOK /\ [Next]_vars => TypeOK'
<1> SUFFICES ASSUME TypeOK, [Next]_vars
             PROVE  TypeOK'
  OBVIOUS
<1> USE JobQueueAssumption, BackoffAssumption
<1> USE DEF TypeOK, Statuses, InFlight, Terminal, Locations
<1>1. ASSUME NEW j \in Jobs, Enqueue(j)
      PROVE  TypeOK'
  BY <1>1 DEF Enqueue, workerVars, sweeperVars
<1>2. ASSUME NEW w \in Workers, ClaimDueJobs(w)
      PROVE  TypeOK'
  <2>1. PICK S \in ClaimChoices \ {{}} :
          /\ WriteClaimed(S, w)
          /\ batch' = [batch EXCEPT ![w] =
               { [job |-> j, attempts |-> attempts[j], rank |-> dueIn[j]] : j \in S }]
    BY <1>2 DEF ClaimDueJobs
  <2>2. S \subseteq Jobs
    BY <2>1 DEF ClaimChoices, Due
  <2>3. { [job |-> j, attempts |-> attempts[j], rank |-> dueIn[j]] : j \in S } \subseteq Records
    BY <2>2 DEF Records
  <2> QED
    BY <1>2, <2>1, <2>2, <2>3 DEF ClaimDueJobs, WriteClaimed, sweeperVars
<1>3. ASSUME NEW w \in Workers, StartJob(w)
      PROVE  TypeOK'
  <2>1. PICK r \in batch[w] : /\ MarkRunning(r.job)
                              /\ batch' = [batch EXCEPT ![w] = @ \ {r}]
                              /\ current' = [current EXCEPT ![w] = r]
    BY <1>3 DEF StartJob
  <2>2. r \in Records
    BY <2>1
  <2>3. batch' \in [Workers -> SUBSET Records]
    BY <2>1
  <2>4. current' \in [Workers -> Records \cup {None}]
    BY <2>1, <2>2
  <2>5. status' \in [Jobs -> Statuses] /\ UNCHANGED <<attempts, dueIn, age, claimedBy, deadLetters>>
    BY <2>1 DEF MarkRunning
  <2>6. pc' \in [Workers -> Locations] /\ UNCHANGED <<verdict, variant, sweeperVars, effects, exits, faults>>
    BY <1>3 DEF StartJob
  <2> QED
    BY <2>3, <2>4, <2>5, <2>6 DEF sweeperVars
<1>4. ASSUME NEW w \in Workers, RunHandler(w)
      PROVE  TypeOK'
  <2>1. PICK acted \in BOOLEAN, outcome \in Outcomes :
          /\ effects' = [effects EXCEPT ![current[w].job] = @ + (IF acted THEN 1 ELSE 0)]
          /\ verdict' = [verdict EXCEPT ![w] = outcome]
    BY <1>4 DEF RunHandler
  <2>2. effects' \in [Jobs -> Nat]
    BY <2>1, CounterUpdate
  <2>3. verdict' \in [Workers -> Outcomes \cup Events \cup {None}]
    BY <2>1
  <2>4. pc' \in [Workers -> Locations]
        /\ UNCHANGED <<rowVars, batch, current, variant, sweeperVars, exits, faults>>
    BY <1>4 DEF RunHandler
  <2> QED
    BY <2>2, <2>3, <2>4 DEF rowVars, sweeperVars
<1>5. ASSUME NEW w \in Workers, RecordSucceeded(w)
      PROVE  TypeOK'
  BY <1>5, RecordingTypes, EmitTypes DEF RecordSucceeded, Events
<1>6. ASSUME NEW w \in Workers, RecordSucceededThrows(w)
      PROVE  TypeOK'
  BY <1>6 DEF RecordSucceededThrows, Outcomes, rowVars, sweeperVars
<1>7. ASSUME NEW w \in Workers, RecordDead(w)
      PROVE  TypeOK'
  BY <1>7, RecordingTypes, EmitTypes DEF RecordDead, Events
<1>8. ASSUME NEW w \in Workers, RecordRetry(w)
      PROVE  TypeOK'
  BY <1>8, RecordingTypes, EmitTypes DEF RecordRetry, Events
<1>9. ASSUME NEW w \in Workers, Emit(w) \/ EmitThrows(w)
      PROVE  TypeOK'
  BY <1>9 DEF Emit, EmitThrows, FinishJob, OnEvent, rowVars, sweeperVars
<1>10. ASSUME NEW w \in Workers, Exit(w)
       PROVE  TypeOK'
  BY <1>10 DEF Exit, rowVars, sweeperVars
<1>11. ASSUME NEW w \in Workers, Restart(w)
       PROVE  TypeOK'
  BY <1>11 DEF Restart, rowVars, sweeperVars
<1>12. ASSUME FindStuckJobs
       PROVE  TypeOK'
  <2>1. StuckRecords \subseteq Records
    BY DEF StuckRecords, Records
  <2> QED
    BY <1>12, <2>1 DEF FindStuckJobs, rowVars, workerVars
<1>13. ASSUME NEW r \in stuck, Reclaim(r)
       PROVE  TypeOK'
  <2>1. r.job \in Jobs
    BY DEF Records
  <2>2. RowsOK'
    BY <1>13, RecordingTypes DEF Reclaim
  <2>3. sweepEvent' \in SweepEvents
    BY <1>13, <2>1 DEF Reclaim, SweepEvents, Events
  <2> QED
    BY <1>13, <2>2, <2>3 DEF Reclaim, RowsOK, workerVars
<1>14. ASSUME SweepEmit
       PROVE  TypeOK'
  BY <1>14 DEF SweepEmit, OnEvent, rowVars, workerVars
<1>15. ASSUME SweeperExit
       PROVE  TypeOK'
  BY <1>15 DEF SweeperExit, rowVars, workerVars
<1>16. ASSUME Tick
       PROVE  TypeOK'
  BY <1>16 DEF Tick, workerVars, sweeperVars
<1>17. CASE UNCHANGED vars
  BY <1>17 DEF vars, rowVars, workerVars, sweeperVars
<1> QED
  BY <1>1, <1>2, <1>3, <1>4, <1>5, <1>6, <1>7, <1>8, <1>9, <1>10, <1>11, <1>12, <1>13,
     <1>14, <1>15, <1>16, <1>17 DEF Next, WorkerStep, SweeperStep

\* Every row and every worker's memory keeps its type under any interleaving.
THEOREM TypeCorrect == Spec => []TypeOK
BY TypeInit, TypeNext, PTL DEF Spec

-----------------------------------------------------------------------------
(***************************************************************************)
(* The inductive invariant, by one lemma per group of actions.             *)
(***************************************************************************)
LEMMA IInvInit == Init => IInv
<1> SUFFICES ASSUME Init
             PROVE  IInv
  OBVIOUS
<1>1. TypeOK
  BY TypeInit
<1>2. HeldRows /\ ProgressShows /\ MemoryFits /\ EffectOfAttempt /\ EventsAgreeWithRows
  BY DEF Init, HeldRows, ProgressShows, MemoryFits, EffectOfAttempt, EventsAgreeWithRows, InHand
<1>3. StuckRows /\ SweepEventAgrees /\ SweeperNeverPublishes
  BY DEF Init, StuckRows, SweepEventAgrees, SweeperNeverPublishes
<1>4. AttemptLeft /\ AttemptsBounded /\ EffectsAreCounted /\ SuccessIsReal /\ OneDeadLetter
  BY JobQueueAssumption DEF Init, AttemptLeft, AttemptsBounded, EffectsAreCounted, SuccessIsReal, OneDeadLetter
<1>5. NoOrphanWithoutExit /\ VariantsAreTrue
  BY DEF Init, NoOrphanWithoutExit, VariantsAreTrue, InFlight
<1> QED
  BY <1>1, <1>2, <1>3, <1>4, <1>5 DEF IInv

\* A copy in a worker's hand names a job and its row is in flight.
LEMMA InHandFacts ==
  ASSUME IInv, NEW w \in Workers, NEW r \in InHand(w)
  PROVE  /\ r \in Records
         /\ r.job \in Jobs
         /\ status[r.job] \in InFlight
         /\ claimedBy[r.job] = w
         /\ age[r.job] < Lease
         /\ attempts[r.job] = r.attempts
<1>1. r \in Records
  BY DEF IInv, TypeOK, InHand, MemoryFits
<1>2. status[r.job] \in InFlight
  BY DEF IInv, ProgressShows, InHand, InFlight
<1> QED
  BY <1>1, <1>2 DEF IInv, HeldRows, Records

\* Holds, said of copies.
LEMMA HoldsIsInHand ==
  ASSUME NEW w \in Workers, NEW j
  PROVE  Holds(w, j) <=> \E r \in InHand(w) : r.job = j
BY DEF Holds, InHand

LEMMA SoleHolderFromIInv == IInv => SoleHolder
<1> SUFFICES ASSUME IInv, NEW w \in Workers, NEW j \in Jobs, Holds(w, j)
             PROVE  /\ status[j] \in InFlight
                    /\ claimedBy[j] = w
                    /\ \A other \in Workers \ {w} : ~Holds(other, j)
  BY DEF SoleHolder
<1> QED
  BY HoldsIsInHand, InHandFacts

LEMMA EnqueueKeeps ==
  ASSUME IInv, NEW j \in Jobs, Enqueue(j), TypeOK'
  PROVE  IInv'
<1> USE DEF IInv
<1>1. status' = [status EXCEPT ![j] = "pending"] /\ status[j] = "absent"
      /\ UNCHANGED <<attempts, age, claimedBy, deadLetters, variant, pc, batch, current, verdict,
                     stuck, sweepEvent, effects, exits>>
  BY DEF Enqueue, workerVars, sweeperVars
<1>2. \A w \in Workers : InHand(w)' = InHand(w)
  BY <1>1 DEF InHand
<1>3. HeldRows' /\ MemoryFits' /\ EffectOfAttempt'
  BY <1>1, <1>2 DEF HeldRows, MemoryFits, EffectOfAttempt
<1>4. ProgressShows'
  BY <1>1 DEF ProgressShows, TypeOK
<1>5. StuckRows'
  BY <1>1 DEF StuckRows, TypeOK, InFlight
<1>6. AttemptLeft'
  BY <1>1 DEF AttemptLeft, TypeOK, InFlight
<1>7. SweepEventAgrees' /\ SweeperNeverPublishes'
  BY <1>1 DEF SweepEventAgrees, SweeperNeverPublishes, TypeOK
<1>8. NoOrphanWithoutExit'
  BY <1>1 DEF NoOrphanWithoutExit, TypeOK, InFlight, Holds
<1>9. EffectsAreCounted' /\ AttemptsBounded' /\ SuccessIsReal' /\ OneDeadLetter'
  BY <1>1 DEF EffectsAreCounted, AttemptsBounded, SuccessIsReal, OneDeadLetter, TypeOK
<1>10. EventsAgreeWithRows' /\ VariantsAreTrue'
  BY <1>1 DEF EventsAgreeWithRows, VariantsAreTrue, TypeOK
<1> QED
  BY <1>3, <1>4, <1>5, <1>6, <1>7, <1>8, <1>9, <1>10

LEMMA ClaimKeeps ==
  ASSUME IInv, NEW w \in Workers, ClaimDueJobs(w), TypeOK'
  PROVE  IInv'
<1> USE JobQueueAssumption DEF IInv
<1>1. PICK S \in ClaimChoices \ {{}} :
        /\ WriteClaimed(S, w)
        /\ batch' = [batch EXCEPT ![w] =
             { [job |-> j, attempts |-> attempts[j], rank |-> dueIn[j]] : j \in S }]
  BY DEF ClaimDueJobs
<1>2. S \subseteq Jobs /\ \A j \in S : status[j] = "pending"
  BY <1>1 DEF ClaimChoices, Due
<1>3. /\ status' = [j \in Jobs |-> IF j \in S THEN "claimed" ELSE status[j]]
      /\ claimedBy' = [j \in Jobs |-> IF j \in S THEN w ELSE claimedBy[j]]
      /\ age' = [j \in Jobs |-> IF j \in S THEN 0 ELSE age[j]]
      /\ pc[w] = "idle" /\ pc' = [pc EXCEPT ![w] = "batch"]
      /\ UNCHANGED <<attempts, deadLetters, variant, current, verdict, stuck, sweepEvent, effects, exits>>
  BY <1>1 DEF WriteClaimed, ClaimDueJobs, sweeperVars
<1>4. \A r \in batch'[w] : /\ r.job \in S
                           /\ r = [job |-> r.job, attempts |-> attempts[r.job], rank |-> dueIn[r.job]]
  BY <1>1, <1>2 DEF TypeOK
<1>5. InHand(w)' = batch'[w]
  BY <1>3 DEF InHand, TypeOK
<1>6. \A other \in Workers \ {w} : InHand(other)' = InHand(other)
  BY <1>1, <1>3 DEF InHand, TypeOK
<1>7. HeldRows'
  <2>1. ASSUME NEW r \in batch'[w]
        PROVE  claimedBy'[r.job] = w /\ age'[r.job] < Lease /\ attempts'[r.job] = r.attempts
    BY <1>2, <1>3, <1>4, <2>1
  <2>2. ASSUME NEW other \in Workers \ {w}, NEW r \in InHand(other)
        PROVE  claimedBy'[r.job] = other /\ age'[r.job] < Lease /\ attempts'[r.job] = r.attempts
    <3>1. r.job \in Jobs \ S /\ claimedBy[r.job] = other /\ age[r.job] < Lease /\ attempts[r.job] = r.attempts
      BY <1>2, InHandFacts DEF InFlight
    <3> QED
      BY <1>3, <3>1
  <2> QED
    BY <1>5, <1>6, <2>1, <2>2 DEF HeldRows
<1>8. ProgressShows'
  <2>1. ASSUME NEW other \in Workers \ {w}
        PROVE  /\ \A r \in batch'[other] : status'[r.job] = "claimed"
               /\ pc'[other] \in {"handling", "settled"} => status'[current'[other].job] = "running"
    <3>1. batch'[other] = batch[other] /\ pc'[other] = pc[other] /\ current' = current
      BY <1>1, <1>3 DEF TypeOK
    <3>2. \A r \in batch[other] : r.job \in Jobs /\ status[r.job] = "claimed"
      BY DEF ProgressShows, TypeOK, Records
    <3>3. pc[other] \in {"handling", "settled"} =>
             current[other].job \in Jobs /\ status[current[other].job] = "running"
      BY DEF ProgressShows, MemoryFits, Records
    <3> QED
      BY <1>2, <1>3, <3>1, <3>2, <3>3
  <2>2. \A r \in batch'[w] : status'[r.job] = "claimed"
    BY <1>2, <1>3, <1>4
  <2>3. pc'[w] = "batch"
    BY <1>3 DEF TypeOK
  <2> QED
    BY <2>1, <2>2, <2>3 DEF ProgressShows
<1>9. MemoryFits'
  BY <1>1, <1>3, <1>4 DEF MemoryFits, TypeOK
<1>10. StuckRows'
  BY <1>2, <1>3 DEF StuckRows, InFlight, TypeOK, Records
<1>11. AttemptLeft'
  BY <1>2, <1>3 DEF AttemptLeft, InFlight
<1>12. EffectOfAttempt'
  BY <1>3 DEF EffectOfAttempt, TypeOK
<1>13. SweepEventAgrees' /\ SweeperNeverPublishes'
  BY <1>2, <1>3 DEF SweepEventAgrees, SweeperNeverPublishes, TypeOK, SweepEvents
<1>14. NoOrphanWithoutExit'
  <2> SUFFICES ASSUME exits = 0, NEW j \in Jobs, status'[j] \in InFlight
               PROVE  \E x \in Workers : Holds(x, j)'
    BY <1>3 DEF NoOrphanWithoutExit
  <2>1. CASE j \in S
    <3> DEFINE r == [job |-> j, attempts |-> attempts[j], rank |-> dueIn[j]]
    <3>1. batch'[w] = { [job |-> k, attempts |-> attempts[k], rank |-> dueIn[k]] : k \in S }
      BY <1>1 DEF TypeOK
    <3>2. r \in batch'[w] /\ r.job = j
      BY <2>1, <3>1
    <3> QED
      BY <3>2 DEF Holds
  <2>2. CASE j \notin S
    <3>1. PICK x \in Workers : Holds(x, j)
      BY <1>3, <2>2 DEF NoOrphanWithoutExit
    <3>2. x # w
      BY <1>3, <3>1 DEF Holds, MemoryFits
    <3> QED
      BY <1>1, <1>3, <3>1, <3>2 DEF Holds, TypeOK
  <2> QED
    BY <2>1, <2>2
<1>15. EffectsAreCounted' /\ AttemptsBounded' /\ SuccessIsReal' /\ OneDeadLetter'
  BY <1>2, <1>3 DEF EffectsAreCounted, AttemptsBounded, SuccessIsReal, OneDeadLetter
<1>16. EventsAgreeWithRows'
  BY <1>2, <1>3 DEF EventsAgreeWithRows, MemoryFits, TypeOK, Records
<1>17. VariantsAreTrue'
  BY <1>2, <1>3 DEF VariantsAreTrue
<1> QED
  BY <1>7, <1>8, <1>9, <1>10, <1>11, <1>12, <1>13, <1>14, <1>15, <1>16, <1>17

LEMMA StartKeeps ==
  ASSUME IInv, NEW w \in Workers, StartJob(w), TypeOK'
  PROVE  IInv'
<1> USE DEF IInv
<1>1. PICK r \in batch[w] : /\ MarkRunning(r.job)
                            /\ batch' = [batch EXCEPT ![w] = @ \ {r}]
                            /\ current' = [current EXCEPT ![w] = r]
  BY DEF StartJob
<1>2. /\ status' = [status EXCEPT ![r.job] = "running"]
      /\ pc[w] = "batch" /\ pc' = [pc EXCEPT ![w] = "handling"]
      /\ UNCHANGED <<attempts, age, claimedBy, deadLetters, variant, verdict, stuck, sweepEvent, effects, exits>>
  BY <1>1 DEF MarkRunning, StartJob, sweeperVars
<1>3. r \in Records /\ r.job \in Jobs /\ r \in InHand(w)
  BY DEF TypeOK, Records, InHand
<1>4. status[r.job] = "claimed" /\ claimedBy[r.job] = w /\ attempts[r.job] = r.attempts
  BY <1>3 DEF ProgressShows, HeldRows
<1>5. \A x \in Workers : InHand(x)' \subseteq InHand(x)
  BY <1>1, <1>2, <1>3 DEF InHand, TypeOK
<1>6. HeldRows'
  BY <1>2, <1>5 DEF HeldRows
<1>7. MemoryFits'
  BY <1>1, <1>2, <1>3 DEF MemoryFits, TypeOK
<1>8. ProgressShows'
  <2>1. ASSUME NEW x \in Workers, NEW s \in batch'[x]
        PROVE  status'[s.job] = "claimed"
    <3>1. s \in batch[x] /\ (s # r \/ x # w)
      BY <1>1, <2>1 DEF TypeOK
    <3>2. s \in batch[x] /\ s \in InHand(x)
      BY <1>1, <2>1 DEF TypeOK, InHand
    <3>3. s.job # r.job
      BY <1>3, <1>4, <3>1, <3>2 DEF MemoryFits, HeldRows
    <3> QED
      BY <1>2, <3>2, <3>3 DEF ProgressShows, TypeOK, Records
  <2>2. ASSUME NEW x \in Workers, pc'[x] \in {"handling", "settled"}
        PROVE  status'[current'[x].job] = "running"
    BY <1>1, <1>2, <1>3, <2>2 DEF ProgressShows, MemoryFits, TypeOK, Records
  <2> QED
    BY <2>1, <2>2 DEF ProgressShows
<1>9. StuckRows'
  BY <1>2, <1>4 DEF StuckRows, InFlight, TypeOK, Records
<1>10. AttemptLeft'
  BY <1>2, <1>4 DEF AttemptLeft, InFlight, TypeOK
<1>11. EffectOfAttempt'
  BY <1>1, <1>2, <1>3, <1>4 DEF EffectOfAttempt, EffectsAreCounted, TypeOK
<1>12. SweepEventAgrees' /\ SweeperNeverPublishes'
  BY <1>2, <1>4 DEF SweepEventAgrees, SweeperNeverPublishes, TypeOK, SweepEvents
<1>13. NoOrphanWithoutExit'
  BY <1>1, <1>2, <1>3, <1>4 DEF NoOrphanWithoutExit, Holds, InFlight, TypeOK
<1>14. EffectsAreCounted' /\ AttemptsBounded' /\ SuccessIsReal' /\ OneDeadLetter'
  BY <1>2, <1>4 DEF EffectsAreCounted, AttemptsBounded, SuccessIsReal, OneDeadLetter, TypeOK
<1>15. EventsAgreeWithRows'
  BY <1>1, <1>2, <1>4 DEF EventsAgreeWithRows, MemoryFits, TypeOK, Records
<1>16. VariantsAreTrue'
  BY <1>2, <1>4 DEF VariantsAreTrue, TypeOK
<1> QED
  BY <1>6, <1>7, <1>8, <1>9, <1>10, <1>11, <1>12, <1>13, <1>14, <1>15, <1>16

LEMMA HandlerKeeps ==
  ASSUME IInv, NEW w \in Workers, RunHandler(w), TypeOK'
  PROVE  IInv'
<1> USE DEF IInv
<1> DEFINE j == current[w].job
<1>1. PICK acted \in BOOLEAN, outcome \in Outcomes :
        /\ outcome = "ok" => acted
        /\ effects' = [effects EXCEPT ![j] = @ + (IF acted THEN 1 ELSE 0)]
        /\ verdict' = [verdict EXCEPT ![w] = outcome]
  BY DEF RunHandler
<1>2. /\ pc[w] = "handling" /\ pc' = [pc EXCEPT ![w] = "settled"]
      /\ UNCHANGED <<status, attempts, age, claimedBy, deadLetters, batch, current, variant, stuck,
                     sweepEvent, exits>>
  BY DEF RunHandler, rowVars, sweeperVars
<1>3. /\ current[w] \in Records /\ j \in Jobs
      /\ status[j] = "running"
      /\ effects[j] <= attempts[j]
  BY <1>2 DEF MemoryFits, ProgressShows, EffectOfAttempt, Records
<1>4. effects' \in [Jobs -> Nat] /\ effects'[j] \in {effects[j], effects[j] + 1}
      /\ \A k \in Jobs : effects'[k] >= effects[k] /\ (k # j => effects'[k] = effects[k])
  BY <1>1, <1>3 DEF TypeOK
<1>5. \A x \in Workers : InHand(x)' = InHand(x)
  BY <1>2 DEF InHand, TypeOK
<1>6. HeldRows' /\ ProgressShows' /\ MemoryFits' /\ StuckRows' /\ AttemptLeft'
  BY <1>2, <1>5 DEF HeldRows, ProgressShows, MemoryFits, StuckRows, AttemptLeft, TypeOK
<1>7. EffectOfAttempt'
  <2>1. outcome = "ok" => effects'[j] >= 1
    BY <1>1, <1>3 DEF TypeOK
  <2>2. ASSUME NEW x \in Workers \ {w}, pc[x] = "handling"
        PROVE  effects'[current[x].job] <= attempts[current[x].job]
    <3>1. current[x].job \in Jobs /\ current[x].job # j
      <4>1. current[x] \in InHand(x) /\ current[w] \in InHand(w)
        BY <1>2, <2>2 DEF InHand
      <4> QED
        BY <4>1, InHandFacts
    <3> QED
      BY <1>4, <2>2, <3>1 DEF EffectOfAttempt
  <2>3. ASSUME NEW x \in Workers \ {w}, pc[x] = "settled", verdict[x] = "ok"
        PROVE  effects'[current[x].job] >= 1
    <3>1. current[x].job \in Jobs /\ effects[current[x].job] >= 1
      BY <2>3 DEF EffectOfAttempt, MemoryFits, Records
    <3> QED
      BY <1>4, <3>1 DEF TypeOK
  <2> QED
    BY <1>1, <1>2, <2>1, <2>2, <2>3 DEF EffectOfAttempt, TypeOK
<1>8. EffectsAreCounted'
  BY <1>2, <1>3, <1>4 DEF EffectsAreCounted, TypeOK
<1>9. SuccessIsReal'
  BY <1>2, <1>4 DEF SuccessIsReal, TypeOK
<1>10. NoOrphanWithoutExit'
  BY <1>2 DEF NoOrphanWithoutExit, Holds, TypeOK
<1>11. AttemptsBounded' /\ OneDeadLetter' /\ VariantsAreTrue' /\ SweepEventAgrees' /\ SweeperNeverPublishes'
  BY <1>2 DEF AttemptsBounded, OneDeadLetter, VariantsAreTrue, SweepEventAgrees, SweeperNeverPublishes
<1>12. EventsAgreeWithRows'
  BY <1>1, <1>2 DEF EventsAgreeWithRows, TypeOK
<1> QED
  BY <1>6, <1>7, <1>8, <1>9, <1>10, <1>11, <1>12

-----------------------------------------------------------------------------
(***************************************************************************)
(* Recording an outcome: the one kind of write by which a row leaves the   *)
(* flight, done by a worker or by the sweeper.                             *)
(***************************************************************************)
Recording(j, new) ==
  /\ status' = [status EXCEPT ![j] = new]
  /\ CountAndRelease(j)
  /\ deadLetters' = [deadLetters EXCEPT ![j] = @ + (IF new = "dead" THEN 1 ELSE 0)]
  /\ UNCHANGED <<variant, effects, exits>>

\* When recording an outcome is right: the row is in flight, a success has
\* taken effect, a retry leaves an attempt.
MayRecord(j, new) ==
  /\ status[j] \in InFlight
  /\ new \in {"succeeded", "pending", "dead"}
  /\ new = "succeeded" => effects[j] >= 1
  /\ new = "pending" => attempts[j] + 1 < MaxAttempts[j]

LEMMA RecordingKeepsRows ==
  ASSUME IInv, NEW j \in Jobs, NEW new, Recording(j, new), MayRecord(j, new)
  PROVE  /\ AttemptLeft' /\ EffectsAreCounted' /\ AttemptsBounded'
         /\ SuccessIsReal' /\ OneDeadLetter' /\ VariantsAreTrue'
<1>1. /\ \A k \in Jobs : attempts[k] \in Nat /\ deadLetters[k] \in Nat /\ effects[k] \in Nat
      /\ \A k \in Jobs : MaxAttempts[k] \in Nat
  BY JobQueueAssumption DEF IInv, TypeOK
<1>2. \A k \in Jobs : /\ status'[k] = IF k = j THEN new ELSE status[k]
                      /\ attempts'[k] = IF k = j THEN attempts[j] + 1 ELSE attempts[k]
                      /\ deadLetters'[k] = IF k = j /\ new = "dead" THEN deadLetters[k] + 1
                                                                    ELSE deadLetters[k]
  BY <1>1 DEF IInv, TypeOK, Recording, CountAndRelease
<1>3. UNCHANGED <<variant, effects>>
  BY DEF Recording
<1>4. AttemptLeft'
  BY <1>1, <1>2 DEF IInv, AttemptLeft, MayRecord, InFlight
<1>5. AttemptsBounded'
  BY <1>1, <1>2 DEF IInv, AttemptLeft, AttemptsBounded, MayRecord, InFlight
<1>6. EffectsAreCounted' /\ SuccessIsReal'
  BY <1>1, <1>2, <1>3 DEF IInv, EffectsAreCounted, SuccessIsReal, MayRecord, InFlight
<1>7. OneDeadLetter'
  BY <1>1, <1>2 DEF IInv, OneDeadLetter, MayRecord, InFlight
<1>8. VariantsAreTrue'
  BY <1>2, <1>3 DEF IInv, VariantsAreTrue, MayRecord, InFlight
<1> QED
  BY <1>4, <1>5, <1>6, <1>7, <1>8

\* The row of a job that was recorded is nobody's any more, and the copies of
\* every other job are as fresh as before.
LEMMA RecordingKeepsCopies ==
  ASSUME IInv, NEW j \in Jobs, NEW new, Recording(j, new), MayRecord(j, new),
         NEW w \in Workers, NEW r \in InHand(w), r.job # j
  PROVE  /\ status'[r.job] = status[r.job]
         /\ claimedBy'[r.job] = w
         /\ age'[r.job] < Lease
         /\ attempts'[r.job] = r.attempts
<1>1. r.job \in Jobs /\ claimedBy[r.job] = w /\ age[r.job] < Lease /\ attempts[r.job] = r.attempts
  BY InHandFacts
<1> QED
  BY <1>1 DEF IInv, TypeOK, Recording, CountAndRelease

LEMMA WorkerRecordingKeeps ==
  ASSUME IInv, NEW w \in Workers, pc[w] = "settled",
         NEW new, Recording(current[w].job, new), MayRecord(current[w].job, new),
         NEW event \in Events, ToEmit(w, event),
         event = "job.published" => new = "succeeded",
         event = "job.dead_lettered" => new = "dead",
         TypeOK'
  PROVE  IInv'
<1> USE DEF IInv
<1> DEFINE j == current[w].job
<1>1. /\ pc' = [pc EXCEPT ![w] = "emit"]
      /\ verdict' = [verdict EXCEPT ![w] = event]
      /\ UNCHANGED <<batch, current, variant, stuck, sweepEvent, effects, exits>>
  BY DEF ToEmit, sweeperVars
<1>2. current[w] \in Records /\ j \in Jobs /\ current[w] \in InHand(w)
  BY DEF MemoryFits, Records, InHand
<1>3. status[j] = "running"
  BY DEF ProgressShows
<1>4. \A x \in Workers : InHand(x)' \subseteq InHand(x)
  BY <1>1 DEF InHand, TypeOK
<1>5. \A x \in Workers : \A r \in InHand(x)' : r.job # j
  <2>1. ASSUME NEW x \in Workers, x # w, NEW r \in InHand(x)'
        PROVE  r.job # j
    BY <1>2, <1>4, <2>1, InHandFacts
  <2>2. InHand(w)' = batch[w]
    BY <1>1 DEF InHand, TypeOK
  <2>3. ASSUME NEW r \in batch[w]
        PROVE  r.job # j
    BY <1>3 DEF ProgressShows
  <2> QED
    BY <2>1, <2>2, <2>3
<1>6. \A x \in Workers : \A r \in InHand(x)' : /\ status'[r.job] = status[r.job]
                                               /\ claimedBy'[r.job] = x
                                               /\ age'[r.job] < Lease
                                               /\ attempts'[r.job] = r.attempts
  BY <1>2, <1>4, <1>5, RecordingKeepsCopies
<1>7. HeldRows'
  BY <1>6 DEF HeldRows
<1>8. ProgressShows'
  <2>1. \A x \in Workers : batch'[x] \subseteq InHand(x)'
        /\ (pc'[x] \in {"handling", "settled"} => x # w /\ current'[x] \in InHand(x)')
    BY <1>1 DEF InHand, TypeOK
  <2> QED
    BY <1>1, <1>6, <2>1 DEF ProgressShows, TypeOK
<1>9. MemoryFits'
  BY <1>1, <1>2 DEF MemoryFits, TypeOK
<1>10. StuckRows'
  <2>1. \A r \in stuck : r.job \in Jobs /\ r.job # j
    BY <1>2, InHandFacts, JobQueueAssumption DEF StuckRows, TypeOK, Records
  <2> QED
    BY <1>1, <2>1 DEF StuckRows, TypeOK, Recording, CountAndRelease
<1>11. AttemptLeft' /\ EffectsAreCounted' /\ AttemptsBounded' /\ SuccessIsReal' /\ OneDeadLetter' /\ VariantsAreTrue'
  BY <1>2, RecordingKeepsRows
<1>12. EffectOfAttempt'
  <2>1. ASSUME NEW x \in Workers, pc'[x] \in {"handling", "settled"}
        PROVE  /\ pc[x] = pc'[x] /\ verdict[x] = verdict'[x]
               /\ effects'[current'[x].job] = effects[current[x].job]
               /\ attempts'[current'[x].job] = attempts[current[x].job]
    <3>1. x # w /\ pc[x] = pc'[x] /\ verdict[x] = verdict'[x]
      BY <1>1, <2>1 DEF TypeOK
    <3>2. current[x] \in InHand(x)'
      BY <1>1, <2>1 DEF InHand
    <3>3. attempts'[current[x].job] = current[x].attempts /\ attempts[current[x].job] = current[x].attempts
      BY <1>4, <1>6, <3>2 DEF HeldRows
    <3> QED
      BY <1>1, <3>1, <3>3
  <2> QED
    BY <2>1 DEF EffectOfAttempt
<1>13. SweepEventAgrees' /\ SweeperNeverPublishes'
  BY <1>1, <1>2, <1>3 DEF SweepEventAgrees, SweeperNeverPublishes, TypeOK, SweepEvents, Recording
<1>14. NoOrphanWithoutExit'
  <2> SUFFICES ASSUME exits = 0, NEW k \in Jobs, status'[k] \in InFlight
               PROVE  \E x \in Workers : Holds(x, k)'
    BY <1>1 DEF NoOrphanWithoutExit
  <2>1. k # j /\ status[k] \in InFlight
    BY <1>2 DEF TypeOK, Recording, MayRecord, InFlight
  <2>2. PICK x \in Workers : Holds(x, k)
    BY <2>1 DEF NoOrphanWithoutExit
  <2> QED
    BY <1>1, <2>1, <2>2 DEF Holds, TypeOK
<1>15. EventsAgreeWithRows'
  <2>1. ASSUME NEW x \in Workers, x # w, pc'[x] = "emit"
        PROVE  /\ verdict'[x] = "job.published" => status'[current'[x].job] = "succeeded"
               /\ verdict'[x] = "job.dead_lettered" => status'[current'[x].job] = "dead"
    BY <1>1, <1>2, <1>3, <2>1 DEF EventsAgreeWithRows, TypeOK, Recording
  <2>2. status'[j] = new /\ current' = current /\ verdict'[w] = event
    BY <1>1, <1>2 DEF TypeOK, Recording
  <2> QED
    BY <2>1, <2>2 DEF EventsAgreeWithRows
<1> QED
  BY <1>7, <1>8, <1>9, <1>10, <1>11, <1>12, <1>13, <1>14, <1>15

LEMMA RecordSucceededKeeps ==
  ASSUME IInv, NEW w \in Workers, RecordSucceeded(w), TypeOK'
  PROVE  IInv'
<1>1. current[w].job \in Jobs /\ status[current[w].job] = "running"
  BY DEF IInv, RecordSucceeded, MemoryFits, ProgressShows, Records
<1>2. Recording(current[w].job, "succeeded")
  BY <1>1 DEF RecordSucceeded, MarkSucceeded, Recording, ToEmit, IInv, TypeOK
<1>3. MayRecord(current[w].job, "succeeded")
  BY <1>1 DEF RecordSucceeded, MayRecord, IInv, EffectOfAttempt, InFlight
<1> QED
  BY <1>2, <1>3, WorkerRecordingKeeps DEF RecordSucceeded, Events

LEMMA RecordDeadKeeps ==
  ASSUME IInv, NEW w \in Workers, RecordDead(w), TypeOK'
  PROVE  IInv'
<1>1. current[w].job \in Jobs /\ status[current[w].job] = "running"
  BY DEF IInv, RecordDead, MemoryFits, ProgressShows, Records
<1>2. Recording(current[w].job, "dead")
  BY <1>1 DEF RecordDead, MarkDead, Recording, ToEmit
<1>3. MayRecord(current[w].job, "dead")
  BY <1>1 DEF RecordDead, MayRecord, InFlight
<1> QED
  BY <1>2, <1>3, WorkerRecordingKeeps DEF RecordDead, Events

\* The copy w judges Exhausted by has the attempts of the row.
LEMMA RecordRetryKeeps ==
  ASSUME IInv, NEW w \in Workers, RecordRetry(w), TypeOK'
  PROVE  IInv'
<1>1. current[w].job \in Jobs /\ status[current[w].job] = "running" /\ current[w] \in InHand(w)
  BY DEF IInv, RecordRetry, MemoryFits, ProgressShows, Records, InHand
<1>2. attempts[current[w].job] = current[w].attempts
  BY <1>1, InHandFacts
<1>3. Recording(current[w].job, "pending")
  BY <1>1 DEF RecordRetry, MarkFailedForRetry, Recording, ToEmit, IInv, TypeOK
<1>4. MayRecord(current[w].job, "pending")
  BY <1>1, <1>2, JobQueueAssumption DEF RecordRetry, MayRecord, Exhausted, InFlight, IInv, TypeOK
<1> QED
  BY <1>3, <1>4, WorkerRecordingKeeps DEF RecordRetry, Events

\* The catch after a throwing markSucceeded only changes the verdict.
LEMMA RecordThrowsKeeps ==
  ASSUME IInv, NEW w \in Workers, RecordSucceededThrows(w), TypeOK'
  PROVE  IInv'
<1> USE DEF IInv
<1>1. /\ pc[w] = "settled" /\ verdict' = [verdict EXCEPT ![w] = "fatal"]
      /\ UNCHANGED <<status, attempts, age, claimedBy, deadLetters, variant, pc, batch, current,
                     stuck, sweepEvent, effects, exits>>
  BY DEF RecordSucceededThrows, rowVars, sweeperVars
<1>2. HeldRows' /\ ProgressShows' /\ MemoryFits' /\ StuckRows' /\ AttemptLeft'
  BY <1>1 DEF HeldRows, InHand, ProgressShows, MemoryFits, StuckRows, AttemptLeft
<1>3. EffectOfAttempt' /\ EventsAgreeWithRows'
  BY <1>1 DEF EffectOfAttempt, EventsAgreeWithRows, TypeOK
<1>4. SweepEventAgrees' /\ SweeperNeverPublishes' /\ NoOrphanWithoutExit'
  BY <1>1 DEF SweepEventAgrees, SweeperNeverPublishes, NoOrphanWithoutExit, Holds
<1>5. EffectsAreCounted' /\ AttemptsBounded' /\ SuccessIsReal' /\ OneDeadLetter' /\ VariantsAreTrue'
  BY <1>1 DEF EffectsAreCounted, AttemptsBounded, SuccessIsReal, OneDeadLetter, VariantsAreTrue
<1> QED
  BY <1>2, <1>3, <1>4, <1>5

-----------------------------------------------------------------------------
(***************************************************************************)
(* Steps that write no row.                                                *)
(***************************************************************************)

\* Leaving, coming back, and going on to the next job: the worker's hand is as
\* it was, or empty, and it is emitting nothing.
LEMMA MemoryStepKeeps ==
  ASSUME IInv, NEW w \in Workers, TypeOK', VariantsAreTrue',
         UNCHANGED <<rowVars, sweeperVars, effects>>,
         pc'[w] \in {"down", "idle", "batch"},
         NEW place, pc' = [pc EXCEPT ![w] = place],
         current' = [current EXCEPT ![w] = None] \/ UNCHANGED current,
         \A x \in Workers \ {w} : batch'[x] = batch[x] /\ verdict'[x] = verdict[x],
         batch'[w] \subseteq batch[w],
         pc'[w] \in {"down", "idle"} => batch'[w] = {},
         exits' \in Nat, exits' = 0 => exits = 0 /\ \A j \in Jobs : Holds(w, j) => Holds(w, j)'
  PROVE  IInv'
<1> USE DEF IInv
<1>1. UNCHANGED <<status, attempts, age, claimedBy, deadLetters, stuck, sweepEvent, effects>>
  BY DEF rowVars, sweeperVars
<1>2. \A x \in Workers \ {w} : /\ pc'[x] = pc[x] /\ current'[x] = current[x]
                               /\ batch'[x] = batch[x] /\ verdict'[x] = verdict[x]
  BY DEF TypeOK
<1>3. \A x \in Workers : InHand(x)' \subseteq InHand(x)
  BY <1>2 DEF InHand
<1>4. HeldRows'
  BY <1>1, <1>3 DEF HeldRows
<1>5. ProgressShows' /\ MemoryFits' /\ EffectOfAttempt' /\ EventsAgreeWithRows'
  BY <1>1, <1>2 DEF ProgressShows, MemoryFits, EffectOfAttempt, EventsAgreeWithRows
<1>6. StuckRows' /\ AttemptLeft' /\ SweepEventAgrees' /\ SweeperNeverPublishes'
  BY <1>1 DEF StuckRows, AttemptLeft, SweepEventAgrees, SweeperNeverPublishes
<1>7. EffectsAreCounted' /\ AttemptsBounded' /\ SuccessIsReal' /\ OneDeadLetter'
  BY <1>1 DEF EffectsAreCounted, AttemptsBounded, SuccessIsReal, OneDeadLetter
<1>8. NoOrphanWithoutExit'
  <2> SUFFICES ASSUME exits' = 0, NEW j \in Jobs, status[j] \in InFlight
               PROVE  \E x \in Workers : Holds(x, j)'
    BY <1>1 DEF NoOrphanWithoutExit
  <2>1. PICK x \in Workers : Holds(x, j)
    BY DEF NoOrphanWithoutExit
  <2>2. CASE x = w
    BY <2>1, <2>2
  <2>3. CASE x # w
    BY <1>2, <2>1, <2>3 DEF Holds
  <2> QED
    BY <2>2, <2>3
<1> QED
  BY <1>4, <1>5, <1>6, <1>7, <1>8

\* What is delivered to the listener is true, so what it writes is.
LEMMA ListenerKeeps ==
  ASSUME TypeOK, VariantsAreTrue, UNCHANGED status, NEW j \in Jobs, NEW type, OnEvent(type, j),
         type = "job.published" => status[j] = "succeeded",
         type = "job.dead_lettered" => status[j] = "dead"
  PROVE  VariantsAreTrue'
<1>1. CASE type = "job.published" /\ Operation[j] = "publish"
  BY <1>1 DEF VariantsAreTrue, OnEvent, TypeOK
<1>2. CASE type = "job.dead_lettered" /\ Operation[j] # "collect_analytics"
  BY <1>2 DEF VariantsAreTrue, OnEvent, TypeOK
<1>3. CASE ~(type = "job.published" /\ Operation[j] = "publish")
           /\ ~(type = "job.dead_lettered" /\ Operation[j] # "collect_analytics")
  BY <1>3 DEF VariantsAreTrue, OnEvent
<1> QED
  BY <1>1, <1>2, <1>3

LEMMA EmitKeeps ==
  ASSUME IInv, NEW w \in Workers, Emit(w) \/ EmitThrows(w), TypeOK'
  PROVE  IInv'
<1> USE DEF IInv
<1>1. /\ pc[w] = "emit" /\ FinishJob(w)
      /\ UNCHANGED variant \/ OnEvent(verdict[w], current[w].job)
  BY DEF Emit, EmitThrows
<1>2. VariantsAreTrue'
  <2>1. current[w].job \in Jobs
    BY <1>1 DEF MemoryFits, Records
  <2>2. UNCHANGED status
    BY <1>1 DEF FinishJob, rowVars
  <2>3. CASE UNCHANGED variant
    BY <2>2, <2>3 DEF VariantsAreTrue
  <2>4. CASE OnEvent(verdict[w], current[w].job)
    BY <1>1, <2>1, <2>2, <2>4, ListenerKeeps DEF EventsAgreeWithRows
  <2> QED
    BY <1>1, <2>3, <2>4
<1>3. /\ UNCHANGED <<rowVars, batch, sweeperVars, effects, exits>>
      /\ pc' = [pc EXCEPT ![w] = IF batch[w] = {} THEN "idle" ELSE "batch"]
      /\ current' = [current EXCEPT ![w] = None]
      /\ verdict' = [verdict EXCEPT ![w] = None]
  BY <1>1 DEF FinishJob
<1>4. \A j \in Jobs : Holds(w, j) => Holds(w, j)'
  BY <1>1, <1>3 DEF Holds
<1>5. /\ pc'[w] \in {"down", "idle", "batch"}
      /\ pc'[w] \in {"down", "idle"} => batch'[w] = {}
      /\ exits \in Nat
      /\ \A x \in Workers \ {w} : batch'[x] = batch[x] /\ verdict'[x] = verdict[x]
      /\ batch'[w] \subseteq batch[w]
  BY <1>3, JobQueueAssumption DEF TypeOK
<1> QED
  BY <1>2, <1>3, <1>4, <1>5, MemoryStepKeeps

LEMMA ExitKeeps ==
  ASSUME IInv, NEW w \in Workers, Exit(w), TypeOK'
  PROVE  IInv'
<1>1. VariantsAreTrue'
  BY DEF Exit, IInv, VariantsAreTrue, rowVars
<1>2. exits' \in Nat /\ exits' # 0
  BY JobQueueAssumption DEF Exit, IInv, TypeOK
<1>3. pc'[w] = "down" /\ batch'[w] = {} /\ \A x \in Workers \ {w} : batch'[x] = batch[x] /\ verdict'[x] = verdict[x]
  BY DEF Exit, IInv, TypeOK
<1> QED
  BY <1>1, <1>2, <1>3, MemoryStepKeeps DEF Exit

LEMMA RestartKeeps ==
  ASSUME IInv, NEW w \in Workers, Restart(w), TypeOK'
  PROVE  IInv'
<1>1. VariantsAreTrue'
  BY DEF Restart, IInv, VariantsAreTrue, rowVars
<1>2. pc'[w] = "idle" /\ pc[w] = "down" /\ batch'[w] = {} /\ UNCHANGED <<batch, current, verdict, exits>>
  BY DEF Restart, IInv, TypeOK, MemoryFits
<1>3. \A j \in Jobs : Holds(w, j) => Holds(w, j)'
  BY <1>2 DEF Holds
<1>4. exits \in Nat
  BY JobQueueAssumption DEF IInv, TypeOK
<1> QED
  BY <1>1, <1>2, <1>3, <1>4, MemoryStepKeeps DEF Restart

-----------------------------------------------------------------------------
(***************************************************************************)
(* The sweeper and the clock.                                              *)
(***************************************************************************)
LEMMA FindKeeps ==
  ASSUME IInv, FindStuckJobs, TypeOK'
  PROVE  IInv'
<1> USE DEF IInv
<1>1. /\ stuck' = StuckRecords /\ sweepEvent' = sweepEvent
      /\ UNCHANGED <<status, attempts, age, claimedBy, deadLetters, variant, pc, batch, current,
                     verdict, effects, exits>>
  BY DEF FindStuckJobs, rowVars, workerVars
<1>2. StuckRows'
  <2>1. ASSUME NEW r \in StuckRecords
        PROVE  /\ status[r.job] \in InFlight /\ age[r.job] = Lease /\ attempts[r.job] = r.attempts
               /\ r = [job |-> r.job, attempts |-> attempts[r.job], rank |-> 0]
    <3>1. PICK k \in Jobs : /\ status[k] \in InFlight /\ age[k] >= Lease
                            /\ r = [job |-> k, attempts |-> attempts[k], rank |-> 0]
      BY DEF StuckRecords
    <3>2. age[k] \in 0 .. Lease /\ Lease \in Nat
      BY <3>1, JobQueueAssumption DEF TypeOK
    <3> QED
      BY <3>1, <3>2
  <2> QED
    BY <1>1, <2>1 DEF StuckRows
<1>3. HeldRows' /\ ProgressShows' /\ MemoryFits' /\ EffectOfAttempt' /\ EventsAgreeWithRows'
  BY <1>1 DEF HeldRows, InHand, ProgressShows, MemoryFits, EffectOfAttempt, EventsAgreeWithRows
<1>4. AttemptLeft' /\ SweepEventAgrees' /\ SweeperNeverPublishes' /\ NoOrphanWithoutExit'
  BY <1>1 DEF AttemptLeft, SweepEventAgrees, SweeperNeverPublishes, NoOrphanWithoutExit, Holds
<1>5. EffectsAreCounted' /\ AttemptsBounded' /\ SuccessIsReal' /\ OneDeadLetter' /\ VariantsAreTrue'
  BY <1>1 DEF EffectsAreCounted, AttemptsBounded, SuccessIsReal, OneDeadLetter, VariantsAreTrue
<1> QED
  BY <1>2, <1>3, <1>4, <1>5

\* A reclaim is a recording by the sweeper: the row is past its lease, so no
\* worker has it in hand, and the copy is as fresh as the row.
LEMMA ReclaimRecords ==
  ASSUME IInv, NEW r \in stuck, Reclaim(r), TypeOK'
  PROVE  /\ r.job \in Jobs
         /\ \E new \in {"pending", "dead"} :
              /\ Recording(r.job, new) /\ MayRecord(r.job, new)
              /\ sweepEvent'.type = "job.dead_lettered" => new = "dead"
         /\ sweepEvent'.job = r.job /\ sweepEvent'.type # "job.published"
<1>1. /\ r.job \in Jobs /\ status[r.job] \in InFlight /\ attempts[r.job] = r.attempts
      /\ r.attempts \in Nat /\ MaxAttempts[r.job] \in Nat
  BY JobQueueAssumption DEF IInv, TypeOK, StuckRows, Records
<1>2. UNCHANGED <<variant, effects, exits>>
  BY DEF Reclaim
<1>3. CASE Exhausted(r) /\ MarkDead(r.job) /\ sweepEvent' = [job |-> r.job, type |-> "job.dead_lettered"]
  BY <1>1, <1>2, <1>3 DEF MarkDead, Recording, MayRecord
<1>4. CASE /\ ~Exhausted(r)
           /\ \E delay \in BackoffDelays(r.attempts + 1) : MarkFailedForRetry(r.job, delay)
           /\ sweepEvent' = [job |-> r.job, type |-> "job.retry_scheduled"]
  <2>1. Recording(r.job, "pending")
    BY <1>1, <1>2, <1>4 DEF MarkFailedForRetry, Recording, IInv, TypeOK
  <2>2. MayRecord(r.job, "pending")
    BY <1>1, <1>4 DEF Exhausted, MayRecord
  <2> QED
    BY <1>1, <1>4, <2>1, <2>2
<1> QED
  BY <1>3, <1>4 DEF Reclaim

LEMMA ReclaimKeeps ==
  ASSUME IInv, NEW r \in stuck, Reclaim(r), TypeOK'
  PROVE  IInv'
<1> USE DEF IInv
<1> DEFINE j == r.job
<1>1. PICK new \in {"pending", "dead"} :
        /\ Recording(j, new) /\ MayRecord(j, new)
        /\ sweepEvent'.type = "job.dead_lettered" => new = "dead"
  BY ReclaimRecords
<1>2. j \in Jobs /\ sweepEvent'.job = j /\ sweepEvent'.type # "job.published"
  BY ReclaimRecords
<1>3. /\ stuck' = stuck \ {r}
      /\ UNCHANGED <<variant, pc, batch, current, verdict, effects, exits>>
  BY DEF Reclaim, workerVars
<1>4. age[j] = Lease /\ status[j] \in InFlight
  BY DEF StuckRows
<1>5. \A x \in Workers : InHand(x)' = InHand(x) /\ \A s \in InHand(x) : s.job # j
  <2>1. ~(Lease < Lease)
    BY JobQueueAssumption
  <2> QED
    BY <1>3, <1>4, <2>1, InHandFacts DEF InHand
<1>6. \A x \in Workers : \A s \in InHand(x) : /\ status'[s.job] = status[s.job]
                                              /\ claimedBy'[s.job] = x
                                              /\ age'[s.job] < Lease
                                              /\ attempts'[s.job] = s.attempts
  BY <1>1, <1>2, <1>5, RecordingKeepsCopies
<1>7. HeldRows'
  BY <1>5, <1>6 DEF HeldRows
<1>8. ProgressShows'
  BY <1>3, <1>6 DEF ProgressShows, InHand
<1>9. MemoryFits'
  BY <1>3 DEF MemoryFits
<1>10. StuckRows'
  <2>1. \A s \in stuck' : s \in stuck /\ s.job \in Jobs /\ s.job # j
    BY <1>3 DEF StuckRows, TypeOK, Records
  <2> QED
    BY <1>1, <2>1 DEF StuckRows, TypeOK, Recording, CountAndRelease
<1>11. AttemptLeft' /\ EffectsAreCounted' /\ AttemptsBounded' /\ SuccessIsReal' /\ OneDeadLetter' /\ VariantsAreTrue'
  BY <1>1, <1>2, RecordingKeepsRows
<1>12. EffectOfAttempt'
  <2>1. ASSUME NEW x \in Workers, pc[x] \in {"handling", "settled"}
        PROVE  attempts'[current[x].job] = attempts[current[x].job]
    <3>1. current[x] \in InHand(x)
      BY <2>1 DEF InHand
    <3> QED
      BY <1>6, <3>1, InHandFacts
  <2> QED
    BY <1>3, <2>1 DEF EffectOfAttempt
<1>13. SweepEventAgrees' /\ SweeperNeverPublishes'
  BY <1>1, <1>2 DEF SweepEventAgrees, SweeperNeverPublishes, Recording, TypeOK
<1>14. NoOrphanWithoutExit'
  <2> SUFFICES ASSUME exits = 0, NEW k \in Jobs, status'[k] \in InFlight
               PROVE  \E x \in Workers : Holds(x, k)'
    BY <1>3 DEF NoOrphanWithoutExit
  <2>1. k # j /\ status[k] \in InFlight
    BY <1>1, <1>2 DEF TypeOK, Recording, InFlight
  <2>2. PICK x \in Workers : Holds(x, k)
    BY <2>1 DEF NoOrphanWithoutExit
  <2> QED
    BY <1>3, <2>2 DEF Holds
<1>15. EventsAgreeWithRows'
  BY <1>1, <1>2, <1>3, <1>4 DEF EventsAgreeWithRows, TypeOK, Recording, InFlight
<1> QED
  BY <1>7, <1>8, <1>9, <1>10, <1>11, <1>12, <1>13, <1>14, <1>15

LEMMA SweepEmitKeeps ==
  ASSUME IInv, SweepEmit \/ SweeperExit, TypeOK'
  PROVE  IInv'
<1> USE DEF IInv
<1>1. /\ stuck' \subseteq stuck /\ sweepEvent' = None
      /\ UNCHANGED <<status, attempts, age, claimedBy, deadLetters, pc, batch, current, verdict, effects>>
      /\ exits' = exits \/ exits' # 0
  BY JobQueueAssumption DEF SweepEmit, SweeperExit, rowVars, workerVars, TypeOK
<1>2. VariantsAreTrue'
  <2>1. CASE UNCHANGED variant
    BY <1>1, <2>1 DEF VariantsAreTrue
  <2>2. CASE SweepEmit
    <3>1. sweepEvent \in SweepEvents /\ OnEvent(sweepEvent.type, sweepEvent.job)
      BY <2>2 DEF SweepEmit, TypeOK
    <3>2. sweepEvent.job \in Jobs
      BY <3>1 DEF SweepEvents
    <3> QED
      BY <1>1, <2>2, <3>1, <3>2, ListenerKeeps DEF SweepEmit, SweepEventAgrees, SweeperNeverPublishes
  <2> QED
    BY <2>1, <2>2 DEF SweeperExit
<1>3. HeldRows' /\ ProgressShows' /\ MemoryFits' /\ EffectOfAttempt' /\ EventsAgreeWithRows'
  BY <1>1 DEF HeldRows, InHand, ProgressShows, MemoryFits, EffectOfAttempt, EventsAgreeWithRows
<1>4. AttemptLeft' /\ SweepEventAgrees' /\ SweeperNeverPublishes' /\ StuckRows'
  BY <1>1 DEF AttemptLeft, SweepEventAgrees, SweeperNeverPublishes, StuckRows
<1>5. NoOrphanWithoutExit'
  BY <1>1 DEF NoOrphanWithoutExit, Holds
<1>6. EffectsAreCounted' /\ AttemptsBounded' /\ SuccessIsReal' /\ OneDeadLetter'
  BY <1>1 DEF EffectsAreCounted, AttemptsBounded, SuccessIsReal, OneDeadLetter
<1> QED
  BY <1>2, <1>3, <1>4, <1>5, <1>6

\* The clock may not run a lease out on a worker that still has the job.
LEMMA TickKeeps ==
  ASSUME LeaseCoversWork, IInv, Tick, TypeOK'
  PROVE  IInv'
<1> USE DEF IInv
<1>1. /\ age' = [j \in Jobs |-> IF status[j] \in InFlight /\ age[j] < Lease THEN age[j] + 1 ELSE age[j]]
      /\ UNCHANGED <<status, attempts, claimedBy, deadLetters, variant, pc, batch, current, verdict,
                     stuck, sweepEvent, effects, exits>>
  BY DEF Tick, workerVars, sweeperVars
<1>2. \A w \in Workers, j \in Jobs : Holds(w, j) => age[j] + 1 < Lease
  BY DEF Tick
<1>3. \A w \in Workers : InHand(w)' = InHand(w)
  BY <1>1 DEF InHand
<1>4. HeldRows'
  <2> SUFFICES ASSUME NEW w \in Workers, NEW r \in InHand(w)
               PROVE  claimedBy[r.job] = w /\ age'[r.job] < Lease /\ attempts[r.job] = r.attempts
    BY <1>1, <1>3 DEF HeldRows
  <2>1. r.job \in Jobs /\ claimedBy[r.job] = w /\ attempts[r.job] = r.attempts /\ age[r.job] < Lease
    BY InHandFacts
  <2>2. age[r.job] + 1 < Lease
    BY <1>2, <2>1, HoldsIsInHand
  <2> QED
    BY <1>1, <2>1, <2>2
<1>5. StuckRows'
  <2>1. \A r \in stuck : r.job \in Jobs /\ age[r.job] = Lease
    BY DEF StuckRows, TypeOK, Records
  <2> QED
    BY <1>1, <2>1, JobQueueAssumption DEF StuckRows
<1>6. ProgressShows' /\ MemoryFits' /\ EffectOfAttempt' /\ EventsAgreeWithRows'
  BY <1>1 DEF ProgressShows, MemoryFits, EffectOfAttempt, EventsAgreeWithRows
<1>7. AttemptLeft' /\ SweepEventAgrees' /\ SweeperNeverPublishes' /\ NoOrphanWithoutExit'
  BY <1>1 DEF AttemptLeft, SweepEventAgrees, SweeperNeverPublishes, NoOrphanWithoutExit, Holds
<1>8. EffectsAreCounted' /\ AttemptsBounded' /\ SuccessIsReal' /\ OneDeadLetter' /\ VariantsAreTrue'
  BY <1>1 DEF EffectsAreCounted, AttemptsBounded, SuccessIsReal, OneDeadLetter, VariantsAreTrue
<1> QED
  BY <1>4, <1>5, <1>6, <1>7, <1>8

LEMMA StutterKeeps ==
  ASSUME IInv, UNCHANGED vars
  PROVE  IInv'
<1> USE DEF IInv, vars, rowVars, workerVars, sweeperVars
<1>1. TypeOK' /\ HeldRows' /\ ProgressShows' /\ MemoryFits' /\ EffectOfAttempt' /\ EventsAgreeWithRows'
  BY DEF TypeOK, HeldRows, InHand, ProgressShows, MemoryFits, EffectOfAttempt, EventsAgreeWithRows
<1>2. StuckRows' /\ AttemptLeft' /\ SweepEventAgrees' /\ SweeperNeverPublishes' /\ NoOrphanWithoutExit'
  BY DEF StuckRows, AttemptLeft, SweepEventAgrees, SweeperNeverPublishes, NoOrphanWithoutExit, Holds
<1>3. EffectsAreCounted' /\ AttemptsBounded' /\ SuccessIsReal' /\ OneDeadLetter' /\ VariantsAreTrue'
  BY DEF EffectsAreCounted, AttemptsBounded, SuccessIsReal, OneDeadLetter, VariantsAreTrue
<1> QED
  BY <1>1, <1>2, <1>3

-----------------------------------------------------------------------------
LEMMA IInvNext ==
  ASSUME LeaseCoversWork, IInv, [Next]_vars
  PROVE  IInv'
<1>1. TypeOK'
  BY TypeNext DEF IInv
<1>2. ASSUME NEW w \in Workers, WorkerStep(w) \/ Exit(w) \/ Restart(w)
      PROVE  IInv'
  BY <1>1, <1>2, ClaimKeeps, StartKeeps, HandlerKeeps, RecordSucceededKeeps, RecordThrowsKeeps,
     RecordDeadKeeps, RecordRetryKeeps, EmitKeeps, ExitKeeps, RestartKeeps DEF WorkerStep
<1>3. CASE SweeperStep \/ SweeperExit
  BY <1>1, <1>3, FindKeeps, ReclaimKeeps, SweepEmitKeeps DEF SweeperStep
<1> QED
  BY <1>1, <1>2, <1>3, EnqueueKeeps, TickKeeps, StutterKeeps DEF Next

\* IInv is an invariant of the queue wherever the lease covers the work.
THEOREM Invariant == ASSUME LeaseCoversWork PROVE Spec => []IInv
BY IInvInit, IInvNext, PTL DEF Spec

-----------------------------------------------------------------------------
(***************************************************************************)
(* What follows from it.                                                   *)
(***************************************************************************)

\* Two workers never have the same job in hand, for any number of workers,
\* crashes and reclaims.
THEOREM SoleHolderCorrect == ASSUME LeaseCoversWork PROVE Spec => []SoleHolder
BY Invariant, SoleHolderFromIInv, PTL

\* Attempts, effects, success and dead letters stay in step on every row.
THEOREM AccountingCorrect ==
  ASSUME LeaseCoversWork
  PROVE  Spec => []RowsAreAccounted
<1>1. IInv => RowsAreAccounted
  BY DEF IInv, RowsAreAccounted
<1> QED
  BY <1>1, Invariant, PTL

\* No job is left behind without an exit, and no event or variant tells of an
\* outcome that the rows do not have.
THEOREM OutcomesAreTold ==
  ASSUME LeaseCoversWork
  PROVE  Spec => []OutcomesAreTrue
<1>1. IInv => OutcomesAreTrue
  BY DEF IInv, OutcomesAreTrue
<1> QED
  BY <1>1, Invariant, PTL

-----------------------------------------------------------------------------
(***************************************************************************)
(* Wherever the lease covers the work, the queue implements                *)
(* PublishContract: every step of a worker, of the sweeper or of the clock *)
(* is a step of the contract or changes nothing the contract speaks of.    *)
(***************************************************************************)

\* A step that the contract cannot see.
Invisible == UNCHANGED <<attempts, effects, deadLetters>> /\ \A j \in Jobs : Phase(j)' = Phase(j)

LEMMA InvisibleStep == Invisible => UNCHANGED Contract!contractVars
BY DEF Invisible, Contract!contractVars

\* Recording an outcome is one of the contract's three ways to close an attempt.
LEMMA RecordingImplements ==
  ASSUME IInv, NEW j \in Jobs, NEW new, Recording(j, new), MayRecord(j, new)
  PROVE  Contract!Next
<1>1. /\ [k \in Jobs |-> Phase(k)]' =
           [[k \in Jobs |-> Phase(k)] EXCEPT ![j] = IF new = "pending" THEN "open" ELSE new]
      /\ Phase(j) = "open"
  BY DEF IInv, TypeOK, Recording, MayRecord, Phase, InFlight
<1>2. /\ attempts' = [attempts EXCEPT ![j] = @ + 1]
      /\ deadLetters' = [deadLetters EXCEPT ![j] = @ + (IF new = "dead" THEN 1 ELSE 0)]
      /\ UNCHANGED effects
  BY DEF Recording, CountAndRelease
<1>3. attempts[j] = 0 \/ attempts[j] < MaxAttempts[j]
  BY DEF IInv, AttemptLeft, MayRecord
<1>4. CASE new = "succeeded"
  <2>1. UNCHANGED deadLetters
    BY <1>2, <1>4 DEF IInv, TypeOK
  <2>2. Contract!Succeed(j)
    BY <1>1, <1>2, <1>3, <1>4, <2>1 DEF Contract!Succeed, Contract!Close, MayRecord
  <2> QED
    BY <2>2 DEF Contract!Next
<1>5. CASE new = "pending"
  <2>1. UNCHANGED deadLetters
    BY <1>2, <1>5 DEF IInv, TypeOK
  <2>2. Contract!Retry(j)
    BY <1>1, <1>2, <1>3, <1>5, <2>1 DEF Contract!Retry, Contract!Close, MayRecord
  <2> QED
    BY <2>2 DEF Contract!Next
<1>6. CASE new = "dead"
  <2>1. Contract!Bury(j)
    BY <1>1, <1>2, <1>3, <1>6 DEF Contract!Bury, Contract!Close
  <2> QED
    BY <2>1 DEF Contract!Next
<1> QED
  BY <1>4, <1>5, <1>6 DEF MayRecord

LEMMA EnqueueImplements ==
  ASSUME IInv, NEW j \in Jobs, Enqueue(j)
  PROVE  Contract!Submit(j)
BY DEF Enqueue, Contract!Submit, IInv, TypeOK, Phase, InFlight

LEMMA HandlerImplements ==
  ASSUME IInv, NEW w \in Workers, RunHandler(w)
  PROVE  Contract!Next \/ Invisible
<1> DEFINE j == current[w].job
<1>1. PICK acted \in BOOLEAN : effects' = [effects EXCEPT ![j] = @ + (IF acted THEN 1 ELSE 0)]
  BY DEF RunHandler
<1>2. pc[w] = "handling" /\ UNCHANGED <<status, attempts, deadLetters>>
  BY DEF RunHandler, rowVars
<1>3. j \in Jobs /\ status[j] = "running" /\ effects[j] <= attempts[j]
  BY <1>2 DEF IInv, MemoryFits, ProgressShows, EffectOfAttempt, Records
<1>4. CASE acted = TRUE
  <2>1. Contract!Post(j)
    BY <1>1, <1>2, <1>3, <1>4 DEF Contract!Post, Phase, InFlight
  <2> QED
    BY <1>3, <2>1 DEF Contract!Next
<1>5. CASE acted = FALSE
  <2>1. UNCHANGED effects
    BY <1>1, <1>5 DEF IInv, TypeOK
  <2> QED
    BY <1>2, <2>1 DEF Invisible, Phase
<1> QED
  BY <1>4, <1>5

\* Claiming and starting only move a row within the flight.
LEMMA ClaimImplements ==
  ASSUME IInv, NEW w \in Workers, ClaimDueJobs(w) \/ StartJob(w)
  PROVE  Invisible
<1>1. CASE ClaimDueJobs(w)
  <2>1. PICK S \in ClaimChoices : WriteClaimed(S, w)
    BY <1>1 DEF ClaimDueJobs
  <2>2. \A j \in S : status[j] = "pending"
    BY <2>1 DEF ClaimChoices, Due
  <2> QED
    BY <1>1, <2>1, <2>2 DEF ClaimDueJobs, WriteClaimed, Invisible, Phase, InFlight
<1>2. CASE StartJob(w)
  <2>1. PICK r \in batch[w] : MarkRunning(r.job)
    BY <1>2 DEF StartJob
  <2>2. r.job \in Jobs /\ status[r.job] = "claimed"
    BY DEF IInv, ProgressShows, TypeOK, Records
  <2> QED
    BY <1>2, <2>1, <2>2 DEF StartJob, MarkRunning, Invisible, Phase, InFlight, IInv, TypeOK
<1> QED
  BY <1>1, <1>2

LEMMA RecordImplements ==
  ASSUME IInv, NEW w \in Workers, RecordSucceeded(w) \/ RecordDead(w) \/ RecordRetry(w)
  PROVE  Contract!Next
<1>1. pc[w] = "settled"
  BY DEF RecordSucceeded, RecordDead, RecordRetry
<1>2. /\ current[w].job \in Jobs /\ status[current[w].job] = "running"
      /\ current[w] \in Records /\ current[w] \in InHand(w)
  BY <1>1 DEF IInv, MemoryFits, ProgressShows, Records, InHand
<1>3. CASE RecordSucceeded(w)
  <2>1. Recording(current[w].job, "succeeded")
    BY <1>2, <1>3 DEF RecordSucceeded, MarkSucceeded, Recording, ToEmit, IInv, TypeOK
  <2>2. MayRecord(current[w].job, "succeeded")
    BY <1>2, <1>3 DEF RecordSucceeded, MayRecord, IInv, EffectOfAttempt, InFlight
  <2> QED
    BY <1>2, <2>1, <2>2, RecordingImplements
<1>4. CASE RecordDead(w)
  <2>1. Recording(current[w].job, "dead")
    BY <1>2, <1>4 DEF RecordDead, MarkDead, Recording, ToEmit
  <2>2. MayRecord(current[w].job, "dead")
    BY <1>2 DEF MayRecord, InFlight
  <2> QED
    BY <1>2, <2>1, <2>2, RecordingImplements
<1>5. CASE RecordRetry(w)
  <2>1. Recording(current[w].job, "pending")
    BY <1>2, <1>5 DEF RecordRetry, MarkFailedForRetry, Recording, ToEmit, IInv, TypeOK
  <2>2. attempts[current[w].job] = current[w].attempts
    BY <1>2, InHandFacts
  <2>3. MayRecord(current[w].job, "pending")
    BY <1>2, <1>5, <2>2, JobQueueAssumption DEF RecordRetry, MayRecord, Exhausted, InFlight, IInv, TypeOK
  <2> QED
    BY <1>2, <2>1, <2>3, RecordingImplements
<1> QED
  BY <1>3, <1>4, <1>5

LEMMA StepImplements ==
  ASSUME IInv, IInv', [Next]_vars
  PROVE  [Contract!Next]_(Contract!contractVars)
<1>1. ASSUME NEW j \in Jobs, Enqueue(j)
      PROVE  Contract!Next
  BY <1>1, EnqueueImplements DEF Contract!Next
<1>2. ASSUME NEW w \in Workers,
             \/ RecordSucceededThrows(w) \/ Emit(w) \/ EmitThrows(w) \/ Exit(w) \/ Restart(w)
      PROVE  Invisible
  BY <1>2 DEF RecordSucceededThrows, Emit, EmitThrows, FinishJob, Exit, Restart, rowVars, Invisible, Phase
<1>3. ASSUME NEW w \in Workers, WorkerStep(w) \/ Exit(w) \/ Restart(w)
      PROVE  Contract!Next \/ Invisible
  BY <1>2, <1>3, ClaimImplements, HandlerImplements, RecordImplements DEF WorkerStep
<1>4. ASSUME NEW r \in stuck, Reclaim(r)
      PROVE  Contract!Next
  <2>1. TypeOK'
    BY DEF IInv
  <2> QED
    BY <1>4, <2>1, ReclaimRecords, RecordingImplements
<1>5. ASSUME FindStuckJobs \/ SweepEmit \/ SweeperExit \/ Tick \/ UNCHANGED vars
      PROVE  Invisible
  BY <1>5 DEF FindStuckJobs, SweepEmit, SweeperExit, Tick, vars, rowVars, Invisible, Phase
<1> QED
  BY <1>1, <1>3, <1>4, <1>5, InvisibleStep DEF Next, SweeperStep

LEMMA InitImplements == Init => Contract!Init
BY DEF Init, Contract!Init, Phase, InFlight

\* Every behaviour of the queue is one of the contract.
THEOREM QueueImplementsContract == ASSUME LeaseCoversWork PROVE Spec => ImplementsContract
BY InitImplements, StepImplements, Invariant, PTL DEF Spec, ImplementsContract, Contract!Spec

\* The contract never reopens a job that ended, so the queue does not either.
LEMMA ContractKeepsEnds ==
  ASSUME IInv, IInv', [Contract!Next]_(Contract!contractVars), NEW j \in Jobs, status[j] \in Terminal
  PROVE  status'[j] = status[j] /\ effects'[j] = effects[j] /\ deadLetters'[j] = deadLetters[j]
<1>1. Phase(j) = status[j] /\ Phase(j) # "open" /\ Phase(j) # "absent"
  BY DEF Phase, Terminal, InFlight
<1>2. Phase(j)' = Phase(j) /\ effects'[j] = effects[j] /\ deadLetters'[j] = deadLetters[j]
  BY <1>1 DEF Contract!Next, Contract!Submit, Contract!Post, Contract!Succeed, Contract!Retry,
     Contract!Bury, Contract!Close, Contract!contractVars, IInv, TypeOK
<1> QED
  BY <1>1, <1>2 DEF Phase, Terminal, InFlight

\* succeeded and dead are final, for the row, its dead letter and the platform.
THEOREM FinalIsFinalCorrect == ASSUME LeaseCoversWork PROVE Spec => FinalIsFinal
<1>1. ASSUME IInv, IInv', [Next]_vars
      PROVE  [\A j \in Jobs : status[j] \in Terminal =>
                /\ status'[j] = status[j]
                /\ effects'[j] = effects[j]
                /\ deadLetters'[j] = deadLetters[j]]_vars
  BY <1>1, StepImplements, ContractKeepsEnds
<1> QED
  BY <1>1, Invariant, PTL DEF Spec, FinalIsFinal

-----------------------------------------------------------------------------
(***************************************************************************)
(* submitPost makes a variant for each post it enqueues: of the jobs of a  *)
(* variant, one at most does more than collect its metrics.                *)
(***************************************************************************)
OneChange ==
  \A j, k \in {i \in Jobs : Operation[i] # "collect_analytics"} :
    VariantOf[j] = VariantOf[k] => j = k

\* An event that is not of the death of another job leaves a published variant as it is.
LEMMA ListenerKeepsPublished ==
  ASSUME OneChange, TypeOK, VariantsAreTrue, NEW v \in Variants, variant[v] = "published",
         NEW j \in Jobs, NEW type, OnEvent(type, j), type = "job.dead_lettered" => status[j] = "dead"
  PROVE  variant'[v] = "published"
<1>1. PICK k \in Jobs : VariantOf[k] = v /\ Operation[k] = "publish" /\ status[k] = "succeeded"
  BY DEF VariantsAreTrue
<1>2. CASE type = "job.dead_lettered" /\ Operation[j] # "collect_analytics"
  <2>1. VariantOf[j] # v
    BY <1>1, <1>2 DEF OneChange
  <2> QED
    BY <1>2, <2>1 DEF OnEvent
<1>3. CASE ~(type = "job.dead_lettered" /\ Operation[j] # "collect_analytics")
  BY <1>3 DEF OnEvent, TypeOK
<1> QED
  BY <1>2, <1>3

LEMMA PublishedNext ==
  ASSUME OneChange, IInv, [Next]_vars, NEW v \in Variants, variant[v] = "published"
  PROVE  variant'[v] = "published"
<1>1. ASSUME NEW w \in Workers, Emit(w)
      PROVE  variant'[v] = "published"
  <2>1. /\ OnEvent(verdict[w], current[w].job) /\ current[w].job \in Jobs
        /\ verdict[w] = "job.dead_lettered" => status[current[w].job] = "dead"
    BY <1>1 DEF Emit, IInv, MemoryFits, Records, EventsAgreeWithRows
  <2> QED
    BY <2>1, ListenerKeepsPublished DEF IInv
<1>2. CASE SweepEmit
  <2>1. /\ OnEvent(sweepEvent.type, sweepEvent.job) /\ sweepEvent.job \in Jobs
        /\ sweepEvent.type = "job.dead_lettered" => status[sweepEvent.job] = "dead"
    BY <1>2 DEF SweepEmit, IInv, TypeOK, SweepEvents, SweepEventAgrees
  <2> QED
    BY <2>1, ListenerKeepsPublished DEF IInv
<1>3. ASSUME NEW w \in Workers, WorkerStep(w) \/ Exit(w) \/ Restart(w), ~Emit(w)
      PROVE  variant' = variant
  BY <1>3 DEF WorkerStep, ClaimDueJobs, StartJob, RunHandler, RecordSucceeded, ToEmit,
     RecordSucceededThrows, RecordDead, RecordRetry, EmitThrows, Exit, Restart
<1>4. CASE (\E j \in Jobs : Enqueue(j)) \/ Tick \/ SweeperExit \/ FindStuckJobs
           \/ (\E r \in stuck : Reclaim(r)) \/ UNCHANGED vars
  BY <1>4 DEF Enqueue, Tick, SweeperExit, FindStuckJobs, Reclaim, vars
<1> QED
  BY <1>1, <1>2, <1>3, <1>4 DEF Next, SweeperStep

(***************************************************************************)
(* What was shown as published is not taken back: the event that could is  *)
(* one of the job that succeeded, and that job does not die.               *)
(***************************************************************************)
THEOREM PublishedStaysCorrect ==
  ASSUME LeaseCoversWork, OneChange
  PROVE  Spec => PublishedStays
<1>1. ASSUME IInv, [Next]_vars
      PROVE  [\A v \in Variants : variant[v] = "published" => variant'[v] = "published"]_vars
  BY <1>1, PublishedNext
<1> QED
  BY <1>1, Invariant, PTL DEF Spec, PublishedStays
=============================================================================
