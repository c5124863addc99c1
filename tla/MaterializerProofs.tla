------------------------- MODULE MaterializerProofs -------------------------
(***************************************************************************)
(* Type correctness of Materializer, its inductive invariant IInv, and     *)
(* what follows from it: the safety properties and the action property     *)
(* CursorMovesOn.  Nothing is assumed beyond MaterializerAssumption.       *)
(***************************************************************************)
EXTENDS MaterializerInv, TLAPS

LEMMA EarliestFacts ==
  ASSUME NEW S, NEW t \in Earliest(S)
  PROVE  t \in S /\ \A u \in S : t <= u
BY DEF Earliest

\* NextRunAt is NULL or a later instant of the rule, with nothing between.
LEMMA NextRunAtFacts ==
  ASSUME NEW o \in Occurrences, NEW t \in NextRunAt(o)
  PROVE  /\ t \in Nat \cup {NoInstant}
         /\ t # NoInstant => /\ Mode[o.sched] = "recurring"
                             /\ t \in Rule[o.sched]
                             /\ o.at < t
                             /\ \A u \in Rule[o.sched] : u < t => u <= o.at
<1> DEFINE found == OccurrencesInRange(o.sched, o.at + 1, o.at + Window)
<1>1. o.sched \in Schedules /\ o.at \in Nat /\ Rule[o.sched] \subseteq Nat /\ Window \in Nat
  BY MaterializerAssumption DEF Occurrences, Instants
<1>2. CASE t = NoInstant
  BY <1>2
<1>3. CASE Mode[o.sched] = "recurring" /\ t \in Earliest(found)
  <2>1. t \in found /\ \A u \in found : t <= u
    BY <1>3, EarliestFacts
  <2>2. t \in Rule[o.sched] /\ t \in Nat /\ o.at + 1 <= t /\ t <= o.at + Window
    BY <1>1, <2>1 DEF OccurrencesInRange
  <2>3. ASSUME NEW u \in Rule[o.sched], u < t
        PROVE  u <= o.at
    <3>1. CASE u <= o.at
      BY <3>1
    <3>2. CASE o.at < u
      <4>1. u \in found
        BY <1>1, <2>2, <2>3, <3>2 DEF OccurrencesInRange
      <4> QED
        BY <1>1, <2>1, <2>2, <2>3, <4>1
    <3> QED
      BY <1>1, <3>1, <3>2
  <2> QED
    BY <1>1, <1>3, <2>2, <2>3
<1> QED
  BY <1>2, <1>3 DEF NextRunAt

\* A new schedule starts on its own first instant.
LEMMA FirstRunAtFacts ==
  ASSUME TypeOK, NEW s \in Schedules, NEW t \in FirstRunAt(s)
  PROVE  /\ t \in Nat
         /\ Mode[s] = "once" => t = Anchor[s]
         /\ Mode[s] = "recurring" => /\ t \in Rule[s]
                                     /\ \A u \in Rule[s] : ~(Anchor[s] <= u /\ u < t)
<1> DEFINE found == OccurrencesInRange(s, Anchor[s], Anchor[s] + Window)
<1>1. /\ Mode[s] \in Modes /\ Anchor[s] \in Nat /\ Rule[s] \subseteq Nat /\ Window \in Nat
      /\ now \in Nat
  BY MaterializerAssumption DEF TypeOK, Instants
<1>2. CASE Mode[s] = "immediate"
  BY <1>1, <1>2 DEF FirstRunAt
<1>3. CASE Mode[s] = "once"
  BY <1>1, <1>3 DEF FirstRunAt
<1>4. CASE Mode[s] = "recurring"
  <2>1. t \in found /\ \A u \in found : t <= u
    BY <1>4, EarliestFacts DEF FirstRunAt
  <2>2. t \in Rule[s] /\ t \in Nat /\ Anchor[s] <= t /\ t <= Anchor[s] + Window
    BY <1>1, <2>1 DEF OccurrencesInRange
  <2>3. ASSUME NEW u \in Rule[s], Anchor[s] <= u, u < t
        PROVE  FALSE
    <3>1. u \in found
      BY <1>1, <2>2, <2>3 DEF OccurrencesInRange
    <3> QED
      BY <1>1, <2>1, <2>2, <2>3, <3>1
  <2> QED
    BY <1>4, <2>2, <2>3
<1> QED
  BY <1>1, <1>2, <1>3, <1>4 DEF Modes

-----------------------------------------------------------------------------
(***************************************************************************)
(* Type correctness.                                                       *)
(***************************************************************************)
LEMMA TypeInit == Init => TypeOK
BY MaterializerAssumption
   DEF Init, TypeOK, Instants, NoInstant, Locations, Steps

LEMMA ContinueType ==
  ASSUME TypeOK, NEW w \in Sweeps, NEW left \in SUBSET Occurrences, Continue(w, left)
  PROVE  /\ pc' \in [Sweeps -> Locations]
         /\ todo' \in [Sweeps -> SUBSET Occurrences]
         /\ current' \in [Sweeps -> Occurrences \cup {None}]
BY DEF TypeOK, Continue, Locations

LEMMA CreatorType ==
  ASSUME TypeOK, NEW s \in Schedules, CreateSchedule(s) \/ CreatorStep(s)
  PROVE  TypeOK'
<1> USE MaterializerAssumption
<1>1. CASE CreateSchedule(s)
  <2>1. PICK t \in FirstRunAt(s) : nextRun' = [nextRun EXCEPT ![s] = t]
    BY <1>1 DEF CreateSchedule
  <2>2. t \in Nat
    BY FirstRunAtFacts
  <2> QED
    BY <1>1, <2>1, <2>2 DEF CreateSchedule, TypeOK, Live, outputVars, sweepVars
<1>2. CASE PersistSpec(s)
  BY <1>2 DEF PersistSpec, TypeOK, outputVars, sweepVars
<1>3. CASE PersistSpecThrows(s)
  BY <1>3 DEF PersistSpecThrows, TypeOK, rowVars, outputVars, sweepVars
<1>4. CASE CreatorExit(s)
  BY <1>4 DEF CreatorExit, TypeOK, rowVars, outputVars, sweepVars
<1> QED
  BY <1>1, <1>2, <1>3, <1>4 DEF CreatorStep

LEMMA ClaimType ==
  ASSUME TypeOK, NEW w \in Sweeps, NEW o \in todo[w], ClaimOccurrence(w, o)
  PROVE  TypeOK'
<1>1. o \in Occurrences /\ o.sched \in Schedules /\ o.at \in Nat
  BY MaterializerAssumption DEF TypeOK, Occurrences, Instants
<1>2. PICK t \in NextRunAt(o) :
        /\ nextRun' = [nextRun EXCEPT ![o.sched] = t]
        /\ status' = [status EXCEPT ![o.sched] = StatusAfter(t)]
  BY DEF ClaimOccurrence
<1>3. t \in Nat \cup {NoInstant}
  BY <1>1, NextRunAtFacts
<1>4. /\ nextRun' \in [Schedules -> Nat \cup {NoInstant}]
      /\ status' \in [Schedules -> {"absent", "completed"} \cup Live]
      /\ lastRun' \in [Schedules -> Nat \cup {NoInstant}]
  BY <1>1, <1>2, <1>3 DEF ClaimOccurrence, TypeOK, StatusAfter, Live
<1>5. /\ pc' \in [Sweeps -> Locations]
      /\ todo' \in [Sweeps -> SUBSET Occurrences]
      /\ current' \in [Sweeps -> Occurrences \cup {None}]
      /\ outcome' \in [Occurrences -> {"none", "claimed", "submitted", "submit_failed"}]
  BY <1>1 DEF ClaimOccurrence, TypeOK, Locations
<1> QED
  BY <1>4, <1>5 DEF ClaimOccurrence, TypeOK, outputVars

LEMMA TargetType ==
  ASSUME TypeOK, NEW w \in Sweeps, NEW x \in Targets, TargetStep(w, x), current[w] \in Occurrences
  PROVE  TypeOK'
<1> USE MaterializerAssumption
<1>1. progress' \in [Sweeps -> [Targets -> Steps]] /\ faults' \in 0 .. MaxFaults
  <2>1. PICK step \in Steps : progress' = [progress EXCEPT ![w][x] = step]
    BY DEF TargetStep, TargetFails, CreateVariant, EnqueueJob, EnqueueThrows, Steps
  <2>2. [progress[w] EXCEPT ![x] = step] \in [Targets -> Steps]
    BY DEF TypeOK
  <2>3. progress' \in [Sweeps -> [Targets -> Steps]]
    BY <2>1, <2>2 DEF TypeOK
  <2>4. faults' \in 0 .. MaxFaults
    BY DEF TargetStep, TargetFails, CreateVariant, EnqueueJob, EnqueueThrows, TypeOK
  <2> QED
    BY <2>3, <2>4
<1>2. variants' \in [Occurrences -> [Targets -> Nat]] /\ jobs' \in [Occurrences -> [Targets -> Nat]]
  <2>1. CASE CreateVariant(w, x)
    <3>1. [variants[current[w]] EXCEPT ![x] = @ + 1] \in [Targets -> Nat]
      BY DEF TypeOK
    <3> QED
      BY <2>1, <3>1 DEF CreateVariant, TypeOK
  <2>2. CASE EnqueueJob(w, x)
    <3>1. [jobs[current[w]] EXCEPT ![x] = @ + 1] \in [Targets -> Nat]
      BY DEF TypeOK
    <3> QED
      BY <2>2, <3>1 DEF EnqueueJob, TypeOK
  <2>3. CASE TargetFails(w, x) \/ EnqueueThrows(w, x)
    BY <2>3 DEF TargetFails, EnqueueThrows, TypeOK, outputVars
  <2> QED
    BY <2>1, <2>2, <2>3 DEF TargetStep
<1>3. UNCHANGED <<rowVars, saving, pc, todo, current, outcome, now, exits>>
  BY DEF TargetStep, TargetFails, CreateVariant, EnqueueJob, EnqueueThrows
<1> QED
  BY <1>1, <1>2, <1>3 DEF TypeOK, rowVars

LEMMA TypeNext == TypeOK /\ HandsClaimed /\ [Next]_vars => TypeOK'
<1> SUFFICES ASSUME TypeOK, HandsClaimed, [Next]_vars
             PROVE  TypeOK'
  OBVIOUS
<1> USE MaterializerAssumption
<1>1. ASSUME NEW s \in Schedules, CreateSchedule(s) \/ CreatorStep(s)
      PROVE  TypeOK'
  BY <1>1, CreatorType
<1>2. ASSUME NEW w \in Sweeps, StartSweep(w)
      PROVE  TypeOK'
  BY <1>2 DEF StartSweep, ListDue, TypeOK, Locations, rowVars, outputVars
<1>3. ASSUME NEW w \in Sweeps, SweepStep(w)
      PROVE  TypeOK'
  <2>1. ASSUME NEW o \in todo[w], ClaimOccurrence(w, o)
        PROVE  TypeOK'
    BY <2>1, ClaimType
  <2>2. ASSUME NEW o \in todo[w], LoseClaim(w, o)
        PROVE  TypeOK'
    <3>1. todo[w] \ {o} \in SUBSET Occurrences
      BY DEF TypeOK
    <3> QED
      BY <2>2, <3>1, ContinueType DEF LoseClaim, TypeOK, rowVars, outputVars
  <2>3. CASE Compose(w)
    BY <2>3 DEF Compose, TypeOK, Locations, Steps, rowVars, outputVars
  <2>4. CASE ComposeFails(w)
    BY <2>4, ContinueType DEF ComposeFails, TypeOK, HandsClaimed, InHand, rowVars, outputVars
  <2>5. ASSUME NEW x \in Targets, TargetStep(w, x)
        PROVE  TypeOK'
    <3>1. current[w] \in Occurrences
      BY <2>5 DEF TargetStep, TargetFails, CreateVariant, EnqueueJob, EnqueueThrows, HandsClaimed, InHand
    <3> QED
      BY <2>5, <3>1, TargetType
  <2>6. CASE FinishOccurrence(w)
    BY <2>6, ContinueType DEF FinishOccurrence, TypeOK, HandsClaimed, InHand, rowVars, outputVars
  <2>7. CASE SweepThrows(w)
    BY <2>7, ContinueType DEF SweepThrows, TypeOK, rowVars, outputVars
  <2> QED
    BY <1>3, <2>1, <2>2, <2>3, <2>4, <2>5, <2>6, <2>7 DEF SweepStep
<1>4. ASSUME NEW w \in Sweeps, Exit(w)
      PROVE  TypeOK'
  BY <1>4, ContinueType DEF Exit, TypeOK, rowVars, outputVars
<1>5. CASE Tick
  BY <1>5 DEF Tick, TypeOK, Instants, rowVars, outputVars, sweepVars
<1>6. CASE UNCHANGED vars
  BY <1>6 DEF vars, TypeOK, rowVars, outputVars, sweepVars
<1> QED
  BY <1>1, <1>2, <1>3, <1>4, <1>5, <1>6 DEF Next

-----------------------------------------------------------------------------
(***************************************************************************)
(* The inductive invariant.                                                *)
(***************************************************************************)
LEMMA IInvInit == Init => IInv
<1> SUFFICES ASSUME Init
             PROVE  IInv
  OBVIOUS
<1>1. TypeOK
  BY TypeInit
<1>2. HandsClaimed /\ HandsApart /\ ProgressIsTrue /\ TodoIsDue
  BY DEF Init, HandsClaimed, HandsApart, ProgressIsTrue, TodoIsDue, InHand
<1>3. CursorAhead /\ CursorOnRule /\ NoneSkipped /\ OnTime
  BY MaterializerAssumption
     DEF Init, CursorAhead, CursorOnRule, NoneSkipped, OnTime, Occurrences, Instants, NoInstant
<1>4. AtMostOneJob /\ NothingLost /\ ReportsAreTrue
  BY DEF Init, AtMostOneJob, NothingLost, ReportsAreTrue
<1> QED
  BY <1>1, <1>2, <1>3, <1>4 DEF IInv

\* A step that moves no cursor, no sweep and no output.
Quiet ==
  /\ UNCHANGED <<status, nextRun, lastRun, outputVars, sweepVars, outcome>>
  /\ now <= now'
  /\ faults' = 0 => faults = 0
  /\ exits' = 0 => exits = 0

LEMMA QuietKeeps == IInv /\ Quiet /\ TypeOK' => IInv'
<1> SUFFICES ASSUME IInv, Quiet, TypeOK'
             PROVE  IInv'
  OBVIOUS
<1> USE DEF IInv
<1>1. /\ UNCHANGED <<status, nextRun, lastRun, variants, jobs, pc, todo, current, progress, outcome>>
      /\ now \in Nat /\ now' \in Nat /\ now <= now'
      /\ (faults' = 0 => faults = 0) /\ (exits' = 0 => exits = 0)
  BY MaterializerAssumption DEF Quiet, outputVars, sweepVars, TypeOK, Instants
<1>2. HandsClaimed' /\ HandsApart' /\ CursorAhead' /\ CursorOnRule'
  BY <1>1 DEF HandsClaimed, HandsApart, CursorAhead, CursorOnRule, InHand
<1>3. TodoIsDue'
  BY <1>1 DEF TodoIsDue, TypeOK, Occurrences, Instants
<1>4. OnTime'
  BY <1>1 DEF OnTime, Occurrences, Instants
<1>5. ProgressIsTrue'
  BY <1>1 DEF ProgressIsTrue
<1>6. AtMostOneJob' /\ NoneSkipped' /\ NothingLost' /\ ReportsAreTrue'
  BY <1>1 DEF AtMostOneJob, NoneSkipped, NothingLost, ReportsAreTrue, Submitting
<1> QED
  BY <1>2, <1>3, <1>4, <1>5, <1>6

LEMMA CreateKeeps ==
  ASSUME IInv, NEW s \in Schedules, CreateSchedule(s), TypeOK'
  PROVE  IInv'
<1> USE DEF IInv
<1>1. PICK t \in FirstRunAt(s) : nextRun' = [nextRun EXCEPT ![s] = t]
  BY DEF CreateSchedule
<1>2. /\ status[s] = "absent" /\ status' = [status EXCEPT ![s] = "pending"]
      /\ UNCHANGED <<lastRun, variants, jobs, pc, todo, current, progress, outcome, now, exits, faults>>
  BY DEF CreateSchedule, outputVars, sweepVars
<1>3. /\ t \in Nat
      /\ Mode[s] = "once" => t = Anchor[s]
      /\ Mode[s] = "recurring" => /\ t \in Rule[s]
                                  /\ \A u \in Rule[s] : ~(Anchor[s] <= u /\ u < t)
  BY FirstRunAtFacts
<1>4. HandsClaimed' /\ HandsApart' /\ TodoIsDue' /\ ProgressIsTrue'
  BY <1>2 DEF HandsClaimed, HandsApart, TodoIsDue, ProgressIsTrue, InHand
<1>5. CursorAhead'
  BY <1>1, <1>2, <1>3 DEF CursorAhead, TypeOK, NoInstant
<1>6. CursorOnRule'
  BY <1>1, <1>2, <1>3 DEF CursorOnRule, TypeOK
<1>7. AtMostOneJob' /\ NoneSkipped' /\ OnTime' /\ NothingLost' /\ ReportsAreTrue'
  BY <1>2 DEF AtMostOneJob, NoneSkipped, OnTime, NothingLost, ReportsAreTrue, Submitting
<1> QED
  BY <1>4, <1>5, <1>6, <1>7

LEMMA StartKeeps ==
  ASSUME IInv, NEW w \in Sweeps, StartSweep(w), TypeOK'
  PROVE  IInv'
<1> USE DEF IInv
<1>1. /\ pc[w] = "idle" /\ pc' = [pc EXCEPT ![w] = "sweeping"]
      /\ todo' = [todo EXCEPT ![w] = ListDue]
      /\ UNCHANGED <<status, nextRun, lastRun, variants, jobs, current, progress, outcome, now, exits, faults>>
  BY DEF StartSweep, rowVars, outputVars
<1>2. \A v \in Sweeps : pc'[v] = pc[v] \/ (~InHand(v) /\ pc'[v] = "sweeping")
  BY <1>1 DEF InHand, TypeOK
<1>3. HandsClaimed' /\ HandsApart'
  <2>1. HandsClaimed'
    BY <1>1, <1>2 DEF HandsClaimed, InHand
  <2>2. HandsApart'
    BY <1>1, <1>2 DEF HandsApart, InHand
  <2> QED
    BY <2>1, <2>2
<1>4. CursorAhead' /\ CursorOnRule'
  BY <1>1 DEF CursorAhead, CursorOnRule
<1>5. TodoIsDue'
  BY <1>1 DEF TodoIsDue, ListDue, TypeOK
<1>6. ProgressIsTrue'
  BY <1>1 DEF ProgressIsTrue, TypeOK
<1>7. AtMostOneJob' /\ NoneSkipped' /\ OnTime' /\ ReportsAreTrue'
  BY <1>1 DEF AtMostOneJob, NoneSkipped, OnTime, ReportsAreTrue
<1>8. NothingLost'
  BY <1>1, <1>2 DEF NothingLost, Submitting, InHand
<1> QED
  BY <1>3, <1>4, <1>5, <1>6, <1>7, <1>8

LEMMA ClaimKeeps ==
  ASSUME IInv, NEW w \in Sweeps, NEW o \in todo[w], ClaimOccurrence(w, o), TypeOK'
  PROVE  IInv'
<1> USE DEF IInv
<1>1. PICK t \in NextRunAt(o) :
        /\ nextRun' = [nextRun EXCEPT ![o.sched] = t]
        /\ status' = [status EXCEPT ![o.sched] = StatusAfter(t)]
  BY DEF ClaimOccurrence
<1>2. /\ o \in Occurrences /\ o.sched \in Schedules /\ o.at \in Nat
      /\ pc[w] = "sweeping" /\ o.at <= now /\ nextRun[o.sched] = o.at
  BY MaterializerAssumption
     DEF ClaimOccurrence, UpNext, Claimable, TypeOK, TodoIsDue, Occurrences, Instants
<1>3. /\ lastRun' = [lastRun EXCEPT ![o.sched] = o.at]
      /\ outcome' = [outcome EXCEPT ![o] = "claimed"]
      /\ pc' = [pc EXCEPT ![w] = "claimed"]
      /\ todo' = [todo EXCEPT ![w] = @ \ {o}]
      /\ current' = [current EXCEPT ![w] = o]
      /\ UNCHANGED <<variants, jobs, progress, now, exits, faults>>
  BY DEF ClaimOccurrence, outputVars
<1>4. /\ t \in Nat \cup {NoInstant}
      /\ t # NoInstant => /\ Mode[o.sched] = "recurring"
                          /\ t \in Rule[o.sched]
                          /\ o.at < t
                          /\ \A u \in Rule[o.sched] : u < t => u <= o.at
  BY <1>2, NextRunAtFacts
<1>5. lastRun[o.sched] < o.at /\ outcome[o] = "none"
  <2>1. lastRun[o.sched] < o.at
    BY <1>2 DEF CursorAhead, NoInstant
  <2>2. outcome[o] # "none" => o.at <= lastRun[o.sched]
    BY <1>2 DEF CursorAhead
  <2>3. lastRun[o.sched] \in Int
    BY <1>2 DEF TypeOK, NoInstant
  <2> QED
    BY <1>2, <2>1, <2>2, <2>3
<1>6. ASSUME NEW v \in Sweeps \ {w}
      PROVE  pc'[v] = pc[v] /\ current'[v] = current[v] /\ (InHand(v) => current[v] # o)
  BY <1>3, <1>5 DEF HandsClaimed, TypeOK
<1>7. pc'[w] = "claimed" /\ current'[w] = o
  BY <1>3 DEF TypeOK
<1>8. HandsClaimed'
  <2>1. outcome'[o] = "claimed" /\ \A p \in Occurrences : outcome[p] = "claimed" => outcome'[p] = "claimed"
    BY <1>2, <1>3 DEF TypeOK
  <2> QED
    BY <1>2, <1>6, <1>7, <2>1 DEF HandsClaimed, InHand
<1>9. HandsApart'
  BY <1>6, <1>7 DEF HandsApart, InHand
<1>10. CursorAhead'
  <2>1. ASSUME NEW s \in Schedules
        PROVE  /\ nextRun'[s] # NoInstant => lastRun'[s] < nextRun'[s]
               /\ status'[s] = "absent" => lastRun'[s] = NoInstant
    BY <1>1, <1>2, <1>3, <1>4 DEF CursorAhead, TypeOK, StatusAfter
  <2>2. ASSUME NEW p \in Occurrences, outcome'[p] # "none"
        PROVE  p.at <= lastRun'[p.sched]
    <3>1. CASE p = o
      BY <1>2, <1>3, <3>1 DEF TypeOK
    <3>2. CASE p # o
      <4>1. outcome[p] # "none" /\ p.sched \in Schedules /\ p.at \in Int
        BY <1>3, <2>2, <3>2 DEF TypeOK, Occurrences, Instants
      <4>2. p.at <= lastRun[p.sched]
        BY <4>1 DEF CursorAhead
      <4>3. lastRun[p.sched] \in Int
        BY <4>1 DEF TypeOK, NoInstant
      <4> QED
        BY <1>2, <1>3, <1>5, <4>1, <4>2, <4>3 DEF TypeOK
    <3> QED
      BY <3>1, <3>2
  <2> QED
    BY <2>1, <2>2 DEF CursorAhead
<1>11. CursorOnRule'
  <2>1. ASSUME NEW s \in Schedules, nextRun'[s] # NoInstant
        PROVE  /\ Mode[s] = "once" => nextRun'[s] = Anchor[s]
               /\ Mode[s] = "recurring" =>
                    /\ nextRun'[s] \in Rule[s]
                    /\ \A u \in Rule[s] : Anchor[s] <= u /\ u < nextRun'[s] => u <= lastRun'[s]
    <3>1. CASE s = o.sched
      BY <1>1, <1>2, <1>3, <1>4, <2>1, <3>1 DEF TypeOK
    <3>2. CASE s # o.sched
      BY <1>1, <1>3, <2>1, <3>2 DEF CursorOnRule, TypeOK
    <3> QED
      BY <3>1, <3>2
  <2> QED
    BY <2>1 DEF CursorOnRule
<1>12. TodoIsDue'
  BY <1>3 DEF TodoIsDue, TypeOK
<1>13. ProgressIsTrue'
  <2>1. ASSUME NEW x \in Targets
        PROVE  variants[o][x] = 0 /\ jobs[o][x] = 0
    BY <1>2, <1>5 DEF ReportsAreTrue, AtMostOneJob, TypeOK
  <2> QED
    BY <1>3, <1>6, <1>7, <2>1 DEF ProgressIsTrue
<1>14. AtMostOneJob'
  BY <1>3 DEF AtMostOneJob
<1>15. NoneSkipped'
  <2>1. ASSUME NEW p \in Occurrences, Mode[p.sched] = "recurring", p.at \in Rule[p.sched],
               Anchor[p.sched] <= p.at, p.at <= lastRun'[p.sched]
        PROVE  outcome'[p] # "none"
    <3>1. p.sched \in Schedules /\ p.at \in Nat
      BY MaterializerAssumption DEF Occurrences, Instants
    <3>2. CASE p = o
      BY <1>3, <3>2 DEF TypeOK
    <3>3. CASE p.sched = o.sched /\ p # o
      <4>1. p.at # o.at
        BY <1>2, <3>3 DEF Occurrences
      <4>2. p.at < nextRun[p.sched]
        <5>1. p.at <= o.at
          BY <1>2, <1>3, <2>1, <3>3 DEF TypeOK
        <5> QED
          BY <1>2, <3>1, <3>3, <4>1, <5>1
      <4>3. p.at <= lastRun[p.sched]
        BY <1>2, <2>1, <3>1, <3>3, <4>2 DEF CursorOnRule, NoInstant
      <4> QED
        BY <1>3, <2>1, <4>3 DEF NoneSkipped, TypeOK
    <3>4. CASE p.sched # o.sched
      <4>1. p.at <= lastRun[p.sched]
        BY <1>3, <2>1, <3>1, <3>4 DEF TypeOK
      <4> QED
        BY <1>3, <2>1, <4>1 DEF NoneSkipped, TypeOK
    <3> QED
      BY <3>2, <3>3, <3>4
  <2> QED
    BY <2>1 DEF NoneSkipped
<1>16. OnTime'
  <2>1. /\ Mode[o.sched] = "recurring" => o.at \in Rule[o.sched]
        /\ Mode[o.sched] = "once" => o.at = Anchor[o.sched]
    BY <1>2 DEF CursorOnRule, NoInstant
  <2> QED
    BY <1>2, <1>3, <2>1 DEF OnTime, TypeOK
<1>17. NothingLost'
  <2>1. ASSUME NEW p \in Occurrences, exits' = 0, outcome'[p] = "claimed"
        PROVE  \E v \in Sweeps : Submitting(v, p)'
    <3>1. CASE p = o
      BY <1>7, <3>1 DEF Submitting
    <3>2. CASE p # o
      <4>1. exits = 0 /\ outcome[p] = "claimed"
        BY <1>3, <2>1, <3>2 DEF TypeOK
      <4>2. PICK v \in Sweeps : Submitting(v, p)
        BY <4>1 DEF NothingLost
      <4>3. v # w
        BY <1>2, <4>2 DEF Submitting
      <4> QED
        BY <1>6, <4>2, <4>3 DEF Submitting
    <3> QED
      BY <3>1, <3>2
  <2> QED
    BY <2>1 DEF NothingLost
<1>18. ReportsAreTrue'
  BY <1>3, <1>5 DEF ReportsAreTrue, TypeOK
<1> QED
  BY <1>8, <1>9, <1>10, <1>11, <1>12, <1>13, <1>14, <1>15, <1>16, <1>17, <1>18

\* A sweep lets go of what it has: without an occurrence in hand, or because
\* its process exits.
LEMMA DropKeeps ==
  ASSUME IInv, TypeOK', NEW w \in Sweeps, NEW left \in SUBSET todo[w], Continue(w, left),
         UNCHANGED <<status, nextRun, lastRun, variants, jobs, progress, outcome, now>>,
         faults' = 0 => faults = 0,
         exits' = 0 => exits = 0 /\ ~InHand(w)
  PROVE  IInv'
<1> USE DEF IInv
<1>1. ~InHand(w)' /\ \A v \in Sweeps \ {w} : pc'[v] = pc[v] /\ current'[v] = current[v]
  BY DEF Continue, InHand, TypeOK
<1>2. HandsClaimed' /\ HandsApart'
  <2>1. HandsClaimed'
    BY <1>1 DEF HandsClaimed, InHand
  <2>2. HandsApart'
    BY <1>1 DEF HandsApart, InHand
  <2> QED
    BY <2>1, <2>2
<1>3. CursorAhead' /\ CursorOnRule'
  BY DEF CursorAhead, CursorOnRule
<1>4. TodoIsDue'
  BY DEF TodoIsDue, Continue, TypeOK
<1>5. ProgressIsTrue'
  BY <1>1 DEF ProgressIsTrue, InHand
<1>6. AtMostOneJob' /\ NoneSkipped' /\ OnTime' /\ ReportsAreTrue'
  BY DEF AtMostOneJob, NoneSkipped, OnTime, ReportsAreTrue
<1>7. NothingLost'
  BY <1>1 DEF NothingLost, Submitting, InHand
<1> QED
  BY <1>2, <1>3, <1>4, <1>5, <1>6, <1>7

\* A sweep reports on the occurrence in its hand.
LEMMA ReportKeeps ==
  ASSUME IInv, TypeOK', NEW w \in Sweeps, Continue(w, todo[w]), InHand(w),
         NEW result \in {"submitted", "submit_failed"},
         outcome' = [outcome EXCEPT ![current[w]] = result],
         UNCHANGED <<status, nextRun, lastRun, variants, jobs, progress, now, exits>>,
         faults' = 0 => faults = 0,
         \A x \in Targets :
           /\ result = "submit_failed" => variants[current[w]][x] = 0
           /\ result = "submitted" /\ faults' = 0 => jobs[current[w]][x] = variants[current[w]][x]
  PROVE  IInv'
<1> USE DEF IInv
<1> DEFINE o == current[w]
<1>1. o \in Occurrences /\ outcome[o] = "claimed"
  BY DEF HandsClaimed
<1>2. ~InHand(w)'
  BY DEF Continue, InHand, TypeOK
<1>3. ASSUME NEW v \in Sweeps \ {w}
      PROVE  pc'[v] = pc[v] /\ current'[v] = current[v] /\ (InHand(v) => current[v] # o)
  BY DEF Continue, HandsApart, TypeOK
<1>4. \A p \in Occurrences : outcome'[p] = IF p = o THEN result ELSE outcome[p]
  BY <1>1 DEF TypeOK
<1>5. HandsClaimed'
  BY <1>2, <1>3, <1>4 DEF HandsClaimed, InHand
<1>6. HandsApart'
  BY <1>2, <1>3 DEF HandsApart, InHand
<1>7. CursorAhead' /\ NoneSkipped' /\ OnTime'
  BY <1>1, <1>4 DEF CursorAhead, NoneSkipped, OnTime
<1>8. CursorOnRule' /\ AtMostOneJob'
  BY DEF CursorOnRule, AtMostOneJob
<1>9. TodoIsDue'
  BY DEF TodoIsDue, Continue, TypeOK
<1>10. ProgressIsTrue'
  BY <1>2, <1>3 DEF ProgressIsTrue, InHand
<1>11. NothingLost'
  <2>1. ASSUME exits' = 0, NEW p \in Occurrences, outcome'[p] = "claimed"
        PROVE  \E v \in Sweeps : Submitting(v, p)'
    <3>1. p # o /\ outcome[p] = "claimed" /\ exits = 0
      BY <1>4, <2>1
    <3>2. PICK v \in Sweeps : Submitting(v, p)
      BY <3>1 DEF NothingLost
    <3>3. v # w
      BY <3>1, <3>2 DEF Submitting
    <3> QED
      BY <1>3, <3>2, <3>3 DEF Submitting
  <2> QED
    BY <2>1 DEF NothingLost
<1>12. ReportsAreTrue'
  BY <1>1, <1>4 DEF ReportsAreTrue
<1> QED
  BY <1>5, <1>6, <1>7, <1>8, <1>9, <1>10, <1>11, <1>12

LEMMA ComposeKeeps ==
  ASSUME IInv, NEW w \in Sweeps, Compose(w), TypeOK'
  PROVE  IInv'
<1> USE DEF IInv
<1>1. /\ pc[w] = "claimed" /\ pc' = [pc EXCEPT ![w] = "composing"]
      /\ progress' = [progress EXCEPT ![w] = [x \in Targets |-> "waiting"]]
      /\ UNCHANGED <<status, nextRun, lastRun, variants, jobs, todo, current, outcome, now, exits, faults>>
  BY DEF Compose, rowVars, outputVars
<1>2. /\ pc'[w] = "composing" /\ \A x \in Targets : progress'[w][x] = "waiting"
      /\ \A v \in Sweeps \ {w} : pc'[v] = pc[v] /\ progress'[v] = progress[v]
  BY <1>1 DEF TypeOK
<1>3. HandsClaimed' /\ HandsApart'
  <2>1. HandsClaimed'
    BY <1>1, <1>2 DEF HandsClaimed, InHand
  <2>2. HandsApart'
    BY <1>1, <1>2 DEF HandsApart, InHand
  <2> QED
    BY <2>1, <2>2
<1>4. CursorAhead' /\ CursorOnRule' /\ TodoIsDue'
  BY <1>1 DEF CursorAhead, CursorOnRule, TodoIsDue
<1>5. ProgressIsTrue'
  BY <1>1, <1>2 DEF ProgressIsTrue
<1>6. AtMostOneJob' /\ NoneSkipped' /\ OnTime' /\ ReportsAreTrue'
  BY <1>1 DEF AtMostOneJob, NoneSkipped, OnTime, ReportsAreTrue
<1>7. NothingLost'
  BY <1>1, <1>2 DEF NothingLost, Submitting
<1> QED
  BY <1>3, <1>4, <1>5, <1>6, <1>7

\* One step of processTarget leaves target x at `step`, with v variants and j
\* jobs for the occurrence in hand.
TargetWrites(w, x, step, v, j) ==
  /\ progress' = [progress EXCEPT ![w][x] = step]
  /\ variants' = [variants EXCEPT ![current[w]][x] = v]
  /\ jobs' = [jobs EXCEPT ![current[w]][x] = j]
  /\ j <= v
  /\ step = "variant" => v = 1 /\ j = 0
  /\ step = "enqueued" => v = 1 /\ j = 1
  /\ step = "failed" => j = 0 /\ (faults' = 0 => v = 0)
  /\ faults' = 0 => faults = 0

LEMMA TargetEffect ==
  ASSUME IInv, NEW w \in Sweeps, NEW x \in Targets, TargetStep(w, x)
  PROVE  /\ pc[w] = "composing" /\ current[w] \in Occurrences /\ outcome[current[w]] = "claimed"
         /\ \E step \in {"variant", "enqueued", "failed"}, v \in {0, 1}, j \in {0, 1} :
              TargetWrites(w, x, step, v, j)
<1> USE DEF IInv
<1> DEFINE o == current[w]
<1>1. pc[w] = "composing"
  BY DEF TargetStep, TargetFails, CreateVariant, EnqueueJob, EnqueueThrows
<1>2. o \in Occurrences /\ outcome[o] = "claimed"
  BY <1>1 DEF HandsClaimed, InHand
<1>3. /\ variants[o] \in [Targets -> Nat] /\ jobs[o] \in [Targets -> Nat]
      /\ variants \in [Occurrences -> [Targets -> Nat]] /\ jobs \in [Occurrences -> [Targets -> Nat]]
      /\ faults \in Nat
  BY <1>2, MaterializerAssumption DEF TypeOK
<1>4. /\ progress[w][x] = "waiting" => variants[o][x] = 0 /\ jobs[o][x] = 0
      /\ progress[w][x] = "variant" => variants[o][x] = 1 /\ jobs[o][x] = 0
  BY <1>1 DEF ProgressIsTrue
<1>5. /\ variants = [variants EXCEPT ![o][x] = variants[o][x]]
      /\ jobs = [jobs EXCEPT ![o][x] = jobs[o][x]]
  <2>1. /\ [variants[o] EXCEPT ![x] = variants[o][x]] = variants[o]
        /\ [jobs[o] EXCEPT ![x] = jobs[o][x]] = jobs[o]
    BY <1>3
  <2> QED
    BY <1>3, <2>1
<1>6. CASE TargetFails(w, x)
  <2>1. TargetWrites(w, x, "failed", 0, 0)
    BY <1>4, <1>5, <1>6 DEF TargetFails, TargetWrites, outputVars
  <2> QED
    BY <1>1, <1>2, <2>1
<1>7. CASE CreateVariant(w, x)
  <2>1. /\ variants[o][x] = 0 /\ jobs[o][x] = 0
        /\ variants' = [variants EXCEPT ![o][x] = variants[o][x] + 1] /\ jobs' = jobs
    BY <1>4, <1>7 DEF CreateVariant
  <2>2. variants' = [variants EXCEPT ![o][x] = 1] /\ jobs' = [jobs EXCEPT ![o][x] = 0]
    BY <1>5, <2>1
  <2>3. progress' = [progress EXCEPT ![w][x] = "variant"] /\ faults' = faults
    BY <1>7 DEF CreateVariant
  <2>4. TargetWrites(w, x, "variant", 1, 0)
    BY <2>2, <2>3 DEF TargetWrites
  <2> QED
    BY <1>1, <1>2, <2>4
<1>8. CASE EnqueueJob(w, x)
  <2>1. /\ variants[o][x] = 1 /\ jobs[o][x] = 0
        /\ jobs' = [jobs EXCEPT ![o][x] = jobs[o][x] + 1] /\ variants' = variants
    BY <1>4, <1>8 DEF EnqueueJob
  <2>2. variants' = [variants EXCEPT ![o][x] = 1] /\ jobs' = [jobs EXCEPT ![o][x] = 1]
    BY <1>5, <2>1
  <2>3. progress' = [progress EXCEPT ![w][x] = "enqueued"] /\ faults' = faults
    BY <1>8 DEF EnqueueJob
  <2>4. TargetWrites(w, x, "enqueued", 1, 1)
    BY <2>2, <2>3 DEF TargetWrites
  <2> QED
    BY <1>1, <1>2, <2>4
<1>9. CASE EnqueueThrows(w, x)
  <2>1. variants' = [variants EXCEPT ![o][x] = 1] /\ jobs' = [jobs EXCEPT ![o][x] = 0]
    BY <1>4, <1>5, <1>9 DEF EnqueueThrows, outputVars
  <2>2. faults' # 0
    BY <1>3, <1>9 DEF EnqueueThrows
  <2>3. TargetWrites(w, x, "failed", 1, 0)
    BY <1>9, <2>1, <2>2 DEF EnqueueThrows, TargetWrites
  <2> QED
    BY <1>1, <1>2, <2>3
<1> QED
  BY <1>6, <1>7, <1>8, <1>9 DEF TargetStep

LEMMA TargetKeeps ==
  ASSUME IInv, NEW w \in Sweeps, NEW x \in Targets, TargetStep(w, x), TypeOK'
  PROVE  IInv'
<1> USE DEF IInv
<1> DEFINE o == current[w]
<1>1. /\ pc[w] = "composing" /\ o \in Occurrences /\ outcome[o] = "claimed"
      /\ \E step \in {"variant", "enqueued", "failed"}, v \in {0, 1}, j \in {0, 1} :
           TargetWrites(w, x, step, v, j)
  BY TargetEffect
<1>2. PICK step \in {"variant", "enqueued", "failed"}, v \in {0, 1}, j \in {0, 1} :
        TargetWrites(w, x, step, v, j)
  BY <1>1
<1>3. UNCHANGED <<status, nextRun, lastRun, pc, todo, current, outcome, now, exits>>
  BY DEF TargetStep, TargetFails, CreateVariant, EnqueueJob, EnqueueThrows, rowVars
<1>4. /\ variants'[o][x] = v /\ jobs'[o][x] = j /\ progress'[w][x] = step
      /\ \A p \in Occurrences, y \in Targets : p # o \/ y # x =>
           variants'[p][y] = variants[p][y] /\ jobs'[p][y] = jobs[p][y]
      /\ \A u \in Sweeps, y \in Targets : u # w \/ y # x => progress'[u][y] = progress[u][y]
  BY <1>1, <1>2 DEF TargetWrites, TypeOK
<1>5. HandsClaimed' /\ HandsApart'
  BY <1>3 DEF HandsClaimed, HandsApart, InHand
<1>6. CursorAhead' /\ CursorOnRule' /\ TodoIsDue' /\ NoneSkipped' /\ OnTime'
  BY <1>3 DEF CursorAhead, CursorOnRule, TodoIsDue, NoneSkipped, OnTime
<1>7. ProgressIsTrue'
  <2>1. ASSUME NEW u \in Sweeps, InHand(u), u # w
        PROVE  current[u] \in Occurrences /\ current[u] # o
    BY <1>1, <2>1 DEF HandsClaimed, HandsApart, InHand
  <2>2. ASSUME NEW u \in Sweeps, NEW y \in Targets, InHand(u), u # w \/ y # x
        PROVE  /\ variants'[current[u]][y] = variants[current[u]][y]
               /\ jobs'[current[u]][y] = jobs[current[u]][y]
               /\ progress'[u][y] = progress[u][y]
    BY <1>1, <1>4, <2>1, <2>2
  <2>3. faults' = 0 => faults = 0
    BY <1>2 DEF TargetWrites
  <2>4. ASSUME NEW u \in Sweeps, NEW y \in Targets, u # w \/ y # x
        PROVE  ProgressIsTrue!(u, y)'
    BY <1>3, <2>2, <2>3, <2>4 DEF ProgressIsTrue, InHand
  <2>5. ProgressIsTrue!(w, x)'
    BY <1>1, <1>2, <1>3, <1>4 DEF TargetWrites
  <2> QED
    BY <2>4, <2>5 DEF ProgressIsTrue
<1>8. AtMostOneJob'
  BY <1>2, <1>4 DEF AtMostOneJob, TargetWrites
<1>9. NothingLost'
  BY <1>3 DEF NothingLost, Submitting
<1>10. ReportsAreTrue'
  BY <1>1, <1>2, <1>3, <1>4 DEF ReportsAreTrue, TargetWrites
<1> QED
  BY <1>5, <1>6, <1>7, <1>8, <1>9, <1>10

LEMMA SweepStepKeeps ==
  ASSUME IInv, NEW w \in Sweeps, SweepStep(w), TypeOK'
  PROVE  IInv'
<1>1. ASSUME NEW o \in todo[w], ClaimOccurrence(w, o)
      PROVE  IInv'
  BY <1>1, ClaimKeeps
<1>2. ASSUME NEW o \in todo[w], LoseClaim(w, o)
      PROVE  IInv'
  <2>1. /\ Continue(w, todo[w] \ {o}) /\ ~InHand(w)
        /\ UNCHANGED <<status, nextRun, lastRun, variants, jobs, progress, outcome, now, faults, exits>>
    BY <1>2 DEF LoseClaim, UpNext, InHand, rowVars, outputVars
  <2>2. todo[w] \ {o} \in SUBSET todo[w]
    OBVIOUS
  <2> QED
    BY <2>1, <2>2, DropKeeps
<1>3. CASE Compose(w)
  BY <1>3, ComposeKeeps
<1>4. CASE ComposeFails(w)
  <2>1. /\ Continue(w, todo[w]) /\ pc[w] = "claimed"
        /\ outcome' = [outcome EXCEPT ![current[w]] = "submit_failed"]
        /\ UNCHANGED <<status, nextRun, lastRun, variants, jobs, progress, now, exits>>
    BY <1>4 DEF ComposeFails, rowVars, outputVars
  <2>2. faults' = 0 => faults = 0
    BY <1>4, MaterializerAssumption DEF ComposeFails, IInv, TypeOK
  <2>3. \A x \in Targets : variants[current[w]][x] = 0
    BY <2>1 DEF IInv, ProgressIsTrue
  <2> QED
    BY <2>1, <2>2, <2>3, ReportKeeps DEF InHand
<1>5. ASSUME NEW x \in Targets, TargetStep(w, x)
      PROVE  IInv'
  BY <1>5, TargetKeeps
<1>6. CASE FinishOccurrence(w)
  <2>1. /\ Continue(w, todo[w]) /\ pc[w] = "composing" /\ AllSettled(w)
        /\ outcome' = [outcome EXCEPT ![current[w]] = "submitted"]
        /\ UNCHANGED <<status, nextRun, lastRun, variants, jobs, progress, now, exits, faults>>
    BY <1>6 DEF FinishOccurrence, rowVars, outputVars
  <2>2. ASSUME NEW x \in Targets, faults' = 0
        PROVE  jobs[current[w]][x] = variants[current[w]][x]
    <3>1. CASE progress[w][x] = "enqueued"
      BY <2>1, <3>1 DEF IInv, ProgressIsTrue
    <3>2. CASE progress[w][x] = "failed"
      BY <2>1, <2>2, <3>2 DEF IInv, ProgressIsTrue
    <3> QED
      BY <2>1, <3>1, <3>2 DEF AllSettled
  <2> QED
    BY <2>1, <2>2, ReportKeeps DEF InHand
<1>7. CASE SweepThrows(w)
  <2>1. /\ Continue(w, {}) /\ ~InHand(w)
        /\ UNCHANGED <<status, nextRun, lastRun, variants, jobs, progress, outcome, now, exits>>
    BY <1>7 DEF SweepThrows, InHand, rowVars, outputVars
  <2>2. faults' = 0 => faults = 0
    BY <1>7, MaterializerAssumption DEF SweepThrows, IInv, TypeOK
  <2>3. {} \in SUBSET todo[w]
    OBVIOUS
  <2> QED
    BY <2>1, <2>2, <2>3, DropKeeps
<1> QED
  BY <1>1, <1>2, <1>3, <1>4, <1>5, <1>6, <1>7 DEF SweepStep

LEMMA IInvNext == IInv /\ [Next]_vars => IInv'
<1> SUFFICES ASSUME IInv, [Next]_vars
             PROVE  IInv'
  OBVIOUS
<1>1. TypeOK'
  BY TypeNext DEF IInv
<1>2. ASSUME NEW s \in Schedules, CreateSchedule(s)
      PROVE  IInv'
  BY <1>1, <1>2, CreateKeeps
<1>3. ASSUME NEW s \in Schedules, CreatorStep(s)
      PROVE  IInv'
  <2>1. Quiet
    BY <1>3, MaterializerAssumption
       DEF CreatorStep, PersistSpec, PersistSpecThrows, CreatorExit, Quiet, rowVars, IInv, TypeOK, Instants
  <2> QED
    BY <1>1, <2>1, QuietKeeps
<1>4. ASSUME NEW w \in Sweeps, StartSweep(w)
      PROVE  IInv'
  BY <1>1, <1>4, StartKeeps
<1>5. ASSUME NEW w \in Sweeps, SweepStep(w)
      PROVE  IInv'
  BY <1>1, <1>5, SweepStepKeeps
<1>6. ASSUME NEW w \in Sweeps, Exit(w)
      PROVE  IInv'
  <2>1. /\ Continue(w, {})
        /\ UNCHANGED <<status, nextRun, lastRun, variants, jobs, progress, outcome, now, faults>>
    BY <1>6 DEF Exit, rowVars, outputVars
  <2>2. exits' # 0
    BY <1>6, MaterializerAssumption DEF Exit, IInv, TypeOK
  <2>3. {} \in SUBSET todo[w]
    OBVIOUS
  <2> QED
    BY <1>1, <2>1, <2>2, <2>3, DropKeeps
<1>7. CASE Tick \/ UNCHANGED vars
  <2>1. Quiet
    BY <1>7, MaterializerAssumption
       DEF Tick, vars, Quiet, rowVars, IInv, TypeOK, Instants
  <2> QED
    BY <1>1, <2>1, QuietKeeps
<1> QED
  BY <1>2, <1>3, <1>4, <1>5, <1>6, <1>7 DEF Next

\* Every reachable state of scheduling satisfies the inductive invariant,
\* whatever the schedules, their rules and the number of overlapping sweeps.
THEOREM Invariant == Spec => []IInv
<1> QED
  BY IInvInit, IInvNext, PTL DEF Spec

\* Variables keep their types.
THEOREM TypeCorrect == Spec => []TypeOK
<1>1. IInv => TypeOK
  BY DEF IInv
<1> QED
  BY <1>1, Invariant, PTL

\* However sweeps overlap, fail and exit, an occurrence yields at most one
\* variant and one job per target, and one sweep at a time submits it.
THEOREM NoDoubleSubmit == Spec => []SubmittedOnce
<1>1. IInv => AtMostOneJob
  BY DEF IInv
<1>2. IInv => SoleSubmitter
  <2> SUFFICES ASSUME IInv, NEW w \in Sweeps, NEW o \in Occurrences, Submitting(w, o)
               PROVE  /\ outcome[o] = "claimed"
                      /\ o.at <= lastRun[o.sched]
                      /\ \A other \in Sweeps \ {w} : ~Submitting(other, o)
    BY DEF SoleSubmitter
  <2>1. InHand(w) /\ current[w] = o
    BY DEF Submitting, InHand
  <2>2. outcome[o] = "claimed"
    BY <2>1 DEF IInv, HandsClaimed
  <2>3. o.at <= lastRun[o.sched]
    BY <2>2 DEF IInv, CursorAhead
  <2>4. \A other \in Sweeps \ {w} : ~Submitting(other, o)
    BY <2>1 DEF IInv, HandsApart, Submitting, InHand
  <2> QED
    BY <2>2, <2>3, <2>4
<1>3. IInv => SubmittedOnce
  BY <1>1, <1>2 DEF SubmittedOnce
<1> QED
  BY <1>3, Invariant, PTL

\* No occurrence is skipped, none is taken before its time, and none is lost while
\* no process exits.
THEOREM OccurrencesAccountedFor == Spec => []OccurrencesAccounted
<1>1. IInv => OccurrencesAccounted
  BY DEF IInv, OccurrencesAccounted
<1> QED
  BY <1>1, Invariant, PTL

\* The reports of the sweeps tell what was written.
THEOREM ReportsCorrect == Spec => []ReportsAreTrue
<1>1. IInv => ReportsAreTrue
  BY DEF IInv
<1> QED
  BY <1>1, Invariant, PTL

-----------------------------------------------------------------------------
(***************************************************************************)
(* Steps.                                                                  *)
(***************************************************************************)
\* What one step can do to the rows of schedules.
LEMMA RowSteps ==
  ASSUME IInv, [Next]_vars
  PROVE  \/ UNCHANGED <<status, nextRun, lastRun>>
         \/ \E s \in Schedules : CreateSchedule(s)
         \/ \E w \in Sweeps : \E o \in todo[w] : ClaimOccurrence(w, o)
<1> USE DEF rowVars
<1>1. ASSUME NEW s \in Schedules, CreatorStep(s)
      PROVE  UNCHANGED <<status, nextRun, lastRun>>
  BY <1>1 DEF CreatorStep, PersistSpec, PersistSpecThrows, CreatorExit
<1>2. ASSUME NEW w \in Sweeps, NEW x \in Targets, TargetStep(w, x)
      PROVE  UNCHANGED <<status, nextRun, lastRun>>
  BY <1>2 DEF TargetStep, TargetFails, CreateVariant, EnqueueJob, EnqueueThrows
<1>3. ASSUME NEW w \in Sweeps,
             \/ StartSweep(w) \/ Compose(w) \/ ComposeFails(w) \/ FinishOccurrence(w)
             \/ SweepThrows(w) \/ Exit(w) \/ \E o \in todo[w] : LoseClaim(w, o)
      PROVE  UNCHANGED <<status, nextRun, lastRun>>
  BY <1>3 DEF StartSweep, Compose, ComposeFails, FinishOccurrence, SweepThrows, Exit, LoseClaim
<1>4. ASSUME Tick \/ UNCHANGED vars
      PROVE  UNCHANGED <<status, nextRun, lastRun>>
  BY <1>4 DEF Tick, vars
<1> QED
  BY <1>1, <1>2, <1>3, <1>4 DEF Next, SweepStep

CursorStep(s) ==
  /\ lastRun[s] <= lastRun'[s]
  /\ nextRun'[s] # NoInstant => lastRun'[s] < nextRun'[s]
  /\ status[s] = "completed" => status'[s] = "completed" /\ lastRun'[s] = lastRun[s]

LEMMA CursorNext ==
  ASSUME IInv, IInv', [Next]_vars, NEW s \in Schedules
  PROVE  CursorStep(s)
<1>1. nextRun'[s] # NoInstant => lastRun'[s] < nextRun'[s]
  BY DEF IInv, CursorAhead
<1>2. lastRun[s] \in Int
  BY DEF IInv, TypeOK, NoInstant
<1>3. CASE UNCHANGED <<status, nextRun, lastRun>>
  BY <1>1, <1>2, <1>3 DEF CursorStep
<1>4. ASSUME NEW q \in Schedules, CreateSchedule(q)
      PROVE  CursorStep(s)
  BY <1>1, <1>2, <1>4 DEF CreateSchedule, CursorStep, IInv, TypeOK
<1>5. ASSUME NEW w \in Sweeps, NEW o \in todo[w], ClaimOccurrence(w, o)
      PROVE  CursorStep(s)
  <2>1. /\ o \in Occurrences /\ o.sched \in Schedules /\ o.at \in Nat
        /\ nextRun[o.sched] = o.at /\ status[o.sched] \in Live
        /\ lastRun' = [lastRun EXCEPT ![o.sched] = o.at]
    BY <1>5, MaterializerAssumption DEF ClaimOccurrence, Claimable, IInv, TypeOK, Occurrences, Instants
  <2>2. lastRun[o.sched] < o.at
    BY <2>1 DEF IInv, CursorAhead, NoInstant
  <2>3. PICK t \in NextRunAt(o) : status' = [status EXCEPT ![o.sched] = StatusAfter(t)]
    BY <1>5 DEF ClaimOccurrence
  <2>4. CASE s = o.sched
    BY <1>1, <1>2, <2>1, <2>2, <2>4 DEF CursorStep, Live, IInv, TypeOK
  <2>5. CASE s # o.sched
    BY <1>1, <1>2, <2>1, <2>3, <2>5 DEF CursorStep, IInv, TypeOK
  <2> QED
    BY <2>4, <2>5
<1> QED
  BY <1>3, <1>4, <1>5, RowSteps

\* A schedule never goes back to an occurrence it has moved past, and
\* completed is final.
THEOREM CursorMovesOnCorrect == Spec => CursorMovesOn
<1>1. IInv /\ IInv' /\ [Next]_vars => \A s \in Schedules : CursorStep(s)
  BY CursorNext
<1>2. IInv /\ IInv' /\ [Next]_vars =>
        [\A s \in Schedules :
           /\ lastRun[s] <= lastRun'[s]
           /\ nextRun'[s] # NoInstant => lastRun'[s] < nextRun'[s]
           /\ status[s] = "completed" => status'[s] = "completed" /\ lastRun'[s] = lastRun[s]]_vars
  BY <1>1 DEF CursorStep
<1> QED
  BY <1>2, Invariant, PTL DEF Spec, CursorMovesOn

-----------------------------------------------------------------------------
(***************************************************************************)
(* Scheduling implements OccurrenceContract: a claim takes an occurrence,  *)
(* an insert into publish_jobs submits it to a target, a report ends it,   *)
(* and every other step changes nothing the contract speaks of.            *)
(***************************************************************************)

Stages == [o \in Occurrences |-> Stage(o)]

\* A step that the contract cannot see.
Invisible == UNCHANGED <<jobs, outcome>>

LEMMA InvisibleStep == Invisible => UNCHANGED Contract!contractVars
BY DEF Invisible, Contract!contractVars, Stage

\* How the stages follow when one outcome is written.
LEMMA StageStep ==
  ASSUME TypeOK, NEW o \in Occurrences,
         NEW new \in {"claimed", "submitted", "submit_failed"},
         outcome' = [outcome EXCEPT ![o] = new]
  PROVE  Stages' = [Stages EXCEPT ![o] = IF new = "claimed" THEN "taken" ELSE "reported"]
BY DEF Stages, Stage, TypeOK

\* Winning a claim takes the occurrence, and no later one was taken before it.
LEMMA ClaimImplements ==
  ASSUME IInv, NEW w \in Sweeps, NEW o \in todo[w], ClaimOccurrence(w, o)
  PROVE  Contract!Take(o) /\ o \in Occurrences
<1>1. o \in Occurrences /\ o.sched \in Schedules /\ o.at \in Nat
  BY MaterializerAssumption DEF IInv, TypeOK, Occurrences, Instants
<1>2. nextRun[o.sched] = o.at /\ outcome' = [outcome EXCEPT ![o] = "claimed"] /\ UNCHANGED jobs
  BY DEF ClaimOccurrence, Claimable, outputVars
<1>3. lastRun[o.sched] \in Int /\ lastRun[o.sched] < o.at
  BY <1>1, <1>2 DEF IInv, TypeOK, CursorAhead, NoInstant
<1>4. ASSUME NEW p \in Occurrences, p.sched = o.sched, p.at >= o.at
      PROVE  Stages[p] = "none"
  <2>1. p.at \in Nat
    BY DEF Occurrences, Instants
  <2>2. outcome[p] = "none"
    BY <1>1, <1>3, <1>4, <2>1 DEF IInv, CursorAhead
  <2> QED
    BY <2>2 DEF Stages, Stage
<1>5. Stages' = [Stages EXCEPT ![o] = "taken"]
  BY <1>1, <1>2, StageStep DEF IInv
<1> QED
  BY <1>1, <1>2, <1>4, <1>5 DEF Contract!Take, Stages

\* Every report is of an occurrence in the hands of the sweep that claimed it.
LEMMA ReportImplements ==
  ASSUME IInv, NEW w \in Sweeps, ComposeFails(w) \/ FinishOccurrence(w)
  PROVE  \E o \in Occurrences : Contract!Report(o)
<1> DEFINE o == current[w]
<1>1. InHand(w) /\ UNCHANGED jobs
  BY DEF ComposeFails, FinishOccurrence, InHand, outputVars
<1>2. o \in Occurrences /\ outcome[o] = "claimed"
  BY <1>1 DEF IInv, HandsClaimed
<1>3. PICK new \in {"submitted", "submit_failed"} : outcome' = [outcome EXCEPT ![o] = new]
  BY DEF ComposeFails, FinishOccurrence
<1>4. Stages' = [Stages EXCEPT ![o] = "reported"]
  BY <1>2, <1>3, StageStep DEF IInv
<1>5. Stages[o] = "taken"
  BY <1>2 DEF Stages, Stage
<1>6. Contract!Report(o)
  BY <1>1, <1>4, <1>5, <1>2 DEF Contract!Report, Stages
<1> QED
  BY <1>2, <1>6

\* A job is inserted for the occurrence in hand, for a target that has none.
LEMMA EnqueueImplements ==
  ASSUME IInv, NEW w \in Sweeps, NEW x \in Targets, EnqueueJob(w, x)
  PROVE  \E o \in Occurrences : Contract!Submit(o, x)
<1> DEFINE o == current[w]
<1>1. pc[w] = "composing" /\ progress[w][x] = "variant" /\ UNCHANGED outcome
  BY DEF EnqueueJob
<1>2. o \in Occurrences /\ outcome[o] = "claimed"
  BY <1>1 DEF IInv, HandsClaimed, InHand
<1>3. jobs[o][x] = 0
  BY <1>1 DEF IInv, ProgressIsTrue
<1>4. jobs' = [jobs EXCEPT ![o][x] = 1]
  BY <1>2, <1>3 DEF EnqueueJob, IInv, TypeOK
<1>5. Stages' = Stages /\ Stages[o] = "taken"
  BY <1>1, <1>2 DEF Stages, Stage
<1>6. Contract!Submit(o, x)
  BY <1>2, <1>3, <1>4, <1>5 DEF Contract!Submit, Stages
<1> QED
  BY <1>2, <1>6

LEMMA SweepImplements ==
  ASSUME IInv, NEW w \in Sweeps, SweepStep(w)
  PROVE  Contract!Next \/ Invisible
<1>1. ASSUME NEW o \in todo[w], ClaimOccurrence(w, o)
      PROVE  Contract!Next
  BY <1>1, ClaimImplements DEF Contract!Next
<1>2. ASSUME NEW o \in todo[w], LoseClaim(w, o)
      PROVE  Invisible
  BY <1>2 DEF LoseClaim, Invisible, outputVars
<1>3. CASE Compose(w) \/ SweepThrows(w)
  BY <1>3 DEF Compose, SweepThrows, Invisible, outputVars
<1>4. CASE ComposeFails(w) \/ FinishOccurrence(w)
  BY <1>4, ReportImplements DEF Contract!Next
<1>5. ASSUME NEW x \in Targets, EnqueueJob(w, x)
      PROVE  Contract!Next
  BY <1>5, EnqueueImplements DEF Contract!Next
<1>6. ASSUME NEW x \in Targets, TargetFails(w, x) \/ CreateVariant(w, x) \/ EnqueueThrows(w, x)
      PROVE  Invisible
  BY <1>6 DEF TargetFails, CreateVariant, EnqueueThrows, Invisible, outputVars
<1>7. CASE \E x \in Targets : TargetStep(w, x)
  <2>1. PICK x \in Targets : TargetStep(w, x)
    BY <1>7
  <2> QED
    BY <2>1, <1>5, <1>6 DEF TargetStep
<1>8. CASE \E o \in todo[w] : ClaimOccurrence(w, o) \/ LoseClaim(w, o)
  BY <1>1, <1>2, <1>8
<1> QED
  BY <1>3, <1>4, <1>7, <1>8 DEF SweepStep

LEMMA StepImplements ==
  ASSUME IInv, [Next]_vars
  PROVE  [Contract!Next]_(Contract!contractVars)
<1>1. ASSUME NEW s \in Schedules, CreateSchedule(s) \/ CreatorStep(s)
      PROVE  Invisible
  BY <1>1 DEF CreateSchedule, CreatorStep, PersistSpec, PersistSpecThrows, CreatorExit, Invisible,
     outputVars
<1>2. ASSUME NEW w \in Sweeps, StartSweep(w) \/ Exit(w)
      PROVE  Invisible
  BY <1>2 DEF StartSweep, Exit, Invisible, outputVars
<1>3. ASSUME Tick \/ UNCHANGED vars
      PROVE  Invisible
  BY <1>3 DEF Tick, vars, Invisible, outputVars
<1> QED
  BY <1>1, <1>2, <1>3, SweepImplements, InvisibleStep DEF Next

LEMMA InitImplements == Init => Contract!Init
BY DEF Init, Contract!Init, Stage

\* Overlapping sweeps, with their failures and exits, take every occurrence of
\* a schedule at most once and in order, and submit it to each target at most
\* once while it is taken.
THEOREM SchedulingImplementsContract == Spec => ImplementsContract
BY InitImplements, StepImplements, Invariant, PTL DEF Spec, ImplementsContract, Contract!Spec
=============================================================================
