-------------------------- MODULE ModelDownloadProofs --------------------------
(***************************************************************************)
(* No file is ever promoted that is not the model, callers share one       *)
(* download and one load, the phase shown is the truth, and what was       *)
(* fetched is kept: for every size of the model, every number of requests, *)
(* calls, exits and faults, as long as nobody asks for a download while    *)
(* another request is still taking the decline marker away.  Without that  *)
(* TLC has the counterexample (ModelDownloadTwice).                        *)
(*                                                                         *)
(* The argument: the run there is holds inFlight and abort, so it is the   *)
(* only one, and the .part file is its own.  It then knows what is in that *)
(* file at every await: as many chunks as it has received.                 *)
(***************************************************************************)
EXTENDS ModelDownload, SequenceTheorems, TLAPS

\* The parts of the state the argument looks at are what they are declared to be.
Typed ==
  /\ part \in File /\ final \in File /\ model \in File
  /\ phase \in Phases /\ inFlight \in Runs \cup {None} /\ loads \in Nat
  /\ pc \in [Requests -> {"idle", "optingIn", "removing", "writing"}]
  /\ step \in [Runs -> Steps] /\ from \in [Runs -> Nat] /\ got \in [Runs -> 0 .. Size]
  /\ aborted \in [Runs -> BOOLEAN]
  /\ target \in [Runs -> {"nothing", "part", "final", "unnamed"}]

\* A run under way is the one that can be joined and cancelled, and so the only one.
OneRun ==
  \A r \in Runs : step[r] # "none" => inFlight = r /\ abort = r

\* A request that is removing the marker is alone with it, and nothing is under way.
OptInAlone ==
  \A q \in Requests : pc[q] = "optingIn" =>
    inFlight = None /\ \A p \in Requests : pc[p] = "optingIn" => p = q

\* A stream is open on the .part file while a run receives, and at no other time.
StreamsFit ==
  \A r \in Runs : target[r] = IF step[r] = "receiving" THEN "part" ELSE "nothing"

\* What the run knows of the .part file.
Holds(n) == part # None /\ Len(part) = n
Knows(r) ==
  /\ step[r] = "fetching" => from[r] = PartialBytes
  /\ step[r] = "receiving" => Holds(got[r])
  /\ step[r] \in {"hashing", "unlinking"} => Holds(Size)
  /\ step[r] = "unlinking" => part # Whole
  /\ step[r] = "renaming" => part = Whole
PartKnown == \A r \in Runs : Knows(r)

\* A load under way finds no model in memory.
OneLoad == loads <= 1 /\ (loads = 1 => model = None)

IInv ==
  /\ Typed /\ OneRun /\ OptInAlone /\ StreamsFit /\ PartKnown /\ OneLoad
  /\ NeverCorrupt /\ PhaseIsTrue

-------------------------------------------------------------------------------
(* Runs and files *)

\* A run under way is alone: nobody else runs, writes, or is about to start.
LEMMA Alone ==
  ASSUME IInv, NEW r \in Runs, step[r] # "none"
  PROVE  /\ inFlight = r /\ abort = r
         /\ \A s \in Runs \ {r} : step[s] = "none" /\ target[s] = "nothing"
         /\ \A q \in Requests : pc[q] # "optingIn"
<1>1. \A s \in Runs \ {r} : step[s] = "none" /\ target[s] = "nothing"
  BY DEF IInv, OneRun, StreamsFit
<1>2. r # None
  BY ModelDownloadAssumption DEF Runs
<1> QED
  BY <1>1, <1>2 DEF IInv, OneRun, OptInAlone

\* The invariant only looks at these: whatever leaves them alone keeps it.
LEMMA Frame ==
  ASSUME IInv, UNCHANGED <<part, final, model, phase, inFlight, abort, loads, step, from, got,
                           aborted, target>>,
         pc' \in [Requests -> {"idle", "optingIn", "removing", "writing"}],
         \A q \in Requests : pc'[q] = "optingIn" => pc[q] = "optingIn"
  PROVE  IInv'
<1>1. Typed' /\ OneRun' /\ OptInAlone' /\ StreamsFit'
  BY DEF IInv, Typed, OneRun, OptInAlone, StreamsFit
<1>2. PartKnown' /\ OneLoad' /\ NeverCorrupt' /\ PhaseIsTrue'
  BY DEF IInv, PartKnown, Knows, Holds, PartialBytes, OneLoad, NeverCorrupt, PhaseIsTrue, Present
<1> QED
  BY <1>1, <1>2 DEF IInv

\* A run starts where nothing is under way and nobody removes the marker.
LEMMA LaunchStep ==
  ASSUME IInv, Launch, inFlight = None, \A q \in Requests : pc'[q] # "optingIn",
         pc' \in [Requests -> {"idle", "optingIn", "removing", "writing"}],
         phase' = phase \/ phase' = Undeclined, UNCHANGED <<part, final, model, loads>>
  PROVE  IInv'
<1>1. PICK r \in Runs : /\ step[r] = "none"
                        /\ step' = [step EXCEPT ![r] = "opening"]
                        /\ aborted' = [aborted EXCEPT ![r] = FALSE]
                        /\ inFlight' = r /\ abort' = r
                        /\ UNCHANGED <<from, got, target>>
  BY DEF Launch
<1>2. \A s \in Runs : step[s] = "none" /\ s # None
  BY ModelDownloadAssumption DEF IInv, OneRun, Runs
<1>3. phase' \in Phases /\ (phase' = "done" => Present)
  BY DEF IInv, Typed, PhaseIsTrue, Undeclined, Phases
<1>4. Typed' /\ OneRun' /\ OptInAlone' /\ StreamsFit'
  BY <1>1, <1>2, <1>3 DEF IInv, Typed, OneRun, OptInAlone, StreamsFit, Steps
<1>5. PartKnown' /\ OneLoad'
  BY <1>1, <1>2 DEF IInv, Typed, PartKnown, Knows, OneLoad
<1>6. NeverCorrupt' /\ PhaseIsTrue'
  BY <1>1, <1>2, <1>3 DEF IInv, NeverCorrupt, PhaseIsTrue, Present
<1> QED
  BY <1>4, <1>5, <1>6 DEF IInv

\* A run ends: in an error or a pause, or with the model in place.
LEMMA EndStep ==
  ASSUME IInv, NEW r \in Runs, step[r] # "none",
         step' = [step EXCEPT ![r] = "none"], \A s \in Runs : target'[s] = "nothing",
         target' \in [Runs -> {"nothing", "part", "final", "unnamed"}],
         inFlight' = None, abort' = None, part' \in File, final' \in {final, Whole},
         Whole # None, Whole \in File,
         phase' \in {"idle", "error", "done"}, phase' = "done" => final' # None,
         UNCHANGED <<pc, from, got, aborted, model, loads>>
  PROVE  IInv'
<1>1. \A s \in Runs : step'[s] = "none"
  BY Alone DEF IInv, Typed
<1>2. Typed' /\ OneRun' /\ OptInAlone' /\ StreamsFit'
  BY <1>1, Alone DEF IInv, Typed, OneRun, OptInAlone, StreamsFit, Steps, Phases
<1>3. PartKnown' /\ OneLoad' /\ NeverCorrupt' /\ PhaseIsTrue'
  BY <1>1 DEF IInv, PartKnown, Knows, OneLoad, NeverCorrupt, PhaseIsTrue, Present
<1> QED
  BY <1>2, <1>3 DEF IInv

\* A run goes on, with what it knows of the file.
LEMMA GoesOnStep ==
  ASSUME IInv, NEW r \in Runs, step[r] # "none", Typed', step'[r] # "none",
         \A s \in Runs \ {r} : step'[s] = step[s] /\ target'[s] = target[s],
         target'[r] = IF step'[r] = "receiving" THEN "part" ELSE "nothing", Knows(r)',
         phase' \in {phase, "downloading", "verifying"},
         UNCHANGED <<final, model, loads, inFlight, abort, pc>>
  PROVE  IInv'
<1>1. \A s \in Runs \ {r} : step'[s] = "none" /\ target'[s] = "nothing"
  BY Alone
<1>2. r # None
  BY ModelDownloadAssumption DEF Runs
<1>3. OneRun' /\ OptInAlone' /\ StreamsFit'
  BY <1>1, Alone DEF IInv, OneRun, OptInAlone, StreamsFit
<1>4. PartKnown'
  BY <1>1 DEF PartKnown, Knows
<1>5. OneLoad' /\ NeverCorrupt' /\ PhaseIsTrue'
  BY <1>2, Alone DEF IInv, OneLoad, NeverCorrupt, PhaseIsTrue, Present
<1> QED
  BY <1>3, <1>4, <1>5 DEF IInv

\* The whole model is a file.
LEMMA WholeIsAFile ==
  Whole \in File /\ Whole # None /\ Len(Whole) = Size
<1>1. Whole \in [1 .. Size -> 0 .. Size]
  BY ModelDownloadAssumption DEF Whole
<1>2. Whole \in Seq(0 .. Size) /\ Len(Whole) = Size
  BY <1>1, ModelDownloadAssumption
<1> QED
  BY <1>2, ModelDownloadAssumption DEF File

\* So is the empty one.
LEMMA EmptyIsAFile ==
  << >> \in File /\ << >> # None /\ Len(<< >>) = 0 /\ 0 \in 0 .. Size
<1>1. << >> \in Seq(0 .. Size) /\ Len(<< >>) = 0 /\ 0 \in 0 .. Size
  BY ModelDownloadAssumption
<1> QED
  BY <1>1, ModelDownloadAssumption DEF File

\* What a run writes comes behind all there is.
LEMMA WrittenBehind ==
  ASSUME NEW r \in Runs, NEW file \in Seq(0 .. Size), NEW chunk \in 0 .. Size,
         got[r] = Len(file)
  PROVE  /\ Written(file, r, chunk) \in Seq(0 .. Size)
         /\ Len(Written(file, r, chunk)) = Len(file) + 1
         /\ \A n \in 1 .. Len(file) : Written(file, r, chunk)[n] = file[n]
<1>1. CASE from[r] > 0
  <2>1. Written(file, r, chunk) = Append(file, chunk)
    BY <1>1 DEF Written
  <2> QED
    BY <2>1, AppendProperties
<1>2. CASE ~(from[r] > 0)
  <2> DEFINE w == [n \in 1 .. Len(file) + 1 |->
                     IF n = Len(file) + 1 THEN chunk ELSE IF n <= Len(file) THEN file[n] ELSE 0]
  <2>1. Written(file, r, chunk) = w
    BY <1>2 DEF Written
  <2>2. w \in [1 .. Len(file) + 1 -> 0 .. Size]
    BY ModelDownloadAssumption
  <2>3. w \in Seq(0 .. Size) /\ Len(w) = Len(file) + 1
    BY <2>2
  <2> QED
    BY <2>1, <2>3
<1> QED
  BY <1>1, <1>2

\* The stream of a run that is over is closed.
LEMMA OverCloses ==
  ASSUME IInv, NEW r \in Runs, step[r] # "none", Over(r)
  PROVE  /\ step' = [step EXCEPT ![r] = "none"] /\ \A s \in Runs : target'[s] = "nothing"
         /\ target' \in [Runs -> {"nothing", "part", "final", "unnamed"}]
         /\ inFlight' = None /\ abort' = None /\ UNCHANGED <<from, got, aborted>>
BY Alone DEF Over, Goto, IInv, Typed

\* A failure, or a pause, leaves the files alone.
LEMMA FailStep ==
  ASSUME IInv, NEW r \in Runs, step[r] # "none", Fail(r),
         UNCHANGED <<part, final, pc, model, loads>>
  PROVE  IInv'
<1>1. Over(r) /\ phase' \in {"idle", "error", "done"} /\ (phase' = "done" => final' # None)
  BY DEF Fail, Present
<1> QED
  BY <1>1, OverCloses, EndStep, WholeIsAFile DEF IInv, Typed

-------------------------------------------------------------------------------
(* One lemma for each group of steps *)

\* Requests change what is shown and asked for, and start a run when there is none.
LEMMA RequestKeeps ==
  ASSUME IInv, ~ConcurrentOptIn, NEW q \in Requests, RequestStep(q)
  PROVE  IInv'
<1>1. CASE Download(q)
  <2>1. \A p \in Requests : pc'[p] # "optingIn"
    BY <1>1 DEF Download, MayOptIn
  <2> QED
    BY <1>1, <2>1, LaunchStep DEF Download, diskVars, generationVars, IInv, Typed
<1>2. CASE DownloadDeclined(q)
  <2>1. pc' = [pc EXCEPT ![q] = "optingIn"] /\ inFlight = None
        /\ \A p \in Requests : pc[p] # "optingIn"
    BY <1>2 DEF DownloadDeclined, MayOptIn
  <2>2. UNCHANGED <<part, final, model, phase, inFlight, abort, loads, step, from, got, aborted,
                    target>>
    BY <1>2 DEF DownloadDeclined, diskVars, runVars, generationVars
  <2>3. Typed' /\ OneRun' /\ OptInAlone' /\ StreamsFit'
    BY <2>1, <2>2 DEF IInv, Typed, OneRun, OptInAlone, StreamsFit
  <2>4. PartKnown' /\ OneLoad' /\ NeverCorrupt' /\ PhaseIsTrue'
    BY <2>2 DEF IInv, PartKnown, Knows, Holds, PartialBytes, OneLoad, NeverCorrupt, PhaseIsTrue, Present
  <2> QED
    BY <2>3, <2>4 DEF IInv
<1>3. CASE OptedIn(q)
  <2>1. pc' = [pc EXCEPT ![q] = "idle"] /\ inFlight = None
        /\ \A p \in Requests : p # q => pc[p] # "optingIn"
    BY <1>3 DEF OptedIn, IInv, OptInAlone
  <2>2. pc' \in [Requests -> {"idle", "optingIn", "removing", "writing"}]
        /\ \A p \in Requests : pc'[p] # "optingIn"
    BY <2>1 DEF IInv, Typed
  <2> QED
    BY <1>3, <2>1, <2>2, LaunchStep DEF OptedIn, generationVars
<1>4. CASE Undecline(q)
  BY <1>4, Frame DEF Undecline, diskVars, runVars, generationVars, IInv, Typed
<1>5. CASE MarkerRemoved(q) \/ MarkerWritten(q)
  <2>1. /\ UNCHANGED <<part, final, model, inFlight, abort, loads, step, from, got, aborted, target>>
        /\ pc' = [pc EXCEPT ![q] = "idle"] /\ phase' \in {Undeclined, "declined"}
    BY <1>5 DEF MarkerRemoved, MarkerWritten, runVars, generationVars
  <2>2. phase' \in Phases /\ (phase' = "done" => Present)
        /\ (phase' \in {"downloading", "verifying"} => phase' = phase)
    BY <2>1 DEF IInv, Typed, PhaseIsTrue, Undeclined, Phases
  <2>3. Typed' /\ OneRun' /\ OptInAlone' /\ StreamsFit'
    BY <2>1, <2>2 DEF IInv, Typed, OneRun, OptInAlone, StreamsFit
  <2>4. PartKnown' /\ OneLoad' /\ NeverCorrupt' /\ PhaseIsTrue'
    BY <2>1, <2>2 DEF IInv, PartKnown, Knows, Holds, PartialBytes, OneLoad, NeverCorrupt, PhaseIsTrue, Present
  <2> QED
    BY <2>3, <2>4 DEF IInv
<1>6. CASE Cancel(q) \/ Decline(q)
  <2>1. /\ UNCHANGED <<part, final, model, phase, inFlight, abort, loads, step, from, got, target>>
        /\ pc' = pc \/ pc' = [pc EXCEPT ![q] = "writing"]
        /\ aborted' = [r \in Runs |-> aborted[r] \/ r = abort]
    BY <1>6 DEF Cancel, Decline, RaiseSignal, diskVars, statusVars, generationVars
  <2>2. aborted' \in [Runs -> BOOLEAN]
    BY <2>1, Zenon DEF IInv, Typed
  <2>3. Typed' /\ OneRun' /\ OptInAlone' /\ StreamsFit'
    BY <2>1, <2>2 DEF IInv, Typed, OneRun, OptInAlone, StreamsFit
  <2>4. PartKnown' /\ OneLoad' /\ NeverCorrupt' /\ PhaseIsTrue'
    BY <2>1 DEF IInv, PartKnown, Knows, Holds, PartialBytes, OneLoad, NeverCorrupt, PhaseIsTrue, Present
  <2> QED
    BY <2>3, <2>4 DEF IInv
<1> QED
  BY <1>1, <1>2, <1>3, <1>4, <1>5, <1>6 DEF RequestStep

\* Most steps of a run know afterwards what they knew before, or have opened the file anew.
LEMMA RunKeeps ==
  ASSUME IInv, NEW r \in Runs, RunStep(r)
  PROVE  IInv'
<1>1. CASE Open(r)
  <2>1. /\ step[r] = "opening" /\ step' = [step EXCEPT ![r] = "fetching"]
        /\ from' = [from EXCEPT ![r] = PartialBytes] /\ phase' = "downloading"
        /\ UNCHANGED <<part, final, model, loads, inFlight, abort, pc, got, aborted, target>>
    BY <1>1 DEF Open, Goto, diskVars, generationVars
  <2>2. PartialBytes \in Nat /\ PartialBytes' = PartialBytes
    BY <2>1 DEF IInv, Typed, File, PartialBytes
  <2>3. Typed' /\ Knows(r)'
    BY <2>1, <2>2 DEF IInv, Typed, Knows, Steps, Phases
  <2> QED
    BY <2>1, <2>3, GoesOnStep DEF IInv, Typed, StreamsFit
<1>2. CASE Answered(r)
  <2>1. /\ step[r] = "fetching" /\ OpenStream(r, from[r]) /\ RangeHonoured(r)
        /\ UNCHANGED <<final, phase, inFlight, abort, pc, model, loads>>
    BY <1>2 DEF Answered, statusVars, generationVars
  <2>2. from[r] \in Nat /\ from[r] = PartialBytes /\ part \in File
    BY <2>1 DEF IInv, Typed, PartKnown, Knows
  <2>3. part' \in File /\ part' # None /\ Len(part') = from[r]
    <3>1. CASE from[r] > 0
      BY <2>1, <2>2, <3>1 DEF OpenStream, PartialBytes
    <3>2. CASE ~(from[r] > 0)
      <4>1. part' = << >> /\ from[r] = 0
        BY <2>1, <2>2, <3>2 DEF OpenStream
      <4> QED
        BY <4>1, EmptyIsAFile
    <3> QED
      BY <3>1, <3>2
  <2>4. from[r] \in 0 .. Size
    BY <2>1, <2>2, ModelDownloadAssumption DEF RangeHonoured
  <2>5. Typed' /\ Knows(r)'
    BY <2>1, <2>2, <2>3, <2>4 DEF OpenStream, Goto, IInv, Typed, Knows, Holds, Steps
  <2> QED
    BY <2>1, <2>5, GoesOnStep DEF OpenStream, Goto, IInv, Typed
<1>3. CASE AnsweredWhole(r)
  <2>1. /\ step[r] = "fetching" /\ step' = [step EXCEPT ![r] = "dropping"]
        /\ UNCHANGED <<part, final, phase, model, loads, inFlight, abort, pc, from, got, aborted,
                       target>>
    BY <1>3 DEF AnsweredWhole, Goto, diskVars, statusVars, generationVars
  <2>2. Typed' /\ Knows(r)'
    BY <2>1 DEF IInv, Typed, Knows, Steps
  <2> QED
    BY <2>1, <2>2, GoesOnStep DEF IInv, Typed, StreamsFit
<1>4. CASE Dropped(r)
  <2>1. /\ step[r] = "dropping" /\ part' = << >> /\ step' = [step EXCEPT ![r] = "receiving"]
        /\ target' = [Detached("part", "unnamed") EXCEPT ![r] = "part"]
        /\ from' = [from EXCEPT ![r] = 0] /\ got' = [got EXCEPT ![r] = 0]
        /\ UNCHANGED <<final, phase, inFlight, abort, pc, aborted, model, loads>>
    BY <1>4 DEF Dropped, Goto, statusVars, generationVars
  <2>2. \A s \in Runs : target[s] = "nothing"
    BY <2>1, Alone DEF IInv, StreamsFit
  <2>3. target' = [target EXCEPT ![r] = "part"]
    BY <2>1, <2>2 DEF Detached, IInv, Typed
  <2>4. part' \in File /\ part' # None /\ Len(part') = 0 /\ 0 \in 0 .. Size
    BY <2>1, EmptyIsAFile
  <2>5. Typed'
    BY <2>1, <2>3, <2>4 DEF IInv, Typed, Steps
  <2>6. Knows(r)'
    BY <2>1, <2>4 DEF IInv, Typed, Knows, Holds
  <2> QED
    BY <2>1, <2>3, <2>5, <2>6, GoesOnStep DEF IInv, Typed
<1>5. CASE RangeRefused(r) \/ NetworkFails(r) \/ Paused(r)
  BY <1>5, FailStep DEF RangeRefused, NetworkFails, Paused, diskVars, generationVars
<1>6. CASE Receive(r)
  <2>1. /\ step[r] = "receiving" /\ got[r] < Size
        /\ UNCHANGED <<phase, inFlight, abort, pc, step, from, aborted, target, model, loads>>
        /\ got' = [got EXCEPT ![r] = @ + 1]
    BY <1>6 DEF Receive, statusVars, generationVars
  <2>2. PICK chunk \in {0, got[r] + 1} :
          /\ part' = IF target[r] = "part" THEN Written(part, r, chunk) ELSE part
          /\ final' = IF target[r] = "final" THEN Written(final, r, chunk) ELSE final
    BY <1>6 DEF Receive
  <2>3. target[r] = "part" /\ got[r] \in 0 .. Size /\ Holds(got[r]) /\ part \in Seq(0 .. Size)
    BY <2>1 DEF IInv, Typed, StreamsFit, PartKnown, Knows, Holds, File
  <2>4. part' = Written(part, r, chunk) /\ final' = final
    BY <2>2, <2>3
  <2>5. chunk \in 0 .. Size /\ got[r] + 1 \in 0 .. Size
    BY <2>1, <2>3, ModelDownloadAssumption
  <2>6. part' \in Seq(0 .. Size) /\ Len(part') = got[r] + 1
    BY <2>3, <2>4, <2>5, WrittenBehind DEF Holds
  <2>7. part' \in File /\ part' # None
    BY <2>6, ModelDownloadAssumption DEF File
  <2>8. Typed' /\ Knows(r)'
    BY <2>1, <2>4, <2>5, <2>6, <2>7 DEF IInv, Typed, Knows, Holds
  <2> QED
    BY <2>1, <2>3, <2>4, <2>8, GoesOnStep
<1>7. CASE BodyEnds(r)
  <2>1. /\ step[r] = "receiving" /\ got[r] = Size /\ phase' = "verifying"
        /\ target' = [target EXCEPT ![r] = "nothing"] /\ step' = [step EXCEPT ![r] = "hashing"]
        /\ UNCHANGED <<part, final, inFlight, abort, pc, from, got, aborted, model, loads>>
    BY <1>7 DEF BodyEnds, Goto, diskVars, generationVars
  <2>2. Typed' /\ Knows(r)'
    BY <2>1 DEF IInv, Typed, PartKnown, Knows, Holds, Steps, Phases
  <2> QED
    BY <2>1, <2>2, GoesOnStep DEF IInv, Typed
<1>8. CASE Hash(r)
  <2>1. step[r] = "hashing" /\ Holds(Size) /\ target[r] = "nothing"
    BY <1>8 DEF Hash, IInv, PartKnown, Knows, StreamsFit
  <2> DEFINE x == IF part = Whole THEN "renaming" ELSE "unlinking"
  <2>2. /\ step' = [step EXCEPT ![r] = x]
        /\ UNCHANGED <<part, final, phase, inFlight, abort, pc, from, got, aborted, target, model,
                       loads>>
    BY <1>8, <2>1 DEF Hash, Verdict, Goto, Holds, diskVars, statusVars, generationVars
  <2>3. x \in Steps \ {"none"} /\ x # "receiving" /\ x # "fetching" /\ x # "hashing"
        /\ (x = "renaming" => part = Whole) /\ (x = "unlinking" => part # Whole)
    BY DEF Steps
  <2> HIDE DEF x
  <2>4. Typed' /\ Knows(r)'
    BY <2>1, <2>2, <2>3 DEF IInv, Typed, Knows, Holds
  <2> QED
    BY <2>1, <2>2, <2>3, <2>4, GoesOnStep DEF IInv, Typed
<1>9. CASE Unlink(r)
  <2>1. /\ step[r] = "unlinking" /\ part' = None /\ Goto(r, "none")
        /\ target' = [Detached("part", "unnamed") EXCEPT ![r] = "nothing"]
        /\ inFlight' = None /\ abort' = None
        /\ phase' = IF ~aborted[r] THEN "error" ELSE IF Present THEN "done" ELSE "idle"
        /\ UNCHANGED <<final, pc, from, got, aborted, model, loads>>
    BY <1>9 DEF Unlink, generationVars
  <2>2. \A s \in Runs : target'[s] = "nothing"
    BY <2>1, Alone DEF Detached
  <2>3. target' \in [Runs -> {"nothing", "part", "final", "unnamed"}]
    BY <2>1, <2>2 DEF Detached
  <2>4. phase' \in {"idle", "error", "done"} /\ (phase' = "done" => final' # None)
    BY <2>1 DEF Present
  <2> QED
    BY <2>1, <2>2, <2>3, <2>4, EndStep, WholeIsAFile DEF Goto, File
<1>10. CASE Rename(r)
  <2>1. step[r] = "renaming" /\ part = Whole /\ PutInPlace(r) /\ UNCHANGED <<pc, model, loads>>
    BY <1>10, WholeIsAFile DEF Rename, IInv, PartKnown, Knows, generationVars
  <2>2. \A s \in Runs : target'[s] = "nothing"
    <3> SUFFICES ASSUME NEW s \in Runs PROVE Moved(r)[s] = "nothing"
      BY <2>1 DEF PutInPlace
    <3>1. CASE s = r
      <4>1. ~(target[s] = "part") /\ ~(target[s] = "final")
        BY <2>1, <3>1 DEF IInv, StreamsFit
      <4> QED
        BY <3>1, <4>1 DEF Moved
    <3>2. CASE s # r
      <4>1. target[s] = "nothing"
        BY <2>1, <3>2, Alone
      <4>2. ~(s = r) /\ ~(target[s] = "part") /\ ~(target[s] = "final")
        BY <3>2, <4>1
      <4>3. Moved(r)[s] = target[s]
        BY <4>2 DEF Moved
      <4> QED
        BY <4>1, <4>3
    <3> QED
      BY <3>1, <3>2
  <2>3. target' \in [Runs -> {"nothing", "part", "final", "unnamed"}]
    BY <2>1, <2>2 DEF PutInPlace, Moved
  <2> QED
    BY <2>1, <2>2, <2>3, EndStep, WholeIsAFile DEF PutInPlace, Goto, File
<1> QED
  BY <1>1, <1>2, <1>3, <1>4, <1>5, <1>6, <1>7, <1>8, <1>9, <1>10 DEF RunStep

\* Generation touches loads and model only.
LEMMA GenerationKeeps ==
  ASSUME IInv,
         (\E g \in Calls : GenerateFromTemplate(g) \/ Load(g) \/ CallStep(g)) \/ LoadStep
  PROVE  IInv'
<1>1. UNCHANGED <<part, final, phase, inFlight, abort, pc, step, from, got, aborted, target>>
  BY DEF GenerateFromTemplate, Load, CallStep, Complete, Return, LoadStep, LoadFails, LoadEnds,
     Unaffected, diskVars, statusVars, runVars
<1>2. /\ loads' \in Nat /\ loads' <= 1 /\ (loads' = 1 => model' = None)
      /\ model' = model \/ (Present /\ model' = final)
  BY DEF IInv, Typed, OneLoad, GenerateFromTemplate, Load, CallStep, Complete, Return, LoadStep,
     LoadFails, LoadEnds
<1>3. Typed' /\ OneRun' /\ OptInAlone' /\ StreamsFit' /\ OneLoad'
  BY <1>1, <1>2 DEF IInv, Typed, OneRun, OptInAlone, StreamsFit, OneLoad
<1>4. PartKnown' /\ NeverCorrupt' /\ PhaseIsTrue'
  BY <1>1, <1>2 DEF IInv, PartKnown, Knows, Holds, PartialBytes, NeverCorrupt, PhaseIsTrue, Present
<1> QED
  BY <1>3, <1>4 DEF IInv

\* A process that starts knows nothing but what is on disk.
LEMMA RestartKeeps ==
  ASSUME IInv, Restart
  PROVE  IInv'
<1>1. /\ part' = part /\ final' = final /\ model' = None /\ loads' = 0 /\ inFlight' = None
      /\ phase' = IF Present THEN "done" ELSE IF marker THEN "declined" ELSE "idle"
      /\ pc' = [q \in Requests |-> "idle"] /\ step' = [r \in Runs |-> "none"]
      /\ from' = [r \in Runs |-> 0] /\ got' = [r \in Runs |-> 0]
      /\ aborted' = [r \in Runs |-> FALSE] /\ target' = [r \in Runs |-> "nothing"]
  BY DEF Restart, StatusAtStart, diskVars
<1>2. 0 \in 0 .. Size
  BY ModelDownloadAssumption
<1>3. Typed'
  BY <1>1, <1>2 DEF IInv, Typed, Phases, Steps, File
<1>4. OneRun' /\ OptInAlone' /\ StreamsFit' /\ PartKnown' /\ OneLoad'
  BY <1>1 DEF OneRun, OptInAlone, StreamsFit, PartKnown, Knows, OneLoad
<1>5. NeverCorrupt' /\ PhaseIsTrue'
  BY <1>1 DEF IInv, NeverCorrupt, PhaseIsTrue, Present
<1> QED
  BY <1>3, <1>4, <1>5 DEF IInv

-------------------------------------------------------------------------------
(* The theorems *)

\* Nothing is there in the beginning.
LEMMA Start ==
  Init => IInv
<1> SUFFICES ASSUME Init PROVE IInv
  OBVIOUS
<1>1. 0 \in 0 .. Size
  BY ModelDownloadAssumption
<1>2. Typed
  BY <1>1 DEF Init, Typed, Phases, Steps, File
<1>3. OneRun /\ OptInAlone /\ StreamsFit /\ PartKnown /\ OneLoad
  BY DEF Init, OneRun, OptInAlone, StreamsFit, PartKnown, Knows, OneLoad
<1>4. NeverCorrupt /\ PhaseIsTrue
  BY DEF Init, NeverCorrupt, PhaseIsTrue, Present
<1> QED
  BY <1>2, <1>3, <1>4 DEF IInv

\* Every step keeps the invariant.
LEMMA Step ==
  ASSUME ~ConcurrentOptIn, IInv, [Next]_vars
  PROVE  IInv'
<1>1. CASE UNCHANGED vars
  BY <1>1, Frame DEF vars, IInv, Typed
<1> QED
  BY <1>1, RequestKeeps, RunKeeps, GenerationKeeps, RestartKeeps DEF Next

\* The invariant holds in every reachable state.
THEOREM Invariant ==
  ASSUME ~ConcurrentOptIn
  PROVE  Spec => []IInv
<1>1. Init => IInv
  BY Start
<1>2. IInv /\ [Next]_vars => IInv'
  BY Step
<1> QED
  BY <1>1, <1>2, PTL DEF Spec

\* Whatever is resumed, paused, spoilt on the way, broken off or restarted, the file under the
\* model's name and the model in memory are the whole model.
THEOREM NeverCorruptCorrect ==
  ASSUME ~ConcurrentOptIn
  PROVE  Spec => []NeverCorrupt
<1>1. IInv => NeverCorrupt
  BY DEF IInv
<1> QED
  BY <1>1, Invariant, PTL

\* One run writes, which is the one that can be joined and cancelled, and the model is loaded once.
THEOREM OnceForAllCorrect ==
  ASSUME ~ConcurrentOptIn
  PROVE  Spec => []OnceForAll
<1>1. IInv => OnceForAll
  BY Alone DEF IInv, OneLoad, OnceForAll
<1> QED
  BY <1>1, Invariant, PTL

\* The dashboard is told of a model, or of a download, only when there is one.
THEOREM PhaseIsTrueCorrect ==
  ASSUME ~ConcurrentOptIn
  PROVE  Spec => []PhaseIsTrue
<1>1. IInv => PhaseIsTrue
  BY DEF IInv
<1> QED
  BY <1>1, Invariant, PTL

\* A good prefix of the model stays what it is until it has become the model, unless the server
\* sends the whole file again.
Kept ==
  \/ /\ part' # None /\ Len(part) <= Len(part')
     /\ \A n \in 1 .. Len(part) : part'[n] = part[n]
  \/ final' = Whole \/ StartsOver

\* A step that leaves the .part file alone loses nothing.
LEMMA SameIsKept ==
  ASSUME IInv, Good(part), part' = part
  PROVE  Kept
<1>1. part \in Seq(0 .. Size) /\ part # None
  BY DEF IInv, Typed, Good, File
<1>2. Len(part) \in Nat
  BY <1>1
<1> QED
  BY <1>1, <1>2 DEF Kept

\* Of the steps of a run, four change the file.
LEMMA RunLosesNothing ==
  ASSUME IInv, NEW r \in Runs, RunStep(r), Good(part)
  PROVE  Kept
<1>1. part \in Seq(0 .. Size) /\ part # None /\ Len(part) \in Nat
  BY DEF IInv, Typed, Good, File
<1>2. CASE Answered(r)
  <2>1. from[r] = Len(part) /\ part' = IF from[r] > 0 /\ part # None THEN part ELSE << >>
    BY <1>1, <1>2 DEF Answered, OpenStream, IInv, PartKnown, Knows, PartialBytes
  <2>2. CASE from[r] > 0
    BY <1>1, <2>1, <2>2, SameIsKept
  <2>3. CASE ~(from[r] > 0)
    BY <1>1, <2>1, <2>3, EmptyIsAFile DEF Kept
  <2> QED
    BY <2>2, <2>3
<1>3. CASE Dropped(r)
  BY <1>3 DEF Dropped, Goto, Kept, StartsOver, IInv, Typed
<1>4. CASE Receive(r)
  <2>1. step[r] = "receiving" /\ got[r] < Size /\ got[r] \in 0 .. Size
    BY <1>4 DEF Receive, IInv, Typed
  <2>2. PICK chunk \in {0, got[r] + 1} :
          part' = IF target[r] = "part" THEN Written(part, r, chunk) ELSE part
    BY <1>4 DEF Receive
  <2>3. target[r] = "part" /\ got[r] = Len(part)
    BY <2>1 DEF IInv, StreamsFit, PartKnown, Knows, Holds
  <2>4. chunk \in 0 .. Size
    BY <2>1, ModelDownloadAssumption
  <2>5. /\ part' \in Seq(0 .. Size) /\ Len(part') = Len(part) + 1
        /\ \A n \in 1 .. Len(part) : part'[n] = part[n]
    BY <1>1, <2>2, <2>3, <2>4, WrittenBehind
  <2> QED
    BY <1>1, <2>5, ModelDownloadAssumption DEF Kept
<1>5. CASE Unlink(r)
  <2>1. step[r] = "unlinking" /\ Len(part) = Size /\ part # Whole
    BY <1>5 DEF Unlink, IInv, PartKnown, Knows, Holds
  <2>2. part = [n \in 1 .. Size |-> n]
    BY <1>1, <2>1 DEF Good
  <2> QED
    BY <2>1, <2>2 DEF Whole
<1>6. CASE Rename(r)
  BY <1>6, WholeIsAFile DEF Rename, PutInPlace, IInv, PartKnown, Knows, Kept
<1>7. CASE Hash(r)
  BY <1>7, SameIsKept DEF Hash, FileMissing, Verdict, diskVars
<1>8. CASE \/ Open(r) \/ AnsweredWhole(r) \/ RangeRefused(r) \/ NetworkFails(r) \/ Paused(r)
           \/ BodyEnds(r)
  BY <1>8, SameIsKept DEF Open, AnsweredWhole, RangeRefused, NetworkFails, Paused, BodyEnds, diskVars
<1> QED
  BY <1>2, <1>3, <1>4, <1>5, <1>6, <1>7, <1>8 DEF RunStep

\* A pause, a crash, a broken connection or a restart costs nothing of what was fetched.
THEOREM ResumeKeepsChunksCorrect ==
  ASSUME ~ConcurrentOptIn
  PROVE  Spec => ResumeKeepsChunks
<1>1. ASSUME IInv, [Next]_vars, Good(part)
      PROVE  Kept
  <2>1. CASE \E r \in Runs : RunStep(r)
    BY <1>1, <2>1, RunLosesNothing
  <2>2. CASE ~\E r \in Runs : RunStep(r)
    <3>1. part' = part
      BY <1>1, <2>2 DEF Next, vars, RequestStep, Download, DownloadDeclined, OptedIn, Undecline,
         MarkerRemoved, Cancel, Decline, MarkerWritten, GenerateFromTemplate, Load, CallStep,
         Complete, Return, LoadStep, LoadFails, LoadEnds, Unaffected, Restart, diskVars
    <3> QED
      BY <1>1, <3>1, SameIsKept
  <2> QED
    BY <2>1, <2>2
<1>2. IInv /\ [Next]_vars => [Good(part) => Kept]_vars
  BY <1>1
<1> QED
  BY <1>2, Invariant, PTL DEF Spec, ResumeKeepsChunks, Kept

-------------------------------------------------------------------------------
(***************************************************************************)
(* Types, whether or not requests race: a stream under a name has a file   *)
(* there to write to.                                                      *)
(***************************************************************************)
OpenFiles ==
  \A r \in Runs : (target[r] = "part" => part # None) /\ (target[r] = "final" => final # None)

Targets == {"nothing", "part", "final", "unnamed"}

Filed == part \in File /\ final \in File /\ target \in [Runs -> Targets] /\ OpenFiles

\* All but the files and their streams
Kinds ==
  /\ model \in File
  /\ marker \in BOOLEAN /\ declined \in BOOLEAN /\ path \in BOOLEAN /\ phase \in Phases
  /\ inFlight \in Runs \cup {None} /\ abort \in Runs \cup {None}
  /\ pc \in [Requests -> {"idle", "optingIn", "removing", "writing"}]
  /\ step \in [Runs -> Steps] /\ from \in [Runs -> Nat] /\ got \in [Runs -> 0 .. Size]
  /\ aborted \in [Runs -> BOOLEAN]
  /\ provider \in {"mock", "local", "local+mock"} /\ loads \in Nat
  /\ call \in [Calls -> {"idle", "loading", "model", "template", "error"}]
  /\ exits \in 0 .. MaxExits /\ faults \in 0 .. MaxFaults

\* Wherever a run writes, a file stays a file.
LEMMA WrittenIsAFile ==
  ASSUME NEW r \in Runs, NEW file \in Seq(0 .. Size), NEW chunk \in 0 .. Size, got[r] \in Nat
  PROVE  Written(file, r, chunk) \in File /\ Written(file, r, chunk) # None
<1> SUFFICES Written(file, r, chunk) \in Seq(0 .. Size)
  BY ModelDownloadAssumption DEF File
<1>1. CASE from[r] > 0
  BY <1>1, AppendProperties DEF Written
<1>2. CASE ~(from[r] > 0)
  <2> DEFINE m == IF Len(file) > got[r] THEN Len(file) ELSE got[r] + 1
             w == [n \in 1 .. m |->
                     IF n = got[r] + 1 THEN chunk ELSE IF n <= Len(file) THEN file[n] ELSE 0]
  <2>1. Written(file, r, chunk) = w
    BY <1>2 DEF Written
  <2>2. m \in Nat /\ Len(file) \in Nat
    OBVIOUS
  <2>3. w \in [1 .. m -> 0 .. Size]
    BY <2>2, ModelDownloadAssumption
  <2> HIDE DEF m
  <2>4. w \in Seq(0 .. Size)
    BY <2>2, <2>3
  <2> QED
    BY <2>1, <2>4
<1> QED
  BY <1>1, <1>2

\* Files and streams, step by step
LEMMA FiledStays ==
  ASSUME Filed, Kinds, [Next]_vars
  PROVE  Filed'
<1>1. CASE \E r \in Runs : RunStep(r)
  <2> PICK r \in Runs : RunStep(r)
    BY <1>1
  <2>1. CASE Fail(r) /\ UNCHANGED diskVars
    BY <2>1 DEF Fail, Over, diskVars, Filed, OpenFiles, Targets
  <2>2. CASE Answered(r)
    BY <2>2, EmptyIsAFile DEF Answered, OpenStream, Filed, OpenFiles, Targets
  <2>3. CASE Dropped(r)
    <3>1. /\ part' = << >> /\ final' = final
          /\ target' = [Detached("part", "unnamed") EXCEPT ![r] = "part"]
      BY <2>3 DEF Dropped
    <3>2. Detached("part", "unnamed") \in [Runs -> Targets]
          /\ \A s \in Runs : Detached("part", "unnamed")[s] = "final" => target[s] = "final"
      BY DEF Detached, Filed, Targets
    <3> QED
      BY <3>1, <3>2, EmptyIsAFile DEF Filed, OpenFiles, Targets
  <2>4. CASE Receive(r)
    <3>1. got[r] \in Nat /\ got[r] < Size /\ got[r] + 1 \in 0 .. Size /\ 0 \in 0 .. Size
      BY <2>4, ModelDownloadAssumption DEF Receive, Kinds
    <3>2. PICK chunk \in 0 .. Size :
            /\ part' = IF target[r] = "part" THEN Written(part, r, chunk) ELSE part
            /\ final' = IF target[r] = "final" THEN Written(final, r, chunk) ELSE final
      BY <2>4, <3>1 DEF Receive
    <3>3. target' = target
      BY <2>4 DEF Receive
    <3>4. part' \in File /\ (part # None => part' # None)
      <4>1. CASE target[r] = "part"
        BY <3>1, <3>2, <4>1, WrittenIsAFile DEF Filed, OpenFiles, File
      <4> QED
        BY <3>2, <4>1 DEF Filed
    <3>5. final' \in File /\ (final # None => final' # None)
      <4>1. CASE target[r] = "final"
        BY <3>1, <3>2, <4>1, WrittenIsAFile DEF Filed, OpenFiles, File
      <4> QED
        BY <3>2, <4>1 DEF Filed
    <3> QED
      BY <3>3, <3>4, <3>5 DEF Filed, OpenFiles
  <2>5. CASE Unlink(r)
    <3>1. /\ part' = None /\ final' = final
          /\ target' = [Detached("part", "unnamed") EXCEPT ![r] = "nothing"]
      BY <2>5 DEF Unlink
    <3>2. Detached("part", "unnamed") \in [Runs -> Targets]
          /\ \A s \in Runs : /\ Detached("part", "unnamed")[s] = "final" => target[s] = "final"
                             /\ Detached("part", "unnamed")[s] # "part"
      BY DEF Detached, Filed, Targets
    <3> QED
      BY <3>1, <3>2 DEF Filed, OpenFiles, Targets, File
  <2>6. CASE PutInPlace(r) /\ part # None
    <3>1. final' = part /\ part' = None /\ target' = Moved(r)
      BY <2>6 DEF PutInPlace
    <3>2. \A s \in Runs : Moved(r)[s] \in Targets /\ Moved(r)[s] # "part"
      <4> SUFFICES ASSUME NEW s \in Runs PROVE Moved(r)[s] \in Targets /\ Moved(r)[s] # "part"
        OBVIOUS
      <4>1. CASE s = r
        BY <4>1 DEF Moved, Targets
      <4>2. CASE s # r /\ target[s] = "part"
        BY <4>2 DEF Moved, Targets
      <4>3. CASE s # r /\ target[s] = "final"
        BY <4>3 DEF Moved, Targets
      <4>4. CASE s # r /\ target[s] # "part" /\ target[s] # "final"
        BY <4>4 DEF Moved, Targets, Filed
      <4> QED
        BY <4>1, <4>2, <4>3, <4>4
    <3>3. Moved(r) \in [Runs -> Targets]
      BY <3>2 DEF Moved
    <3> QED
      BY <2>6, <3>1, <3>2, <3>3 DEF Filed, OpenFiles, File
  <2>7. CASE UNCHANGED <<part, final>> /\ target' \in {target, [target EXCEPT ![r] = "nothing"]}
    BY <2>7 DEF Filed, OpenFiles, Targets
  <2> QED
    BY <2>1, <2>2, <2>3, <2>4, <2>5, <2>6, <2>7 DEF RunStep, Open, AnsweredWhole, RangeRefused,
       NetworkFails, Paused, BodyEnds, Hash, FileMissing, Verdict, Rename, diskVars
<1>2. CASE Restart
  BY <1>2 DEF Restart, diskVars, Filed, OpenFiles, Targets
<1>3. CASE ~(\E r \in Runs : RunStep(r)) /\ ~Restart
  <2>1. UNCHANGED <<part, final, target>>
    BY <1>3 DEF Next, vars, RequestStep, Download, DownloadDeclined, OptedIn, Undecline, MarkerRemoved,
       Cancel, Decline, MarkerWritten, Launch, GenerateFromTemplate, Load, CallStep, Complete, Return,
       LoadStep, LoadFails, LoadEnds, Unaffected, diskVars, runVars
  <2> QED
    BY <2>1 DEF Filed, OpenFiles
<1> QED
  BY <1>1, <1>2, <1>3

\* The rest of the state, by who takes the step
LEMMA RequestKinds ==
  ASSUME Filed, Kinds, NEW q \in Requests, RequestStep(q)
  PROVE  Kinds'
<1>1. UNCHANGED <<model, path, from, got, provider, loads, call, exits, faults>>
  BY DEF RequestStep, Download, DownloadDeclined, OptedIn, Undecline, MarkerRemoved, Cancel, Decline,
     MarkerWritten, Launch, runVars, generationVars, countVars
<1>2. /\ marker' \in {marker, FALSE, TRUE} /\ declined' \in {declined, FALSE, TRUE}
      /\ pc' \in {pc} \cup {[pc EXCEPT ![q] = w] : w \in {"idle", "optingIn", "removing", "writing"}}
  BY DEF RequestStep, Download, DownloadDeclined, OptedIn, Undecline, MarkerRemoved, Cancel, Decline,
     MarkerWritten, diskVars, statusVars
<1>3. phase' \in {phase, "done", "idle", "declined"}
  BY DEF RequestStep, Download, DownloadDeclined, OptedIn, Undecline, MarkerRemoved, Cancel, Decline,
     MarkerWritten, Undeclined, statusVars
<1>4. \/ Launch
      \/ UNCHANGED <<step, inFlight, abort>> /\ (aborted' = aborted \/ RaiseSignal)
  BY DEF RequestStep, Download, DownloadDeclined, OptedIn, Undecline, MarkerRemoved, Cancel, Decline,
     MarkerWritten, runVars, statusVars
<1>5. /\ inFlight' \in Runs \cup {None} /\ abort' \in Runs \cup {None}
      /\ step' \in [Runs -> Steps]
  BY <1>4 DEF Launch, Kinds, Steps
<1>6. aborted' \in [Runs -> BOOLEAN]
  <2>1. CASE Launch
    BY <2>1 DEF Launch, Kinds
  <2>2. CASE RaiseSignal
    BY <2>2, Zenon DEF RaiseSignal, Kinds
  <2> QED
    BY <1>4, <2>1, <2>2 DEF Kinds
<1>7. pc' \in [Requests -> {"idle", "optingIn", "removing", "writing"}]
  BY <1>2 DEF Kinds
<1>8. phase' \in Phases /\ marker' \in BOOLEAN /\ declined' \in BOOLEAN
  BY <1>2, <1>3 DEF Kinds, Phases
<1> QED
  BY <1>1, <1>5, <1>6, <1>7, <1>8 DEF Kinds

LEMMA RunKinds ==
  ASSUME Filed, Kinds, NEW r \in Runs, RunStep(r)
  PROVE  Kinds'
<1>1. UNCHANGED <<model, marker, declined, pc, aborted, provider, loads, call, exits>>
  BY DEF RunStep, Open, Answered, OpenStream, AnsweredWhole, Dropped, RangeRefused, NetworkFails,
     Paused, Receive, BodyEnds, Hash, FileMissing, Verdict, Unlink, Rename, PutInPlace, Fail, Over,
     diskVars, statusVars, generationVars, countVars
<1>2. /\ path' \in {path, TRUE} /\ inFlight' \in {inFlight, None} /\ abort' \in {abort, None}
      /\ phase' \in {phase, "idle", "downloading", "verifying", "done", "error"}
  BY DEF RunStep, Open, Answered, OpenStream, AnsweredWhole, Dropped, RangeRefused, NetworkFails,
     Paused, Receive, BodyEnds, Hash, FileMissing, Verdict, Unlink, Rename, PutInPlace, Fail, Over,
     statusVars
<1>3. step' \in {step} \cup {[step EXCEPT ![r] = w] : w \in Steps}
  BY DEF RunStep, Open, Answered, OpenStream, AnsweredWhole, Dropped, RangeRefused, NetworkFails,
     Paused, Receive, BodyEnds, Hash, FileMissing, Verdict, Unlink, Rename, PutInPlace, Fail, Over,
     Goto, Steps
<1>4. from' \in [Runs -> Nat]
  <2>1. PartialBytes \in Nat
    BY DEF PartialBytes, Filed, File
  <2>2. from[r] \in Nat
    BY DEF Kinds
  <2>3. from' \in {from} \cup {[from EXCEPT ![r] = n] : n \in {0, PartialBytes, from[r]}}
    BY DEF RunStep, Open, Answered, OpenStream, AnsweredWhole, Dropped, RangeRefused, NetworkFails,
       Paused, Receive, BodyEnds, Hash, FileMissing, Verdict, Unlink, Rename, PutInPlace, Fail, Over
  <2> QED
    BY <2>1, <2>2, <2>3 DEF Kinds
<1>5. got' \in [Runs -> 0 .. Size]
  <2>1. CASE Answered(r)
    <3>1. from[r] \in 0 .. Size
      BY <2>1, ModelDownloadAssumption DEF Answered, RangeHonoured, Kinds
    <3> QED
      BY <2>1, <3>1 DEF Answered, OpenStream, Kinds
  <2>2. CASE Receive(r)
    <3>1. got[r] + 1 \in 0 .. Size
      BY <2>2, ModelDownloadAssumption DEF Receive, Kinds
    <3> QED
      BY <2>2, <3>1 DEF Receive, Kinds
  <2>3. CASE ~Answered(r) /\ ~Receive(r)
    <3>1. got' \in {got, [got EXCEPT ![r] = 0]}
      BY <2>3 DEF RunStep, Open, AnsweredWhole, Dropped, RangeRefused, NetworkFails,
         Paused, BodyEnds, Hash, FileMissing, Verdict, Unlink, Rename, PutInPlace, Fail, Over
    <3>2. got \in [Runs -> 0 .. Size] /\ 0 \in 0 .. Size
      BY ModelDownloadAssumption DEF Kinds
    <3> QED
      BY <3>1, <3>2
  <2> QED
    BY <2>1, <2>2, <2>3
<1>6. faults' \in 0 .. MaxFaults
  <2>1. faults' = faults \/ (faults' = faults + 1 /\ faults' <= MaxFaults)
    <3>1. CASE NetworkFails(r)
      BY <3>1, ModelDownloadAssumption DEF NetworkFails, Kinds
    <3>2. CASE ~NetworkFails(r)
      BY <3>2 DEF RunStep, Open, Answered, AnsweredWhole, Dropped, RangeRefused, Paused, Receive,
         BodyEnds, Hash, Unlink, Rename, countVars
    <3> QED
      BY <3>1, <3>2
  <2> QED
    BY <2>1, ModelDownloadAssumption DEF Kinds
<1>7. step' \in [Runs -> Steps]
  BY <1>3 DEF Kinds
<1> QED
  BY <1>1, <1>2, <1>4, <1>5, <1>6, <1>7 DEF Kinds, Phases

LEMMA GenerationKinds ==
  ASSUME Filed, Kinds,
         (\E g \in Calls : GenerateFromTemplate(g) \/ Load(g) \/ CallStep(g)) \/ LoadStep
  PROVE  Kinds'
<1>1. UNCHANGED <<marker, declined, path, phase, inFlight, abort, pc, step, from, got, aborted,
                  provider, exits, faults>>
  BY DEF GenerateFromTemplate, Load, CallStep, Complete, Return, LoadStep, LoadFails, LoadEnds,
     Unaffected, diskVars, statusVars, runVars, countVars
<1>2. model' \in {model, final} /\ loads' \in Nat
  BY DEF GenerateFromTemplate, Load, CallStep, Complete, Return, LoadStep, LoadFails, LoadEnds, Kinds
<1>3. call' \in [Calls -> {"idle", "loading", "model", "template", "error"}]
  BY DEF GenerateFromTemplate, Load, CallStep, Complete, Return, LoadStep, LoadFails, LoadEnds, Kinds,
     Without
<1> QED
  BY <1>1, <1>2, <1>3 DEF Kinds, Filed

LEMMA StartKinds ==
  ASSUME NEW environment \in Environments, Chosen(environment) # "refused"
  PROVE  environment.path \in BOOLEAN /\ Chosen(environment) \in {"mock", "local", "local+mock"}
BY ModelDownloadAssumption DEF Chosen, Local

\* Every variable keeps its type, even where download requests race.
THEOREM TypeCorrect == Spec => []TypeOK
<1>1. Init => Filed /\ Kinds
  <2> SUFFICES ASSUME Init PROVE Filed /\ Kinds
    OBVIOUS
  <2>1. 0 \in 0 .. Size /\ 0 \in 0 .. MaxExits /\ 0 \in 0 .. MaxFaults
    BY ModelDownloadAssumption
  <2>2. path \in BOOLEAN /\ provider \in {"mock", "local", "local+mock"}
    BY StartKinds DEF Init
  <2> QED
    BY <2>1, <2>2 DEF Init, Filed, OpenFiles, Targets, Kinds, File, Phases, Steps
<1>2. ASSUME Filed, Kinds, [Next]_vars
      PROVE  Kinds'
  <2>1. CASE Restart
    <3>1. 0 \in 0 .. Size /\ exits' \in 0 .. MaxExits
      BY <1>2, <2>1, ModelDownloadAssumption DEF Restart, Kinds
    <3>2. path' \in BOOLEAN /\ provider' \in {"mock", "local", "local+mock"}
      BY <2>1, StartKinds DEF Restart
    <3>3. phase' \in Phases /\ declined' \in BOOLEAN /\ inFlight' = None /\ abort' = None
      BY <1>2, <2>1 DEF Restart, StatusAtStart, Phases, Kinds
    <3> QED
      BY <1>2, <2>1, <3>1, <3>2, <3>3 DEF Restart, Kinds, Steps, File, diskVars
  <2>2. CASE UNCHANGED vars
    BY <1>2, <2>2 DEF vars, Kinds
  <2> QED
    BY <1>2, <2>1, <2>2, RequestKinds, RunKinds, GenerationKinds DEF Next
<1>3. Filed /\ Kinds /\ [Next]_vars => (Filed /\ Kinds)'
  BY <1>2, FiledStays
<1>4. Filed /\ Kinds => TypeOK
  BY DEF Filed, Kinds, Targets, TypeOK
<1> QED
  BY <1>1, <1>3, <1>4, PTL DEF Spec
===============================================================================
