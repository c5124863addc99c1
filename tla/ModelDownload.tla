---------------------------- MODULE ModelDownload ----------------------------
(***************************************************************************)
(* The on-device model of one server process: its download on request      *)
(* (packages/ai/src/modelDownloadManager.ts behind                         *)
(* packages/api/src/model-routes.ts), and the generation calls that use it *)
(* or fall back to templates (localProvider.ts, fallbackProvider.ts and    *)
(* the choice of the provider in packages/api/src/context.ts).             *)
(*                                                                         *)
(* A request handler runs from one await to the next; pc holds what it is  *)
(* waiting for.  A file is the sequence of its chunks, in which chunk n of *)
(* the model is n and anything else, a hole or a chunk spoilt on the way,  *)
(* is 0.  A write stream goes on writing to its file when the file is      *)
(* renamed or unlinked under it: target says where that file now is.       *)
(***************************************************************************)
EXTENDS Naturals, Sequences

CONSTANTS
  Requests,         \* HTTP requests under way at the same time
  Calls,            \* generation calls under way at the same time
  MaxRuns,          \* bound: downloads that may be under way at the same time
  Size,             \* chunks of the model
  Servers,          \* the file servers a request may reach: those that honour Range,
                    \* and those that send the whole file
  Environments,     \* environments of new processes: whether AI_PROVIDER is local,
                    \* and whether LOCAL_MODEL_PATH is set
  ConcurrentOptIn,  \* whether a second download request may come while the first
                    \* is still removing the decline marker
  MaxExits,         \* bound: exits of the process
  MaxFaults,        \* bound: network faults
  None              \* no file, no run

ASSUME ModelDownloadAssumption ==
  /\ Size \in Nat \ {0} /\ MaxRuns \in Nat \ {0}
  /\ Servers \subseteq {"resumes", "ignores"} /\ ConcurrentOptIn \in BOOLEAN
  /\ Environments \subseteq [explicit : BOOLEAN, path : BOOLEAN]
  /\ MaxExits \in Nat /\ MaxFaults \in Nat
  /\ None \notin Nat /\ None \notin Seq(0 .. Size)

Runs == 1 .. MaxRuns

VARIABLES
  part,      \* the .part file, None when absent
  final,     \* the model file, None when absent
  marker,    \* whether the decline marker is on disk
  phase,     \* what the dashboard is shown
  declined,  \* the manager's copy of the marker
  inFlight,  \* the run whose promise a second caller joins, or None
  abort,     \* the run cancel reaches, or None
  pc,        \* what each request is waiting for
  step,      \* where each run is
  from,      \* the byte range each run asked for starts after this chunk
  got,       \* the last chunk each run has received
  aborted,   \* whether each run's signal is raised
  target,    \* what each run's write stream writes to
  path,      \* whether LOCAL_MODEL_PATH is set in the process
  provider,  \* the content provider chosen at start-up
  loads,     \* loads of the model under way
  model,     \* the file the model in memory was loaded from, None before that
  call,      \* where each generation call is
  exits, faults

diskVars == <<part, final, marker>>
statusVars == <<phase, declined, inFlight, abort>>
runVars == <<step, from, got, aborted, target>>
generationVars == <<provider, loads, model, call>>
countVars == <<exits, faults>>
vars == <<part, final, marker, phase, declined, inFlight, abort, pc, step, from, got, aborted,
          target, path, provider, loads, model, call, exits, faults>>

File == Seq(0 .. Size) \cup {None}

Steps == {"none", "opening", "fetching", "dropping", "receiving", "hashing", "unlinking", "renaming"}

Whole == [n \in 1 .. Size |-> n]

Present == final # None

Phases == {"idle", "downloading", "verifying", "done", "error", "declined"}

TypeOK ==
  /\ part \in File /\ final \in File /\ model \in File
  /\ marker \in BOOLEAN /\ declined \in BOOLEAN /\ path \in BOOLEAN
  /\ phase \in Phases
  /\ inFlight \in Runs \cup {None} /\ abort \in Runs \cup {None}
  /\ pc \in [Requests -> {"idle", "optingIn", "removing", "writing"}]
  /\ step \in [Runs -> Steps]
  /\ from \in [Runs -> Nat] /\ got \in [Runs -> 0 .. Size]
  /\ aborted \in [Runs -> BOOLEAN]
  /\ target \in [Runs -> {"nothing", "part", "final", "unnamed"}]
  /\ provider \in {"mock", "local", "local+mock"}
  /\ loads \in Nat
  /\ call \in [Calls -> {"idle", "loading", "model", "template", "error"}]
  /\ exits \in 0 .. MaxExits /\ faults \in 0 .. MaxFaults

-----------------------------------------------------------------------------
(***************************************************************************)
(* Requests.                                                               *)
(***************************************************************************)
\* startDownload past its checks: a controller and a run of its own.
\* Bound: it takes the first slot that is free.
Launch ==
  \E r \in Runs :
    /\ step[r] = "none"
    /\ \A earlier \in Runs : earlier < r => step[earlier] # "none"
    /\ step' = [step EXCEPT ![r] = "opening"]
    /\ aborted' = [aborted EXCEPT ![r] = FALSE]
    /\ inFlight' = r
    /\ abort' = r
    /\ UNCHANGED <<from, got, target>>

\* Unless ConcurrentOptIn, nobody asks for a download while another request for
\* one waits for the removal of the marker.
MayOptIn == ConcurrentOptIn \/ \A q \in Requests : pc[q] # "optingIn"

\* POST /download; with a model on disk it only answers, and a caller that finds a run in flight joins it.
Download(q) ==
  /\ pc[q] = "idle"
  /\ ~Present
  /\ inFlight = None
  /\ ~declined
  /\ MayOptIn
  /\ Launch
  /\ UNCHANGED <<diskVars, phase, declined, pc, path, generationVars, countVars>>

\* After a decline the marker is taken away first: undecline clears the flag
\* and awaits the removal of the file.
DownloadDeclined(q) ==
  /\ pc[q] = "idle"
  /\ ~Present
  /\ inFlight = None
  /\ declined
  /\ MayOptIn
  /\ declined' = FALSE
  /\ pc' = [pc EXCEPT ![q] = "optingIn"]
  /\ UNCHANGED <<diskVars, phase, inFlight, abort, runVars, path, generationVars, countVars>>

\* undecline shows again what the decline had hidden.
Undeclined == IF phase # "declined" THEN phase ELSE IF Present THEN "done" ELSE "idle"

\* The marker is gone: startDownload goes on without looking at inFlight again.
OptedIn(q) ==
  /\ pc[q] = "optingIn"
  /\ marker' = FALSE
  /\ phase' = Undeclined
  /\ Launch
  /\ pc' = [pc EXCEPT ![q] = "idle"]
  /\ UNCHANGED <<part, final, declined, path, generationVars, countVars>>

\* POST /resume-optin
Undecline(q) ==
  /\ pc[q] = "idle"
  /\ declined' = FALSE
  /\ pc' = [pc EXCEPT ![q] = "removing"]
  /\ UNCHANGED <<diskVars, phase, inFlight, abort, runVars, path, generationVars, countVars>>

MarkerRemoved(q) ==
  /\ pc[q] = "removing"
  /\ marker' = FALSE
  /\ phase' = Undeclined
  /\ pc' = [pc EXCEPT ![q] = "idle"]
  /\ UNCHANGED <<part, final, declined, inFlight, abort, runVars, path, generationVars, countVars>>

\* cancel raises the signal of the latest run.
RaiseSignal == aborted' = [r \in Runs |-> aborted[r] \/ r = abort]

\* POST /cancel
Cancel(q) ==
  /\ pc[q] = "idle"
  /\ abort # None
  /\ RaiseSignal
  /\ UNCHANGED <<diskVars, statusVars, pc, step, from, got, target, path, generationVars, countVars>>

\* POST /decline cancels, and awaits the writing of the marker.
Decline(q) ==
  /\ pc[q] = "idle"
  /\ RaiseSignal
  /\ declined' = TRUE
  /\ pc' = [pc EXCEPT ![q] = "writing"]
  /\ UNCHANGED <<diskVars, phase, inFlight, abort, step, from, got, target, path, generationVars,
                 countVars>>

MarkerWritten(q) ==
  /\ pc[q] = "writing"
  /\ marker' = TRUE
  /\ phase' = "declined"
  /\ pc' = [pc EXCEPT ![q] = "idle"]
  /\ UNCHANGED <<part, final, declined, inFlight, abort, runVars, path, generationVars, countVars>>

-----------------------------------------------------------------------------
(***************************************************************************)
(* A run of runDownload, from one await to the next.                       *)
(***************************************************************************)
Goto(r, where) == step' = [step EXCEPT ![r] = where]

\* The stream is closed, and finally clears the promise and the controller,
\* whichever run they belong to by now.
Over(r) ==
  /\ Goto(r, "none")
  /\ target' = [target EXCEPT ![r] = "nothing"]
  /\ inFlight' = None
  /\ abort' = None
  /\ UNCHANGED <<from, got, aborted>>

\* Defect: the handler of an abort leaves the phase as it is.
FailQuietly(r) ==
  /\ phase' = IF aborted[r] THEN phase ELSE "error"
  /\ Over(r)

\* The catch block: with the signal raised any failure counts as a pause.
Fail(r) ==
  /\ phase' = IF ~aborted[r] THEN "error" ELSE IF Present THEN "done" ELSE "idle"
  /\ Over(r)

\* The size of the .part file is what to resume from.
PartialBytes == IF part = None THEN 0 ELSE Len(part)

Open(r) ==
  /\ step[r] = "opening"
  /\ phase' = "downloading"
  /\ from' = [from EXCEPT ![r] = PartialBytes]
  /\ Goto(r, "fetching")
  /\ UNCHANGED <<diskVars, declined, inFlight, abort, pc, got, aborted, target, path,
                 generationVars, countVars>>

\* The stream is opened on the .part file, to append after what is there or to
\* truncate it.
OpenStream(r, resume) ==
  /\ part' = IF resume > 0 /\ part # None THEN part ELSE << >>
  /\ from' = [from EXCEPT ![r] = resume]
  /\ got' = [got EXCEPT ![r] = resume]
  /\ target' = [target EXCEPT ![r] = "part"]
  /\ Goto(r, "receiving")
  /\ UNCHANGED aborted

\* Defect: fetch is not given the signal.
PausedBetweenChunks(r) ==
  /\ step[r] = "receiving"
  /\ aborted[r]
  /\ Fail(r)
  /\ UNCHANGED <<diskVars, declined, pc, path, generationVars, countVars>>

\* Defect: the file is started over whatever the server answers.
AnsweredAfresh(r) ==
  /\ step[r] = "fetching"
  /\ ~aborted[r]
  /\ OpenStream(r, 0)
  /\ UNCHANGED <<final, marker, statusVars, pc, path, generationVars, countVars>>

\* 200 for a request without a range, 206 for one the server honours.
RangeHonoured(r) == from[r] > 0 => "resumes" \in Servers /\ from[r] < Size

Answered(r) ==
  /\ step[r] = "fetching"
  /\ ~aborted[r]
  /\ RangeHonoured(r)
  /\ OpenStream(r, from[r])
  /\ UNCHANGED <<final, marker, statusVars, pc, path, generationVars, countVars>>

\* 200 although a range was asked for: what is there is removed first.
AnsweredWhole(r) ==
  /\ step[r] = "fetching"
  /\ ~aborted[r]
  /\ from[r] > 0 /\ "ignores" \in Servers
  /\ Goto(r, "dropping")
  /\ UNCHANGED <<diskVars, statusVars, pc, from, got, aborted, target, path, generationVars, countVars>>

\* Streams on a file that is unlinked or replaced go on in one without a name.
Detached(name, newName) ==
  [r \in Runs |-> IF target[r] = name THEN newName ELSE target[r]]

Dropped(r) ==
  /\ step[r] = "dropping"
  /\ part' = << >>
  /\ target' = [Detached("part", "unnamed") EXCEPT ![r] = "part"]
  /\ from' = [from EXCEPT ![r] = 0]
  /\ got' = [got EXCEPT ![r] = 0]
  /\ Goto(r, "receiving")
  /\ UNCHANGED <<final, marker, statusVars, pc, aborted, path, generationVars, countVars>>

\* The range starts behind the last byte: 416, an HTTP error like any other.
RangeRefused(r) ==
  /\ step[r] = "fetching"
  /\ ~aborted[r]
  /\ "resumes" \in Servers /\ from[r] >= Size
  /\ Fail(r)
  /\ UNCHANGED <<diskVars, declined, pc, path, generationVars, countVars>>

\* Any other status, or the connection breaks.
NetworkFails(r) ==
  /\ step[r] \in {"fetching", "receiving"}
  /\ ~aborted[r]
  /\ faults < MaxFaults
  /\ faults' = faults + 1
  /\ Fail(r)
  /\ UNCHANGED <<diskVars, declined, pc, path, generationVars, exits>>

\* The signal makes fetch reject, and is looked at again between chunks.
Paused(r) ==
  /\ step[r] \in {"fetching", "receiving"}
  /\ aborted[r]
  /\ Fail(r)
  /\ UNCHANGED <<diskVars, declined, pc, path, generationVars, countVars>>

\* A stream opened to append writes at the end of its file, another one behind
\* what it has written itself, over a hole if the file was truncated meanwhile.
Written(file, r, chunk) ==
  IF from[r] > 0
    THEN Append(file, chunk)
    ELSE [n \in 1 .. (IF Len(file) > got[r] THEN Len(file) ELSE got[r] + 1) |->
            IF n = got[r] + 1 THEN chunk ELSE IF n <= Len(file) THEN file[n] ELSE 0]

\* Bound: a chunk is spoilt on the way at the cost of a fault.
Receive(r) ==
  /\ step[r] = "receiving"
  /\ ~aborted[r]
  /\ got[r] < Size
  /\ \E chunk \in {0, got[r] + 1} :
       /\ faults' = IF chunk = 0 THEN faults + 1 ELSE faults
       /\ faults' <= MaxFaults
       /\ part' = IF target[r] = "part" THEN Written(part, r, chunk) ELSE part
       /\ final' = IF target[r] = "final" THEN Written(final, r, chunk) ELSE final
  /\ got' = [got EXCEPT ![r] = @ + 1]
  /\ UNCHANGED <<marker, statusVars, pc, step, from, aborted, target, path, generationVars, exits>>

\* The body ends; fetch reports one that is cut short as an error.
BodyEnds(r) ==
  /\ step[r] = "receiving"
  /\ ~aborted[r]
  /\ got[r] = Size
  /\ phase' = "verifying"
  /\ target' = [target EXCEPT ![r] = "nothing"]
  /\ Goto(r, "hashing")
  /\ UNCHANGED <<diskVars, declined, inFlight, abort, pc, from, got, aborted, path, generationVars, countVars>>

\* The file to hash or to rename is not there any more.
FileMissing(r) ==
  /\ Fail(r)
  /\ UNCHANGED <<diskVars, declined, path>>

Verdict(r, good) ==
  /\ Goto(r, IF good THEN "renaming" ELSE "unlinking")
  /\ UNCHANGED <<diskVars, statusVars, from, got, aborted, target, path>>

\* Defect: the digest covers what this run received, not the file.
HashReceived(r) ==
  /\ step[r] = "hashing"
  /\ Verdict(r, TRUE)
  /\ UNCHANGED <<pc, generationVars, countVars>>

\* The digest of the file under the name of the .part file.
Hash(r) ==
  /\ step[r] = "hashing"
  /\ IF part = None THEN FileMissing(r) ELSE Verdict(r, part = Whole)
  /\ UNCHANGED <<pc, generationVars, countVars>>

\* A file with another digest is deleted, and the run has failed.
Unlink(r) ==
  /\ step[r] = "unlinking"
  /\ part' = None
  /\ phase' = IF ~aborted[r] THEN "error" ELSE IF Present THEN "done" ELSE "idle"
  /\ Goto(r, "none")
  /\ target' = [Detached("part", "unnamed") EXCEPT ![r] = "nothing"]
  /\ inFlight' = None
  /\ abort' = None
  /\ UNCHANGED <<final, marker, declined, pc, from, got, aborted, path, generationVars, countVars>>

\* Streams follow the file they write to.
Moved(r) ==
  [s \in Runs |-> CASE s = r -> "nothing"
                    [] target[s] = "part" -> "final"
                    [] target[s] = "final" -> "unnamed"
                    [] OTHER -> target[s]]

PutInPlace(r) ==
  /\ final' = part
  /\ part' = None
  /\ path' = TRUE
  /\ phase' = "done"
  /\ Goto(r, "none")
  /\ target' = Moved(r)
  /\ inFlight' = None
  /\ abort' = None
  /\ UNCHANGED <<marker, declined, from, got, aborted>>

\* The verified file gets its name; a run is not paused any more by now.
Rename(r) ==
  /\ step[r] = "renaming"
  /\ IF part = None THEN FileMissing(r) ELSE PutInPlace(r)
  /\ UNCHANGED <<pc, generationVars, countVars>>

-----------------------------------------------------------------------------
(***************************************************************************)
(* Generation.  The provider is chosen once, when the process starts.      *)
(***************************************************************************)
\* The factory refuses a local provider without a path.
Local(environment) == IF environment.path THEN "local" ELSE "refused"

\* AI_PROVIDER is taken at its word; without it a model on disk is used, with
\* the templates behind it.
Chosen(environment) ==
  IF environment.explicit THEN Local(environment)
    ELSE IF environment.path /\ Present THEN "local+mock" ELSE "mock"

Unaffected == <<diskVars, statusVars, pc, runVars, path, provider, countVars>>

\* The template provider answers at once.
GenerateFromTemplate(g) ==
  /\ call[g] = "idle"
  /\ provider = "mock"
  /\ call' = [call EXCEPT ![g] = "template"]
  /\ UNCHANGED <<Unaffected, loads, model>>

\* Defect: the promise of a load is not kept, and every call loads for itself.
LoadForEachCall(g) ==
  /\ call[g] = "idle"
  /\ provider # "mock"
  /\ call' = [call EXCEPT ![g] = "loading"]
  /\ loads' = IF model = None THEN loads + 1 ELSE loads
  /\ UNCHANGED <<Unaffected, model>>

\* The first call loads the model, the others wait for the same promise.
Load(g) ==
  /\ call[g] = "idle"
  /\ provider # "mock"
  /\ call' = [call EXCEPT ![g] = "loading"]
  /\ loads' = IF model = None /\ loads = 0 THEN 1 ELSE loads
  /\ UNCHANGED <<Unaffected, model>>

\* Without a model the caller gets the template, unless local was asked for.
Without == IF provider = "local" THEN "error" ELSE "template"

\* Whoever waits for a load that fails goes without, and the promise is dropped.
LoadFails ==
  /\ loads > 0
  /\ loads' = loads - 1
  /\ call' = [g \in Calls |-> IF call[g] = "loading" THEN Without ELSE call[g]]
  /\ UNCHANGED <<Unaffected, model>>

\* The runtime takes the file as it is, as long as it is there.
LoadEnds ==
  /\ loads > 0
  /\ Present
  /\ loads' = loads - 1
  /\ model' = final
  /\ UNCHANGED <<Unaffected, call>>

\* A completion, or an inference error.
Complete(g) ==
  /\ call[g] = "loading"
  /\ model # None
  /\ \E source \in {"model", Without} : call' = [call EXCEPT ![g] = source]
  /\ UNCHANGED <<Unaffected, loads, model>>

\* The caller has its answer.
Return(g) ==
  /\ call[g] \in {"model", "template", "error"}
  /\ call' = [call EXCEPT ![g] = "idle"]
  /\ UNCHANGED <<Unaffected, loads, model>>

-----------------------------------------------------------------------------
(***************************************************************************)
(* The process.                                                            *)
(***************************************************************************)
\* The constructor, and init, which every handler awaits: the status is made
\* from what is on disk.
StatusAtStart ==
  /\ declined' = marker
  /\ phase' = IF Present THEN "done" ELSE IF marker THEN "declined" ELSE "idle"
  /\ inFlight' = None
  /\ abort' = None

\* The process ends anywhere and is started again.
Restart ==
  /\ exits < MaxExits
  /\ exits' = exits + 1
  /\ StatusAtStart
  /\ pc' = [q \in Requests |-> "idle"]
  /\ step' = [r \in Runs |-> "none"]
  /\ from' = [r \in Runs |-> 0]
  /\ got' = [r \in Runs |-> 0]
  /\ aborted' = [r \in Runs |-> FALSE]
  /\ target' = [r \in Runs |-> "nothing"]
  /\ \E environment \in Environments :
       /\ path' = environment.path
       /\ provider' = Chosen(environment)
       /\ provider' # "refused"
  /\ loads' = 0
  /\ model' = None
  /\ call' = [g \in Calls |-> "idle"]
  /\ UNCHANGED <<diskVars, faults>>

Init ==
  /\ part = None /\ final = None /\ marker = FALSE
  /\ phase = "idle" /\ declined = FALSE
  /\ inFlight = None /\ abort = None
  /\ pc = [q \in Requests |-> "idle"]
  /\ step = [r \in Runs |-> "none"]
  /\ from = [r \in Runs |-> 0]
  /\ got = [r \in Runs |-> 0]
  /\ aborted = [r \in Runs |-> FALSE]
  /\ target = [r \in Runs |-> "nothing"]
  /\ \E environment \in Environments :
       /\ path = environment.path
       /\ provider = Chosen(environment)
       /\ provider # "refused"
  /\ loads = 0
  /\ model = None
  /\ call = [g \in Calls |-> "idle"]
  /\ exits = 0 /\ faults = 0

RequestStep(q) ==
  \/ Download(q) \/ DownloadDeclined(q) \/ OptedIn(q)
  \/ Undecline(q) \/ MarkerRemoved(q)
  \/ Cancel(q)
  \/ Decline(q) \/ MarkerWritten(q)

RunStep(r) ==
  \/ Open(r) \/ Answered(r) \/ AnsweredWhole(r) \/ Dropped(r) \/ RangeRefused(r)
  \/ NetworkFails(r) \/ Paused(r) \/ Receive(r) \/ BodyEnds(r)
  \/ Hash(r) \/ Unlink(r) \/ Rename(r)

LoadStep == LoadFails \/ LoadEnds

CallStep(g) == Complete(g) \/ Return(g)

Next ==
  \/ \E q \in Requests : RequestStep(q)
  \/ \E r \in Runs : RunStep(r)
  \/ \E g \in Calls : GenerateFromTemplate(g) \/ Load(g) \/ CallStep(g)
  \/ LoadStep
  \/ Restart

Spec == Init /\ [][Next]_vars

\* Every await of a run and of a generation call settles; nobody has to make a
\* request or a call.
FairSpec ==
  /\ Spec
  /\ \A r \in Runs : WF_vars(RunStep(r))
  /\ WF_vars(LoadStep)
  /\ \A g \in Calls : WF_vars(CallStep(g))

-----------------------------------------------------------------------------
(***************************************************************************)
(* What the manager and the providers promise.                             *)
(***************************************************************************)
\* Never a corrupt model: whatever is resumed, paused, spoilt or broken off,
\* the file under the model's name, and the model in memory, is the whole model.
NeverCorrupt ==
  /\ Present => final = Whole
  /\ model # None => model = Whole

\* Callers share one download and one load: no other run writes, the one there
\* is can be joined and cancelled, and the model is read into memory once.
OnceForAll ==
  /\ \A r \in Runs : step[r] # "none" =>
       /\ inFlight = r /\ abort = r
       /\ \A other \in Runs \ {r} : step[other] = "none"
  /\ loads <= 1
  /\ loads = 1 => model = None

\* The dashboard is told of a model, or of a download, only when there is one.
PhaseIsTrue ==
  /\ phase = "done" => Present
  /\ phase \in {"downloading", "verifying"} => inFlight # None

\* A pause, a crash or a broken connection costs nothing of what was fetched: the
\* good chunks of the .part file stay until they are the model, unless the server
\* sends the whole file again.
Good(file) == file # None /\ \A n \in 1 .. Len(file) : file[n] = n

StartsOver == \E r \in Runs : step[r] = "dropping" /\ step'[r] = "receiving"

ResumeKeepsChunks ==
  [][Good(part) => \/ /\ part' # None
                      /\ Len(part) <= Len(part')
                      /\ \A n \in 1 .. Len(part) : part'[n] = part[n]
                   \/ final' = Whole
                   \/ StartsOver]_vars

\* A download that was started ends, and a generation call is answered, with a
\* model or without.
EverythingEnds ==
  /\ \A r \in Runs : step[r] # "none" ~> step[r] = "none"
  /\ \A g \in Calls : call[g] = "loading" ~> call[g] # "loading"
=============================================================================
