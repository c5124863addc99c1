------------------------------ MODULE Delivery -------------------------------
(***************************************************************************)
(* How a claimed job reaches its platform: the attempts a worker makes     *)
(* (packages/queue/src/worker.ts), each of which gets a context from the   *)
(* token manager, works off the plan of the connector's operation call by  *)
(* call and, when one of them fails, ends with the error of that call      *)
(* (packages/pipeline/src/publish-worker.ts, analytics-worker.ts and the   *)
(* collector's own retries in packages/analytics/src/collector.ts).        *)
(*                                                                         *)
(* The job is any of Work; Platforms gives the work of the five            *)
(* connectors.  The claims, crashes and reclaims around the attempts are   *)
(* those of JobQueue, the locks around a refresh those of TokenRefresh.    *)
(***************************************************************************)
EXTENDS Connector

CONSTANTS
  Work,         \* the jobs to choose from, by name: records with the fields
                \*   operation: "publish", "edit", "delete" or "collect_analytics"
                \*   plan:      the calls of the connector's operation
                \*   refresh:   the calls of its refreshToken
                \*   errors:    the error of each call under each answer
                \*   life:      whether the token runs out: "endless"; and if it does,
                \*              whether its token set says when: "known" or "unknown"
                \*   media:     the number of media of each post of the thread
                \*   addressed: whether the operation is about a post that is there
                \*   taken:     whether the platform takes the content
  MaxAttempts,  \* maxAttempts of the job
  MaxTries,     \* maxAttempts of the collector
  MaxFaults     \* bound: faults of the network, of a platform or of a token

Jobs == DOMAIN Work

ASSUME DeliveryAssumption ==
  /\ \A j \in Jobs :
       /\ Work[j].operation \in {"publish", "edit", "delete", "collect_analytics"}
       /\ Work[j].plan \in Seq([call : STRING, item : Nat, caught : BOOLEAN]) /\ Work[j].plan # <<>>
       /\ Work[j].media \in Seq(Nat)
       /\ Work[j].life \in {"endless", "known", "unknown"}
       /\ Work[j].addressed \in BOOLEAN /\ Work[j].taken \in BOOLEAN
  /\ MaxAttempts \in Nat \ {0} /\ MaxTries \in Nat \ {0} /\ MaxFaults \in Nat

VARIABLES
  job,       \* the job that is delivered
  status,    \* its row
  attempts,  \* attempts that failed
  attempt,   \* the attempt under way: the next call, the collector's try, the last post
             \* it made and the media it has brought since
  failure,   \* why the last attempt failed, and whether the connector itself refused
  posts,     \* what the job has posted, or the post it is about
  touched,   \* whether the job has changed anything on the platform
  rows,      \* analytics_snapshots of the job
  expired,   \* whether the access token has run out
  granted,   \* whether the account still grants access
  lost,      \* whether an answer was lost
  spent      \* faults so far

vars == <<job, status, attempts, attempt, failure, posts, touched, rows, expired, granted, lost, spent>>

NoAttempt == [at |-> 0, try |-> 0, last |-> 0, media |-> 0]
NoFailure == [code |-> "none", own |-> FALSE]

Collects == Work[job].operation = "collect_analytics"
Plan == Work[job].plan

TypeOK ==
  /\ job \in Jobs
  /\ status \in {"pending", "running", "succeeded", "dead"}
  /\ attempts \in 0 .. MaxAttempts
  /\ attempt \in [at : Nat, try : 0 .. MaxTries, last : Nat, media : Nat]
  /\ failure \in [code : Codes \cup {"none"}, own : BOOLEAN]
  /\ posts \in Seq([item : Nat, parent : Nat, media : Nat])
  /\ touched \in BOOLEAN /\ expired \in BOOLEAN /\ granted \in BOOLEAN /\ lost \in BOOLEAN
  /\ rows \in Nat /\ spent \in 0 .. MaxFaults

-----------------------------------------------------------------------------
(***************************************************************************)
(* The end of an attempt.                                                  *)
(***************************************************************************)
\* Worker.process: another attempt later, or the dead letter queue.
GiveUp(code, own, retryable) ==
  /\ attempts' = attempts + 1
  /\ status' = IF retryable /\ attempts + 1 < MaxAttempts THEN "pending" ELSE "dead"
  /\ attempt' = NoAttempt
  /\ failure' = [code |-> code, own |-> own]

\* The collector tries again under the same context, and what it gives up on with a
\* plain error the handler takes for temporary.
Again(code) == Collects /\ code \in Retryable /\ attempt.try < MaxTries

\* Defect: the collector does not count its tries.
FailUncounted(code, own) ==
  IF Again(code)
  THEN attempt' = [attempt EXCEPT !.at = 1] /\ UNCHANGED <<status, attempts, failure>>
  ELSE GiveUp(code, own, code \in Retryable \/ (Collects /\ code = "plain"))

Fail(code, own) ==
  IF Again(code)
  THEN /\ attempt' = [attempt EXCEPT !.at = 1, !.try = @ + 1]
       /\ UNCHANGED <<status, attempts, failure>>
  ELSE GiveUp(code, own, code \in Retryable \/ (Collects /\ code = "plain"))

Succeed ==
  /\ status' = "succeeded"
  /\ attempt' = NoAttempt
  /\ UNCHANGED <<attempts, failure>>

Spend(forced) == spent' = IF forced THEN spent ELSE spent + 1

-----------------------------------------------------------------------------
(***************************************************************************)
(* TokenManager.createContext: a token that is known to have run out is    *)
(* refreshed first.                                                        *)
(***************************************************************************)
\* Defect: a token set without an expiry is refreshed, and the others are not.
DueUnlessKnown == expired /\ Work[job].life = "unknown"

Due == expired /\ Work[job].life = "known"

Begin == [NoAttempt EXCEPT !.at = 1, !.try = 1]

Start ==
  /\ status = "pending"
  /\ ~Due
  /\ status' = "running"
  /\ attempt' = Begin
  /\ UNCHANGED <<job, attempts, failure, posts, touched, rows, expired, granted, lost, spent>>

\* The answers to a refresh; a grant that is gone refuses it.
RefreshAnswers ==
  LET error == Work[job].errors["refresh"]
      all == {a \in Answers : error[a] # "none"}
  IN  IF granted THEN IF spent < MaxFaults THEN all \ {"expired"} ELSE {"ok"}
      ELSE all \cap {"unauthorized", "refused"}

\* Once the token manager has taken an error for a revocation the account has to be paired
\* anew, which is not worth another attempt.
StartRefreshing(a) ==
  /\ status = "pending"
  /\ Due
  /\ a \in RefreshAnswers
  /\ Spend(a = "ok" \/ ~granted)
  /\ IF a = "ok"
     THEN /\ expired' = FALSE
          /\ status' = "running"
          /\ attempt' = Begin
          /\ UNCHANGED <<attempts, failure>>
     ELSE LET code == Work[job].errors["refresh"][a]
          IN  /\ GiveUp(IF code \in {"token_revoked", "auth_failed"} THEN "plain" ELSE code,
                        FALSE, code \in Retryable)
              /\ UNCHANGED expired
  /\ UNCHANGED <<job, posts, touched, rows, granted, lost>>

-----------------------------------------------------------------------------
(***************************************************************************)
(* The calls of an attempt.                                                *)
(***************************************************************************)
Call == Plan[attempt.at]

Underway == status = "running" /\ attempt.at \in DOMAIN Plan

\* An error the connector throws itself; what is not supported the collector skips.
Refuse ==
  /\ Underway
  /\ Call.call \in Codes
  /\ IF Collects /\ Call.call = "not_supported" THEN Succeed ELSE Fail(Call.call, TRUE)
  /\ UNCHANGED <<job, posts, touched, rows, expired, granted, lost, spent>>

Writes == {"post", "channel", "update"}

\* The answers that follow from the state of the token, of the post and of its content,
\* if any do.
Forced ==
  IF Call.call \in {"read", "resolve"} THEN {}
  ELSE IF ~granted THEN {"unauthorized"}
  ELSE IF expired THEN {"expired"}
  ELSE IF Work[job].addressed /\ Call.item # 0 /\ posts = <<>> THEN {"missing", "rejected"}
  ELSE IF Call.call \in Writes /\ ~Work[job].taken THEN {"refused", "rejected"}
  ELSE {}

Possible ==
  IF Call.call = "read" THEN {"ok"}
  ELSE {a \in IF Forced # {} THEN Forced
              ELSE IF spent < MaxFaults THEN Answers \ {"unauthorized", "expired"}
              ELSE {"ok"} :
          Work[job].errors[Call.call][a] # "none"}

\* What a request that reaches the platform does there.
Happens ==
  /\ touched' = (touched \/ Call.call \in Writes \cup {"remove"})
  /\ posts' = CASE Call.call = "post" ->
                     Append(posts, [item |-> Call.item, parent |-> attempt.last, media |-> attempt.media])
                [] Call.call = "remove" -> <<>>
                [] OTHER -> posts

\* Defect: every post of a thread answers the first one.
AdvanceToFirst ==
  attempt' = [attempt EXCEPT
                !.at = @ + 1,
                !.last = IF Call.call = "post" /\ @ = 0 THEN Len(posts) + 1 ELSE @,
                !.media = IF Call.call = "post" THEN 0
                          ELSE IF Call.call \in {"read", "upload"} THEN @ + 1
                          ELSE @]

Advance ==
  attempt' = [attempt EXCEPT
                !.at = @ + 1,
                !.last = IF Call.call = "post" THEN Len(posts) + 1 ELSE @,
                !.media = IF Call.call = "post" THEN 0
                          ELSE IF Call.call \in {"read", "upload"} THEN @ + 1
                          ELSE @]

Request(a) ==
  /\ Underway
  /\ Call.call \notin Codes
  /\ a \in Possible
  /\ Spend(a = "ok" \/ Forced # {})
  /\ IF a \in {"ok", "lost"} THEN Happens ELSE UNCHANGED <<posts, touched>>
  /\ lost' = (lost \/ a = "lost")
  /\ IF a = "ok" \/ Call.caught
     THEN Advance /\ UNCHANGED <<status, attempts, failure>>
     ELSE Fail(Work[job].errors[Call.call][a], FALSE)
  /\ UNCHANGED <<job, rows, expired, granted>>

\* The result of the operation; a collection stores it first.
Finish ==
  /\ status = "running"
  /\ attempt.at = Len(Plan) + 1
  /\ Succeed
  /\ rows' = IF Collects THEN rows + 1 ELSE rows
  /\ UNCHANGED <<job, posts, touched, expired, granted, lost, spent>>

\* The insert of a snapshot throws: a plain error, which the collector reports at once.
SnapshotFails ==
  /\ status = "running"
  /\ attempt.at = Len(Plan) + 1
  /\ Collects
  /\ spent < MaxFaults
  /\ Fail("plain", FALSE)
  /\ spent' = spent + 1
  /\ UNCHANGED <<job, posts, touched, rows, expired, granted, lost>>

-----------------------------------------------------------------------------
(***************************************************************************)
(* What happens on the platform meanwhile.                                 *)
(***************************************************************************)
Open == status \in {"pending", "running"} /\ spent < MaxFaults

TokenExpires ==
  /\ Open
  /\ ~expired
  /\ Work[job].life # "endless"
  /\ expired' = TRUE
  /\ spent' = spent + 1
  /\ UNCHANGED <<job, status, attempts, attempt, failure, posts, touched, rows, granted, lost>>

AccessRevoked ==
  /\ Open
  /\ granted
  /\ granted' = FALSE
  /\ spent' = spent + 1
  /\ UNCHANGED <<job, status, attempts, attempt, failure, posts, touched, rows, expired, lost>>

PostTakenDown ==
  /\ Open
  /\ Work[job].addressed
  /\ posts # <<>>
  /\ posts' = <<>>
  /\ spent' = spent + 1
  /\ UNCHANGED <<job, status, attempts, attempt, failure, touched, rows, expired, granted, lost>>

-----------------------------------------------------------------------------
Init ==
  /\ job \in Jobs
  /\ status = "pending" /\ attempts = 0
  /\ attempt = NoAttempt /\ failure = NoFailure
  /\ posts = IF Work[job].addressed THEN <<[item |-> 1, parent |-> 0, media |-> 0]>> ELSE <<>>
  /\ touched = FALSE /\ rows = 0
  /\ expired = FALSE /\ granted = TRUE
  /\ lost = FALSE /\ spent = 0

Deliver == Start \/ (\E a \in Answers : StartRefreshing(a) \/ Request(a)) \/ Refuse \/ Finish

Next == Deliver \/ SnapshotFails \/ TokenExpires \/ AccessRevoked \/ PostTakenDown

Spec == Init /\ [][Next]_vars

\* The worker's polling loop goes on, and every request is answered or times out.
FairSpec == Spec /\ WF_vars(Deliver)

-----------------------------------------------------------------------------
\* The posts of the thread, one below the other, each with all of its media
Published ==
  LET n == Len(Work[job].media)
      m == Len(posts) - n
  IN  /\ m >= 0
      /\ \A i \in 1 .. n :
           posts[m + i] = [item |-> i, parent |-> IF i = 1 THEN 0 ELSE m + i - 1,
                           media |-> Work[job].media[i]]

(***************************************************************************)
(* A job whose row says succeeded has done what it was for, whatever went  *)
(* wrong in attempts before: the whole thread is there in one chain, the   *)
(* post is gone, the edit was made, one snapshot is stored for the         *)
(* collection, or none where the platform has no metrics.                  *)
(***************************************************************************)
SuccessIsTrue ==
  /\ status = "succeeded" =>
       CASE Work[job].operation = "publish" /\ Work[job].media # <<>> -> Published
         [] Work[job].operation = "delete" -> posts = <<>>
         [] Collects -> rows = IF Plan[1].call = "not_supported" THEN 0 ELSE 1
         [] OTHER -> touched
  /\ status # "succeeded" => rows = 0

(***************************************************************************)
(* What a connector itself refuses, because the content is not valid, no   *)
(* channel is named or the operation is not supported, it refuses before   *)
(* it has changed anything, in this attempt or an earlier one: no half of  *)
(* a thread stays behind.  A media file that cannot be read is not among   *)
(* these: the posts before it are made.                                    *)
(***************************************************************************)
RefusalsComeFirst ==
  status = "dead" /\ failure.own /\ failure.code # "plain" => ~touched

\* No further attempt can succeed: the grant is gone, or the post, or the content is one
\* the platform does not take, or the token ran out and its token set does not say so.
Hopeless ==
  \/ ~granted
  \/ Work[job].addressed /\ posts = <<>>
  \/ ~Work[job].taken
  \/ expired /\ Work[job].life = "unknown"

(***************************************************************************)
(* Retries help: unless nothing can, no two attempts fail of the same      *)
(* fault, so that a token that runs out under an attempt costs the job     *)
(* that attempt only, with the collector's tries under the same token.     *)
(***************************************************************************)
FailuresHaveCauses ==
  ~Hopeless /\ ~failure.own => attempts <= spent

(***************************************************************************)
(* A single post is made before or after nothing else that can fail: it    *)
(* appears twice only when the answer to it was lost.  For threads, and    *)
(* for a Discord post that opens a thread, this does not hold: a failure   *)
(* behind the first post makes the retry post it again.                    *)
(***************************************************************************)
Alone ==
  /\ Len(Work[job].media) = 1
  /\ \A i \in DOMAIN Plan : Plan[i].call # "openThread"

CopiesComeFromLostAnswers ==
  Alone /\ ~lost /\ ~Work[job].addressed => Len(posts) <= 1

(***************************************************************************)
(* Every delivery comes to an end, hopeless or not: the collector's tries  *)
(* and the attempts of the job are both bounded.                           *)
(***************************************************************************)
EveryDeliveryEnds == <>(status \in {"succeeded", "dead"})
=============================================================================
