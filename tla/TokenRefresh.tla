---------------------------- MODULE TokenRefresh ----------------------------
(***************************************************************************)
(* The tokens of one account: createContext, ensureFresh and doRefresh of  *)
(* packages/auth/src/token-manager.ts, the advisory lock around a refresh  *)
(* (packages/db/src/repositories/advisory-lock.ts), the rows of            *)
(* account_tokens (tokens.ts), a pass of the refresh scheduler             *)
(* (packages/auth/src/refresh-scheduler.ts), and the re-pairing and        *)
(* removal of the account (account-manager.ts).                            *)
(*                                                                         *)
(* Lock keys, token rows and single-flight entries belong to one account,  *)
(* so accounts do not interfere and one stands for all.                    *)
(*                                                                         *)
(* A token set is a number, in the order the platform issues them, and the *)
(* number of the refresh token it carries.                                 *)
(***************************************************************************)
EXTENDS Integers

CONSTANTS
  Processes,       \* application processes, each with one TokenManager
  Callers,         \* requests for the account's token that may be under way
  Home,            \* [Callers -> Processes]
  Scanners,        \* the callers that are passes of the refresh scheduler
  Policies,        \* what a refresh may do to the refresh token
  LockTtl,         \* lockTtlMs, in ticks
  AcquireTimeout,  \* acquireTimeoutMs, in ticks
  LockCoversCall,  \* does a refresh always end before its lock expires?
  MaxTokens,       \* bound: token sets the platform issues
  MaxPairings,     \* bound: re-pairings of the account
  MaxExits,        \* bound: process exits
  MaxLost,         \* bound: rotated tokens lost to a failing call
  Nobody           \* no lock holder

ASSUME TokenRefreshAssumption ==
  /\ Home \in [Callers -> Processes]
  /\ Scanners \subseteq Callers
  /\ Policies \subseteq {"rotates", "repeats", "omits"}
  /\ LockTtl \in Nat \ {0}
  /\ AcquireTimeout \in Nat
  /\ LockCoversCall \in BOOLEAN
  /\ MaxTokens \in Nat \ {0}
  /\ MaxPairings \in Nat
  /\ MaxExits \in Nat
  /\ MaxLost \in Nat
  /\ Nobody \notin Processes

VARIABLES
  \* The durable rows.
  account,   \* accounts.status, "absent" when the row is gone
  current,   \* the account_tokens row with is_current = 1
  lock,      \* the advisory_locks row: its holder and the time it has left
  \* The memory of the processes.
  flight,    \* where doRefresh stands: the entry of the in-flight map
  copy,      \* the token set that refresh has opened, or got from the platform
  verdict,   \* how it will settle
  waited,    \* the time withLock has left until its deadline
  pc,        \* where each caller stands
  seen,      \* the token set it read, in the end the one it is handed
  began,     \* the current token when its call began
  pairing,   \* a token set that was authorized and is not stored yet
  removing,  \* is removeAccount between its two deletes?
  \* The platform.
  issued,    \* token sets it has issued
  accepted,  \* refresh tokens it takes
  withdrawn, \* refresh tokens the user has withdrawn there
  rejected,  \* refresh tokens it was shown and did not take
  due,       \* token sets that are within the skew of their expiry
  \* The environment.
  pairings, exits, lost

rowVars      == <<account, current>>
flightVars   == <<flight, copy, verdict, waited>>
callerVars   == <<pc, seen, began>>
userVars     == <<pairing, removing, pairings>>
platformVars == <<issued, accepted, withdrawn, rejected, due>>
vars == <<rowVars, lock, flightVars, callerVars, userVars, platformVars, exits, lost>>

TokenSets == [number : 1 .. MaxTokens, refresh : 0 .. MaxTokens]
NoTokens  == [number |-> 0, refresh |-> 0]      \* no row; refresh 0: no refresh token
Unlocked  == [holder |-> Nobody, left |-> 0]

Flights  == {"none", "acquire", "read", "judge", "call", "store", "reauth", "release"}
Section  == {"read", "judge", "call", "store", "reauth", "release"}   \* inside withLock's fn
Verdicts == {"fresh", "failed", "revoked", "error"}
Calling  == {"checking", "waiting"}

TypeOK ==
  /\ account \in {"active", "revoked", "error", "absent"}
  /\ current \in TokenSets \cup {NoTokens}
  /\ lock \in [holder : Processes \cup {Nobody}, left : 0 .. LockTtl]
  /\ flight \in [Processes -> Flights]
  /\ copy \in [Processes -> TokenSets \cup {NoTokens}]
  /\ verdict \in [Processes -> Verdicts]
  /\ waited \in [Processes -> 0 .. AcquireTimeout]
  /\ pc \in [Callers -> Calling \cup {"idle", "done", "failed"}]
  /\ seen \in [Callers -> TokenSets \cup {NoTokens}]
  /\ began \in [Callers -> 0 .. MaxTokens]
  /\ pairing \in TokenSets \cup {NoTokens}
  /\ removing \in BOOLEAN
  /\ issued \in 1 .. MaxTokens
  /\ accepted \in SUBSET (1 .. MaxTokens)
  /\ withdrawn \in SUBSET (1 .. MaxTokens)
  /\ rejected \in SUBSET (1 .. MaxTokens)
  /\ due \in SUBSET (1 .. MaxTokens)
  /\ pairings \in 0 .. MaxPairings
  /\ exits \in 0 .. MaxExits
  /\ lost \in 0 .. MaxLost

InSection(p) == flight[p] \in Section

-----------------------------------------------------------------------------
(***************************************************************************)
(* The advisory lock.                                                      *)
(***************************************************************************)
\* Defect: a row is taken over at the last instant it is still live.
LockFreeEarly == lock.left <= 1

\* No row, or a stale one.
LockFree == lock.left = 0

\* tryAcquire succeeds: the row is inserted or taken over.
TakeLock(p) == lock' = [holder |-> p, left |-> LockTtl]

\* release: DELETE WHERE holder = me.
DropLock(p) == lock' = IF lock.holder = p THEN Unlocked ELSE lock

-----------------------------------------------------------------------------
(***************************************************************************)
(* Callers.                                                                *)
(***************************************************************************)
\* createContext reads account and current token; a scan takes active accounts.
ReadCurrent(c) ==
  /\ pc[c] \notin Calling
  /\ account # "absent" /\ current # NoTokens
  /\ c \in Scanners => account = "active"
  /\ seen' = [seen EXCEPT ![c] = current]
  /\ began' = [began EXCEPT ![c] = current.number]
  /\ pc' = [pc EXCEPT ![c] = "checking"]
  /\ UNCHANGED <<rowVars, lock, flightVars, userVars, platformVars, exits, lost>>

\* AccountNotFoundError or NoCurrentTokenError.
ReadNothing(c) ==
  /\ pc[c] \notin Calling
  /\ c \notin Scanners
  /\ account = "absent" \/ current = NoTokens
  /\ pc' = [pc EXCEPT ![c] = "failed"]
  /\ seen' = [seen EXCEPT ![c] = NoTokens]
  /\ UNCHANGED <<rowVars, lock, flightVars, began, userVars, platformVars, exits, lost>>

\* Not due: the copy that was read goes into the context as it is.
UseToken(c) ==
  /\ pc[c] = "checking"
  /\ c \notin Scanners
  /\ seen[c].number \notin due
  /\ pc' = [pc EXCEPT ![c] = "done"]
  /\ UNCHANGED <<rowVars, lock, flightVars, seen, began, userVars, platformVars, exits, lost>>

\* A scan judges by its horizon and not by the skew, so it may pass over a token
\* that is due and ask for one that is not.
SkipToken(c) ==
  /\ pc[c] = "checking"
  /\ c \in Scanners
  /\ pc' = [pc EXCEPT ![c] = "idle"]
  /\ UNCHANGED <<rowVars, lock, flightVars, seen, began, userVars, platformVars, exits, lost>>

WantsRefresh(c) == c \in Scanners \/ seen[c].number \in due

\* ensureFresh finds a refresh under way in its process.
JoinFlight(c) ==
  /\ pc[c] = "checking"
  /\ WantsRefresh(c)
  /\ flight[Home[c]] # "none"
  /\ pc' = [pc EXCEPT ![c] = "waiting"]
  /\ UNCHANGED <<rowVars, lock, flightVars, seen, began, userVars, platformVars, exits, lost>>

\* ensureFresh starts one, which runs up to the first await of withLock.
StartFlight(c) ==
  /\ pc[c] = "checking"
  /\ WantsRefresh(c)
  /\ flight[Home[c]] = "none"
  /\ pc' = [pc EXCEPT ![c] = "waiting"]
  /\ IF LockFree
       THEN /\ TakeLock(Home[c])
            /\ flight' = [flight EXCEPT ![Home[c]] = "read"]
            /\ UNCHANGED waited
       ELSE /\ flight' = [flight EXCEPT ![Home[c]] = "acquire"]
            /\ waited' = [waited EXCEPT ![Home[c]] = AcquireTimeout]
            /\ UNCHANGED lock
  /\ UNCHANGED <<rowVars, copy, verdict, seen, began, userVars, platformVars, exits, lost>>

\* The promise of p's refresh settles: all who wait for it go on.
Settle(p, with) ==
  LET waiters == { c \in Callers : Home[c] = p /\ pc[c] = "waiting" }
  IN  /\ pc' = [c \in Callers |-> IF c \notin waiters THEN pc[c]
                                  ELSE IF with = "fresh" THEN "done" ELSE "failed"]
      /\ seen' = [c \in Callers |-> IF c \notin waiters THEN seen[c]
                                    ELSE IF with = "fresh" THEN copy[p] ELSE NoTokens]

\* doRefresh returns or throws, and its locals go with it.
EndFlight(p) ==
  /\ flight' = [flight EXCEPT ![p] = "none"]
  /\ copy' = [copy EXCEPT ![p] = NoTokens]
  /\ verdict' = [verdict EXCEPT ![p] = "fresh"]
  /\ waited' = [waited EXCEPT ![p] = 0]

-----------------------------------------------------------------------------
(***************************************************************************)
(* doRefresh.                                                              *)
(***************************************************************************)
PollLock(p) ==
  /\ flight[p] = "acquire"
  /\ LockFree
  /\ TakeLock(p)
  /\ flight' = [flight EXCEPT ![p] = "read"]
  /\ waited' = [waited EXCEPT ![p] = 0]
  /\ UNCHANGED <<rowVars, copy, verdict, callerVars, userVars, platformVars, exits, lost>>

\* The deadline has passed and the row is still live.
GiveUp(p) ==
  /\ flight[p] = "acquire"
  /\ ~LockFree
  /\ waited[p] = 0
  /\ EndFlight(p)
  /\ Settle(p, "failed")
  /\ UNCHANGED <<rowVars, lock, began, userVars, platformVars, exits, lost>>

\* fn goes on in state `next`; v is how it will settle, once it comes to that.
Proceed(p, next, v) ==
  /\ flight' = [flight EXCEPT ![p] = next]
  /\ verdict' = [verdict EXCEPT ![p] = v]

ReadUnderLock(p) ==
  /\ flight[p] = "read"
  /\ IF account # "absent" /\ current # NoTokens
       THEN /\ copy' = [copy EXCEPT ![p] = current]
            /\ Proceed(p, "judge", "fresh")
       ELSE /\ Proceed(p, "release", "failed")
            /\ UNCHANGED copy
  /\ UNCHANGED <<rowVars, lock, waited, callerVars, userVars, platformVars, exits, lost>>

\* The re-check: somebody else may have refreshed already.
StillFresh(p) ==
  /\ flight[p] = "judge"
  /\ copy[p].number \notin due
  /\ Proceed(p, "release", "fresh")
  /\ UNCHANGED <<rowVars, lock, copy, waited, callerVars, userVars, platformVars, exits, lost>>

NoRefreshToken(p) ==
  /\ flight[p] = "judge"
  /\ copy[p].number \in due /\ copy[p].refresh = 0
  /\ Proceed(p, "reauth", "error")
  /\ UNCHANGED <<rowVars, lock, copy, waited, callerVars, userVars, platformVars, exits, lost>>

CallPlatform(p) ==
  /\ flight[p] = "judge"
  /\ copy[p].number \in due /\ copy[p].refresh # 0
  /\ Proceed(p, "call", "fresh")
  /\ UNCHANGED <<rowVars, lock, copy, waited, callerVars, userVars, platformVars, exits, lost>>

\* connector.refreshToken succeeds: a new access token, and a refresh token that
\* is new, the same, or not in the answer.
Granted(p, policy) ==
  /\ copy[p].refresh \in accepted
  /\ issued < MaxTokens
  /\ issued' = issued + 1
  /\ accepted' = IF policy = "rotates"
                 THEN (accepted \ {copy[p].refresh}) \cup {issued + 1} ELSE accepted
  /\ copy' = [copy EXCEPT ![p] =
       [number |-> issued + 1,
        refresh |-> CASE policy = "rotates" -> issued + 1
                      [] policy = "repeats" -> copy[p].refresh
                      [] policy = "omits"   -> 0]]
  /\ UNCHANGED <<withdrawn, rejected, due>>

RefreshGranted(p) ==
  /\ flight[p] = "call"
  /\ \E policy \in Policies : Granted(p, policy)
  /\ Proceed(p, "store", "fresh")
  /\ UNCHANGED <<rowVars, lock, waited, callerVars, userVars, exits, lost>>

\* The platform refreshes and its answer does not arrive: a TransientError.
AnswerLost(p) ==
  /\ flight[p] = "call"
  /\ lost < MaxLost
  /\ lost' = lost + 1
  /\ \E policy \in Policies : Granted(p, policy)
  /\ Proceed(p, "release", "failed")
  /\ UNCHANGED <<rowVars, lock, waited, callerVars, userVars, exits>>

\* TokenRevokedError: the platform does not take this refresh token.
RefreshRejected(p) ==
  /\ flight[p] = "call"
  /\ copy[p].refresh \notin accepted
  /\ rejected' = rejected \cup {copy[p].refresh}
  /\ Proceed(p, "reauth", "revoked")
  /\ UNCHANGED <<rowVars, lock, copy, waited, callerVars, userVars, issued, accepted, withdrawn,
                 due, exits, lost>>

\* An auth_failed that says nothing of the grant, such as a wrong client secret.
AuthFailed(p) ==
  /\ flight[p] = "call"
  /\ Proceed(p, "reauth", "error")
  /\ UNCHANGED <<rowVars, lock, copy, waited, callerVars, userVars, platformVars, exits, lost>>

\* Defect: a failed call is taken for a revocation.
TransientAsRevoked(p) ==
  /\ flight[p] = "call"
  /\ Proceed(p, "reauth", "revoked")
  /\ UNCHANGED <<rowVars, lock, copy, waited, callerVars, userVars, platformVars, exits, lost>>

\* A call that fails before it has an effect, or that cannot be made because the
\* credentials or the connector are not there, is rethrown as it is.
RefreshFailed(p) ==
  /\ flight[p] = "call"
  /\ Proceed(p, "release", "failed")
  /\ UNCHANGED <<rowVars, lock, copy, waited, callerVars, userVars, platformVars, exits, lost>>

\* Defect: the new row keeps the refresh token of the old one.
RotateKeepingRefresh(t) ==
  IF account = "absent" THEN UNCHANGED current
  ELSE current' = [t EXCEPT !.refresh = current.refresh]

\* Defect: the row is inserted although its account is gone.
RotateUnchecked(t) == current' = t

\* rotateCurrent: the foreign key refuses a token without an account.
RotateCurrent(t) ==
  IF account = "absent" THEN UNCHANGED current ELSE current' = t

StoreRefreshed(p) ==
  /\ flight[p] = "store"
  /\ RotateCurrent(copy[p])
  /\ Proceed(p, "release", IF account = "absent" THEN "failed" ELSE "fresh")
  /\ UNCHANGED <<account, lock, copy, waited, callerVars, userVars, platformVars, exits, lost>>

\* The write, or the sealing before it, throws.
StoreThrows(p) ==
  /\ flight[p] = "store"
  /\ lost < MaxLost
  /\ lost' = lost + 1
  /\ Proceed(p, "release", "failed")
  /\ UNCHANGED <<rowVars, lock, copy, waited, callerVars, userVars, platformVars, exits>>

\* markReauth: accounts.update, which throws when the row is gone.
MarkReauth(p) ==
  /\ flight[p] = "reauth"
  /\ account' = IF account = "absent" THEN account ELSE verdict[p]
  /\ Proceed(p, "release", "failed")
  /\ UNCHANGED <<current, lock, copy, waited, callerVars, userVars, platformVars, exits, lost>>

\* Defect: the entry of the in-flight map outlives its refresh.
ReleaseKeepingFlight(p) ==
  /\ flight[p] = "release"
  /\ DropLock(p)
  /\ Settle(p, verdict[p])
  /\ UNCHANGED <<rowVars, flight, copy, verdict, waited, began, userVars, platformVars, exits, lost>>

\* Defect: callers are told of success only.
ReleaseWithoutFailures(p) ==
  /\ flight[p] = "release"
  /\ DropLock(p)
  /\ EndFlight(p)
  /\ IF verdict[p] = "fresh" THEN Settle(p, "fresh") ELSE UNCHANGED <<pc, seen>>
  /\ UNCHANGED <<rowVars, began, userVars, platformVars, exits, lost>>

\* The finally of withLock, the finally of ensureFresh, and its callers.
Release(p) ==
  /\ flight[p] = "release"
  /\ DropLock(p)
  /\ EndFlight(p)
  /\ Settle(p, verdict[p])
  /\ UNCHANGED <<rowVars, began, userVars, platformVars, exits, lost>>

-----------------------------------------------------------------------------
(***************************************************************************)
(* Re-pairing and removal.                                                 *)
(***************************************************************************)
\* A completed authorization comes to addAccount, which finds the account and
\* sets it active.
UpdateAccount ==
  /\ pairings < MaxPairings /\ issued < MaxTokens
  /\ account # "absent" /\ pairing = NoTokens
  /\ pairings' = pairings + 1
  /\ issued' = issued + 1
  /\ accepted' = accepted \cup {issued + 1}
  /\ pairing' = [number |-> issued + 1, refresh |-> issued + 1]
  /\ account' = "active"
  /\ UNCHANGED <<current, lock, flightVars, callerVars, removing, withdrawn, rejected, due, exits, lost>>

\* storeTokens, which does not take the refresh lock.
StorePaired ==
  /\ pairing # NoTokens
  /\ RotateCurrent(pairing)
  /\ pairing' = NoTokens
  /\ UNCHANGED <<account, lock, flightVars, callerVars, removing, pairings, platformVars, exits, lost>>

\* storeTokens throws, or its process ends: the account was set active for nothing.
PairingLost ==
  /\ pairing # NoTokens
  /\ pairing' = NoTokens
  /\ UNCHANGED <<rowVars, lock, flightVars, callerVars, removing, pairings, platformVars, exits, lost>>

\* removeAccount: deleteByAccount ...
DeleteTokens ==
  /\ account # "absent" /\ ~removing
  /\ current' = NoTokens
  /\ removing' = TRUE
  /\ UNCHANGED <<account, lock, flightVars, callerVars, pairing, pairings, platformVars, exits, lost>>

\* ... and accounts.delete, which cascades to account_tokens.
DeleteAccount ==
  /\ removing
  /\ account' = "absent"
  /\ current' = NoTokens
  /\ removing' = FALSE
  /\ UNCHANGED <<lock, flightVars, callerVars, pairing, pairings, platformVars, exits, lost>>

-----------------------------------------------------------------------------
(***************************************************************************)
(* The environment.                                                        *)
(***************************************************************************)
\* Process p ends and is started again, with a new worker id; its lock row and
\* the requests it served are left to themselves.
Exit(p) ==
  /\ exits < MaxExits
  /\ exits' = exits + 1
  /\ EndFlight(p)
  /\ lock' = IF lock.holder = p THEN [lock EXCEPT !.holder = Nobody] ELSE lock
  /\ pc' = [c \in Callers |-> IF Home[c] = p THEN "idle" ELSE pc[c]]
  /\ seen' = [c \in Callers |-> IF Home[c] = p THEN NoTokens ELSE seen[c]]
  /\ UNCHANGED <<rowVars, began, userVars, platformVars, lost>>

\* The user revokes the application on the platform.
Withdraw ==
  /\ accepted # {}
  /\ withdrawn' = withdrawn \cup accepted
  /\ accepted' = {}
  /\ UNCHANGED <<rowVars, lock, flightVars, callerVars, userVars, issued, rejected, due, exits, lost>>

\* Time brings a token within the skew of its expiry; the last one stays fresh.
BecomeDue(n) ==
  /\ n \in 1 .. issued /\ n < MaxTokens
  /\ due' = due \cup {n}
  /\ UNCHANGED <<rowVars, lock, flightVars, callerVars, userVars, issued, accepted, withdrawn,
                 rejected, exits, lost>>

\* Time passes for the lock row and for those who wait for it.
Earlier(left) == IF left > 0 THEN left - 1 ELSE 0

Tick ==
  /\ lock.left > 0 \/ \E p \in Processes : waited[p] > 0
  /\ LockCoversCall => ~(lock.left = 1 /\ \E p \in Processes : lock.holder = p /\ InSection(p))
  /\ lock' = [lock EXCEPT !.left = Earlier(@)]
  /\ waited' = [p \in Processes |-> Earlier(waited[p])]
  /\ UNCHANGED <<rowVars, flight, copy, verdict, callerVars, userVars, platformVars, exits, lost>>

Init ==
  /\ account = "active"
  /\ current = [number |-> 1, refresh |-> 1]
  /\ lock = Unlocked
  /\ flight = [p \in Processes |-> "none"]
  /\ copy = [p \in Processes |-> NoTokens]
  /\ verdict = [p \in Processes |-> "fresh"]
  /\ waited = [p \in Processes |-> 0]
  /\ pc = [c \in Callers |-> "idle"]
  /\ seen = [c \in Callers |-> NoTokens]
  /\ began = [c \in Callers |-> 0]
  /\ pairing = NoTokens
  /\ removing = FALSE
  /\ issued = 1
  /\ accepted = {1}
  /\ withdrawn = {}
  /\ rejected = {}
  /\ due = {}
  /\ pairings = 0 /\ exits = 0 /\ lost = 0

CallerStep(c) ==
  \/ UseToken(c) \/ SkipToken(c) \/ JoinFlight(c) \/ StartFlight(c)

RefreshStep(p) ==
  \/ PollLock(p) \/ GiveUp(p)
  \/ ReadUnderLock(p) \/ StillFresh(p) \/ NoRefreshToken(p) \/ CallPlatform(p)
  \/ RefreshGranted(p) \/ AnswerLost(p) \/ RefreshRejected(p) \/ AuthFailed(p) \/ RefreshFailed(p)
  \/ StoreRefreshed(p) \/ StoreThrows(p) \/ MarkReauth(p) \/ Release(p)

Next ==
  \/ \E c \in Callers : ReadCurrent(c) \/ ReadNothing(c) \/ CallerStep(c)
  \/ \E p \in Processes : RefreshStep(p) \/ Exit(p)
  \/ UpdateAccount \/ StorePaired \/ PairingLost \/ DeleteTokens \/ DeleteAccount
  \/ Withdraw \/ (\E n \in 1 .. MaxTokens : BecomeDue(n)) \/ Tick

Spec == Init /\ [][Next]_vars

\* Every await of a caller and of a refresh settles, and time passes; nobody has
\* to call, to pair, to remove or to revoke.
FairSpec ==
  /\ Spec
  /\ \A c \in Callers : WF_vars(CallerStep(c))
  /\ \A p \in Processes : WF_vars(RefreshStep(p))
  /\ WF_vars(Tick)

-----------------------------------------------------------------------------
(***************************************************************************)
(* Properties.                                                             *)
(***************************************************************************)
\* Two processes are never inside the refresh of one account.
OneRefreshAtATime ==
  \A p, q \in Processes : InSection(p) /\ InSection(q) => p = q

\* The platform refuses a refresh token only because the user withdrew it, and
\* never because the application used it up: unless a rotated token was lost in
\* a crash or in a failing call.
NoWedge == exits = 0 /\ lost = 0 => rejected \subseteq withdrawn

\* An account is shown as revoked only while its stored token cannot be
\* refreshed any more (a re-pairing under way aside).
RevokedIsReal ==
  pairings = 0 /\ account = "revoked" => current.refresh \notin accepted

\* Refreshing is safe: refreshes exclude each other, use no refresh token up for
\* nothing and give no account up that could be refreshed.
RefreshIsSafe == OneRefreshAtATime /\ NoWedge /\ RevokedIsReal

\* Who asks for a token never gets one that had been replaced before it asked.
HandsOutCurrent ==
  pairings = 0 => \A c \in Callers : pc[c] = "done" => began[c] <= seen[c].number

\* An account that was removed leaves no token behind, whatever refresh or
\* pairing was under way.
RemovalPurges == account = "absent" => current = NoTokens

\* A stored token set is only ever replaced by a later one.
CurrentMovesOn ==
  [][pairings' = 0 /\ current' # NoTokens => current.number <= current'.number]_vars

\* A caller that waits for a refresh is answered, even when the process that
\* holds the lock has gone away.
EveryCallSettles == \A c \in Callers : pc[c] = "waiting" ~> pc[c] # "waiting"

-----------------------------------------------------------------------------
(***************************************************************************)
(* The contract the token manager implements: the one refresh there is, is *)
(* what the holder of the lock is doing.                                   *)
(***************************************************************************)
Resting == {"none", "acquire", "read", "release"}

Stage(p) ==
  CASE flight[p] \in Resting -> "idle"
    [] flight[p] = "store"   -> "granted"
    [] flight[p] = "reauth" /\ verdict[p] = "revoked" -> "refused"
    [] OTHER                 -> "held"

HolderStage == IF lock.holder = Nobody THEN "idle" ELSE Stage(lock.holder)

HolderCopy == IF HolderStage = "idle" THEN NoTokens ELSE copy[lock.holder]

Contract == INSTANCE RotationContract WITH
  status <- account,
  stored <- current,
  stage <- HolderStage,
  token <- HolderCopy,
  paired <- pairing

\* Requests, scans, single flights, the lock, its expiry and crashes together are
\* an implementation of RotationContract: as if one refresher did it all.
ImplementsContract == Contract!Spec
=============================================================================
