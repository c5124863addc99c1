------------------------------- MODULE Pairing --------------------------------
(***************************************************************************)
(* How an account is connected: the wizard's redirect step                 *)
(* (packages/ui/src/wizard/RedirectConnectStep.tsx), the pairing routes    *)
(* and their outcomes (packages/api/src/pairing-routes.ts,                 *)
(* pairing-outcomes.ts), the coordinator with its sessions                 *)
(* (packages/auth/src/oauth/flow.ts, state-store.ts), the account manager  *)
(* that writes the account and then its token (account-manager.ts), and    *)
(* the application credentials every exchange is made with                 *)
(* (packages/pipeline/src/app-credentials.ts, secure-app-credentials.ts).  *)
(* Tokens and credentials are sealed as Vault says.                        *)
(*                                                                         *)
(* One platform.  Sessions, outcomes and the credentials in use are in the *)
(* memory of the server and end with it; accounts, tokens and the sealed   *)
(* credentials are rows.  A person approves or refuses on the platform's   *)
(* page, whose redirect reaches the server as a callback, or never does.   *)
(***************************************************************************)
EXTENDS Vault, FiniteSets, Sequences

CONSTANTS
  Remotes,      \* accounts of the platform
  Tabs,         \* tabs with the wizard
  BaseScopes,   \* the platform's scopes in the catalogue: those every pairing needs,
  PublishScopes, \* and those of publishing, the operation the wizard connects for
  None,         \* no state, no remote account, no refresh token
  MaxStates,    \* bound: pairings the wizard begins
  MaxRequests,  \* bound: requests the server works on at once
  MaxPolls,     \* bound: answers under way to the polls of one tab
  MaxCallbacks, \* bound: times the browser loads one callback
  MaxSaves,     \* bound: times application credentials are saved
  MaxEvents     \* bound: other pairings, removals, later saves, expiries, closed tabs, callbacks
                \*   loaded again, writes that fail and restarts, all together

ASSUME PairingAssumption ==
  /\ MaxStates \in Nat /\ MaxRequests \in Nat /\ MaxPolls \in Nat
  /\ MaxCallbacks \in Nat /\ MaxSaves \in Nat \ {0} /\ MaxEvents \in Nat
  /\ None \notin Nat

\* The random `state` values, in the order they are drawn in, and the requests of the server.
States == 1 .. MaxStates
Requests == 1 .. MaxRequests

VARIABLES
  grant,    \* platform: what became of the approval of a state
  client,   \* the application a state was begun with
  session,  \* states with a pairing session
  outcome,  \* what poll answers for a state
  request,  \* the requests under way
  account,  \* the id of the account row of each remote account, 0 for none
  current,  \* its current token: where it came from and the application it was issued to
  removing, \* the id whose tokens are purged and whose row is about to be deleted
  app,      \* credentials in memory, sealed, being sealed, and those whose sealing failed;
            \*   the key in use and the one in the key file
  tab,      \* the tabs
  lastId,   \* ids given to account rows
  stored,   \* the account each state stored a token for
  used,     \* exchanges and callbacks of each state, and the events so far
  marks     \* ids left between two writes, ids being removed, states a restart forgot

vars == <<grant, client, session, outcome, request, account, current, removing, app, tab,
          lastId, stored, used, marks>>

Ids == 1 .. (Cardinality(States) + MaxEvents)
Room == used.events < MaxEvents
Event == used' = [used EXCEPT !.events = @ + 1]
Free(q) == request[q].stage \in {"idle", "created", "refused"}
IsNext(q) == Free(q) /\ \A p \in 1 .. q - 1 : ~Free(p)
Idle == [kind |-> "none", of |-> None, stage |-> "idle", remote |-> None, id |-> 0, scopes |-> {}]

\* beginPairing asks for these scopes, and finishPairing accepts no fewer.
Requested == BaseScopes \cup PublishScopes
Missing(granted) == Requested \ granted

\* A stored token, sealed for its account; scopes were granted to an exchanged code only.
Bundle(kind) == [access |-> kind, refresh |-> IF kind = "token" THEN None ELSE kind]
Token(kind, id, version, scopes) ==
  [kind |-> kind, app |-> version, scopes |-> scopes,
   row |-> CHOOSE row \in SealToken(Keyring(app.key), id, Bundle(kind)) : TRUE]

NoToken == [kind |-> "none"]

\* The saved settings: the application's credentials, sealed for the platform.
Platform == "twitch"
Setting(key, version) ==
  [p \in {Platform} |-> CHOOSE row \in SealCredentials(Keyring(key), p, version) : TRUE]

\* No answer to a poll is under way.
NoAnswer == [of |-> None, outcome |-> "pending"]

TypeOK ==
  /\ grant \in [States -> {"none", "asked", "lost", "granted", "denied", "used"}]
  /\ client \in [States -> 0 .. MaxSaves] /\ session \subseteq States
  /\ outcome \in [States -> {"pending", "succeeded", "failed"}]
  /\ request \in [Requests ->
       [kind : {"none", "redirect", "password", "token"}, of : States \cup {None},
        stage : {"idle", "exchange", "lookup", "insert", "update", "store", "bootstrap",
                 "report", "created", "refused"},
        remote : Remotes \cup {None}, id : 0 .. Cardinality(Ids), scopes : SUBSET Requested]]
  /\ account \in [Remotes -> 0 .. Cardinality(Ids)]
  /\ current \in [Remotes ->
       {NoToken} \cup {Token(k, i, v, g) : k \in {"redirect", "password", "token", "bootstrap"},
                      i \in Ids, v \in 0 .. MaxSaves, g \in SUBSET Requested}]
  /\ removing \in [Remotes -> 0 .. Cardinality(Ids)]
  /\ app.memory \in 0 .. MaxSaves /\ app.sealed \in {Setting(app.file, v) : v \in 1 .. MaxSaves}
  /\ app.unsealed \subseteq 1 .. MaxSaves /\ \A i \in DOMAIN app.sealing : app.sealing[i] \in 1 .. MaxSaves
  /\ tab \in [Tabs ->
       [phase : {"register", "connecting", "connected", "closed"}, asking : SUBSET States,
        polling : SUBSET States, ref : States \cup {None},
        answer : [1 .. MaxPolls -> [of : States \cup {None}, outcome : {"pending", "succeeded", "failed"}]]]]
  /\ lastId \in 0 .. Cardinality(Ids) /\ stored \in [States -> 0 .. Cardinality(Ids)]

\* The first start found no key file.
FirstKey == LoadOrCreateKey(0, 1)

\* The wizard has saved an application before it connects anything.
Init ==
  /\ grant = [s \in States |-> "none"] /\ client = [s \in States |-> 0]
  /\ session = {} /\ outcome = [s \in States |-> "pending"]
  /\ request = [q \in Requests |-> Idle]
  /\ account = [r \in Remotes |-> 0] /\ current = [r \in Remotes |-> NoToken]
  /\ removing = [r \in Remotes |-> 0]
  /\ app = [memory |-> 1, sealed |-> Setting(FirstKey, 1), sealing |-> <<>>, unsealed |-> {},
            saves |-> 1, key |-> FirstKey, file |-> FirstKey]
  /\ tab = [w \in Tabs |-> [phase |-> "register", asking |-> {}, polling |-> {}, ref |-> None,
                            answer |-> [i \in 1 .. MaxPolls |-> NoAnswer]]]
  /\ lastId = 0 /\ stored = [s \in States |-> 0]
  /\ used = [exchanges |-> [s \in States |-> 0], callbacks |-> [s \in States |-> 0],
             events |-> 0]
  /\ marks = [halfway |-> {}, removed |-> {}, forgotten |-> {}]

-------------------------------------------------------------------------------
(* Application credentials *)

\* The wizard saves an application: in use at once, then sealed.
SaveApp ==
  /\ app.saves < MaxSaves /\ Room /\ Event
  /\ app' = [app EXCEPT !.saves = @ + 1, !.memory = app.saves + 1,
                        !.sealing = Append(@, app.saves + 1)]
  /\ UNCHANGED <<grant, client, session, outcome, request, account, current, removing, tab,
                 lastId, stored, marks>>

Seal ==
  /\ app.sealing # <<>>
  /\ app' = [app EXCEPT !.sealed = Setting(app.key, Head(app.sealing)), !.sealing = Tail(@)]
  /\ UNCHANGED <<grant, client, session, outcome, request, account, current, removing, tab,
                 lastId, stored, used, marks>>

\* The key or the row cannot be written: the request fails, the memory keeps what it was given.
SealFails ==
  /\ app.sealing # <<>> /\ Room
  /\ app' = [app EXCEPT !.unsealed = @ \cup {Head(app.sealing)}, !.sealing = Tail(@)]
  /\ Event
  /\ UNCHANGED <<grant, client, session, outcome, request, account, current, removing, tab,
                 lastId, stored, marks>>

\* What a start finds: the key file, and the sealed credentials, read back into memory.
Reloaded ==
  LET key == LoadOrCreateKey(app.file, app.key + 1)
      loaded == LoadAll(Keyring(key), {Platform}, app.sealed)
  IN  [app EXCEPT !.memory = CredentialsInUse(loaded, Platform, 0), !.sealing = <<>>,
                  !.unsealed = @ \cup {app.sealing[i] : i \in DOMAIN app.sealing},
                  !.key = key]

-------------------------------------------------------------------------------
(* The wizard *)

Unused == {s \in States : grant[s] = "none" /\ \A v \in Tabs : s \notin tab[v].asking}

\* handleConnect, up to the request.
Connect(w, s) ==
  /\ tab[w].phase = "register"
  /\ s \in Unused /\ \A t \in Unused : s <= t
  /\ tab' = [tab EXCEPT ![w].phase = "connecting", ![w].asking = @ \cup {s}]
  /\ UNCHANGED <<grant, client, session, outcome, request, account, current, removing, app,
                 lastId, stored, used, marks>>

\* beginPairing and its answer: the session is kept, the platform's page opens, polling starts.
Begun(w, s) ==
  /\ s \in tab[w].asking
  /\ session' = session \cup {s}
  /\ client' = [client EXCEPT ![s] = app.memory]
  /\ outcome' = [outcome EXCEPT ![s] = "pending"]
  /\ grant' = [grant EXCEPT ![s] = "asked"]
  /\ tab' = [tab EXCEPT ![w].asking = @ \ {s}, ![w].polling = @ \cup {s}, ![w].ref = s]
  /\ UNCHANGED <<request, account, current, removing, app, lastId, stored, used, marks>>

\* The request fails, or its answer is lost: then the session is there, and the page never opens.
BeginFails(w, s, reached) ==
  /\ s \in tab[w].asking
  /\ IF reached
       THEN session' = session \cup {s} /\ grant' = [grant EXCEPT ![s] = "lost"]
       ELSE UNCHANGED <<session, grant>>
  /\ tab' = [tab EXCEPT ![w].asking = @ \ {s}, ![w].phase = "register"]
  /\ UNCHANGED <<client, outcome, request, account, current, removing, app, lastId, stored, used,
                 marks>>

\* A poll that finds a result sends it back; one that finds the pairing pending changes nothing.
Poll(w, s, i) ==
  /\ s \in tab[w].polling /\ tab[w].phase # "closed"
  /\ outcome[s] # "pending"
  /\ tab[w].answer[i] = NoAnswer /\ \A j \in 1 .. i - 1 : tab[w].answer[j] # NoAnswer
  /\ tab' = [tab EXCEPT ![w].answer[i] = [of |-> s, outcome |-> outcome[s]]]
  /\ UNCHANGED <<grant, client, session, outcome, request, account, current, removing, app,
                 lastId, stored, used, marks>>

\* It arrives, perhaps after others: the last interval that was set ends, whichever that is.
Answer(w, i) ==
  /\ tab[w].answer[i] # NoAnswer /\ tab[w].phase # "closed"
  /\ tab' = [tab EXCEPT ![w].answer[i] = NoAnswer,
                        ![w].polling = @ \ {tab[w].ref},
                        ![w].phase = IF tab[w].answer[i].outcome = "succeeded" THEN "connected"
                                                                              ELSE "register"]
  /\ UNCHANGED <<grant, client, session, outcome, request, account, current, removing, app,
                 lastId, stored, used, marks>>

\* The tab is closed, and its timers and requests with it.
Close(w) ==
  /\ tab[w].phase # "closed" /\ Room /\ Event
  /\ tab' = [tab EXCEPT ![w] = [phase |-> "closed", asking |-> {}, polling |-> {}, ref |-> None,
                                answer |-> [i \in 1 .. MaxPolls |-> NoAnswer]]]
  /\ UNCHANGED <<grant, client, session, outcome, request, account, current, removing, app,
                 lastId, stored, marks>>

-------------------------------------------------------------------------------
(* The platform and its redirect *)

Decide(s, answer) ==
  /\ grant[s] = "asked" /\ answer \in {"granted", "denied"}
  /\ grant' = [grant EXCEPT ![s] = answer]
  /\ UNCHANGED <<client, session, outcome, request, account, current, removing, app, tab,
                 lastId, stored, used, marks>>

Loads(s) == used.callbacks[s] < MaxCallbacks /\ (used.callbacks[s] = 0 \/ Room)
Loaded(s) == [used EXCEPT !.callbacks[s] = @ + 1, !.events = IF used.callbacks[s] = 0 THEN @ ELSE @ + 1]

\* Defect: only the person is told, not the wizard.
UntoldRefusal(s) ==
  /\ grant[s] = "denied" /\ Loads(s)
  /\ used' = Loaded(s)
  /\ UNCHANGED <<grant, client, session, outcome, request, account, current, removing, app, tab,
                 lastId, stored, marks>>

\* The callback of a person who refused.  The session is left alone.
RefusedCallback(s) ==
  /\ grant[s] = "denied" /\ Loads(s)
  /\ used' = Loaded(s)
  /\ outcome' = [outcome EXCEPT ![s] = "failed"]
  /\ UNCHANGED <<grant, client, session, request, account, current, removing, app, tab,
                 lastId, stored, marks>>

\* Defect: the session is looked at and not taken.
Kept(s) == session

\* take: a session serves one callback.
Taken(s) == session \ {s}

\* The callback with a code: completePairing up to the exchange, or a failure on an unknown state.
Callback(q, s, r) ==
  /\ grant[s] \in {"granted", "used"} /\ Loads(s)
  /\ IsNext(q)
  /\ used' = Loaded(s)
  /\ session' = Taken(s)
  /\ IF s \in session
       THEN /\ request' = [request EXCEPT ![q] = [kind |-> "redirect", of |-> s, stage |-> "exchange",
                                                  remote |-> r, id |-> 0, scopes |-> {}]]
            /\ UNCHANGED outcome
       ELSE outcome' = [outcome EXCEPT ![s] = "failed"] /\ UNCHANGED request
  /\ UNCHANGED <<grant, client, account, current, removing, app, tab, lastId, stored, marks>>

-------------------------------------------------------------------------------
(* Requests under way *)

\* pairWithPassword and pairWithToken: a password is exchanged, a token is stored as it is.
Direct(q, kind, r) ==
  /\ IsNext(q) /\ Room /\ Event
  /\ request' = [request EXCEPT ![q] =
       [kind |-> kind, of |-> None, stage |-> IF kind = "password" THEN "exchange" ELSE "lookup",
        remote |-> r, id |-> 0, scopes |-> {}]]
  /\ UNCHANGED <<grant, client, session, outcome, account, current, removing, app, tab, lastId,
                 stored, marks>>

\* A request ends in an error: the callback's is the outcome, the others answer 400.
Fail(q) ==
  LET c == request[q] IN
  IF c.kind = "redirect"
    THEN /\ outcome' = [outcome EXCEPT ![c.of] = "failed"]
         /\ request' = [request EXCEPT ![q] = Idle]
    ELSE request' = [request EXCEPT ![q].stage = "refused"] /\ UNCHANGED outcome

\* The exchange succeeds: a code that is unused, shown by the application it was issued to.
\* The person may have granted fewer scopes than were asked for.
Exchange(q, granted) ==
  LET c == request[q] IN
  /\ c.stage = "exchange"
  /\ IF c.kind = "redirect"
       THEN /\ grant[c.of] = "granted" /\ client[c.of] = app.memory
            /\ grant' = [grant EXCEPT ![c.of] = "used"]
            /\ used' = [used EXCEPT !.exchanges[c.of] = @ + 1]
            /\ IF Missing(granted) = {}
                 THEN /\ request' = [request EXCEPT ![q].stage = "lookup", ![q].scopes = granted]
                      /\ UNCHANGED outcome
                 ELSE Fail(q)
       ELSE /\ request' = [request EXCEPT ![q].stage = "lookup"]
            /\ UNCHANGED <<grant, used, outcome>>
  /\ UNCHANGED <<client, session, account, current, removing, app, tab, lastId, stored, marks>>

\* It fails, is refused, or brings no token or no profile; the code may be used up by then.
ExchangeFails(q, reached) ==
  LET c == request[q] IN
  /\ c.stage = "exchange"
  /\ IF c.kind = "redirect"
       THEN /\ grant' = [grant EXCEPT ![c.of] = IF reached THEN "used" ELSE @]
            /\ used' = [used EXCEPT !.exchanges[c.of] = @ + 1]
       ELSE UNCHANGED <<grant, used>>
  /\ Fail(q)
  /\ UNCHANGED <<client, session, account, current, removing, app, tab, lastId, stored, marks>>

\* addAccount: is there a row for the remote account?
Lookup(q) ==
  LET c == request[q] IN
  /\ c.stage = "lookup"
  /\ request' = [request EXCEPT ![q].id = account[c.remote],
                                ![q].stage = IF account[c.remote] = 0 THEN "insert" ELSE "update"]
  /\ UNCHANGED <<grant, client, session, outcome, account, current, removing, app, tab, lastId,
                 stored, used, marks>>

\* No: insert one, which throws when another request has done so meanwhile.
InsertAccount(q) ==
  LET c == request[q] IN
  /\ c.stage = "insert"
  /\ IF account[c.remote] = 0
       THEN /\ lastId' = lastId + 1
            /\ account' = [account EXCEPT ![c.remote] = lastId + 1]
            /\ request' = [request EXCEPT ![q].id = lastId + 1, ![q].stage = "store"]
            /\ UNCHANGED outcome
       ELSE Fail(q) /\ UNCHANGED <<lastId, account>>
  /\ UNCHANGED <<grant, client, session, current, removing, app, tab, stored, used, marks>>

\* Yes: update it, which is rejected when it has been removed meanwhile.
UpdateAccount(q) ==
  LET c == request[q] IN
  /\ c.stage = "update"
  /\ IF account[c.remote] = c.id
       THEN request' = [request EXCEPT ![q].stage = "store"] /\ UNCHANGED outcome
       ELSE Fail(q)
  /\ UNCHANGED <<grant, client, session, account, current, removing, app, tab, lastId, stored,
                 used, marks>>

\* Defect: storeTokens is not awaited, so its failure is nobody's.
ReportFirst(q) ==
  LET c == request[q] IN
  /\ c.stage = "store"
  /\ IF c.kind = "redirect"
       THEN outcome' = [outcome EXCEPT ![c.of] = "succeeded"] /\ request' = [request EXCEPT ![q] = Idle]
       ELSE request' = [request EXCEPT ![q].stage = "report"] /\ UNCHANGED outcome
  /\ UNCHANGED <<grant, client, session, account, current, removing, app, tab, lastId, stored,
                 used, marks>>

\* storeTokens: the token becomes the current one of the account, if there still is one.
Store(q) ==
  LET c == request[q] IN
  /\ c.stage = "store"
  /\ IF account[c.remote] = c.id
       THEN /\ current' = [current EXCEPT ![c.remote] =
                            Token(c.kind, c.id, IF c.kind = "redirect" THEN client[c.of] ELSE 0, c.scopes)]
            /\ stored' = IF c.kind = "redirect" THEN [stored EXCEPT ![c.of] = c.id] ELSE stored
            /\ request' = [request EXCEPT ![q].stage = IF c.kind = "password" THEN "bootstrap" ELSE "report"]
            /\ UNCHANGED outcome
       ELSE Fail(q) /\ UNCHANGED <<current, stored>>
  /\ UNCHANGED <<grant, client, session, account, removing, app, tab, lastId, used, marks>>

\* Sealing the token or writing it fails: the account stays as it was written.
StoreFails(q) ==
  LET c == request[q] IN
  /\ c.stage \in {"store", "bootstrap"} /\ Room
  /\ Event
  /\ marks' = [marks EXCEPT !.halfway = @ \cup {c.id}]
  /\ Fail(q)
  /\ UNCHANGED <<grant, client, session, account, current, removing, app, tab, lastId, stored>>

\* Defect: the bootstrap secret is stored like any token.
BootstrapAsCurrent(q) ==
  LET c == request[q] IN
  /\ c.stage = "bootstrap"
  /\ IF account[c.remote] = c.id
       THEN /\ current' = [current EXCEPT ![c.remote] = Token("bootstrap", c.id, 0, {})]
            /\ request' = [request EXCEPT ![q].stage = "report"] /\ UNCHANGED outcome
       ELSE Fail(q) /\ UNCHANGED current
  /\ UNCHANGED <<grant, client, session, account, removing, app, tab, lastId, stored, used, marks>>

\* The password is stored beside the current token; rows that are not current have no reader here.
Bootstrap(q) ==
  LET c == request[q] IN
  /\ c.stage = "bootstrap"
  /\ IF account[c.remote] = c.id
       THEN request' = [request EXCEPT ![q].stage = "report"] /\ UNCHANGED outcome
       ELSE Fail(q)
  /\ UNCHANGED <<grant, client, session, account, current, removing, app, tab, lastId, stored,
                 used, marks>>

\* The pairing is complete: the outcome says so, or the request is answered 201.
Report(q) ==
  LET c == request[q] IN
  /\ c.stage = "report"
  /\ IF c.kind = "redirect"
       THEN outcome' = [outcome EXCEPT ![c.of] = "succeeded"] /\ request' = [request EXCEPT ![q] = Idle]
       ELSE request' = [request EXCEPT ![q].stage = "created"] /\ UNCHANGED outcome
  /\ UNCHANGED <<grant, client, session, account, current, removing, app, tab, lastId, stored,
                 used, marks>>

-------------------------------------------------------------------------------
(* Disconnecting an account, time, and restarts *)

\* removeAccount: the tokens first.
PurgeTokens(r) ==
  /\ account[r] # 0 /\ removing[r] = 0 /\ Room /\ Event
  /\ current' = [current EXCEPT ![r] = NoToken]
  /\ removing' = [removing EXCEPT ![r] = account[r]]
  /\ marks' = [marks EXCEPT !.removed = @ \cup {account[r]}]
  /\ UNCHANGED <<grant, client, session, outcome, request, account, app, tab, lastId, stored>>

\* Then the row, and with it any token stored in between.
DeleteAccount(r) ==
  /\ removing[r] # 0
  /\ account' = [account EXCEPT ![r] = 0] /\ current' = [current EXCEPT ![r] = NoToken]
  /\ removing' = [removing EXCEPT ![r] = 0]
  /\ UNCHANGED <<grant, client, session, outcome, request, app, tab, lastId, stored, used, marks>>

\* Ten minutes after it was begun.
SessionExpires(s) ==
  /\ s \in session /\ Room /\ Event
  /\ session' = session \ {s}
  /\ UNCHANGED <<grant, client, outcome, request, account, current, removing, app, tab, lastId,
                 stored, marks>>

\* Fifteen minutes after it was written.  A tab that polls every two seconds has read it by then.
OutcomeExpires(s) ==
  /\ outcome[s] # "pending" /\ \A w \in Tabs : s \notin tab[w].polling
  /\ Room /\ Event
  /\ outcome' = [outcome EXCEPT ![s] = "pending"]
  /\ UNCHANGED <<grant, client, session, request, account, current, removing, app, tab, lastId,
                 stored, marks>>

Restart ==
  /\ Room
  /\ Event
  /\ session' = {} /\ outcome' = [s \in States |-> "pending"]
  /\ request' = [q \in Requests |-> Idle]
  /\ removing' = [r \in Remotes |-> 0]
  /\ app' = Reloaded
  /\ marks' = [marks EXCEPT
       !.halfway = @ \cup {request[q].id : q \in {p \in Requests : request[p].stage = "store"}}
                     \cup ({removing[r] : r \in Remotes} \ {0}),
       !.forgotten = @ \cup {s \in States : used.callbacks[s] > 0}]
  /\ UNCHANGED <<grant, client, account, current, tab, lastId, stored>>

Next ==
  \/ SaveApp \/ Seal \/ SealFails \/ Restart
  \/ \E w \in Tabs, s \in States : Connect(w, s) \/ Begun(w, s)
  \/ \E w \in Tabs, s \in States, b \in BOOLEAN : BeginFails(w, s, b)
  \/ \E w \in Tabs, s \in States, i \in 1 .. MaxPolls : Poll(w, s, i)
  \/ \E w \in Tabs, i \in 1 .. MaxPolls : Answer(w, i)
  \/ \E w \in Tabs : Close(w)
  \/ \E s \in States, a \in {"granted", "denied"} : Decide(s, a)
  \/ \E s \in States : RefusedCallback(s) \/ SessionExpires(s) \/ OutcomeExpires(s)
  \/ \E q \in Requests, s \in States, r \in Remotes : Callback(q, s, r)
  \/ \E q \in Requests, k \in {"password", "token"}, r \in Remotes : Direct(q, k, r)
  \/ \E q \in Requests, g \in SUBSET Requested : Exchange(q, g)
  \/ \E q \in Requests, b \in BOOLEAN : ExchangeFails(q, b)
  \/ \E q \in Requests :
       \/ Lookup(q) \/ InsertAccount(q) \/ UpdateAccount(q)
       \/ Store(q) \/ StoreFails(q) \/ Bootstrap(q) \/ Report(q)
  \/ \E r \in Remotes : PurgeTokens(r) \/ DeleteAccount(r)

\* A request that has arrived goes on.
Progress(q) ==
  \/ (\E g \in SUBSET Requested : Exchange(q, g)) \/ (\E b \in BOOLEAN : ExchangeFails(q, b))
  \/ Lookup(q) \/ InsertAccount(q) \/ UpdateAccount(q) \/ Store(q) \/ Bootstrap(q) \/ Report(q)

\* The browser follows the platform's redirect once; the timer of the wizard goes off and its
\* requests are answered, as long as the tab is open.
Fairness ==
  /\ \A q \in Requests : WF_vars(Progress(q))
  /\ \A s \in States :
       WF_vars(used.callbacks[s] = 0
               /\ (RefusedCallback(s) \/ \E q \in Requests, r \in Remotes : Callback(q, s, r)))
  /\ \A w \in Tabs, s \in States : WF_vars(\E i \in 1 .. MaxPolls : Poll(w, s, i))
  /\ \A w \in Tabs, i \in 1 .. MaxPolls : WF_vars(Answer(w, i))

Spec == Init /\ [][Next]_vars /\ Fairness

-------------------------------------------------------------------------------
(* Properties *)

\* take makes a state single use: however often the callback is loaded, and whatever expires,
\* is lost or is removed meanwhile, its code goes to the platform at most once.
CodeIsExchangedOnce == \A s \in States : used.exchanges[s] <= 1

Removed(id) == id \in marks.removed
Holds(id) == \E r \in Remotes : account[r] = id /\ current[r] # NoToken
Publishes(id) ==
  \A r \in Remotes :
    account[r] = id /\ current[r] # NoToken /\ current[r].kind = "redirect" =>
      PublishScopes \subseteq current[r].scopes

\* What is told is true: succeeded, to the wizard or with a 201, means that the account is there
\* with a token that may publish, or has been disconnected since.  Failed means that nothing was
\* stored, unless the callback was loaded again: the second load fails on the used state and
\* overwrites what the first achieved (pairing-routes.ts:123).
OutcomeIsTrue ==
  /\ \A s \in States :
       /\ outcome[s] = "succeeded" =>
            stored[s] # 0 /\ Publishes(stored[s]) /\ (Holds(stored[s]) \/ Removed(stored[s]))
       /\ outcome[s] = "failed" => stored[s] = 0 \/ used.callbacks[s] > 1
  /\ \A q \in Requests :
       request[q].stage = "created" => Holds(request[q].id) \/ Removed(request[q].id)

\* An account that is there can be used: it has a current token, which opens for this account
\* under the key of the running server, however often it was restarted (context.ts:146), and is
\* never the bootstrap secret; unless its pairing or its removal is between its two writes or was
\* stopped there (account-manager.ts:97).
AccountsAreUsable ==
  \A r \in Remotes :
    /\ account[r] # 0 /\ current[r] = NoToken =>
         \/ account[r] = removing[r] \/ account[r] \in marks.halfway
         \/ \E q \in Requests : request[q].stage = "store" /\ request[q].id = account[r]
    /\ current[r] # NoToken =>
         /\ account[r] # 0 /\ current[r].kind # "bootstrap"
         /\ OpenToken(Keyring(app.key), account[r], current[r].row) # {}

\* A token can be refreshed only with the application it was issued to: however often the server
\* restarts, it does not fall back to an earlier one, unless sealing it failed or was cut off
\* (pairing-routes.ts:76).
TokensStayRefreshable ==
  \A r \in Remotes :
    current[r] # NoToken /\ current[r].app > app.memory => current[r].app \in app.unsealed

Waits(w, s) == tab[w].phase = "connecting" /\ s \in tab[w].polling

\* Once the platform has answered, the wizard stops waiting for it, whatever fails in between;
\* only a restart after the callback leaves it waiting for an outcome nobody has.
WizardIsAnswered ==
  \A w \in Tabs, s \in States :
    Waits(w, s) /\ grant[s] \in {"granted", "denied"} ~> ~Waits(w, s) \/ s \in marks.forgotten
===============================================================================
