----------------------------- MODULE PairingProofs -----------------------------
(***************************************************************************)
(* The code of a pairing goes to the platform at most once, what the       *)
(* wizard is told about a pairing is true, and the accounts that are there *)
(* can be used: for every number of tabs, pairings, accounts, requests,    *)
(* removals and restarts.                                                  *)
(*                                                                         *)
(* The argument has four parts.  A state is handed on like a token: drawn  *)
(* by one tab, kept in one session, taken by one callback and exchanged by *)
(* one request, and every holder gives it up when the next one has it.  An *)
(* id belongs to one remote account, so a request writes to the account it *)
(* looked up or to none.  An account without a token has its pairing or    *)
(* its removal to blame, and a token was sealed for its account under the  *)
(* one key there ever is.  At most one request serves a state, so a        *)
(* failure reported for a state whose token is stored, or still to be      *)
(* stored, comes from a second callback.                                   *)
(***************************************************************************)
EXTENDS Pairing, TLAPS

Exchanging(s) == {q \in Requests : request[q].of = s /\ request[q].stage = "exchange"}

Grants == {"none", "asked", "lost", "granted", "denied", "used"}
Stages == {"exchange", "lookup", "insert", "update", "store", "bootstrap",
           "report", "created", "refused"}
Counts == [exchanges : [States -> Nat], callbacks : [States -> Nat], events : Nat]
BusyRecord ==
  [kind : {"redirect"}, of : States, stage : Stages, remote : Remotes, id : Nat,
   scopes : SUBSET Requested]
    \cup [kind : {"password", "token"}, of : {None}, stage : Stages, remote : Remotes, id : Nat,
          scopes : SUBSET Requested]
RequestRecord == {Idle} \cup BusyRecord
AnswerRecord == [of : States \cup {None}, outcome : {"pending", "succeeded", "failed"}]
TabRecord ==
  [phase : {"register", "connecting", "connected", "closed"}, asking : SUBSET States,
   polling : SUBSET States, ref : States \cup {None}, answer : [1 .. MaxPolls -> AnswerRecord]]

\* The parts of the state the argument looks at are what they are declared to be.
Typed ==
  /\ session \subseteq States /\ grant \in [States -> Grants]
  /\ outcome \in [States -> {"pending", "succeeded", "failed"}]
  /\ used \in Counts /\ lastId \in Nat /\ account \in [Remotes -> Nat]
  /\ request \in [Requests -> RequestRecord] /\ tab \in [Tabs -> TabRecord]

\* A state a tab asks a pairing for is new to the server, and to the other tabs.
AskedByOne ==
  \A w \in Tabs, s \in States :
    s \in tab[w].asking => grant[s] = "none" /\ \A v \in Tabs : s \in tab[v].asking => v = w

\* A state the server has not heard of has no session, no request and no exchange.
NewIsFresh ==
  \A s \in States :
    grant[s] = "none" => s \notin session /\ Exchanging(s) = {} /\ used.exchanges[s] = 0

\* A state with a session has not been exchanged, nor is it about to be.
SessionIsUnused ==
  \A s \in session : Exchanging(s) = {} /\ used.exchanges[s] = 0

\* At most one request is about to exchange the code of a state, and none has before.
OneExchanger ==
  \A s \in States, q \in Requests :
    q \in Exchanging(s) => used.exchanges[s] = 0 /\ Exchanging(s) = {q}

IInv ==
  /\ Typed /\ AskedByOne /\ NewIsFresh /\ SessionIsUnused /\ OneExchanger
  /\ CodeIsExchangedOnce

-------------------------------------------------------------------------------
(* Steps that hand nothing on *)

\* No state gets a tab, a session, a request or an exchange it did not have.
Quiet ==
  /\ \A s \in States : grant'[s] = "none" <=> grant[s] = "none"
  /\ session' \subseteq session /\ used'.exchanges = used.exchanges
  /\ \A w \in Tabs : tab'[w].asking \subseteq tab[w].asking
  /\ \A s \in States : Exchanging(s)' \subseteq Exchanging(s)

\* They keep the invariant.
LEMMA QuietStep ==
  ASSUME IInv, Typed', Quiet
  PROVE  IInv'
<1>1. AskedByOne'
  BY DEF IInv, Quiet, AskedByOne
<1>2. NewIsFresh'
  BY DEF IInv, Quiet, NewIsFresh
<1>3. SessionIsUnused'
  BY DEF IInv, Typed, Quiet, SessionIsUnused
<1>4. OneExchanger'
  BY DEF IInv, Quiet, OneExchanger
<1>5. CodeIsExchangedOnce'
  BY DEF IInv, Quiet, CodeIsExchangedOnce
<1> QED
  BY <1>1, <1>2, <1>3, <1>4, <1>5 DEF IInv

\* An event counts, and no exchange.
LEMMA EventCounts ==
  ASSUME used \in Counts, Event
  PROVE  used' \in Counts /\ used'.exchanges = used.exchanges
BY DEF Event, Counts

\* So does a callback that is loaded.
LEMMA LoadCounts ==
  ASSUME used \in Counts, NEW s \in States
  PROVE  Loaded(s) \in Counts /\ Loaded(s).exchanges = used.exchanges
<1> DEFINE e == IF used.callbacks[s] = 0 THEN used.events ELSE used.events + 1
           d == [used.callbacks EXCEPT ![s] = @ + 1]
<1>1. e \in Nat /\ d \in [States -> Nat]
  BY DEF Counts
<1>2. Loaded(s) = [used EXCEPT !.callbacks = d, !.events = e]
  BY DEF Loaded
<1> HIDE DEF e, d
<1> QED
  BY <1>1, <1>2 DEF Counts

\* A request that ends up at another stage exchanges nothing, whatever it did before.
LEMMA RequestMoves ==
  ASSUME request \in [Requests -> RequestRecord], NEW q \in Requests,
         NEW c \in RequestRecord, c.stage # "exchange", request' = [request EXCEPT ![q] = c]
  PROVE  /\ request' \in [Requests -> RequestRecord]
         /\ \A s : Exchanging(s)' \subseteq Exchanging(s) \ {q}
BY DEF Exchanging

\* Also one of which only the stage changes.
LEMMA StageMoves ==
  ASSUME request \in [Requests -> RequestRecord], NEW q \in Requests, request[q].stage # "idle",
         NEW x \in Stages \ {"exchange"}, request' = [request EXCEPT ![q].stage = x]
  PROVE  /\ request' \in [Requests -> RequestRecord]
         /\ \A s : Exchanging(s)' \subseteq Exchanging(s) \ {q}
<1> DEFINE c == [request[q] EXCEPT !.stage = x]
<1>1. request[q] \in BusyRecord
  BY DEF RequestRecord, Idle
<1>2. c \in BusyRecord /\ c.stage = x
  BY <1>1 DEF BusyRecord
<1> QED
  BY <1>2, RequestMoves DEF RequestRecord

\* And one that ends in an error.
LEMMA FailMoves ==
  ASSUME Typed, NEW q \in Requests, request[q].stage # "idle", Fail(q)
  PROVE  /\ request' \in [Requests -> RequestRecord]
         /\ outcome' \in [States -> {"pending", "succeeded", "failed"}]
         /\ \A s : Exchanging(s)' \subseteq Exchanging(s) \ {q}
<1>1. CASE request[q].kind = "redirect"
  <2>1. request' = [request EXCEPT ![q] = Idle] /\ Idle.stage # "exchange"
    BY <1>1 DEF Fail, Idle
  <2>2. outcome' \in [States -> {"pending", "succeeded", "failed"}]
    BY <1>1 DEF Fail, Typed
  <2> QED
    BY <2>1, <2>2, RequestMoves DEF Typed, RequestRecord
<1>2. CASE request[q].kind # "redirect"
  <2>1. request' = [request EXCEPT ![q].stage = "refused"] /\ outcome' = outcome
    BY <1>2 DEF Fail
  <2> QED
    BY <2>1, StageMoves DEF Typed, Stages
<1> QED
  BY <1>1, <1>2

\* A tab that asks for nothing new.
LEMMA TabMoves ==
  ASSUME tab \in [Tabs -> TabRecord], NEW w \in Tabs, NEW t \in TabRecord,
         t.asking \subseteq tab[w].asking, tab' = [tab EXCEPT ![w] = t]
  PROVE  tab' \in [Tabs -> TabRecord] /\ \A v \in Tabs : tab'[v].asking \subseteq tab[v].asking
OBVIOUS

\* The steps of time, the platform and the routes that begin or end no request are quiet.
LEMMA QuietActions ==
  ASSUME Typed,
         \/ SaveApp \/ Seal \/ SealFails \/ Restart
         \/ \E w \in Tabs, s \in States, i \in 1 .. MaxPolls : Poll(w, s, i)
         \/ \E w \in Tabs, i \in 1 .. MaxPolls : Answer(w, i)
         \/ \E w \in Tabs : Close(w)
         \/ \E s \in States, a \in {"granted", "denied"} : Decide(s, a)
         \/ \E s \in States : RefusedCallback(s) \/ SessionExpires(s) \/ OutcomeExpires(s)
         \/ \E r \in Remotes : PurgeTokens(r) \/ DeleteAccount(r)
         \/ UNCHANGED vars
  PROVE  Typed' /\ Quiet
<1>1. ASSUME SaveApp
      PROVE  Typed' /\ Quiet
  <2>1. used' \in Counts /\ used'.exchanges = used.exchanges
    BY <1>1, EventCounts DEF SaveApp, Typed
  <2> QED
    BY <1>1, <2>1 DEF SaveApp, Typed, Quiet, Exchanging
<1>2. ASSUME Seal
      PROVE  Typed' /\ Quiet
  BY <1>2 DEF Seal, Typed, Quiet, Exchanging
<1>3. ASSUME SealFails
      PROVE  Typed' /\ Quiet
  <2>1. used' \in Counts /\ used'.exchanges = used.exchanges
    BY <1>3, EventCounts DEF SealFails, Typed
  <2> QED
    BY <1>3, <2>1 DEF SealFails, Typed, Quiet, Exchanging
<1>4. ASSUME Restart
      PROVE  Typed' /\ Quiet
  <2>1. used' \in Counts /\ used'.exchanges = used.exchanges
    BY <1>4, EventCounts DEF Restart, Typed
  <2>2. Idle \in RequestRecord /\ Idle.stage # "exchange"
    BY DEF Idle, RequestRecord
  <2>3. request' \in [Requests -> RequestRecord] /\ \A s : Exchanging(s)' = {}
    BY <1>4, <2>2 DEF Restart, Exchanging
  <2> QED
    BY <1>4, <2>1, <2>3 DEF Restart, Typed, Quiet
<1>5. ASSUME NEW w \in Tabs, NEW s \in States, NEW i \in 1 .. MaxPolls, Poll(w, s, i)
      PROVE  Typed' /\ Quiet
  <2> DEFINE t == [tab[w] EXCEPT !.answer[i] = [of |-> s, outcome |-> outcome[s]]]
  <2>1. [of |-> s, outcome |-> outcome[s]] \in AnswerRecord
    BY DEF AnswerRecord, Typed
  <2>2. t \in TabRecord /\ t.asking = tab[w].asking
    BY <2>1 DEF TabRecord, Typed
  <2>3. tab' = [tab EXCEPT ![w] = t]
    BY <1>5 DEF Poll
  <2> QED
    BY <1>5, <2>2, <2>3, TabMoves DEF Poll, Typed, Quiet, Exchanging
<1>6. ASSUME NEW w \in Tabs, NEW i \in 1 .. MaxPolls, Answer(w, i)
      PROVE  Typed' /\ Quiet
  <2> DEFINE p == IF tab[w].answer[i].outcome = "succeeded" THEN "connected" ELSE "register"
             t == [tab[w] EXCEPT !.answer[i] = NoAnswer, !.polling = @ \ {tab[w].ref}, !.phase = p]
  <2>1. NoAnswer \in AnswerRecord
    BY DEF AnswerRecord, NoAnswer
  <2>2. p \in {"connected", "register"}
    OBVIOUS
  <2>3. tab' = [tab EXCEPT ![w] = t]
    BY <1>6 DEF Answer
  <2> HIDE DEF p
  <2>4. t \in TabRecord /\ t.asking = tab[w].asking
    BY <2>1, <2>2 DEF TabRecord, Typed
  <2> QED
    BY <1>6, <2>3, <2>4, TabMoves DEF Answer, Typed, Quiet, Exchanging
<1>7. ASSUME NEW w \in Tabs, Close(w)
      PROVE  Typed' /\ Quiet
  <2> DEFINE t == [phase |-> "closed", asking |-> {}, polling |-> {}, ref |-> None,
                   answer |-> [i \in 1 .. MaxPolls |-> NoAnswer]]
  <2>1. used' \in Counts /\ used'.exchanges = used.exchanges
    BY <1>7, EventCounts DEF Close, Typed
  <2>2. NoAnswer \in AnswerRecord
    BY DEF AnswerRecord, NoAnswer
  <2>3. t \in TabRecord /\ t.asking = {} /\ tab' = [tab EXCEPT ![w] = t]
    BY <1>7, <2>2 DEF Close, TabRecord
  <2> QED
    BY <1>7, <2>1, <2>3, TabMoves DEF Close, Typed, Quiet, Exchanging
<1>8. ASSUME NEW s \in States, NEW a \in {"granted", "denied"}, Decide(s, a)
      PROVE  Typed' /\ Quiet
  BY <1>8 DEF Decide, Typed, Quiet, Exchanging, Grants
<1>9. ASSUME NEW s \in States, RefusedCallback(s)
      PROVE  Typed' /\ Quiet
  <2>1. used' \in Counts /\ used'.exchanges = used.exchanges
    BY <1>9, LoadCounts DEF RefusedCallback, Typed
  <2> QED
    BY <1>9, <2>1 DEF RefusedCallback, Typed, Quiet, Exchanging
<1>10. ASSUME NEW s \in States, SessionExpires(s)
      PROVE  Typed' /\ Quiet
  <2>1. used' \in Counts /\ used'.exchanges = used.exchanges
    BY <1>10, EventCounts DEF SessionExpires, Typed
  <2> QED
    BY <1>10, <2>1 DEF SessionExpires, Typed, Quiet, Exchanging
<1>11. ASSUME NEW s \in States, OutcomeExpires(s)
      PROVE  Typed' /\ Quiet
  <2>1. used' \in Counts /\ used'.exchanges = used.exchanges
    BY <1>11, EventCounts DEF OutcomeExpires, Typed
  <2> QED
    BY <1>11, <2>1 DEF OutcomeExpires, Typed, Quiet, Exchanging
<1>12. ASSUME NEW r \in Remotes, PurgeTokens(r)
      PROVE  Typed' /\ Quiet
  <2>1. used' \in Counts /\ used'.exchanges = used.exchanges
    BY <1>12, EventCounts DEF PurgeTokens, Typed
  <2> QED
    BY <1>12, <2>1 DEF PurgeTokens, Typed, Quiet, Exchanging
<1>13. ASSUME NEW r \in Remotes, DeleteAccount(r)
      PROVE  Typed' /\ Quiet
  BY <1>13 DEF DeleteAccount, Typed, Quiet, Exchanging
<1>14. ASSUME UNCHANGED vars
      PROVE  Typed' /\ Quiet
  BY <1>14 DEF vars, Typed, Quiet, Exchanging
<1> QED
  BY <1>1, <1>2, <1>3, <1>4, <1>5, <1>6, <1>7, <1>8, <1>9, <1>10, <1>11, <1>12, <1>13, <1>14

\* So are the steps of a request that do not exchange its code.
LEMMA QuietRequests ==
  ASSUME Typed, NEW q \in Requests,
         \/ \E k \in {"password", "token"}, r \in Remotes : Direct(q, k, r)
         \/ Lookup(q) \/ InsertAccount(q) \/ UpdateAccount(q)
         \/ Store(q) \/ StoreFails(q) \/ Bootstrap(q) \/ Report(q)
  PROVE  Typed' /\ Quiet
<1>1. ASSUME NEW k \in {"password", "token"}, NEW r \in Remotes, Direct(q, k, r)
      PROVE  Typed' /\ Quiet
  <2> DEFINE x == IF k = "password" THEN "exchange" ELSE "lookup"
             c == [kind |-> k, of |-> None, stage |-> x, remote |-> r, id |-> 0, scopes |-> {}]
  <2>1. x \in Stages /\ None \notin States
    BY PairingAssumption DEF Stages, States
  <2>2. request' = [request EXCEPT ![q] = c]
    BY <1>1 DEF Direct
  <2> HIDE DEF x
  <2>3. c \in RequestRecord /\ c.of \notin States
    BY <2>1 DEF RequestRecord, BusyRecord
  <2>4. request' \in [Requests -> RequestRecord] /\ \A s \in States : Exchanging(s)' \subseteq Exchanging(s)
    BY <2>2, <2>3 DEF Exchanging, Typed
  <2>5. used' \in Counts /\ used'.exchanges = used.exchanges
    BY <1>1, EventCounts DEF Direct, Typed
  <2> QED
    BY <1>1, <2>4, <2>5 DEF Direct, Typed, Quiet
<1>2. ASSUME Lookup(q)
      PROVE  Typed' /\ Quiet
  <2> DEFINE x == IF account[request[q].remote] = 0 THEN "insert" ELSE "update"
             c == [request[q] EXCEPT !.id = account[request[q].remote], !.stage = x]
  <2>1. request[q] \in BusyRecord /\ account[request[q].remote] \in Nat
    BY <1>2 DEF Lookup, Typed, RequestRecord, BusyRecord, Idle
  <2>2. x \in Stages \ {"exchange"}
    BY DEF Stages
  <2>3. request' = [request EXCEPT ![q] = c]
    BY <1>2 DEF Lookup
  <2> HIDE DEF x
  <2>4. c \in RequestRecord /\ c.stage # "exchange"
    BY <2>1, <2>2 DEF RequestRecord, BusyRecord
  <2> QED
    BY <1>2, <2>3, <2>4, RequestMoves DEF Lookup, Typed, Quiet
<1>3. ASSUME InsertAccount(q)
      PROVE  Typed' /\ Quiet
  <2>1. CASE account[request[q].remote] = 0
    <3> DEFINE c == [request[q] EXCEPT !.id = lastId + 1, !.stage = "store"]
    <3>1. request[q] \in BusyRecord
      BY <1>3 DEF InsertAccount, Typed, RequestRecord, Idle
    <3>2. lastId + 1 \in Nat /\ "store" \in Stages
      BY DEF Typed, Stages
    <3>3. c \in RequestRecord /\ c.stage # "exchange"
      BY <3>1, <3>2 DEF RequestRecord, BusyRecord
    <3>4. request' = [request EXCEPT ![q] = c]
      BY <1>3, <2>1 DEF InsertAccount
    <3>5. lastId' \in Nat /\ account' \in [Remotes -> Nat] /\ outcome' = outcome
      BY <1>3, <2>1 DEF InsertAccount, Typed
    <3> QED
      BY <1>3, <3>3, <3>4, <3>5, RequestMoves DEF InsertAccount, Typed, Quiet
  <2>2. CASE account[request[q].remote] # 0
    BY <1>3, <2>2, FailMoves DEF InsertAccount, Typed, Quiet
  <2> QED
    BY <2>1, <2>2
<1>4. ASSUME UpdateAccount(q)
      PROVE  Typed' /\ Quiet
  <2>1. CASE account[request[q].remote] = request[q].id
    BY <1>4, <2>1, StageMoves DEF UpdateAccount, Typed, Quiet, Stages
  <2>2. CASE account[request[q].remote] # request[q].id
    BY <1>4, <2>2, FailMoves DEF UpdateAccount, Typed, Quiet
  <2> QED
    BY <2>1, <2>2
<1>5. ASSUME Store(q)
      PROVE  Typed' /\ Quiet
  <2>1. CASE account[request[q].remote] = request[q].id
    <3> DEFINE x == IF request[q].kind = "password" THEN "bootstrap" ELSE "report"
    <3>1. x \in Stages \ {"exchange"}
      BY DEF Stages
    <3>2. request' = [request EXCEPT ![q].stage = x] /\ outcome' = outcome
      BY <1>5, <2>1 DEF Store
    <3> HIDE DEF x
    <3> QED
      BY <1>5, <3>1, <3>2, StageMoves DEF Store, Typed, Quiet
  <2>2. CASE account[request[q].remote] # request[q].id
    BY <1>5, <2>2, FailMoves DEF Store, Typed, Quiet
  <2> QED
    BY <2>1, <2>2
<1>6. ASSUME StoreFails(q)
      PROVE  Typed' /\ Quiet
  <2>1. used' \in Counts /\ used'.exchanges = used.exchanges
    BY <1>6, EventCounts DEF StoreFails, Typed
  <2> QED
    BY <1>6, <2>1, FailMoves DEF StoreFails, Typed, Quiet
<1>7. ASSUME Bootstrap(q)
      PROVE  Typed' /\ Quiet
  <2>1. CASE account[request[q].remote] = request[q].id
    BY <1>7, <2>1, StageMoves DEF Bootstrap, Typed, Quiet, Stages
  <2>2. CASE account[request[q].remote] # request[q].id
    BY <1>7, <2>2, FailMoves DEF Bootstrap, Typed, Quiet
  <2> QED
    BY <2>1, <2>2
<1>8. ASSUME Report(q)
      PROVE  Typed' /\ Quiet
  <2>1. CASE request[q].kind = "redirect"
    <3>1. request' = [request EXCEPT ![q] = Idle] /\ Idle \in RequestRecord /\ Idle.stage # "exchange"
      BY <1>8, <2>1 DEF Report, RequestRecord, Idle
    <3>2. outcome' \in [States -> {"pending", "succeeded", "failed"}]
      BY <1>8, <2>1 DEF Report, Typed
    <3> QED
      BY <1>8, <3>1, <3>2, RequestMoves DEF Report, Typed, Quiet
  <2>2. CASE request[q].kind # "redirect"
    BY <1>8, <2>2, StageMoves DEF Report, Typed, Quiet, Stages
  <2> QED
    BY <2>1, <2>2
<1> QED
  BY <1>1, <1>2, <1>3, <1>4, <1>5, <1>6, <1>7, <1>8

-------------------------------------------------------------------------------
(* Steps that hand a state on *)

\* A tab draws a state nobody has.
LEMMA ConnectStep ==
  ASSUME IInv, NEW w \in Tabs, NEW s \in States, Connect(w, s)
  PROVE  IInv'
<1> DEFINE t == [tab[w] EXCEPT !.phase = "connecting", !.asking = @ \cup {s}]
<1>1. t \in TabRecord /\ t.asking = tab[w].asking \cup {s}
  BY DEF IInv, Typed, TabRecord
<1>2. tab' = [tab EXCEPT ![w] = t] /\ s \in Unused
  BY DEF Connect
<1> HIDE DEF t
<1>3. \A v \in Tabs : tab'[v].asking = IF v = w THEN tab[v].asking \cup {s} ELSE tab[v].asking
  BY <1>1, <1>2 DEF IInv, Typed
<1>4. Typed'
  BY <1>1, <1>2 DEF Connect, IInv, Typed
<1>5. grant' = grant /\ grant[s] = "none" /\ \A v \in Tabs : s \notin tab[v].asking
  BY <1>2 DEF Connect, Unused
<1>6. ASSUME NEW v \in Tabs, NEW r \in States, r \in tab'[v].asking
      PROVE  grant'[r] = "none" /\ \A u \in Tabs : r \in tab'[u].asking => u = v
  <2>1. CASE r = s
    <3>1. \A u \in Tabs : s \in tab'[u].asking => u = w
      BY <1>3, <1>5
    <3>2. grant'[r] = "none"
      BY <1>5, <2>1
    <3>3. v = w
      BY <1>6, <2>1, <3>1
    <3> QED
      BY <2>1, <3>1, <3>2, <3>3
  <2>2. CASE r # s
    <3>1. \A u \in Tabs : r \in tab'[u].asking => r \in tab[u].asking
      BY <1>3, <2>2
    <3> QED
      BY <1>5, <1>6, <3>1 DEF IInv, AskedByOne
  <2> QED
    BY <2>1, <2>2
<1>7. AskedByOne'
  BY <1>6 DEF AskedByOne
<1> QED
  BY <1>4, <1>7 DEF Connect, IInv, NewIsFresh, SessionIsUnused, OneExchanger, CodeIsExchangedOnce,
     Exchanging

\* The server keeps it, and the tab stops asking.
LEMMA BegunStep ==
  ASSUME IInv, NEW w \in Tabs, NEW s \in States, NEW t \in TabRecord, NEW g \in Grants \ {"none"},
         s \in tab[w].asking, t.asking = tab[w].asking \ {s},
         session' = session \cup {s}, grant' = [grant EXCEPT ![s] = g],
         outcome' \in [States -> {"pending", "succeeded", "failed"}],
         tab' = [tab EXCEPT ![w] = t], UNCHANGED <<request, account, lastId, used>>
  PROVE  IInv'
<1>1. \A v \in Tabs : tab'[v].asking = IF v = w THEN tab[v].asking \ {s} ELSE tab[v].asking
  BY DEF IInv, Typed
<1>2. Typed'
  BY DEF IInv, Typed
<1>3. \A r \in States : Exchanging(r)' = Exchanging(r)
  BY DEF Exchanging
<1>4. grant[s] = "none" /\ Exchanging(s) = {} /\ used.exchanges[s] = 0
  BY DEF IInv, AskedByOne, NewIsFresh
<1>5. \A r \in States : grant'[r] = "none" => r # s /\ grant[r] = "none"
  BY DEF IInv, Typed
<1>6. AskedByOne'
  BY <1>1 DEF IInv, AskedByOne, Typed
<1>7. NewIsFresh'
  BY <1>3, <1>5 DEF IInv, NewIsFresh
<1>8. SessionIsUnused'
  BY <1>3, <1>4 DEF IInv, Typed, SessionIsUnused
<1>9. OneExchanger' /\ CodeIsExchangedOnce'
  BY <1>3 DEF IInv, OneExchanger, CodeIsExchangedOnce
<1> QED
  BY <1>2, <1>6, <1>7, <1>8, <1>9 DEF IInv

\* The two ways that can go: with the page open, or with the answer lost.
LEMMA Begins ==
  ASSUME IInv, NEW w \in Tabs, NEW s \in States,
         Begun(w, s) \/ \E b \in BOOLEAN : BeginFails(w, s, b)
  PROVE  IInv'
<1>1. CASE Begun(w, s)
  <2> DEFINE t == [tab[w] EXCEPT !.asking = @ \ {s}, !.polling = @ \cup {s}, !.ref = s]
  <2>1. t \in TabRecord /\ t.asking = tab[w].asking \ {s}
    BY DEF IInv, Typed, TabRecord
  <2>2. tab' = [tab EXCEPT ![w] = t]
    BY <1>1 DEF Begun
  <2>3. outcome' \in [States -> {"pending", "succeeded", "failed"}]
    BY <1>1 DEF Begun, IInv, Typed
  <2> HIDE DEF t
  <2> QED
    BY <1>1, <2>1, <2>2, <2>3, BegunStep DEF Begun, Grants
<1>2. ASSUME NEW b \in BOOLEAN, BeginFails(w, s, b)
      PROVE  IInv'
  <2> DEFINE t == [tab[w] EXCEPT !.asking = @ \ {s}, !.phase = "register"]
  <2>1. t \in TabRecord /\ t.asking = tab[w].asking \ {s}
    BY DEF IInv, Typed, TabRecord
  <2>2. tab' = [tab EXCEPT ![w] = t]
    BY <1>2 DEF BeginFails
  <2> HIDE DEF t
  <2>3. CASE b
    <3>1. session' = session \cup {s} /\ grant' = [grant EXCEPT ![s] = "lost"]
      BY <1>2, <2>3 DEF BeginFails
    <3>2. s \in tab[w].asking /\ UNCHANGED <<outcome, request, account, lastId, used>>
      BY <1>2 DEF BeginFails
    <3>3. outcome' \in [States -> {"pending", "succeeded", "failed"}]
      BY <3>2 DEF IInv, Typed
    <3> QED
      BY <2>1, <2>2, <3>1, <3>2, <3>3, BegunStep DEF Grants
  <2>4. CASE ~b
    <3>1. Typed' /\ Quiet
      BY <1>2, <2>1, <2>2, <2>4, TabMoves DEF BeginFails, IInv, Typed, Quiet, Exchanging
    <3> QED
      BY <3>1, QuietStep
  <2> QED
    BY <2>3, <2>4
<1> QED
  BY <1>1, <1>2

\* A callback takes the session, and its request is the one to exchange the code.
LEMMA CallbackStep ==
  ASSUME IInv, NEW q \in Requests, NEW s \in States, NEW r \in Remotes, Callback(q, s, r)
  PROVE  IInv'
<1>1. used' \in Counts /\ used'.exchanges = used.exchanges
  BY LoadCounts DEF Callback, IInv, Typed
<1>2. CASE s \notin session
  <2>1. outcome' \in [States -> {"pending", "succeeded", "failed"}]
    BY <1>2 DEF Callback, IInv, Typed
  <2>2. Typed' /\ Quiet
    BY <1>1, <1>2, <2>1 DEF Callback, Taken, IInv, Typed, Quiet, Exchanging
  <2> QED
    BY <2>2, QuietStep
<1>3. CASE s \in session
  <2> DEFINE c == [kind |-> "redirect", of |-> s, stage |-> "exchange", remote |-> r, id |-> 0,
                   scopes |-> {}]
  <2>1. c \in RequestRecord /\ c.of = s /\ c.stage = "exchange"
    BY DEF RequestRecord, BusyRecord, Stages
  <2>2. request' = [request EXCEPT ![q] = c] /\ outcome' = outcome
    BY <1>3 DEF Callback
  <2> HIDE DEF c
  <2>3. Typed'
    BY <1>1, <2>1, <2>2 DEF Callback, Taken, IInv, Typed
  <2>4. \A z \in States : Exchanging(z)' = IF z = s THEN Exchanging(z) \cup {q} ELSE Exchanging(z)
    BY <2>1, <2>2 DEF Callback, IsNext, Free, Exchanging, IInv, Typed
  <2>5. /\ session' = session \ {s} /\ grant' = grant /\ tab' = tab /\ grant[s] # "none"
        /\ Exchanging(s) = {} /\ used.exchanges[s] = 0
    BY <1>3 DEF Callback, Taken, IInv, SessionIsUnused
  <2>6. AskedByOne' /\ CodeIsExchangedOnce'
    BY <1>1, <2>5 DEF IInv, AskedByOne, CodeIsExchangedOnce
  <2>7. NewIsFresh'
    BY <1>1, <2>4, <2>5 DEF IInv, NewIsFresh
  <2>8. SessionIsUnused'
    BY <1>1, <2>4, <2>5 DEF IInv, Typed, SessionIsUnused
  <2>9. OneExchanger'
    BY <1>1, <2>4, <2>5 DEF IInv, OneExchanger
  <2> QED
    BY <2>3, <2>6, <2>7, <2>8, <2>9 DEF IInv
<1> QED
  BY <1>2, <1>3

\* The request that exchanges the code is past that stage, whatever came of it.
LEMMA ExchangedStep ==
  ASSUME IInv, NEW q \in Requests, NEW s \in States, q \in Exchanging(s), grant[s] # "none",
         grant' \in [States -> Grants], \A z \in States : grant'[z] = "none" <=> grant[z] = "none",
         used' = [used EXCEPT !.exchanges[s] = @ + 1],
         outcome' \in [States -> {"pending", "succeeded", "failed"}],
         request' \in [Requests -> RequestRecord],
         \A z \in States : Exchanging(z)' \subseteq Exchanging(z) \ {q},
         UNCHANGED <<session, account, tab, lastId>>
  PROVE  IInv'
<1>1. used' \in Counts /\ used'.exchanges = [used.exchanges EXCEPT ![s] = @ + 1]
  BY DEF IInv, Typed, Counts
<1>2. used.exchanges \in [States -> Nat] /\ used.exchanges[s] = 0 /\ Exchanging(s)' = {}
  BY DEF IInv, OneExchanger, Typed, Counts
<1>3. Typed'
  BY <1>1 DEF IInv, Typed
<1>4. AskedByOne'
  BY DEF IInv, AskedByOne
<1>5. NewIsFresh'
  BY <1>1, <1>2 DEF IInv, NewIsFresh
<1>6. SessionIsUnused'
  BY <1>1, <1>2 DEF IInv, Typed, SessionIsUnused
<1>7. OneExchanger'
  BY <1>1, <1>2 DEF IInv, OneExchanger
<1>8. CodeIsExchangedOnce'
  BY <1>1, <1>2 DEF IInv, CodeIsExchangedOnce
<1> QED
  BY <1>3, <1>4, <1>5, <1>6, <1>7, <1>8 DEF IInv

\* The exchange succeeds: the code is used up.
LEMMA ExchangeStep ==
  ASSUME IInv, NEW q \in Requests, NEW g \in SUBSET Requested, Exchange(q, g)
  PROVE  IInv'
<1>1. request[q].stage = "exchange" /\ request[q] \in BusyRecord
  BY DEF Exchange, IInv, Typed, RequestRecord, Idle
<1>2. CASE request[q].kind = "redirect"
  <2> DEFINE s == request[q].of
  <2>1. s \in States /\ q \in Exchanging(s)
    BY <1>1, <1>2 DEF BusyRecord, Exchanging
  <2>2. /\ grant[s] = "granted" /\ grant' = [grant EXCEPT ![s] = "used"]
        /\ used' = [used EXCEPT !.exchanges[s] = @ + 1]
        /\ UNCHANGED <<session, account, tab, lastId>>
    BY <1>2 DEF Exchange
  <2>3. /\ outcome' \in [States -> {"pending", "succeeded", "failed"}]
        /\ request' \in [Requests -> RequestRecord]
        /\ \A z : Exchanging(z)' \subseteq Exchanging(z) \ {q}
    <3>1. CASE Missing(g) = {}
      <4> DEFINE c == [request[q] EXCEPT !.stage = "lookup", !.scopes = g]
      <4>1. c \in BusyRecord /\ c.stage = "lookup"
        BY <1>1 DEF BusyRecord, Stages
      <4>2. request' = [request EXCEPT ![q] = c] /\ outcome' = outcome
        BY <1>2, <3>1 DEF Exchange
      <4> HIDE DEF c
      <4> QED
        BY <4>1, <4>2, RequestMoves DEF IInv, Typed, RequestRecord
    <3>2. CASE Missing(g) # {}
      BY <1>1, <1>2, <3>2, FailMoves DEF Exchange, IInv
    <3> QED
      BY <3>1, <3>2
  <2>4. grant' \in [States -> Grants] /\ \A z \in States : grant'[z] = "none" <=> grant[z] = "none"
    BY <2>1, <2>2 DEF IInv, Typed, Grants
  <2> HIDE DEF s
  <2> QED
    BY <2>1, <2>2, <2>3, <2>4, ExchangedStep
<1>3. CASE request[q].kind # "redirect"
  <2>1. request' = [request EXCEPT ![q].stage = "lookup"] /\ UNCHANGED <<grant, used, outcome>>
    BY <1>3 DEF Exchange
  <2>2. Typed' /\ Quiet
    BY <1>1, <2>1, StageMoves DEF Exchange, IInv, Typed, Quiet, Stages
  <2> QED
    BY <2>2, QuietStep
<1> QED
  BY <1>2, <1>3

\* The exchange fails: the request is over, and the code perhaps used up.
LEMMA ExchangeFailsStep ==
  ASSUME IInv, NEW q \in Requests, NEW b \in BOOLEAN, ExchangeFails(q, b)
  PROVE  IInv'
<1>1. request[q].stage = "exchange" /\ request[q] \in BusyRecord
  BY DEF ExchangeFails, IInv, Typed, RequestRecord, Idle
<1>2. /\ outcome' \in [States -> {"pending", "succeeded", "failed"}]
      /\ request' \in [Requests -> RequestRecord]
      /\ \A z : Exchanging(z)' \subseteq Exchanging(z) \ {q}
  BY <1>1, FailMoves DEF ExchangeFails, IInv
<1>3. CASE request[q].kind = "redirect"
  <2> DEFINE s == request[q].of
             g == IF b THEN "used" ELSE grant[s]
  <2>1. s \in States /\ q \in Exchanging(s)
    BY <1>1, <1>3 DEF BusyRecord, Exchanging
  <2>2. grant[s] # "none"
    BY <2>1 DEF IInv, NewIsFresh
  <2>3. /\ grant' = [grant EXCEPT ![s] = g]
        /\ used' = [used EXCEPT !.exchanges[s] = @ + 1]
        /\ UNCHANGED <<session, account, tab, lastId>>
    BY <1>3 DEF ExchangeFails
  <2>4. g \in Grants /\ g # "none"
    BY <2>1, <2>2 DEF IInv, Typed, Grants
  <2> HIDE DEF s, g
  <2>5. grant' \in [States -> Grants] /\ \A z \in States : grant'[z] = "none" <=> grant[z] = "none"
    BY <2>1, <2>2, <2>3, <2>4 DEF IInv, Typed
  <2> QED
    BY <1>2, <2>1, <2>2, <2>3, <2>5, ExchangedStep
<1>4. CASE request[q].kind # "redirect"
  <2>1. Typed' /\ Quiet
    BY <1>2, <1>4 DEF ExchangeFails, IInv, Typed, Quiet
  <2> QED
    BY <2>1, QuietStep
<1> QED
  BY <1>3, <1>4

-------------------------------------------------------------------------------
(* The theorem *)

\* Nothing has been handed out in the beginning.
LEMMA Start ==
  Init => IInv
<1> SUFFICES ASSUME Init PROVE IInv
  OBVIOUS
<1>1. NoAnswer \in AnswerRecord
  BY DEF NoAnswer, AnswerRecord
<1>2. \A s : Exchanging(s) = {}
  BY DEF Init, Exchanging, Idle
<1>3. tab \in [Tabs -> TabRecord] /\ \A w \in Tabs : tab[w].asking = {}
  BY <1>1 DEF Init, TabRecord
<1>4. used \in Counts /\ \A s \in States : used.exchanges[s] = 0
  BY DEF Init, Counts
<1>5. Typed
  BY <1>3, <1>4 DEF Init, Typed, RequestRecord, Grants
<1> QED
  BY <1>2, <1>3, <1>4, <1>5 DEF Init, IInv, AskedByOne, NewIsFresh, SessionIsUnused, OneExchanger,
     CodeIsExchangedOnce

\* Every step keeps the invariant.
LEMMA Step ==
  ASSUME IInv, [Next]_vars
  PROVE  IInv'
<1>1. CASE \E w \in Tabs, s \in States : Connect(w, s)
  BY <1>1, ConnectStep
<1>2. CASE \E w \in Tabs, s \in States : Begun(w, s) \/ \E b \in BOOLEAN : BeginFails(w, s, b)
  BY <1>2, Begins
<1>3. CASE \E q \in Requests, s \in States, r \in Remotes : Callback(q, s, r)
  BY <1>3, CallbackStep
<1>4. CASE \E q \in Requests, g \in SUBSET Requested : Exchange(q, g)
  BY <1>4, ExchangeStep
<1>5. CASE \E q \in Requests, b \in BOOLEAN : ExchangeFails(q, b)
  BY <1>5, ExchangeFailsStep
<1>6. CASE \E q \in Requests :
             \/ \E k \in {"password", "token"}, r \in Remotes : Direct(q, k, r)
             \/ Lookup(q) \/ InsertAccount(q) \/ UpdateAccount(q)
             \/ Store(q) \/ StoreFails(q) \/ Bootstrap(q) \/ Report(q)
  BY <1>6, QuietRequests, QuietStep DEF IInv
<1>7. CASE \/ SaveApp \/ Seal \/ SealFails \/ Restart
           \/ \E w \in Tabs, s \in States, i \in 1 .. MaxPolls : Poll(w, s, i)
           \/ \E w \in Tabs, i \in 1 .. MaxPolls : Answer(w, i)
           \/ \E w \in Tabs : Close(w)
           \/ \E s \in States, a \in {"granted", "denied"} : Decide(s, a)
           \/ \E s \in States : RefusedCallback(s) \/ SessionExpires(s) \/ OutcomeExpires(s)
           \/ \E r \in Remotes : PurgeTokens(r) \/ DeleteAccount(r)
           \/ UNCHANGED vars
  BY <1>7, QuietActions, QuietStep DEF IInv
<1> QED
  BY <1>1, <1>2, <1>3, <1>4, <1>5, <1>6, <1>7 DEF Next

\* However many tabs begin pairings, callbacks are loaded, requests run and servers restart, the
\* code of a state is sent to the platform once at most.
THEOREM CodesAreExchangedOnce ==
  Spec => []CodeIsExchangedOnce
<1>1. Init => IInv
  BY Start
<1>2. IInv /\ [Next]_vars => IInv'
  BY Step
<1>3. IInv => CodeIsExchangedOnce
  BY DEF IInv
<1> QED
  BY <1>1, <1>2, <1>3, PTL DEF Spec

-------------------------------------------------------------------------------
(* What the wizard is told, and the accounts that are there *)

Busy(q) == request[q].stage # "idle"
Serving(s) == {q \in Requests : request[q].kind = "redirect" /\ request[q].of = s}

\* The stages before a token is stored, and those after.
Early == {"exchange", "lookup", "insert", "update", "store"}
Late == {"bootstrap", "report", "created"}

\* What the argument needs to know of the shapes; there is one key, ever.
AppShape ==
  /\ DOMAIN app = {"memory", "sealed", "sealing", "unsealed", "saves", "key", "file"}
  /\ app.key = FirstKey /\ app.file = FirstKey
MarksShape == marks \in [halfway : SUBSET Nat, removed : SUBSET Nat, forgotten : SUBSET States]
Shapes ==
  /\ AppShape /\ MarksShape
  /\ current = [r \in Remotes |-> current[r]]
  /\ removing \in [Remotes -> Nat] /\ stored \in [States -> Nat]

\* An id belongs to one remote account, and a request that has one looked it up there.
IdsApart ==
  /\ \A r \in Remotes :
       /\ account[r] <= lastId
       /\ \A t \in Remotes : account[r] # 0 /\ account[t] = account[r] => t = r
  /\ \A q \in Requests :
       /\ request[q].id <= lastId
       /\ request[q].stage \in {"update", "store"} \cup Late => request[q].id # 0
       /\ \A r \in Remotes : request[q].id # 0 /\ account[r] = request[q].id => r = request[q].remote

\* A removal under way is that of the account that is there.
RemovalsMarked ==
  \A r \in Remotes : removing[r] # 0 => account[r] = removing[r] /\ removing[r] \in marks.removed

\* A current token is one its account can be used with.
Opens(r) == OpenToken(Keyring(FirstKey), account[r], current[r].row) # {}
TokensGood ==
  \A r \in Remotes : current[r] # NoToken =>
    /\ account[r] # 0 /\ current[r].kind # "bootstrap" /\ Opens(r)
    /\ current[r].kind = "redirect" => PublishScopes \subseteq current[r].scopes

\* An account without a token is waiting for it, losing its row, or was left so.
Storing(id) == \E q \in Requests : request[q].stage = "store" /\ request[q].id = id
GapsExplained ==
  \A r \in Remotes : account[r] # 0 /\ current[r] = NoToken =>
    account[r] = removing[r] \/ account[r] \in marks.halfway \/ Storing(account[r])

\* Kinds and stages that go together; an exchanged code brought all scopes.
StagesFit ==
  \A q \in Requests :
    /\ request[q].stage = "bootstrap" => request[q].kind = "password"
    /\ request[q].kind = "redirect" => request[q].stage \in Early \cup {"report"}
    /\ request[q].kind = "redirect" /\ request[q].stage # "exchange" => request[q].scopes = Requested

\* Whoever was told of a stored token finds it, or has removed the account.
Told(id) == Holds(id) \/ Removed(id)
ToldIsThere ==
  /\ \A q \in Requests : request[q].stage \in Late => Told(request[q].id)
  /\ \A s \in States : stored[s] # 0 => stored[s] <= lastId /\ Told(stored[s])

\* One request serves a state, after its session and before its token.
OneServer ==
  \A s \in States :
    /\ \A p, q \in Serving(s) : p = q
    /\ Serving(s) # {} => grant[s] \in {"granted", "used"} /\ s \notin session
    /\ s \in session => stored[s] = 0
    /\ stored[s] # 0 => grant[s] \in {"granted", "used"}
    /\ \A q \in Serving(s) : (stored[s] = 0) <=> (request[q].stage \in Early)

\* A failure reported for a state that is served, or has its token, came from another callback.
FailuresExplained ==
  \A s \in States :
    /\ Serving(s) # {} \/ stored[s] # 0 =>
         used.callbacks[s] >= 1 /\ (outcome[s] = "failed" => used.callbacks[s] > 1)
    /\ outcome[s] = "succeeded" => stored[s] # 0
    /\ grant[s] = "none" => outcome[s] = "pending"
    /\ s \in session /\ outcome[s] = "failed" => grant[s] = "denied"

JInv ==
  /\ Shapes /\ IdsApart /\ RemovalsMarked /\ TokensGood /\ GapsExplained
  /\ StagesFit /\ ToldIsThere /\ OneServer /\ FailuresExplained

\* Applications are numbered as they are saved, and sealed in that order: those after the one
\* that is sealed are waiting to be sealed, or never going to be.
SealedUpTo(v, memory, saves, sealing, unsealed) ==
  /\ v \in Nat /\ memory \in Nat /\ saves \in Nat /\ v <= memory /\ memory <= saves
  /\ sealing \in Seq(Nat)
  /\ \A i \in 1 .. Len(sealing) : v < sealing[i] /\ sealing[i] <= memory
  /\ \A i, j \in 1 .. Len(sealing) : i < j => sealing[i] < sealing[j]
  /\ \A n \in Nat : v < n /\ n <= saves => n \in unsealed \/ \E i \in 1 .. Len(sealing) : sealing[i] = n
AppsInOrder ==
  \E v \in Nat :
    app.sealed = Setting(FirstKey, v) /\ SealedUpTo(v, app.memory, app.saves, app.sealing, app.unsealed)

\* No token was issued to an application that has not been saved.
IssuedToSaved ==
  /\ client \in [States -> Nat] /\ \A s \in States : client[s] <= app.saves
  /\ \A r \in Remotes : current[r] # NoToken => current[r].app \in Nat /\ current[r].app <= app.saves

KInv == AppsInOrder /\ IssuedToSaved

-------------------------------------------------------------------------------
(* What is sealed opens *)

\* A bundle that is sealed for an account opens for that account, under the same key.
LEMMA SealedOpens ==
  ASSUME NEW key, NEW id, NEW bundle, bundle.access # ""
  PROVE  OpenToken(Keyring(key), id, CHOOSE row \in SealToken(Keyring(key), id, bundle) : TRUE) # {}
<1> DEFINE ring == Keyring(key)
           ref == ActiveRef(ring)
           aad == TokenAad(id, ref)
           row == [bytes |-> SealBytes(key, bundle, aad), ref |-> ref]
<1>1. ResolveKey(ring, ref) = {key}
  <2>1. ring.keys = [v \in {"v1"} |-> key] /\ ring.active = "v1"
    BY DEF Keyring
  <2> HIDE DEF ring
  <2>2. ref = <<"local", "v1">>
    BY <2>1 DEF ActiveRef
  <2>3. DOMAIN ring.keys = {"v1"} /\ ring.keys["v1"] = key
    BY <2>1
  <2> HIDE DEF ref
  <2> QED
    BY <2>2, <2>3 DEF ResolveKey
<1>2. SealToken(ring, id, bundle) = {row}
  BY <1>1 DEF SealToken, Sealed
<1>3. (CHOOSE x \in SealToken(ring, id, bundle) : TRUE) = row
  BY <1>2
<1>4. row.ref = ref /\ row.bytes = SealBytes(key, bundle, aad)
  OBVIOUS
<1>5. bundle \in OpenBytes(key, SealBytes(key, bundle, aad), aad)
  BY DEF OpenBytes, SealBytes
<1>6. bundle \in OpenToken(ring, id, row)
  BY <1>1, <1>4, <1>5 DEF OpenToken, Opened
<1> QED
  BY <1>3, <1>6

\* So every token that is stored is good, unless it is the bootstrap secret.
LEMMA TokenIsGood ==
  ASSUME NEW kind \in {"redirect", "password", "token"}, NEW id, NEW version, NEW scopes,
         app.key = FirstKey
  PROVE  /\ Token(kind, id, version, scopes).kind = kind
         /\ Token(kind, id, version, scopes).scopes = scopes
         /\ Token(kind, id, version, scopes).app = version
         /\ Token(kind, id, version, scopes) # NoToken
         /\ OpenToken(Keyring(FirstKey), id, Token(kind, id, version, scopes).row) # {}
<1>1. Bundle(kind).access # ""
  BY DEF Bundle
<1> DEFINE row == CHOOSE row \in SealToken(Keyring(app.key), id, Bundle(kind)) : TRUE
           t == [kind |-> kind, app |-> version, scopes |-> scopes, row |-> row]
<1>2. OpenToken(Keyring(FirstKey), id, row) # {}
  BY <1>1, SealedOpens
<1>3. Token(kind, id, version, scopes) = t
  BY DEF Token
<1> HIDE DEF row
<1>4. t.kind = kind /\ t.scopes = scopes /\ t.app = version /\ t.row = row /\ t # NoToken
  BY DEF NoToken
<1> QED
  BY <1>2, <1>3, <1>4

-------------------------------------------------------------------------------
(* Steps that leave accounts, tokens and requests alone *)

\* What is not about sessions and outcomes is as it was.
DataFits ==
  /\ Shapes /\ IdsApart /\ RemovalsMarked /\ TokensGood /\ GapsExplained
  /\ StagesFit /\ ToldIsThere

LEMMA DataFrame ==
  ASSUME JInv, AppShape', UNCHANGED <<request, account, current, removing, lastId, stored, marks>>
  PROVE  DataFits'
<1>1. Shapes' /\ IdsApart' /\ RemovalsMarked'
  BY DEF JInv, Shapes, MarksShape, IdsApart, RemovalsMarked
<1>2. TokensGood' /\ GapsExplained'
  BY DEF JInv, TokensGood, Opens, GapsExplained, Storing
<1>3. StagesFit' /\ ToldIsThere'
  BY DEF JInv, StagesFit, ToldIsThere, Told, Holds, Removed
<1> QED
  BY <1>1, <1>2, <1>3 DEF DataFits

\* Sessions may go, and outcomes be forgotten.
LEMMA OutcomeFrame ==
  ASSUME JInv, UNCHANGED <<grant, request, stored>>, session' \subseteq session,
         \A s \in States : outcome'[s] \in {outcome[s], "pending"},
         \A s \in States : used'.callbacks[s] = used.callbacks[s]
  PROVE  OneServer' /\ FailuresExplained'
<1>1. \A s \in States : Serving(s)' = Serving(s)
  BY DEF Serving
<1>2. OneServer'
  BY <1>1 DEF JInv, OneServer
<1>3. FailuresExplained'
  BY <1>1 DEF JInv, FailuresExplained
<1> QED
  BY <1>2, <1>3

\* The shape of the credentials is kept by every change of the parts that change.
LEMMA AppMoves ==
  ASSUME AppShape, NEW m, NEW e, NEW i, NEW u, NEW n,
         app' = [app EXCEPT !.memory = m, !.sealed = e, !.sealing = i, !.unsealed = u, !.saves = n]
  PROVE  AppShape'
BY DEF AppShape

-------------------------------------------------------------------------------
(* Steps of a request *)

\* The other requests are as they were.
LEMMA OneRequest ==
  ASSUME Typed, NEW q \in Requests, NEW c, request' = [request EXCEPT ![q] = c]
  PROVE  request'[q] = c /\ \A p \in Requests : p # q => request'[p] = request[p]
BY DEF Typed

\* The token of this request is neither its own to store any more, nor anybody else's.
Settled(q) ==
  request[q].stage = "store" =>
    \/ request[q].id \in marks'.halfway
    \/ \A r \in Remotes : account[r] = request[q].id => current[r] # NoToken

\* A request that moves on keeps what it knows of its account.
LEMMA RequestData ==
  ASSUME IInv, JInv, NEW q \in Requests, NEW c, request' = [request EXCEPT ![q] = c],
         AppShape', MarksShape', UNCHANGED <<account, current, removing, lastId, stored>>,
         marks.halfway \subseteq marks'.halfway, marks.removed \subseteq marks'.removed,
         c.id \in Nat, c.id <= lastId,
         c.stage \in {"update", "store"} \cup Late => c.id # 0,
         \A r \in Remotes : c.id # 0 /\ account[r] = c.id => r = c.remote,
         Settled(q) \/ (c.stage = "store" /\ c.id = request[q].id),
         c.stage = "bootstrap" => c.kind = "password",
         c.kind = "redirect" => c.stage \in Early \cup {"report"},
         c.kind = "redirect" /\ c.stage # "exchange" => c.scopes = Requested,
         c.stage \in Late => Told(c.id)
  PROVE  DataFits'
<1>1. request'[q] = c /\ \A p \in Requests : p # q => request'[p] = request[p]
  BY OneRequest DEF IInv
<1>2. Shapes'
  BY DEF JInv, Shapes
<1>3. IdsApart'
  BY <1>1 DEF JInv, IdsApart
<1>4. RemovalsMarked'
  BY DEF JInv, RemovalsMarked
<1>5. TokensGood'
  BY DEF JInv, TokensGood, Opens
<1>6. GapsExplained'
  <2> SUFFICES ASSUME NEW r \in Remotes, account[r] # 0, current[r] = NoToken
               PROVE  \/ account[r] = removing[r] \/ account[r] \in marks'.halfway
                      \/ Storing(account[r])'
    BY DEF GapsExplained
  <2>1. account[r] = removing[r] \/ account[r] \in marks'.halfway \/ Storing(account[r])
    BY DEF JInv, GapsExplained
  <2>2. ASSUME NEW p \in Requests, request[p].stage = "store", request[p].id = account[r]
        PROVE  account[r] \in marks'.halfway \/ Storing(account[r])'
    BY <1>1, <2>2 DEF Settled, Storing
  <2> QED
    BY <2>1, <2>2 DEF Storing
<1>7. StagesFit'
  BY <1>1 DEF JInv, StagesFit
<1>8. ToldIsThere'
  <2>1. \A id : Told(id) => Told(id)'
    BY DEF Told, Holds, Removed
  <2> QED
    BY <1>1, <2>1 DEF JInv, ToldIsThere
<1> QED
  BY <1>2, <1>3, <1>4, <1>5, <1>6, <1>7, <1>8 DEF DataFits

\* The grant of a state a request serves may be used up meanwhile.
GrantsKept ==
  \A s \in States : grant'[s] = grant[s] \/ (grant[s] = "granted" /\ grant'[s] = "used")

\* It serves its state as before, unless it passes the point where the token is stored.
LEMMA ServerGoesOn ==
  ASSUME IInv, JInv, NEW q \in Requests, NEW c, request' = [request EXCEPT ![q] = c],
         c.kind = request[q].kind, c.of = request[q].of,
         c.stage \in Early <=> request[q].stage \in Early, GrantsKept,
         UNCHANGED <<session, outcome, stored>>, used'.callbacks = used.callbacks
  PROVE  OneServer' /\ FailuresExplained'
<1>1. request'[q] = c /\ \A p \in Requests : p # q => request'[p] = request[p]
  BY OneRequest DEF IInv
<1>2. \A s \in States : Serving(s)' = Serving(s)
  BY <1>1 DEF Serving
<1>3. \A s \in States : \A p \in Serving(s) : (request'[p].stage \in Early) <=> (request[p].stage \in Early)
  BY <1>1 DEF Serving
<1>4. OneServer'
  BY <1>2, <1>3 DEF JInv, OneServer, GrantsKept
<1>5. FailuresExplained'
  BY <1>2 DEF JInv, FailuresExplained, GrantsKept
<1> QED
  BY <1>4, <1>5

\* A request that does not serve a state, and will not.
LEMMA NoServer ==
  ASSUME IInv, JInv, NEW q \in Requests, NEW c, request' = [request EXCEPT ![q] = c],
         c.kind # "redirect", request[q].kind # "redirect",
         UNCHANGED <<grant, session, outcome, stored>>, used'.callbacks = used.callbacks
  PROVE  OneServer' /\ FailuresExplained'
<1>1. request'[q] = c /\ \A p \in Requests : p # q => request'[p] = request[p]
  BY OneRequest DEF IInv
<1>2. \A s \in States : Serving(s)' = Serving(s)
  BY <1>1 DEF Serving
<1>3. \A s \in States : \A p \in Serving(s) : request'[p] = request[p]
  BY <1>1 DEF Serving
<1>4. OneServer'
  BY <1>2, <1>3 DEF JInv, OneServer
<1>5. FailuresExplained'
  BY <1>2 DEF JInv, FailuresExplained
<1> QED
  BY <1>4, <1>5

\* An error is true: a request that ends in one has stored nothing for its state.
LEMMA FailServers ==
  ASSUME IInv, JInv, NEW q \in Requests, request[q].stage \in Early \cup {"bootstrap"}, Fail(q),
         GrantsKept, UNCHANGED <<session, stored>>, used'.callbacks = used.callbacks
  PROVE  OneServer' /\ FailuresExplained'
<1>1. CASE request[q].kind = "redirect"
  <2> DEFINE s == request[q].of
  <2>1. request[q] \in BusyRecord /\ s \in States
    BY <1>1 DEF IInv, Typed, RequestRecord, BusyRecord, Idle
  <2>2. request' = [request EXCEPT ![q] = Idle] /\ outcome' = [outcome EXCEPT ![s] = "failed"]
    BY <1>1 DEF Fail
  <2>3. request[q].stage \in Early /\ q \in Serving(s)
    BY <1>1 DEF JInv, StagesFit, Serving, Early
  <2>4. request'[q] = Idle /\ Idle.kind # "redirect"
        /\ \A p \in Requests : p # q => request'[p] = request[p]
    BY <2>2, OneRequest DEF IInv, Idle
  <2> HIDE DEF s
  <2>5. stored[s] = 0 /\ s \notin session /\ grant[s] \in {"granted", "used"} /\ Serving(s) = {q}
    BY <2>1, <2>3 DEF JInv, OneServer
  <2>6. \A z \in States : Serving(z)' = IF z = s THEN {} ELSE Serving(z)
    BY <2>3, <2>4, <2>5 DEF Serving
  <2>7. \A z \in States : outcome'[z] = IF z = s THEN "failed" ELSE outcome[z]
    BY <2>2 DEF IInv, Typed
  <2>8. \A z \in States : \A p \in Serving(z)' : request'[p] = request[p]
    BY <2>4, <2>6 DEF Serving
  <2>9. OneServer'
    BY <2>6, <2>8 DEF JInv, OneServer, GrantsKept
  <2>10. FailuresExplained'
    BY <2>1, <2>5, <2>6, <2>7 DEF JInv, FailuresExplained, GrantsKept
  <2> QED
    BY <2>9, <2>10
<1>2. CASE request[q].kind # "redirect"
  <2> DEFINE c == [request[q] EXCEPT !.stage = "refused"]
  <2>1. request[q] \in BusyRecord
    BY DEF IInv, Typed, RequestRecord, Idle, Early
  <2>2. c.kind = request[q].kind
    BY <2>1 DEF BusyRecord
  <2>3. request' = [request EXCEPT ![q] = c] /\ outcome' = outcome
    BY <1>2 DEF Fail
  <2> HIDE DEF c
  <2>4. request'[q] = c /\ \A p \in Requests : p # q => request'[p] = request[p]
    BY <2>3, OneRequest DEF IInv
  <2>5. \A s \in States : Serving(s)' = Serving(s) /\ \A p \in Serving(s) : request'[p] = request[p]
    BY <1>2, <2>2, <2>4 DEF Serving
  <2>6. OneServer'
    BY <2>5 DEF JInv, OneServer, GrantsKept
  <2>7. FailuresExplained'
    BY <2>3, <2>5 DEF JInv, FailuresExplained, GrantsKept
  <2> QED
    BY <2>6, <2>7
<1> QED
  BY <1>1, <1>2

\* And it leaves the account as it is.
LEMMA FailData ==
  ASSUME IInv, JInv, NEW q \in Requests, request[q].stage \in Early \cup {"bootstrap"}, Fail(q),
         Settled(q), AppShape', MarksShape', UNCHANGED <<account, current, removing, lastId, stored>>,
         marks.halfway \subseteq marks'.halfway, marks.removed \subseteq marks'.removed
  PROVE  DataFits'
<1>1. request[q] \in BusyRecord
  BY DEF IInv, Typed, RequestRecord, Idle, Early
<1>2. CASE request[q].kind = "redirect"
  <2>1. request' = [request EXCEPT ![q] = Idle]
    BY <1>2 DEF Fail
  <2>2. Idle.id = 0 /\ Idle.id \in Nat /\ Idle.kind = "none"
        /\ Idle.stage \notin {"update", "store", "bootstrap"} \cup Late
    BY DEF Idle, Late
  <2>3. Idle.id <= lastId
    BY <2>2 DEF IInv, Typed
  <2> QED
    BY <2>1, <2>2, <2>3, RequestData
<1>3. CASE request[q].kind # "redirect"
  <2> DEFINE c == [request[q] EXCEPT !.stage = "refused"]
  <2>1. /\ c.stage = "refused" /\ c.kind = request[q].kind /\ c.id = request[q].id /\ c.id \in Nat
        /\ c.remote = request[q].remote
    BY <1>1 DEF BusyRecord
  <2>2. request' = [request EXCEPT ![q] = c]
    BY <1>3 DEF Fail
  <2> HIDE DEF c
  <2>3. c.id <= lastId /\ \A r \in Remotes : c.id # 0 /\ account[r] = c.id => r = c.remote
    BY <2>1 DEF JInv, IdsApart
  <2>4. "refused" \notin {"update", "store"} \cup Late
    BY DEF Late
  <2> QED
    BY <1>3, <2>1, <2>2, <2>3, <2>4, RequestData
<1> QED
  BY <1>2, <1>3

-------------------------------------------------------------------------------
(* The steps that leave the requests alone *)

\* The parts of the invariant.
LEMMA Together ==
  ASSUME DataFits', OneServer', FailuresExplained'
  PROVE  JInv'
BY DEF DataFits, JInv

\* An event loads no callback; a callback that is loaded is one more.
LEMMA CallbacksCounted ==
  ASSUME Typed
  PROVE  /\ Event => used'.callbacks = used.callbacks
         /\ \A s, z \in States :
              Loaded(s).callbacks[z] = IF z = s THEN used.callbacks[z] + 1 ELSE used.callbacks[z]
BY DEF Typed, Counts, Event, Loaded

\* The credentials change, and nothing else does.
LEMMA CredentialSteps ==
  ASSUME IInv, JInv, SaveApp \/ Seal \/ SealFails
  PROVE  JInv'
<1>1. AppShape'
  BY DEF SaveApp, Seal, SealFails, JInv, Shapes, AppShape
<1>2. UNCHANGED <<request, account, current, removing, lastId, stored, marks, grant, session, outcome>>
  BY DEF SaveApp, Seal, SealFails
<1>3. used'.callbacks = used.callbacks
  BY CallbacksCounted DEF IInv, SaveApp, Seal, SealFails
<1>4. DataFits'
  BY <1>1, <1>2, DataFrame
<1>5. OneServer' /\ FailuresExplained'
  BY <1>2, <1>3, OutcomeFrame
<1> QED
  BY <1>4, <1>5, Together

\* Only the tabs change.
LEMMA TabSteps ==
  ASSUME IInv, JInv,
         \/ \E w \in Tabs, s \in States : Connect(w, s)
         \/ \E w \in Tabs, s \in States, i \in 1 .. MaxPolls : Poll(w, s, i)
         \/ \E w \in Tabs, i \in 1 .. MaxPolls : Answer(w, i)
         \/ \E w \in Tabs : Close(w)
         \/ UNCHANGED vars
  PROVE  JInv'
<1>1. UNCHANGED <<request, account, current, removing, lastId, stored, marks, grant, session,
                  outcome, app>>
  BY DEF Connect, Poll, Answer, Close, vars
<1>2. used'.callbacks = used.callbacks
  BY CallbacksCounted DEF IInv, Connect, Poll, Answer, Close, vars
<1>3. DataFits'
  BY <1>1, DataFrame DEF JInv, Shapes, AppShape
<1>4. OneServer' /\ FailuresExplained'
  BY <1>1, <1>2, OutcomeFrame
<1> QED
  BY <1>3, <1>4, Together

\* A session expires, or an outcome.
LEMMA ExpirySteps ==
  ASSUME IInv, JInv, NEW s \in States, SessionExpires(s) \/ OutcomeExpires(s)
  PROVE  JInv'
<1>1. UNCHANGED <<request, account, current, removing, lastId, stored, marks, grant, app>>
  BY DEF SessionExpires, OutcomeExpires
<1>2. used'.callbacks = used.callbacks
  BY CallbacksCounted DEF IInv, SessionExpires, OutcomeExpires
<1>3. session' \subseteq session /\ \A z \in States : outcome'[z] \in {outcome[z], "pending"}
  BY DEF SessionExpires, OutcomeExpires, IInv, Typed
<1>4. DataFits'
  BY <1>1, DataFrame DEF JInv, Shapes, AppShape
<1>5. OneServer' /\ FailuresExplained'
  BY <1>1, <1>2, <1>3, OutcomeFrame
<1> QED
  BY <1>4, <1>5, Together

\* A pairing begins, is decided, or is refused: nobody serves its state yet.
LEMMA EarlySteps ==
  ASSUME IInv, JInv, NEW s \in States,
         \/ \E w \in Tabs : Begun(w, s) \/ \E b \in BOOLEAN : BeginFails(w, s, b)
         \/ \E a \in {"granted", "denied"} : Decide(s, a)
         \/ RefusedCallback(s)
  PROVE  JInv'
<1>1. UNCHANGED <<request, account, current, removing, lastId, stored, marks, app>>
  BY DEF Begun, BeginFails, Decide, RefusedCallback
<1>2. DataFits'
  BY <1>1, DataFrame DEF JInv, Shapes, AppShape
<1>3. \A z \in States : Serving(z)' = Serving(z)
  BY <1>1 DEF Serving
<1>4. grant[s] \in {"none", "asked", "denied"}
  BY DEF IInv, AskedByOne, Begun, BeginFails, Decide, RefusedCallback
<1>5. Serving(s) = {} /\ stored[s] = 0
  BY <1>4 DEF JInv, OneServer
<1>6. \A z \in States : z # s =>
        /\ grant'[z] = grant[z] /\ (z \in session' <=> z \in session) /\ outcome'[z] = outcome[z]
        /\ used'.callbacks[z] = used.callbacks[z]
  <2>1. used' \in {used, Loaded(s)}
    BY DEF Begun, BeginFails, Decide, RefusedCallback
  <2>2. \A z \in States : z # s => used'.callbacks[z] = used.callbacks[z]
    BY <2>1, CallbacksCounted DEF IInv
  <2>3. \A z \in States : z # s => grant'[z] = grant[z]
    BY DEF IInv, Typed, Begun, BeginFails, Decide, RefusedCallback
  <2>4. \A z \in States : z # s => (z \in session' <=> z \in session)
    BY DEF Begun, BeginFails, Decide, RefusedCallback
  <2>5. \A z \in States : z # s => outcome'[z] = outcome[z]
    BY DEF IInv, Typed, Begun, BeginFails, Decide, RefusedCallback
  <2> QED
    BY <2>2, <2>3, <2>4, <2>5
<1>7. OneServer'
  BY <1>1, <1>3, <1>5, <1>6 DEF JInv, OneServer
<1>8. /\ outcome'[s] = "succeeded" => FALSE
      /\ grant'[s] = "none" => outcome'[s] = "pending"
      /\ s \in session' /\ outcome'[s] = "failed" => grant'[s] = "denied"
  BY <1>5 DEF IInv, Typed, AskedByOne, JInv, FailuresExplained, Begun, BeginFails, Decide, RefusedCallback
<1>9. FailuresExplained'
  BY <1>1, <1>3, <1>5, <1>6, <1>8 DEF JInv, FailuresExplained
<1> QED
  BY <1>2, <1>7, <1>9, Together

-------------------------------------------------------------------------------
(* The steps of a request *)

\* A callback with a code: the one that finds the session is served, any other is told it failed.
LEMMA CallbackOutcome ==
  ASSUME IInv, JInv, NEW q \in Requests, NEW s \in States, NEW r \in Remotes, Callback(q, s, r)
  PROVE  JInv'
<1>1. used' = Loaded(s) /\ session' = session \ {s} /\ grant[s] \in {"granted", "used"}
  BY DEF Callback, Taken
<1>2. UNCHANGED <<account, current, removing, lastId, stored, marks, app, grant>>
  BY DEF Callback
<1>3. \A z \in States : used.callbacks[z] \in Nat
        /\ used'.callbacks[z] = IF z = s THEN used.callbacks[z] + 1 ELSE used.callbacks[z]
  BY <1>1, CallbacksCounted DEF IInv, Typed, Counts
<1>4. AppShape' /\ MarksShape'
  BY <1>2 DEF JInv, Shapes, AppShape, MarksShape
<1>5. CASE s \in session
  <2> DEFINE c == [kind |-> "redirect", of |-> s, stage |-> "exchange", remote |-> r, id |-> 0, scopes |-> {}]
  <2>1. request' = [request EXCEPT ![q] = c] /\ outcome' = outcome
    BY <1>5 DEF Callback
  <2>2. c.kind = "redirect" /\ c.of = s /\ c.stage = "exchange" /\ c.id = 0
    OBVIOUS
  <2> HIDE DEF c
  <2>3. request[q].stage \in {"idle", "created", "refused"} /\ request[q].kind # "redirect"
    BY DEF Callback, IsNext, Free, JInv, StagesFit, Early
  <2>4. c.id \in Nat /\ c.id <= lastId /\ c.stage \notin {"update", "store", "bootstrap"} \cup Late
        /\ c.stage \in Early
    BY <2>2 DEF IInv, Typed, Late, Early
  <2>5. Settled(q)
    BY <2>3 DEF Settled
  <2>6. DataFits'
    BY <1>2, <1>4, <2>1, <2>2, <2>4, <2>5, RequestData
  <2>7. request'[q] = c /\ \A p \in Requests : p # q => request'[p] = request[p]
    BY <2>1, OneRequest DEF IInv
  <2>8. Serving(s) = {} /\ stored[s] = 0 /\ outcome[s] # "failed"
    BY <1>1, <1>5 DEF JInv, OneServer, FailuresExplained
  <2>9. \A z \in States : Serving(z)' = IF z = s THEN {q} ELSE Serving(z)
    BY <2>2, <2>3, <2>7, <2>8 DEF Serving
  <2>10. \A z \in States : \A p \in Serving(z)' :
           IF z = s THEN request'[p].stage \in Early ELSE request'[p] = request[p]
    <3>1. \A z \in States : \A p \in Serving(z) : p # q /\ p \in Requests
      BY <2>3 DEF Serving
    <3> QED
      BY <2>2, <2>4, <2>7, <2>9, <3>1
  <2>11. OneServer'
    BY <1>1, <1>2, <2>8, <2>9, <2>10 DEF JInv, OneServer
  <2>12. FailuresExplained'
    BY <1>1, <1>2, <1>3, <2>1, <2>8, <2>9 DEF JInv, FailuresExplained
  <2> QED
    BY <2>6, <2>11, <2>12, Together
<1>6. CASE s \notin session
  <2>1. outcome' = [outcome EXCEPT ![s] = "failed"] /\ request' = request
    BY <1>6 DEF Callback
  <2>2. DataFits'
    BY <1>2, <1>4, <2>1, DataFrame
  <2>3. \A z \in States : Serving(z)' = Serving(z)
    BY <2>1 DEF Serving
  <2>4. \A z \in States : outcome'[z] = IF z = s THEN "failed" ELSE outcome[z]
    BY <2>1 DEF IInv, Typed
  <2>5. OneServer'
    BY <1>1, <1>2, <2>1, <2>3 DEF JInv, OneServer
  <2>6. FailuresExplained'
    BY <1>1, <1>2, <1>3, <1>6, <2>3, <2>4 DEF JInv, FailuresExplained
  <2> QED
    BY <2>2, <2>5, <2>6, Together
<1> QED
  BY <1>5, <1>6

\* A pairing with a password or a token begins.
LEMMA DirectOutcome ==
  ASSUME IInv, JInv, NEW q \in Requests, NEW k \in {"password", "token"}, NEW r \in Remotes,
         Direct(q, k, r)
  PROVE  JInv'
<1> DEFINE x == IF k = "password" THEN "exchange" ELSE "lookup"
           c == [kind |-> k, of |-> None, stage |-> x, remote |-> r, id |-> 0, scopes |-> {}]
<1>1. request' = [request EXCEPT ![q] = c]
  BY DEF Direct
<1>2. c.kind # "redirect" /\ c.stage \in {"exchange", "lookup"} /\ c.id = 0
  OBVIOUS
<1> HIDE DEF c
<1>3. UNCHANGED <<account, current, removing, lastId, stored, marks, app, grant, session, outcome>>
  BY DEF Direct
<1>4. used'.callbacks = used.callbacks
  BY CallbacksCounted DEF IInv, Direct
<1>5. AppShape' /\ MarksShape'
  BY <1>3 DEF JInv, Shapes, AppShape, MarksShape
<1>6. request[q].stage \in {"idle", "created", "refused"} /\ request[q].kind # "redirect"
  BY DEF Direct, IsNext, Free, JInv, StagesFit, Early
<1>7. c.id \in Nat /\ c.id <= lastId /\ c.stage \notin {"update", "store", "bootstrap"} \cup Late
  BY <1>2 DEF IInv, Typed, Late
<1>8. Settled(q)
  BY <1>6 DEF Settled
<1>9. DataFits'
  BY <1>1, <1>2, <1>3, <1>5, <1>7, <1>8, RequestData
<1>10. OneServer' /\ FailuresExplained'
  BY <1>1, <1>2, <1>3, <1>4, <1>6, NoServer
<1> QED
  BY <1>9, <1>10, Together

\* The code is exchanged: a pairing that has fewer scopes than it asked for fails here.
LEMMA ExchangeOutcome ==
  ASSUME IInv, JInv, NEW q \in Requests, NEW g \in SUBSET Requested, Exchange(q, g)
  PROVE  JInv'
<1>1. request[q].stage = "exchange" /\ request[q] \in BusyRecord
  BY DEF Exchange, IInv, Typed, RequestRecord, Idle
<1>2. UNCHANGED <<account, current, removing, lastId, stored, marks, app, session>>
  BY DEF Exchange
<1>3. AppShape' /\ MarksShape' /\ Settled(q) /\ request[q].stage \in Early
  BY <1>1, <1>2 DEF JInv, Shapes, AppShape, MarksShape, Settled, Early
<1>4. used'.callbacks = used.callbacks
  BY DEF Exchange, IInv, Typed, Counts
<1>5. GrantsKept
  BY DEF Exchange, GrantsKept, IInv, Typed
<1>6. CASE Fail(q)
  BY <1>2, <1>3, <1>4, <1>5, <1>6, FailData, FailServers, Together
<1>7. CASE ~ Fail(q)
  <2> DEFINE c == IF request[q].kind = "redirect" THEN [request[q] EXCEPT !.stage = "lookup", !.scopes = g]
                                                  ELSE [request[q] EXCEPT !.stage = "lookup"]
  <2>1. request' = [request EXCEPT ![q] = c] /\ outcome' = outcome
    BY <1>7 DEF Exchange
  <2>2. request[q].kind = "redirect" => g = Requested
    BY <1>7 DEF Exchange, Missing
  <2>3. /\ c.kind = request[q].kind /\ c.of = request[q].of /\ c.id = request[q].id /\ c.id \in Nat
        /\ c.stage = "lookup" /\ c.remote = request[q].remote
        /\ c.kind = "redirect" => c.scopes = Requested
    BY <1>1, <2>2 DEF BusyRecord
  <2> HIDE DEF c
  <2>4. /\ c.stage \in Early /\ c.stage \notin {"update", "store", "bootstrap"} \cup Late
        /\ c.id <= lastId /\ \A r \in Remotes : c.id # 0 /\ account[r] = c.id => r = c.remote
    BY <2>3 DEF Early, Late, JInv, IdsApart
  <2>5. DataFits'
    BY <1>2, <1>3, <2>1, <2>3, <2>4, RequestData
  <2>6. OneServer' /\ FailuresExplained'
    BY <1>2, <1>3, <1>4, <1>5, <2>1, <2>3, <2>4, ServerGoesOn
  <2> QED
    BY <2>5, <2>6, Together
<1> QED
  BY <1>6, <1>7

\* It fails, whether the platform has seen it or not.
LEMMA ExchangeFailsOutcome ==
  ASSUME IInv, JInv, NEW q \in Requests, NEW b \in BOOLEAN, ExchangeFails(q, b)
  PROVE  JInv'
<1>1. request[q].stage = "exchange" /\ request[q] \in BusyRecord /\ Fail(q)
  BY DEF ExchangeFails, IInv, Typed, RequestRecord, Idle
<1>2. UNCHANGED <<account, current, removing, lastId, stored, marks, app, session>>
  BY DEF ExchangeFails
<1>3. AppShape' /\ MarksShape' /\ Settled(q) /\ request[q].stage \in Early
  BY <1>1, <1>2 DEF JInv, Shapes, AppShape, MarksShape, Settled, Early
<1>4. used'.callbacks = used.callbacks
  BY DEF ExchangeFails, IInv, Typed, Counts
<1>5. GrantsKept
  <2>1. CASE request[q].kind = "redirect"
    <3> DEFINE s == request[q].of
    <3>1. s \in States /\ q \in Serving(s)
      BY <1>1, <2>1 DEF BusyRecord, Serving
    <3>2. grant' = [grant EXCEPT ![s] = IF b THEN "used" ELSE @]
      BY <2>1 DEF ExchangeFails
    <3> HIDE DEF s
    <3>3. grant[s] \in {"granted", "used"}
      BY <3>1 DEF JInv, OneServer
    <3> QED
      BY <3>1, <3>2, <3>3 DEF GrantsKept, IInv, Typed
  <2>2. CASE request[q].kind # "redirect"
    BY <2>2 DEF ExchangeFails, GrantsKept
  <2> QED
    BY <2>1, <2>2
<1> QED
  BY <1>1, <1>2, <1>3, <1>4, <1>5, FailData, FailServers, Together

\* Steps of a request that only move it on, or end it in an error: the account is looked up, is
\* updated, or gets the bootstrap secret as well.
LEMMA MovesOn ==
  ASSUME IInv, JInv, NEW q \in Requests, Lookup(q) \/ UpdateAccount(q) \/ Bootstrap(q)
  PROVE  JInv'
<1>1. request[q].stage \in {"lookup", "update", "bootstrap"} /\ request[q] \in BusyRecord
  BY DEF Lookup, UpdateAccount, Bootstrap, IInv, Typed, RequestRecord, Idle
<1>2. UNCHANGED <<account, current, removing, lastId, stored, marks, app, session, grant, used>>
  BY DEF Lookup, UpdateAccount, Bootstrap
<1>3. /\ AppShape' /\ MarksShape' /\ Settled(q) /\ GrantsKept
      /\ request[q].stage \in Early \cup {"bootstrap"}
  BY <1>1, <1>2 DEF JInv, Shapes, AppShape, MarksShape, Settled, Early, GrantsKept
<1>4. CASE Fail(q)
  BY <1>2, <1>3, <1>4, FailData, FailServers, Together
<1>5. CASE Lookup(q)
  <2> DEFINE n == account[request[q].remote]
             x == IF n = 0 THEN "insert" ELSE "update"
             c == [request[q] EXCEPT !.id = n, !.stage = x]
  <2>1. request' = [request EXCEPT ![q] = c] /\ outcome' = outcome /\ request[q].stage = "lookup"
    BY <1>5 DEF Lookup
  <2>2. n \in Nat /\ n <= lastId /\ request[q].remote \in Remotes
    BY <1>1 DEF BusyRecord, IInv, Typed, JInv, IdsApart
  <2>3. x \in {"insert", "update"} /\ (x = "update" => n # 0)
    OBVIOUS
  <2>4. /\ c.kind = request[q].kind /\ c.of = request[q].of /\ c.id = n /\ c.stage = x
        /\ c.remote = request[q].remote /\ c.scopes = request[q].scopes
    BY <1>1 DEF BusyRecord
  <2> HIDE DEF x, c
  <2>5. \A r \in Remotes : c.id # 0 /\ account[r] = c.id => r = c.remote
    BY <2>2, <2>4 DEF JInv, IdsApart
  <2> HIDE DEF n
  <2>6. /\ c.stage \in Early /\ c.stage \notin {"store", "bootstrap"} \cup Late /\ request[q].stage \in Early
        /\ c.kind = "redirect" => c.scopes = Requested
    BY <2>1, <2>3, <2>4 DEF Early, Late, JInv, StagesFit
  <2>7. c.id \in Nat /\ c.id <= lastId /\ (c.stage \in {"update", "store"} \cup Late => c.id # 0)
    BY <2>2, <2>3, <2>4, <2>6
  <2>8. DataFits'
    BY <1>2, <1>3, <2>1, <2>5, <2>6, <2>7, RequestData
  <2>9. OneServer' /\ FailuresExplained'
    BY <1>2, <1>3, <2>1, <2>4, <2>6, ServerGoesOn
  <2> QED
    BY <2>8, <2>9, Together
<1>6. CASE ~ Fail(q) /\ (UpdateAccount(q) \/ Bootstrap(q))
  <2> DEFINE x == IF request[q].stage = "update" THEN "store" ELSE "report"
             c == [request[q] EXCEPT !.stage = x]
  <2>1. /\ request' = [request EXCEPT ![q] = c] /\ outcome' = outcome
        /\ request[q].stage \in {"update", "bootstrap"}
    BY <1>6 DEF UpdateAccount, Bootstrap
  <2>2. \/ x = "store" /\ request[q].stage = "update"
        \/ x = "report" /\ request[q].stage = "bootstrap"
    BY <2>1
  <2>3. /\ c.kind = request[q].kind /\ c.of = request[q].of /\ c.id = request[q].id /\ c.stage = x
        /\ c.remote = request[q].remote /\ c.scopes = request[q].scopes /\ c.id \in Nat
    BY <1>1 DEF BusyRecord
  <2> HIDE DEF x, c
  <2>4. c.id <= lastId /\ c.id # 0 /\ \A r \in Remotes : account[r] = c.id => r = c.remote
    BY <2>2, <2>3 DEF JInv, IdsApart, Late
  <2>5. /\ c.stage # "bootstrap" /\ (c.kind = "redirect" => request[q].stage = "update")
        /\ c.kind = "redirect" => c.stage \in Early /\ c.scopes = Requested
    BY <2>2, <2>3 DEF JInv, StagesFit, Early
  <2>6. c.stage \in Late => Told(c.id)
    BY <2>2, <2>3 DEF JInv, ToldIsThere, Late
  <2>7. DataFits'
    BY <1>2, <1>3, <2>1, <2>3, <2>4, <2>5, <2>6, RequestData
  <2>8. OneServer' /\ FailuresExplained'
    <3>1. CASE request[q].kind = "redirect"
      <4>1. c.stage \in Early /\ request[q].stage \in Early
        BY <2>3, <2>5, <3>1 DEF Early
      <4> QED
        BY <1>2, <1>3, <2>1, <2>3, <4>1, ServerGoesOn
    <3>2. CASE request[q].kind # "redirect"
      BY <1>2, <2>1, <2>3, <3>2, NoServer
    <3> QED
      BY <3>1, <3>2
  <2> QED
    BY <2>7, <2>8, Together
<1> QED
  BY <1>4, <1>5, <1>6

\* An account that was not there is inserted, with an id of its own; it waits for its token.
LEMMA InsertOutcome ==
  ASSUME IInv, JInv, NEW q \in Requests, InsertAccount(q)
  PROVE  JInv'
<1>1. request[q].stage = "insert" /\ request[q] \in BusyRecord
  BY DEF InsertAccount, IInv, Typed, RequestRecord, Idle
<1>2. UNCHANGED <<current, removing, stored, marks, app, session, grant, used>>
  BY DEF InsertAccount
<1>3. AppShape' /\ MarksShape' /\ Settled(q) /\ GrantsKept /\ request[q].stage \in Early
  BY <1>1, <1>2 DEF JInv, Shapes, AppShape, MarksShape, Settled, Early, GrantsKept
<1>4. CASE account[request[q].remote] # 0
  BY <1>2, <1>3, <1>4, FailData, FailServers, Together DEF InsertAccount
<1>5. CASE account[request[q].remote] = 0
  <2> DEFINE t == request[q].remote
             n == lastId + 1
             c == [request[q] EXCEPT !.id = n, !.stage = "store"]
  <2>1. /\ lastId' = n /\ account' = [account EXCEPT ![t] = n]
        /\ request' = [request EXCEPT ![q] = c] /\ outcome' = outcome
    BY <1>5 DEF InsertAccount
  <2>2. n \in Nat /\ n # 0 /\ lastId \in Nat /\ lastId < n /\ t \in Remotes
    BY <1>1 DEF IInv, Typed, BusyRecord
  <2>3. /\ c.kind = request[q].kind /\ c.of = request[q].of /\ c.id = n /\ c.stage = "store"
        /\ c.remote = t /\ c.scopes = request[q].scopes
    BY <1>1 DEF BusyRecord
  <2>4. \A r \in Remotes : account[r] \in Nat /\ account'[r] = IF r = t THEN n ELSE account[r]
    BY <2>1 DEF IInv, Typed
  <2> HIDE DEF c, n
  <2>5. request'[q] = c /\ \A p \in Requests : p # q => request'[p] = request[p]
    BY <2>1, OneRequest DEF IInv
  <2>6. account[t] = 0 /\ current[t] = NoToken /\ removing[t] = 0
    BY <1>5, <2>2 DEF JInv, TokensGood, RemovalsMarked
  <2> HIDE DEF t
  <2>7. \A r \in Remotes : account[r] <= lastId /\ account[r] # n /\ account[r] < n
    BY <2>2, <2>4 DEF JInv, IdsApart
  <2>8. \A p \in Requests : request[p].id \in Nat /\ request[p].id <= lastId /\ request[p].id < n
    BY <2>2 DEF JInv, IdsApart, IInv, Typed, RequestRecord, BusyRecord, Idle
  <2>9. Shapes'
    BY <1>2, <1>3 DEF JInv, Shapes
  <2>10. IdsApart'
    <3>1. \A r \in Remotes :
            /\ account'[r] <= lastId'
            /\ \A u \in Remotes : account'[r] # 0 /\ account'[u] = account'[r] => u = r
      BY <2>1, <2>2, <2>4, <2>7 DEF JInv, IdsApart
    <3>2. \A p \in Requests :
            /\ request'[p].id <= lastId'
            /\ request'[p].stage \in {"update", "store"} \cup Late => request'[p].id # 0
            /\ \A r \in Remotes :
                 request'[p].id # 0 /\ account'[r] = request'[p].id => r = request'[p].remote
      <4> SUFFICES ASSUME NEW p \in Requests
                   PROVE  /\ request'[p].id <= lastId'
                          /\ request'[p].stage \in {"update", "store"} \cup Late => request'[p].id # 0
                          /\ \A r \in Remotes : request'[p].id # 0 /\ account'[r] = request'[p].id
                                                  => r = request'[p].remote
        OBVIOUS
      <4>1. CASE p = q
        BY <2>1, <2>2, <2>3, <2>4, <2>5, <2>7, <4>1
      <4>2. CASE p # q
        <5>1. request'[p] = request[p]
          BY <2>5, <4>2
        <5>2. request[p].id < n /\ request[p].id <= lastId' /\ request[p].id # n
          BY <2>1, <2>2, <2>8
        <5>3. \A r \in Remotes : account'[r] = request[p].id => account[r] = request[p].id
          BY <2>4, <5>2
        <5> QED
          BY <5>1, <5>2, <5>3 DEF JInv, IdsApart
      <4> QED
        BY <4>1, <4>2
    <3> QED
      BY <3>1, <3>2 DEF IdsApart
  <2>11. RemovalsMarked'
    BY <1>2, <2>4, <2>6 DEF JInv, RemovalsMarked
  <2>12. TokensGood'
    BY <1>2, <2>4, <2>6 DEF JInv, TokensGood, Opens
  <2>13. \A id : Storing(id) => Storing(id)'
    BY <1>1, <2>5 DEF Storing
  <2>14. \E p \in Requests : request'[p].stage = "store" /\ request'[p].id = n
    BY <2>3, <2>5
  <2>15. GapsExplained'
    <3>1. \A r \in Remotes : r # t /\ account[r] # 0 /\ current[r] = NoToken =>
            account[r] = removing[r] \/ account[r] \in marks.halfway \/ Storing(account[r])
      BY DEF JInv, GapsExplained
    <3> QED
      BY <1>2, <2>4, <2>13, <2>14, <3>1 DEF GapsExplained, Storing
  <2>16. StagesFit'
    BY <1>1, <2>3, <2>5 DEF JInv, StagesFit, Early
  <2>17. ToldIsThere'
    <3>1. \A id : id # 0 /\ Told(id) => Told(id)'
      BY <1>2, <2>4, <2>6 DEF Told, Holds, Removed
    <3>2. "store" \notin Late /\ \A p \in Requests : request[p].stage \in Late => request[p].id # 0
      BY DEF Late, JInv, IdsApart
    <3>3. \A s \in States : stored[s] \in Nat /\ (stored[s] <= lastId => stored[s] <= lastId')
      BY <2>1, <2>2 DEF JInv, Shapes
    <3> QED
      BY <1>2, <2>3, <2>5, <3>1, <3>2, <3>3 DEF JInv, ToldIsThere
  <2>18. DataFits'
    BY <2>9, <2>10, <2>11, <2>12, <2>15, <2>16, <2>17 DEF DataFits
  <2>19. c.stage \in Early
    BY <2>3 DEF Early
  <2>20. OneServer' /\ FailuresExplained'
    BY <1>2, <1>3, <2>1, <2>3, <2>19, ServerGoesOn
  <2> QED
    BY <2>18, <2>20, Together
<1> QED
  BY <1>4, <1>5

\* A token is stored: it is good for its account, and may publish if its code was exchanged.
LEMMA StoreOutcome ==
  ASSUME IInv, JInv, NEW q \in Requests, Store(q)
  PROVE  JInv'
<1>1. request[q].stage = "store" /\ request[q] \in BusyRecord
  BY DEF Store, IInv, Typed, RequestRecord, Idle
<1>2. UNCHANGED <<account, removing, lastId, marks, app, session, grant, used>>
  BY DEF Store
<1>3. AppShape' /\ MarksShape' /\ GrantsKept /\ request[q].stage \in Early
  BY <1>1, <1>2 DEF JInv, Shapes, AppShape, MarksShape, Early, GrantsKept
<1> DEFINE t == request[q].remote
           n == request[q].id
           k == request[q].kind
<1>4. /\ t \in Remotes /\ n # 0 /\ n <= lastId /\ k \in {"redirect", "password", "token"}
      /\ \A r \in Remotes : account[r] = n => r = t
  BY <1>1 DEF BusyRecord, JInv, IdsApart
<1>5. CASE account[t] # n
  <2>1. Settled(q)
    BY <1>4, <1>5 DEF Settled
  <2>2. Fail(q) /\ UNCHANGED <<current, stored>>
    BY <1>5 DEF Store
  <2> QED
    BY <1>2, <1>3, <2>1, <2>2, FailData, FailServers, Together
<1>6. CASE account[t] = n
  <2> DEFINE z == request[q].of
             v == IF k = "redirect" THEN client[z] ELSE 0
             b == Token(k, n, v, request[q].scopes)
             x == IF k = "password" THEN "bootstrap" ELSE "report"
             c == [request[q] EXCEPT !.stage = x]
  <2>1. /\ current' = [current EXCEPT ![t] = b] /\ outcome' = outcome
        /\ stored' = IF k = "redirect" THEN [stored EXCEPT ![z] = n] ELSE stored
        /\ request' = [request EXCEPT ![q] = c]
    BY <1>6 DEF Store
  <2>2. /\ c.kind = k /\ c.of = z /\ c.id = n /\ c.stage = x
        /\ c.remote = t /\ c.scopes = request[q].scopes
    BY <1>1 DEF BusyRecord
  <2>3. /\ x \in {"bootstrap", "report"} /\ (x = "bootstrap" => k = "password")
        /\ (k = "redirect" => x = "report") /\ x \in Late
    BY DEF Late
  <2>4. k = "redirect" => request[q].scopes = Requested /\ z \in States
    BY <1>1 DEF JInv, StagesFit, BusyRecord
  <2>5. /\ b.kind = k /\ b.scopes = request[q].scopes /\ b # NoToken
        /\ OpenToken(Keyring(FirstKey), n, b.row) # {}
    <3> HIDE DEF v, k, n
    <3> QED
      BY <1>4, TokenIsGood DEF JInv, Shapes, AppShape
  <2> HIDE DEF b, c, x, v
  <2>6. request'[q] = c /\ \A p \in Requests : p # q => request'[p] = request[p]
    BY <2>1, OneRequest DEF IInv
  <2>7. \A r \in Remotes : current'[r] = IF r = t THEN b ELSE current[r]
    BY <2>1 DEF JInv, Shapes
  <2>8. n \in Nat
    BY <1>1 DEF BusyRecord
  <2> HIDE DEF t, n, k, z
  <2>9. Shapes'
    BY <1>2, <1>3, <2>1, <2>8 DEF JInv, Shapes
  <2>10. IdsApart'
    BY <1>2, <1>4, <2>2, <2>6 DEF JInv, IdsApart
  <2>11. RemovalsMarked'
    BY <1>2 DEF JInv, RemovalsMarked
  <2>12. TokensGood'
    <3>1. PublishScopes \subseteq Requested
      BY DEF Requested
    <3> QED
      BY <1>2, <1>4, <1>6, <2>4, <2>5, <2>7, <3>1 DEF JInv, TokensGood, Opens
  <2>13. GapsExplained'
    <3>1. \A r \in Remotes : r # t => account[r] # n
      BY <1>4
    <3>2. \A r \in Remotes : account[r] # n /\ Storing(account[r]) =>
            \E p \in Requests : request'[p].stage = "store" /\ request'[p].id = account[r]
      BY <2>6 DEF Storing, n
    <3>3. \A r \in Remotes : account[r] # 0 /\ current[r] = NoToken =>
            account[r] = removing[r] \/ account[r] \in marks.halfway \/ Storing(account[r])
      BY DEF JInv, GapsExplained
    <3> QED
      BY <1>2, <2>5, <2>7, <3>1, <3>2, <3>3 DEF GapsExplained, Storing
  <2>14. StagesFit'
    BY <2>2, <2>3, <2>4, <2>6 DEF JInv, StagesFit, Early, k
  <2>15. ToldIsThere'
    <3>1. \A id : Told(id) => Told(id)'
      BY <1>2, <2>5, <2>7 DEF Told, Holds, Removed
    <3>2. \E r \in Remotes : account'[r] = n /\ current'[r] # NoToken
      BY <1>2, <1>4, <1>6, <2>5, <2>7
    <3>3. ASSUME NEW p \in Requests, request'[p].stage \in Late
          PROVE  Told(request[p].id)'
      <4>1. CASE p = q
        BY <2>2, <2>6, <3>2, <4>1 DEF Told, Holds
      <4>2. CASE p # q
        <5>1. request'[p] = request[p] /\ Told(request[p].id)
          BY <2>6, <3>3, <4>2 DEF JInv, ToldIsThere
        <5> QED
          BY <3>1, <5>1
      <4> QED
        BY <4>1, <4>2
    <3>4. ASSUME NEW s \in States, stored'[s] # 0
          PROVE  stored'[s] <= lastId' /\ Told(stored[s])'
      <4>1. CASE stored'[s] = n
        BY <1>2, <1>4, <3>2, <4>1 DEF Told, Holds
      <4>2. CASE stored'[s] # n
        <5>1. stored'[s] = stored[s] /\ stored[s] <= lastId /\ Told(stored[s])
          BY <2>1, <3>4, <4>2 DEF JInv, ToldIsThere, Shapes
        <5> QED
          BY <1>2, <3>1, <5>1
      <4> QED
        BY <4>1, <4>2
    <3> QED
      BY <3>3, <3>4 DEF ToldIsThere
  <2>16. DataFits'
    BY <2>9, <2>10, <2>11, <2>12, <2>13, <2>14, <2>15 DEF DataFits
  <2>17. CASE k # "redirect"
    <3>1. OneServer' /\ FailuresExplained'
      BY <1>2, <2>1, <2>2, <2>17, NoServer DEF k
    <3> QED
      BY <2>16, <3>1, Together
  <2>18. CASE k = "redirect"
    <3>1. z \in States /\ q \in Serving(z) /\ n # 0 /\ c.stage \notin Early
      BY <1>4, <2>2, <2>3, <2>4, <2>18 DEF Serving, k, z, Early
    <3>2. \A s \in States : Serving(s)' = Serving(s)
      BY <2>2, <2>6 DEF Serving, k, z
    <3>3. \A s \in States : stored'[s] = IF s = z THEN n ELSE stored[s]
      BY <2>1, <2>18 DEF JInv, Shapes
    <3>4. Serving(z) = {q} /\ grant[z] \in {"granted", "used"} /\ z \notin session
      BY <3>1 DEF JInv, OneServer
    <3>5. \A s \in States : s # z => \A p \in Serving(s) : request'[p] = request[p]
      BY <2>6, <3>1 DEF Serving
    <3>6. OneServer'
      BY <1>2, <2>2, <2>6, <3>1, <3>2, <3>3, <3>4, <3>5 DEF JInv, OneServer
    <3>7. FailuresExplained'
      BY <1>2, <2>1, <3>1, <3>2, <3>3, <3>4 DEF JInv, FailuresExplained
    <3> QED
      BY <2>16, <3>6, <3>7, Together
  <2> QED
    BY <2>17, <2>18
<1> QED
  BY <1>5, <1>6

\* Or it is not, and the account is left halfway.
LEMMA StoreFailsOutcome ==
  ASSUME IInv, JInv, NEW q \in Requests, StoreFails(q)
  PROVE  JInv'
<1>1. request[q].stage \in {"store", "bootstrap"} /\ request[q] \in BusyRecord /\ Fail(q)
  BY DEF StoreFails, IInv, Typed, RequestRecord, Idle
<1>2. UNCHANGED <<account, current, removing, lastId, stored, app, session, grant>>
  BY DEF StoreFails
<1>3. used'.callbacks = used.callbacks
  BY CallbacksCounted DEF IInv, StoreFails
<1>4. /\ MarksShape' /\ request[q].id \in marks'.halfway
      /\ marks.halfway \subseteq marks'.halfway /\ marks.removed \subseteq marks'.removed
  BY <1>1 DEF StoreFails, BusyRecord, JInv, Shapes, MarksShape
<1>5. AppShape' /\ Settled(q) /\ GrantsKept /\ request[q].stage \in Early \cup {"bootstrap"}
  BY <1>1, <1>2, <1>4 DEF JInv, Shapes, AppShape, Settled, GrantsKept, Early
<1> QED
  BY <1>1, <1>2, <1>3, <1>4, <1>5, FailData, FailServers, Together

\* The pairing is reported complete, once its token is stored.
LEMMA ReportOutcome ==
  ASSUME IInv, JInv, NEW q \in Requests, Report(q)
  PROVE  JInv'
<1>1. request[q].stage = "report" /\ request[q] \in BusyRecord
  BY DEF Report, IInv, Typed, RequestRecord, Idle
<1>2. UNCHANGED <<account, current, removing, lastId, stored, marks, app, session, grant, used>>
  BY DEF Report
<1>3. AppShape' /\ MarksShape' /\ Settled(q)
  BY <1>1, <1>2 DEF JInv, Shapes, AppShape, MarksShape, Settled
<1>4. CASE request[q].kind = "redirect"
  <2> DEFINE s == request[q].of
  <2>1. s \in States /\ q \in Serving(s) /\ request[q].stage \notin Early
    BY <1>1, <1>4 DEF BusyRecord, Serving, Early
  <2>2. request' = [request EXCEPT ![q] = Idle] /\ outcome' = [outcome EXCEPT ![s] = "succeeded"]
    BY <1>4 DEF Report
  <2> HIDE DEF s
  <2>3. Idle.id = 0 /\ Idle.id \in Nat /\ Idle.kind = "none"
        /\ Idle.stage \notin {"update", "store", "bootstrap"} \cup Late
    BY DEF Idle, Late
  <2>4. Idle.id <= lastId
    BY <2>3 DEF IInv, Typed
  <2>5. DataFits'
    BY <1>2, <1>3, <2>2, <2>3, <2>4, RequestData
  <2>6. request'[q] = Idle /\ \A p \in Requests : p # q => request'[p] = request[p]
    BY <2>2, OneRequest DEF IInv
  <2>7. stored[s] # 0 /\ grant[s] \in {"granted", "used"} /\ s \notin session /\ Serving(s) = {q}
    BY <2>1 DEF JInv, OneServer
  <2>8. \A z \in States : Serving(z)' = IF z = s THEN {} ELSE Serving(z)
    BY <2>1, <2>3, <2>6, <2>7 DEF Serving
  <2>9. \A z \in States : \A p \in Serving(z)' : request'[p] = request[p]
    BY <2>1, <2>6, <2>8 DEF Serving
  <2>10. \A z \in States : outcome'[z] = IF z = s THEN "succeeded" ELSE outcome[z]
    BY <2>2 DEF IInv, Typed
  <2>11. OneServer'
    BY <1>2, <2>8, <2>9 DEF JInv, OneServer
  <2>12. FailuresExplained'
    BY <1>2, <2>7, <2>8, <2>10 DEF JInv, FailuresExplained
  <2> QED
    BY <2>5, <2>11, <2>12, Together
<1>5. CASE request[q].kind # "redirect"
  <2> DEFINE c == [request[q] EXCEPT !.stage = "created"]
  <2>1. request' = [request EXCEPT ![q] = c] /\ outcome' = outcome
    BY <1>5 DEF Report
  <2>2. /\ c.kind = request[q].kind /\ c.id = request[q].id /\ c.stage = "created"
        /\ c.remote = request[q].remote /\ c.id \in Nat
    BY <1>1 DEF BusyRecord
  <2> HIDE DEF c
  <2>3. c.id <= lastId /\ c.id # 0 /\ \A r \in Remotes : account[r] = c.id => r = c.remote
    BY <1>1, <2>2 DEF JInv, IdsApart, Late
  <2>4. Told(c.id)
    BY <1>1, <2>2 DEF JInv, ToldIsThere, Late
  <2>5. DataFits'
    BY <1>2, <1>3, <1>5, <2>1, <2>2, <2>3, <2>4, RequestData
  <2>6. OneServer' /\ FailuresExplained'
    BY <1>2, <1>5, <2>1, <2>2, NoServer
  <2> QED
    BY <2>5, <2>6, Together
<1> QED
  BY <1>4, <1>5

-------------------------------------------------------------------------------
(* Accounts go, and restarts *)

\* An account is removed: its tokens first, then its row.
LEMMA RemovalSteps ==
  ASSUME IInv, JInv, NEW r \in Remotes, PurgeTokens(r) \/ DeleteAccount(r)
  PROVE  JInv'
<1>1. UNCHANGED <<request, stored, lastId, app, grant, session, outcome>>
  BY DEF PurgeTokens, DeleteAccount
<1>2. used'.callbacks = used.callbacks
  BY CallbacksCounted DEF IInv, PurgeTokens, DeleteAccount
<1>3. /\ MarksShape' /\ marks'.halfway = marks.halfway
      /\ \A id : id \in marks'.removed <=> id \in marks.removed \/ (PurgeTokens(r) /\ id = account[r])
  BY DEF PurgeTokens, DeleteAccount, IInv, Typed, JInv, Shapes, MarksShape
<1>4. \A t \in Remotes :
        /\ account'[t] = IF DeleteAccount(r) /\ t = r THEN 0 ELSE account[t]
        /\ current'[t] = IF t = r THEN NoToken ELSE current[t]
        /\ removing'[t] = IF t # r THEN removing[t] ELSE IF DeleteAccount(r) THEN 0 ELSE account[r]
  BY DEF PurgeTokens, DeleteAccount, IInv, Typed, JInv, Shapes
<1>5. account[r] \in marks'.removed
  BY <1>3 DEF PurgeTokens, DeleteAccount, JInv, RemovalsMarked
<1>6. Shapes'
  BY <1>1, <1>3 DEF PurgeTokens, DeleteAccount, IInv, Typed, JInv, Shapes, AppShape
<1>7. IdsApart'
  <2>1. \A t \in Remotes : account'[t] \in {0, account[t]}
    BY <1>4
  <2>2. 0 <= lastId
    BY DEF IInv, Typed
  <2> QED
    BY <1>1, <2>1, <2>2 DEF JInv, IdsApart
<1>8. RemovalsMarked'
  BY <1>3, <1>4, <1>5 DEF JInv, RemovalsMarked
<1>9. TokensGood'
  BY <1>4 DEF JInv, TokensGood, Opens
<1>10. GapsExplained'
  <2>1. \A id : Storing(id) => \E p \in Requests : request'[p].stage = "store" /\ request'[p].id = id
    BY <1>1 DEF Storing
  <2>2. \A t \in Remotes : account'[t] # 0 =>
          account'[t] = account[t] /\ (t = r => account'[t] = removing'[t])
    BY <1>4 DEF PurgeTokens, DeleteAccount
  <2> QED
    BY <1>3, <1>4, <2>1, <2>2 DEF JInv, GapsExplained, Storing
<1>11. StagesFit'
  BY <1>1 DEF JInv, StagesFit
<1>12. ToldIsThere'
  <2>1. \A id : Told(id) => Told(id)'
    BY <1>3, <1>4, <1>5 DEF Told, Holds, Removed
  <2> QED
    BY <1>1, <2>1 DEF JInv, ToldIsThere
<1>13. DataFits'
  BY <1>6, <1>7, <1>8, <1>9, <1>10, <1>11, <1>12 DEF DataFits
<1>14. OneServer' /\ FailuresExplained'
  BY <1>1, <1>2, OutcomeFrame
<1> QED
  BY <1>13, <1>14, Together

\* A restart forgets sessions, outcomes and requests, and finds the key it left.
LEMMA RestartOutcome ==
  ASSUME IInv, JInv, Restart
  PROVE  JInv'
<1>1. UNCHANGED <<grant, account, current, lastId, stored>> /\ session' = {}
  BY DEF Restart
<1>2. used'.callbacks = used.callbacks
  BY CallbacksCounted DEF IInv, Restart
<1>3. \A s \in States : outcome'[s] = "pending"
  BY DEF Restart
<1>4. /\ \A q \in Requests : request'[q] = Idle
      /\ Idle.id = 0 /\ Idle.kind = "none" /\ Idle.stage \notin {"update", "store", "bootstrap"} \cup Late
  BY DEF Restart, Idle, Late
<1>5. \A r \in Remotes : removing'[r] = 0
  BY DEF Restart
<1>6. AppShape'
  <2>1. FirstKey = 1
    BY DEF FirstKey, LoadOrCreateKey
  <2>2. LoadOrCreateKey(app.file, app.key + 1) = FirstKey
    BY <2>1 DEF JInv, Shapes, AppShape, LoadOrCreateKey
  <2> QED
    BY <2>2 DEF Restart, Reloaded, JInv, Shapes, AppShape
<1>7. /\ MarksShape' /\ marks'.removed = marks.removed /\ marks.halfway \subseteq marks'.halfway
      /\ \A q \in Requests : request[q].stage = "store" => request[q].id \in marks'.halfway
      /\ \A r \in Remotes : removing[r] # 0 => removing[r] \in marks'.halfway
  <2>1. marks \in [halfway : SUBSET Nat, removed : SUBSET Nat, forgotten : SUBSET States]
        /\ removing \in [Remotes -> Nat]
    BY DEF JInv, Shapes, MarksShape
  <2>2. \A q \in Requests : request[q].stage = "store" => request[q].id \in Nat
    BY DEF IInv, Typed, RequestRecord, Idle, BusyRecord
  <2> DEFINE h == marks.halfway \cup {request[q].id : q \in {p \in Requests : request[p].stage = "store"}}
                     \cup ({removing[r] : r \in Remotes} \ {0})
             f == marks.forgotten \cup {s \in States : used.callbacks[s] > 0}
  <2>3. marks' = [marks EXCEPT !.halfway = h, !.forgotten = f]
    BY DEF Restart
  <2>4. h \subseteq Nat /\ f \subseteq States
    BY <2>1, <2>2
  <2>5. /\ marks.halfway \subseteq h
        /\ \A q \in Requests : request[q].stage = "store" => request[q].id \in h
        /\ \A r \in Remotes : removing[r] # 0 => removing[r] \in h
    OBVIOUS
  <2> HIDE DEF h, f
  <2> QED
    BY <2>1, <2>3, <2>4, <2>5 DEF MarksShape
<1>8. Shapes'
  <2>1. removing' \in [Remotes -> Nat]
    BY DEF Restart
  <2> QED
    BY <1>1, <1>6, <1>7, <2>1 DEF JInv, Shapes
<1>9. IdsApart'
  <2>1. 0 <= lastId
    BY DEF IInv, Typed
  <2> QED
    BY <1>1, <1>4, <2>1 DEF JInv, IdsApart
<1>10. RemovalsMarked'
  BY <1>5 DEF RemovalsMarked
<1>11. TokensGood'
  BY <1>1 DEF JInv, TokensGood, Opens
<1>12. GapsExplained'
  BY <1>1, <1>7 DEF JInv, GapsExplained, Storing
<1>13. StagesFit'
  BY <1>4 DEF StagesFit
<1>14. ToldIsThere'
  <2>1. \A id : Told(id) => Told(id)'
    BY <1>1, <1>7 DEF Told, Holds, Removed
  <2> QED
    BY <1>1, <1>4, <2>1 DEF JInv, ToldIsThere
<1>15. DataFits'
  BY <1>8, <1>9, <1>10, <1>11, <1>12, <1>13, <1>14 DEF DataFits
<1>16. \A s \in States : Serving(s)' = {}
  BY <1>4 DEF Serving
<1>17. OneServer' /\ FailuresExplained'
  BY <1>1, <1>2, <1>3, <1>16 DEF JInv, OneServer, FailuresExplained
<1> QED
  BY <1>15, <1>17, Together

-------------------------------------------------------------------------------
(* What the runs check *)

LEMMA StartOutcome ==
  ASSUME Init
  PROVE  JInv
<1>1. Shapes
  BY DEF Init, Shapes, AppShape, MarksShape
<1>2. IdsApart /\ RemovalsMarked /\ TokensGood /\ GapsExplained /\ StagesFit /\ ToldIsThere
  BY DEF Init, Idle, IdsApart, RemovalsMarked, TokensGood, GapsExplained, StagesFit, ToldIsThere, Late
<1>3. \A s \in States : Serving(s) = {}
  BY DEF Init, Idle, Serving
<1>4. OneServer /\ FailuresExplained
  BY <1>3 DEF Init, OneServer, FailuresExplained
<1> QED
  BY <1>1, <1>2, <1>4 DEF JInv

\* Every step keeps the invariant.
LEMMA StepOutcome ==
  ASSUME IInv, JInv, [Next]_vars
  PROVE  JInv'
<1>1. CASE SaveApp \/ Seal \/ SealFails
  BY <1>1, CredentialSteps
<1>2. CASE Restart
  BY <1>2, RestartOutcome
<1>3. CASE \/ \E w \in Tabs, s \in States : Connect(w, s)
           \/ \E w \in Tabs, s \in States, i \in 1 .. MaxPolls : Poll(w, s, i)
           \/ \E w \in Tabs, i \in 1 .. MaxPolls : Answer(w, i)
           \/ \E w \in Tabs : Close(w)
           \/ UNCHANGED vars
  BY <1>3, TabSteps
<1>4. CASE \/ \E w \in Tabs, s \in States : Begun(w, s)
           \/ \E w \in Tabs, s \in States, b \in BOOLEAN : BeginFails(w, s, b)
           \/ \E s \in States, a \in {"granted", "denied"} : Decide(s, a)
           \/ \E s \in States : RefusedCallback(s)
  BY <1>4, EarlySteps
<1>5. CASE \E s \in States : SessionExpires(s) \/ OutcomeExpires(s)
  BY <1>5, ExpirySteps
<1>6. CASE \E q \in Requests, s \in States, r \in Remotes : Callback(q, s, r)
  BY <1>6, CallbackOutcome
<1>7. CASE \E q \in Requests, k \in {"password", "token"}, r \in Remotes : Direct(q, k, r)
  BY <1>7, DirectOutcome
<1>8. CASE \E q \in Requests, g \in SUBSET Requested : Exchange(q, g)
  BY <1>8, ExchangeOutcome
<1>9. CASE \E q \in Requests, b \in BOOLEAN : ExchangeFails(q, b)
  BY <1>9, ExchangeFailsOutcome
<1>10. CASE \E q \in Requests : Lookup(q) \/ UpdateAccount(q) \/ Bootstrap(q)
  BY <1>10, MovesOn
<1>11. CASE \E q \in Requests : InsertAccount(q) \/ Store(q) \/ StoreFails(q) \/ Report(q)
  BY <1>11, InsertOutcome, StoreOutcome, StoreFailsOutcome, ReportOutcome
<1>12. CASE \E r \in Remotes : PurgeTokens(r) \/ DeleteAccount(r)
  BY <1>12, RemovalSteps
<1> QED
  BY <1>1, <1>2, <1>3, <1>4, <1>5, <1>6, <1>7, <1>8, <1>9, <1>10, <1>11, <1>12 DEF Next

\* The inductive invariant, with the one of the exchanges.
THEOREM PairingInvariant == Spec => [](IInv /\ JInv)
<1>1. Init => IInv /\ JInv
  BY Start, StartOutcome
<1>2. IInv /\ JInv /\ [Next]_vars => (IInv /\ JInv)'
  BY Step, StepOutcome
<1> QED
  BY <1>1, <1>2, PTL DEF Spec

\* What the wizard and the routes report of a pairing is true, for every number of tabs,
\* pairings, requests, removals and restarts (pairing-routes.ts:123).
THEOREM OutcomeIsTrueCorrect == Spec => []OutcomeIsTrue
<1>1. IInv /\ JInv => OutcomeIsTrue
  <2> SUFFICES ASSUME IInv, JInv
               PROVE  OutcomeIsTrue
    OBVIOUS
  <2>1. \A s \in States : outcome[s] = "failed" => stored[s] = 0 \/ used.callbacks[s] > 1
    BY DEF JInv, FailuresExplained
  <2>2. \A id : id # 0 => Publishes(id)
    BY DEF JInv, TokensGood, Publishes
  <2>3. \A s \in States : outcome[s] = "succeeded" =>
          stored[s] # 0 /\ (Holds(stored[s]) \/ Removed(stored[s]))
    BY DEF JInv, FailuresExplained, ToldIsThere, Told
  <2>4. \A q \in Requests :
          request[q].stage = "created" => Holds(request[q].id) \/ Removed(request[q].id)
    BY DEF JInv, ToldIsThere, Told, Late
  <2> QED
    BY <2>1, <2>2, <2>3, <2>4 DEF OutcomeIsTrue
<1> QED
  BY <1>1, PairingInvariant, PTL

\* An account that is there has a token that opens under the key of the running server and may
\* be used, or its pairing or its removal was cut in two (account-manager.ts:97).
THEOREM AccountsAreUsableCorrect == Spec => []AccountsAreUsable
<1>1. IInv /\ JInv => AccountsAreUsable
  BY DEF JInv, Shapes, AppShape, TokensGood, Opens, GapsExplained, Storing, AccountsAreUsable
<1> QED
  BY <1>1, PairingInvariant, PTL

-------------------------------------------------------------------------------
(* Applications *)

\* A start loads the application that was sealed, as long as the key is the same.
LEMMA SealedLoads ==
  ASSUME NEW key, NEW v
  PROVE  CredentialsInUse(LoadAll(Keyring(key), {Platform}, Setting(key, v)), Platform, 0) = v
<1> DEFINE ring == Keyring(key)
           ref == ActiveRef(ring)
           aad == CredentialsAad(Platform, ref)
           row == [bytes |-> SealBytes(key, v, aad), ref |-> ref]
           setting == Setting(key, v)
           loaded == LoadAll(ring, {Platform}, setting)
<1>1. ResolveKey(ring, ref) = {key}
  <2>1. ring.keys = [x \in {"v1"} |-> key] /\ ring.active = "v1"
    BY DEF Keyring
  <2> HIDE DEF ring
  <2>2. ref = <<"local", "v1">>
    BY <2>1 DEF ActiveRef
  <2>3. DOMAIN ring.keys = {"v1"} /\ ring.keys["v1"] = key
    BY <2>1
  <2> HIDE DEF ref
  <2> QED
    BY <2>2, <2>3 DEF ResolveKey
<1>2. SealCredentials(ring, Platform, v) = {row}
  BY <1>1 DEF SealCredentials, Sealed
<1>3. DOMAIN setting = {Platform} /\ setting[Platform] = row
  <2>1. (CHOOSE x \in SealCredentials(ring, Platform, v) : TRUE) = row
    BY <1>2
  <2> HIDE DEF row
  <2> QED
    BY <2>1 DEF Setting
<1>4. OpenCredentials(ring, Platform, row) = {v}
  <2>1. row.ref = ref /\ row.bytes = SealBytes(key, v, aad)
    OBVIOUS
  <2>2. OpenBytes(key, SealBytes(key, v, aad), aad) = {v}
    BY DEF OpenBytes, SealBytes
  <2> HIDE DEF row, aad, ref
  <2>3. Opened(ring, row, aad) = {v}
    BY <1>1, <2>1, <2>2 DEF Opened
  <2> QED
    BY <2>1, <2>3 DEF OpenCredentials, aad
<1> HIDE DEF row, setting, ring
<1>5. DOMAIN loaded = {Platform} /\ loaded[Platform] = v
  <2> DEFINE found == {p \in {Platform} \cap DOMAIN setting : OpenCredentials(ring, p, setting[p]) # {}}
  <2>1. found = {Platform}
    BY <1>3, <1>4
  <2>2. loaded = [p \in found |-> CHOOSE c \in OpenCredentials(ring, p, setting[p]) : TRUE]
    BY DEF LoadAll
  <2> HIDE DEF found, loaded
  <2>3. DOMAIN loaded = {Platform} /\ loaded[Platform] = CHOOSE c \in {v} : TRUE
    BY <1>3, <1>4, <2>1, <2>2
  <2> QED
    BY <2>3
<1> HIDE DEF loaded
<1>6. CredentialsInUse(loaded, Platform, 0) = v
  BY <1>5 DEF CredentialsInUse
<1> QED
  BY <1>6 DEF loaded, setting, ring

\* An application that is saved comes after all others.
LEMMA SavedNext ==
  ASSUME NEW v, NEW m, NEW n, NEW s, NEW u, SealedUpTo(v, m, n, s, u)
  PROVE  SealedUpTo(v, n + 1, n + 1, Append(s, n + 1), u)
<1> DEFINE t == Append(s, n + 1)
<1>1. /\ v \in Nat /\ m \in Nat /\ n \in Nat /\ v <= m /\ m <= n /\ s \in Seq(Nat)
      /\ \A i \in 1 .. Len(s) : v < s[i] /\ s[i] <= m /\ s[i] \in Nat
      /\ \A i, j \in 1 .. Len(s) : i < j => s[i] < s[j]
  BY DEF SealedUpTo
<1>2. /\ t \in Seq(Nat) /\ Len(t) = Len(s) + 1 /\ Len(s) \in Nat
      /\ \A i \in 1 .. Len(s) : t[i] = s[i]
      /\ t[Len(s) + 1] = n + 1
  BY <1>1
<1> HIDE DEF t
<1>3. \A i \in 1 .. Len(t) : v < t[i] /\ t[i] <= n + 1
  <2> SUFFICES ASSUME NEW i \in 1 .. Len(t) PROVE v < t[i] /\ t[i] <= n + 1
    OBVIOUS
  <2>1. i \in 1 .. Len(s) \/ i = Len(s) + 1
    BY <1>2
  <2> QED
    BY <1>1, <1>2, <2>1
<1>4. \A i, j \in 1 .. Len(t) : i < j => t[i] < t[j]
  <2> SUFFICES ASSUME NEW i \in 1 .. Len(t), NEW j \in 1 .. Len(t), i < j PROVE t[i] < t[j]
    OBVIOUS
  <2>1. i \in 1 .. Len(s) /\ (j \in 1 .. Len(s) \/ j = Len(s) + 1)
    BY <1>2
  <2>2. CASE j \in 1 .. Len(s)
    BY <1>1, <1>2, <2>1, <2>2
  <2>3. CASE j = Len(s) + 1
    <3>1. s[i] <= m /\ s[i] \in Nat
      BY <1>1, <2>1
    <3> QED
      BY <1>1, <1>2, <2>1, <2>3, <3>1
  <2> QED
    BY <2>1, <2>2, <2>3
<1>5. \A k \in Nat : v < k /\ k <= n + 1 => k \in u \/ \E i \in 1 .. Len(t) : t[i] = k
  <2> SUFFICES ASSUME NEW k \in Nat, v < k, k <= n + 1, k \notin u
               PROVE  \E i \in 1 .. Len(t) : t[i] = k
    OBVIOUS
  <2>1. CASE k = n + 1
    BY <1>2, <2>1
  <2>2. CASE k # n + 1
    <3>1. k <= n
      BY <1>1, <2>2
    <3>2. PICK i \in 1 .. Len(s) : s[i] = k
      BY <3>1 DEF SealedUpTo
    <3> QED
      BY <1>2, <3>2
  <2> QED
    BY <2>1, <2>2
<1> QED
  BY <1>1, <1>2, <1>3, <1>4, <1>5 DEF SealedUpTo, t

\* The first that waits is sealed, or will not be.
LEMMA SealedNext ==
  ASSUME NEW v, NEW m, NEW n, NEW s, NEW u, SealedUpTo(v, m, n, s, u), s # <<>>
  PROVE  /\ Head(s) \in Nat
         /\ SealedUpTo(Head(s), m, n, Tail(s), u)
         /\ SealedUpTo(v, m, n, Tail(s), u \cup {Head(s)})
<1> DEFINE t == Tail(s)
           h == Head(s)
<1>1. /\ v \in Nat /\ m \in Nat /\ n \in Nat /\ v <= m /\ m <= n /\ s \in Seq(Nat)
      /\ \A i \in 1 .. Len(s) : v < s[i] /\ s[i] <= m /\ s[i] \in Nat
      /\ \A i, j \in 1 .. Len(s) : i < j => s[i] < s[j]
  BY DEF SealedUpTo
<1>2. /\ t \in Seq(Nat) /\ Len(t) = Len(s) - 1 /\ Len(s) \in Nat \ {0} /\ h = s[1]
      /\ \A i \in 1 .. Len(s) - 1 : t[i] = s[i + 1]
  BY <1>1
<1> HIDE DEF t, h
<1>3. h \in Nat /\ v < h /\ h <= m
  BY <1>1, <1>2
<1>4. \A i \in 1 .. Len(t) : h < t[i] /\ v < t[i] /\ t[i] <= m
  <2> SUFFICES ASSUME NEW i \in 1 .. Len(t) PROVE h < t[i] /\ v < t[i] /\ t[i] <= m
    OBVIOUS
  <2>1. i + 1 \in 1 .. Len(s) /\ 1 \in 1 .. Len(s) /\ 1 < i + 1 /\ t[i] = s[i + 1]
    BY <1>2
  <2> QED
    BY <1>1, <1>2, <2>1
<1>5. \A i, j \in 1 .. Len(t) : i < j => t[i] < t[j]
  <2> SUFFICES ASSUME NEW i \in 1 .. Len(t), NEW j \in 1 .. Len(t), i < j PROVE t[i] < t[j]
    OBVIOUS
  <2>1. /\ i + 1 \in 1 .. Len(s) /\ j + 1 \in 1 .. Len(s) /\ i + 1 < j + 1
        /\ t[i] = s[i + 1] /\ t[j] = s[j + 1]
    BY <1>2
  <2> QED
    BY <1>1, <2>1
<1>6. \A k \in Nat : v < k /\ k <= n /\ k \notin u /\ k # h => \E i \in 1 .. Len(t) : t[i] = k
  <2> SUFFICES ASSUME NEW k \in Nat, v < k, k <= n, k \notin u, k # h
               PROVE  \E i \in 1 .. Len(t) : t[i] = k
    OBVIOUS
  <2>1. PICK i \in 1 .. Len(s) : s[i] = k
    BY DEF SealedUpTo
  <2>2. i # 1
    BY <1>2, <2>1
  <2>3. i - 1 \in 1 .. Len(t) /\ i - 1 \in 1 .. Len(s) - 1 /\ (i - 1) + 1 = i
    BY <1>2, <2>2
  <2> QED
    BY <1>2, <2>1, <2>3
<1>7. SealedUpTo(h, m, n, t, u)
  <2>1. \A k \in Nat : h < k => v < k /\ k # h
    BY <1>1, <1>3
  <2> QED
    BY <1>1, <1>2, <1>3, <1>4, <1>5, <1>6, <2>1 DEF SealedUpTo
<1>8. SealedUpTo(v, m, n, t, u \cup {h})
  BY <1>1, <1>2, <1>3, <1>4, <1>5, <1>6 DEF SealedUpTo
<1> QED
  BY <1>3, <1>7, <1>8 DEF t, h

\* A restart falls back to the application that is sealed; those that were waiting never will be.
LEMMA FallsBack ==
  ASSUME NEW v, NEW m, NEW n, NEW s, NEW u, SealedUpTo(v, m, n, s, u)
  PROVE  SealedUpTo(v, v, n, <<>>, u \cup {s[i] : i \in DOMAIN s})
<1>1. s \in Seq(Nat) /\ DOMAIN s = 1 .. Len(s) /\ v \in Nat /\ n \in Nat /\ v <= n
  BY DEF SealedUpTo
<1>2. <<>> \in Seq(Nat) /\ Len(<<>>) = 0
  OBVIOUS
<1>3. \A k \in Nat : v < k /\ k <= n => k \in u \cup {s[i] : i \in DOMAIN s}
  BY <1>1 DEF SealedUpTo
<1> QED
  BY <1>1, <1>2, <1>3 DEF SealedUpTo

\* Applications stay in order as they are saved and sealed, and across restarts.
LEMMA OrderKept ==
  ASSUME JInv, AppsInOrder, [Next]_vars
  PROVE  AppsInOrder'
<1>1. AppShape
  BY DEF JInv, Shapes
<1>2. PICK v \in Nat :
        app.sealed = Setting(FirstKey, v) /\ SealedUpTo(v, app.memory, app.saves, app.sealing, app.unsealed)
  BY DEF AppsInOrder
<1>3. CASE SaveApp
  <2>1. /\ app'.saves = app.saves + 1 /\ app'.memory = app.saves + 1
        /\ app'.sealing = Append(app.sealing, app.saves + 1)
        /\ app'.sealed = app.sealed /\ app'.unsealed = app.unsealed
    BY <1>1, <1>3 DEF SaveApp, AppShape
  <2> QED
    BY <1>2, <2>1, SavedNext DEF AppsInOrder
<1>4. CASE Seal
  <2>1. /\ app'.saves = app.saves /\ app'.memory = app.memory /\ app'.unsealed = app.unsealed
        /\ app'.sealing = Tail(app.sealing) /\ app'.sealed = Setting(FirstKey, Head(app.sealing))
        /\ app.sealing # <<>>
    BY <1>1, <1>4 DEF Seal, AppShape
  <2>2. /\ Head(app.sealing) \in Nat
        /\ SealedUpTo(Head(app.sealing), app.memory, app.saves, Tail(app.sealing), app.unsealed)
    BY <1>2, <2>1, SealedNext
  <2>3. SealedUpTo(Head(app.sealing), app'.memory, app'.saves, app'.sealing, app'.unsealed)
    BY <2>1, <2>2
  <2> QED
    BY <2>1, <2>2, <2>3 DEF AppsInOrder
<1>5. CASE SealFails
  <2>1. /\ app'.saves = app.saves /\ app'.memory = app.memory
        /\ app'.unsealed = app.unsealed \cup {Head(app.sealing)}
        /\ app'.sealing = Tail(app.sealing) /\ app'.sealed = app.sealed
        /\ app.sealing # <<>>
    BY <1>1, <1>5 DEF SealFails, AppShape
  <2> QED
    BY <1>2, <2>1, SealedNext DEF AppsInOrder
<1>6. CASE Restart
  <2>1. FirstKey = 1 /\ app.file = FirstKey
    BY <1>1 DEF FirstKey, LoadOrCreateKey, AppShape
  <2>2. LoadOrCreateKey(app.file, app.key + 1) = FirstKey
    BY <2>1 DEF LoadOrCreateKey
  <2>3. /\ app'.memory = CredentialsInUse(LoadAll(Keyring(FirstKey), {Platform}, app.sealed), Platform, 0)
        /\ app'.sealing = <<>> /\ app'.saves = app.saves /\ app'.sealed = app.sealed
        /\ app'.unsealed = app.unsealed \cup {app.sealing[i] : i \in DOMAIN app.sealing}
    BY <1>1, <1>6, <2>2 DEF Restart, Reloaded, AppShape
  <2>4. app'.memory = v
    BY <1>2, <2>3, SealedLoads
  <2> QED
    BY <1>2, <2>3, <2>4, FallsBack DEF AppsInOrder
<1>7. CASE app' = app
  BY <1>7 DEF AppsInOrder
<1>8. SaveApp \/ Seal \/ SealFails \/ Restart \/ app' = app
  BY DEF Next, vars, Connect, Begun, BeginFails, Poll, Answer, Close, Decide, RefusedCallback,
     SessionExpires, OutcomeExpires, Callback, Direct, Exchange, ExchangeFails, Lookup, InsertAccount,
     UpdateAccount, Store, StoreFails, Bootstrap, Report, PurgeTokens, DeleteAccount
<1> QED
  BY <1>3, <1>4, <1>5, <1>6, <1>7, <1>8

\* Tokens are issued to applications that were saved before.
LEMMA IssuesKept ==
  ASSUME IInv, JInv, KInv, [Next]_vars
  PROVE  IssuedToSaved'
<1>1. AppShape /\ app.memory \in Nat /\ app.saves \in Nat /\ app.memory <= app.saves
  BY DEF JInv, Shapes, KInv, AppsInOrder, SealedUpTo
<1>2. app'.saves \in Nat /\ app.saves <= app'.saves
  <2>1. app'.saves \in {app.saves, app.saves + 1}
    BY <1>1 DEF AppShape, Next, vars, SaveApp, Seal, SealFails, Restart, Reloaded, Connect, Begun,
       BeginFails, Poll, Answer, Close, Decide, RefusedCallback, SessionExpires, OutcomeExpires,
       Callback, Direct, Exchange, ExchangeFails, Lookup, InsertAccount, UpdateAccount, Store,
       StoreFails, Bootstrap, Report, PurgeTokens, DeleteAccount
  <2> QED
    BY <1>1, <2>1
<1>3. client' \in [States -> Nat] /\ \A s \in States : client'[s] <= app'.saves
  <2>1. client' = client \/ \E s \in States : client' = [client EXCEPT ![s] = app.memory]
    BY DEF Next, vars, SaveApp, Seal, SealFails, Restart, Connect, Begun,
       BeginFails, Poll, Answer, Close, Decide, RefusedCallback, SessionExpires, OutcomeExpires,
       Callback, Direct, Exchange, ExchangeFails, Lookup, InsertAccount, UpdateAccount, Store,
       StoreFails, Bootstrap, Report, PurgeTokens, DeleteAccount
  <2>2. client \in [States -> Nat] /\ \A s \in States : client[s] <= app.saves
    BY DEF KInv, IssuedToSaved
  <2>3. client' \in [States -> Nat] /\ \A s \in States : client'[s] <= app.saves
    BY <1>1, <2>1, <2>2
  <2> QED
    BY <1>1, <1>2, <2>3
<1>4. \A r \in Remotes : current'[r] # NoToken => current'[r].app \in Nat /\ current'[r].app <= app'.saves
  <2>1. \A r \in Remotes : current[r] # NoToken => current[r].app \in Nat /\ current[r].app <= app'.saves
    BY <1>1, <1>2 DEF KInv, IssuedToSaved
  <2>2. \A r \in Remotes : current'[r] \in {NoToken, current[r]}
                             \/ (current'[r].app \in Nat /\ current'[r].app <= app'.saves)
    <3>1. CASE \E q \in Requests : Store(q)
      <4>1. PICK q \in Requests : Store(q)
        BY <3>1
      <4> DEFINE c == request[q]
                 v == IF c.kind = "redirect" THEN client[c.of] ELSE 0
                 b == Token(c.kind, c.id, v, c.scopes)
      <4>2. c \in BusyRecord
        BY <4>1 DEF Store, IInv, Typed, RequestRecord, Idle
      <4>3. v \in Nat /\ v <= app.saves
        BY <1>1, <4>2 DEF BusyRecord, KInv, IssuedToSaved
      <4>4. v <= app'.saves
        BY <1>1, <1>2, <4>3
      <4>5. c.kind \in {"redirect", "password", "token"}
        BY <4>2 DEF BusyRecord
      <4>6. \/ current' = current
            \/ current' = [current EXCEPT ![c.remote] = b]
        BY <4>1 DEF Store
      <4> HIDE DEF v, c
      <4>7. b.app = v
        BY <1>1, <4>5, TokenIsGood DEF AppShape
      <4> HIDE DEF b
      <4>8. current = [r \in Remotes |-> current[r]]
        BY DEF JInv, Shapes
      <4>9. \A r \in Remotes : current'[r] \in {current[r], b}
        BY <4>6, <4>8
      <4> QED
        BY <4>3, <4>4, <4>7, <4>9
    <3>2. CASE \E r \in Remotes : PurgeTokens(r) \/ DeleteAccount(r)
      BY <3>2 DEF PurgeTokens, DeleteAccount, JInv, Shapes
    <3>3. CASE current' = current
      BY <3>3
    <3>4. \/ \E q \in Requests : Store(q)
          \/ \E r \in Remotes : PurgeTokens(r) \/ DeleteAccount(r)
          \/ current' = current
      BY DEF Next, vars, SaveApp, Seal, SealFails, Restart, Connect, Begun,
         BeginFails, Poll, Answer, Close, Decide, RefusedCallback, SessionExpires, OutcomeExpires,
         Callback, Direct, Exchange, ExchangeFails, Lookup, InsertAccount, UpdateAccount,
         StoreFails, Bootstrap, Report
    <3> QED
      BY <3>1, <3>2, <3>3, <3>4
  <2> QED
    BY <2>1, <2>2
<1> QED
  BY <1>3, <1>4 DEF IssuedToSaved

\* The server never falls back to an earlier application than the one a token was issued to,
\* however often it restarts, unless that one was never sealed (pairing-routes.ts:76).
THEOREM TokensStayRefreshableCorrect == Spec => []TokensStayRefreshable
<1>1. Init => KInv
  <2>1. ASSUME Init
        PROVE  app.sealed = Setting(FirstKey, 1) /\ SealedUpTo(1, app.memory, app.saves, app.sealing, app.unsealed)
    BY <2>1 DEF Init, SealedUpTo
  <2>2. Init => IssuedToSaved
    BY DEF Init, IssuedToSaved
  <2> QED
    BY <2>1, <2>2 DEF KInv, AppsInOrder
<1>2. IInv /\ JInv /\ KInv /\ [Next]_vars => KInv'
  BY OrderKept, IssuesKept DEF KInv
<1>3. KInv => TokensStayRefreshable
  <2> SUFFICES ASSUME KInv, NEW r \in Remotes, current[r] # NoToken, current[r].app > app.memory
               PROVE  current[r].app \in app.unsealed
    BY DEF TokensStayRefreshable
  <2>1. PICK v \in Nat : SealedUpTo(v, app.memory, app.saves, app.sealing, app.unsealed)
    BY DEF KInv, AppsInOrder
  <2> DEFINE n == current[r].app
  <2>2. n \in Nat /\ n <= app.saves /\ n > app.memory
    BY DEF KInv, IssuedToSaved
  <2> HIDE DEF n
  <2>3. v < n
    BY <2>1, <2>2 DEF SealedUpTo
  <2>4. \A i \in 1 .. Len(app.sealing) : app.sealing[i] # n
    BY <2>1, <2>2 DEF SealedUpTo
  <2>5. n \in app.unsealed
    BY <2>1, <2>2, <2>3, <2>4 DEF SealedUpTo
  <2> QED
    BY <2>5 DEF n
<1> QED
  BY <1>1, <1>2, <1>3, PairingInvariant, PTL DEF Spec

===============================================================================
