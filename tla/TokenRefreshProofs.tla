------------------------- MODULE TokenRefreshProofs -------------------------
(***************************************************************************)
(* Type correctness of TokenRefresh, its inductive invariant IInv, and     *)
(* what follows from it.  Everything but the types assumes LockCoversCall: *)
(* the code does not fence the write of a refresh whose lock has expired.  *)
(***************************************************************************)
EXTENDS TokenRefreshInv, TLAPS

\* Every step keeps the types.
LEMMA TypeStep ==
  ASSUME Typed, [Next]_vars
  PROVE  Typed'
<1> USE TokenRefreshAssumption DEF flightVars, callerVars, userVars, platformVars, rowVars
<1>1. ASSUME NEW c \in Callers, ReadCurrent(c)
      PROVE  Typed'
  BY <1>1 DEF ReadCurrent, Typed, TypeOK, HasRefresh, ReauthHasReason, TokenSets, NoTokens,
      Flights, Verdicts, Calling, Section, Unlocked
<1>2. ASSUME NEW c \in Callers, ReadNothing(c)
      PROVE  Typed'
  BY <1>2 DEF ReadNothing, Typed, TypeOK, HasRefresh, ReauthHasReason, TokenSets, NoTokens,
      Flights, Verdicts, Calling, Section, Unlocked
<1>3. ASSUME NEW c \in Callers, UseToken(c)
      PROVE  Typed'
  BY <1>3 DEF UseToken, Typed, TypeOK, HasRefresh, ReauthHasReason, TokenSets, NoTokens,
      Flights, Verdicts, Calling, Section, Unlocked
<1>4. ASSUME NEW c \in Callers, SkipToken(c)
      PROVE  Typed'
  BY <1>4 DEF SkipToken, Typed, TypeOK, HasRefresh, ReauthHasReason, TokenSets, NoTokens,
      Flights, Verdicts, Calling, Section, Unlocked
<1>5. ASSUME NEW c \in Callers, JoinFlight(c)
      PROVE  Typed'
  BY <1>5 DEF JoinFlight, Typed, TypeOK, HasRefresh, ReauthHasReason, TokenSets, NoTokens,
      Flights, Verdicts, Calling, Section, Unlocked
<1>6. ASSUME NEW c \in Callers, StartFlight(c)
      PROVE  Typed'
  <2>0. Home[c] \in Processes
    OBVIOUS
  <2>1. CASE LockFree
    BY <1>6, <2>0, <2>1 DEF StartFlight, TakeLock, Typed, TypeOK, HasRefresh, ReauthHasReason,
        TokenSets, NoTokens, Flights, Verdicts, Calling, Section, Unlocked
  <2>2. CASE ~LockFree
    BY <1>6, <2>0, <2>2 DEF StartFlight, Typed, TypeOK, HasRefresh, ReauthHasReason,
        TokenSets, NoTokens, Flights, Verdicts, Calling, Section, Unlocked
  <2> QED
    BY <2>1, <2>2
<1>7. ASSUME NEW p \in Processes, PollLock(p)
      PROVE  Typed'
  BY <1>7 DEF PollLock, TakeLock, LockFree, Typed, TypeOK, HasRefresh, ReauthHasReason,
      TokenSets, NoTokens, Flights, Verdicts, Calling, Section, Unlocked
<1>8. ASSUME NEW p \in Processes, GiveUp(p)
      PROVE  Typed'
  BY <1>8 DEF GiveUp, EndFlight, Settle, LockFree, Typed, TypeOK, HasRefresh,
      ReauthHasReason, TokenSets, NoTokens, Flights, Verdicts, Calling, Section, Unlocked
<1>9. ASSUME NEW p \in Processes, ReadUnderLock(p)
      PROVE  Typed'
  <2>1. CASE account # "absent" /\ current # NoTokens
    <3>1. /\ flight' = [flight EXCEPT ![p] = "judge"]
          /\ verdict' = [verdict EXCEPT ![p] = "fresh"]
          /\ copy' = [copy EXCEPT ![p] = current]
          /\ UNCHANGED <<account, current, lock, waited, pc, seen, began, pairing, removing,
                         pairings, issued, accepted, withdrawn, rejected, due, exits, lost>>
      BY <1>9, <2>1 DEF ReadUnderLock, Proceed
    <3>2. TypeOK'
      BY <3>1 DEF Typed, TypeOK, HasRefresh, ReauthHasReason, TokenSets, NoTokens, Flights,
          Verdicts, Calling, Section, Unlocked
    <3>3. HasRefresh' /\ ReauthHasReason'
      BY <3>1 DEF Typed, TypeOK, HasRefresh, ReauthHasReason, TokenSets, NoTokens, Flights,
          Verdicts, Calling, Section, Unlocked
    <3> QED
      BY <3>2, <3>3 DEF Typed
  <2>2. CASE ~(account # "absent" /\ current # NoTokens)
    BY <1>9, <2>2 DEF ReadUnderLock, Proceed, Typed, TypeOK, HasRefresh, ReauthHasReason,
        TokenSets, NoTokens, Flights, Verdicts, Calling, Section, Unlocked
  <2> QED
    BY <2>1, <2>2
<1>10. ASSUME NEW p \in Processes, StillFresh(p)
      PROVE  Typed'
  BY <1>10 DEF StillFresh, Proceed, Typed, TypeOK, HasRefresh, ReauthHasReason, TokenSets,
      NoTokens, Flights, Verdicts, Calling, Section, Unlocked
<1>11. ASSUME NEW p \in Processes, NoRefreshToken(p)
      PROVE  Typed'
  BY <1>11 DEF NoRefreshToken, Proceed, Typed, TypeOK, HasRefresh, ReauthHasReason,
      TokenSets, NoTokens, Flights, Verdicts, Calling, Section, Unlocked
<1>12. ASSUME NEW p \in Processes, CallPlatform(p)
      PROVE  Typed'
  BY <1>12 DEF CallPlatform, Proceed, Typed, TypeOK, HasRefresh, ReauthHasReason, TokenSets,
      NoTokens, Flights, Verdicts, Calling, Section, Unlocked
<1>13. ASSUME NEW p \in Processes, RefreshGranted(p)
      PROVE  Typed'
  BY <1>13 DEF RefreshGranted, Proceed, Granted, Typed, TypeOK, HasRefresh, ReauthHasReason,
      TokenSets, NoTokens, Flights, Verdicts, Calling, Section, Unlocked
<1>14. ASSUME NEW p \in Processes, AnswerLost(p)
      PROVE  Typed'
  BY <1>14 DEF AnswerLost, Proceed, Granted, Typed, TypeOK, HasRefresh, ReauthHasReason,
      TokenSets, NoTokens, Flights, Verdicts, Calling, Section, Unlocked
<1>15. ASSUME NEW p \in Processes, RefreshRejected(p)
      PROVE  Typed'
  <2>1. copy[p].refresh \in 1 .. MaxTokens
    BY <1>15 DEF RefreshRejected, Typed, TypeOK, HasRefresh, ReauthHasReason, TokenSets,
        NoTokens, Flights, Verdicts, Calling, Section, Unlocked
  <2> QED
    BY <1>15, <2>1 DEF RefreshRejected, Proceed, Typed, TypeOK, HasRefresh, ReauthHasReason,
        TokenSets, NoTokens, Flights, Verdicts, Calling, Section, Unlocked
<1>16. ASSUME NEW p \in Processes, AuthFailed(p)
      PROVE  Typed'
  BY <1>16 DEF AuthFailed, Proceed, Typed, TypeOK, HasRefresh, ReauthHasReason, TokenSets,
      NoTokens, Flights, Verdicts, Calling, Section, Unlocked
<1>17. ASSUME NEW p \in Processes, RefreshFailed(p)
      PROVE  Typed'
  BY <1>17 DEF RefreshFailed, Proceed, Typed, TypeOK, HasRefresh, ReauthHasReason,
      TokenSets, NoTokens, Flights, Verdicts, Calling, Section, Unlocked
<1>18. ASSUME NEW p \in Processes, StoreRefreshed(p)
      PROVE  Typed'
  BY <1>18 DEF StoreRefreshed, Proceed, RotateCurrent, Typed, TypeOK, HasRefresh,
      ReauthHasReason, TokenSets, NoTokens, Flights, Verdicts, Calling, Section, Unlocked
<1>19. ASSUME NEW p \in Processes, StoreThrows(p)
      PROVE  Typed'
  BY <1>19 DEF StoreThrows, Proceed, Typed, TypeOK, HasRefresh, ReauthHasReason, TokenSets,
      NoTokens, Flights, Verdicts, Calling, Section, Unlocked
<1>20. ASSUME NEW p \in Processes, MarkReauth(p)
      PROVE  Typed'
  BY <1>20 DEF MarkReauth, Proceed, Typed, TypeOK, HasRefresh, ReauthHasReason, TokenSets,
      NoTokens, Flights, Verdicts, Calling, Section, Unlocked
<1>21. ASSUME NEW p \in Processes, Release(p)
      PROVE  Typed'
  BY <1>21 DEF Release, DropLock, EndFlight, Settle, Typed, TypeOK, HasRefresh,
      ReauthHasReason, TokenSets, NoTokens, Flights, Verdicts, Calling, Section, Unlocked
<1>22. ASSUME NEW p \in Processes, Exit(p)
      PROVE  Typed'
  BY <1>22 DEF Exit, EndFlight, Typed, TypeOK, HasRefresh, ReauthHasReason, TokenSets,
      NoTokens, Flights, Verdicts, Calling, Section, Unlocked
<1>23. ASSUME UpdateAccount
      PROVE  Typed'
  BY <1>23 DEF UpdateAccount, Typed, TypeOK, HasRefresh, ReauthHasReason, TokenSets,
      NoTokens, Flights, Verdicts, Calling, Section, Unlocked
<1>24. ASSUME StorePaired
      PROVE  Typed'
  BY <1>24 DEF StorePaired, RotateCurrent, Typed, TypeOK, HasRefresh, ReauthHasReason,
      TokenSets, NoTokens, Flights, Verdicts, Calling, Section, Unlocked
<1>25. ASSUME PairingLost
      PROVE  Typed'
  BY <1>25 DEF PairingLost, Typed, TypeOK, HasRefresh, ReauthHasReason, TokenSets, NoTokens,
      Flights, Verdicts, Calling, Section, Unlocked
<1>26. ASSUME DeleteTokens
      PROVE  Typed'
  BY <1>26 DEF DeleteTokens, Typed, TypeOK, HasRefresh, ReauthHasReason, TokenSets,
      NoTokens, Flights, Verdicts, Calling, Section, Unlocked
<1>27. ASSUME DeleteAccount
      PROVE  Typed'
  BY <1>27 DEF DeleteAccount, Typed, TypeOK, HasRefresh, ReauthHasReason, TokenSets,
      NoTokens, Flights, Verdicts, Calling, Section, Unlocked
<1>28. ASSUME Withdraw
      PROVE  Typed'
  BY <1>28 DEF Withdraw, Typed, TypeOK, HasRefresh, ReauthHasReason, TokenSets, NoTokens,
      Flights, Verdicts, Calling, Section, Unlocked
<1>29. ASSUME Tick
      PROVE  Typed'
  BY <1>29 DEF Tick, Earlier, Typed, TypeOK, HasRefresh, ReauthHasReason, TokenSets,
      NoTokens, Flights, Verdicts, Calling, Section, Unlocked
<1>30. ASSUME NEW n \in 1 .. MaxTokens, BecomeDue(n)
      PROVE  Typed'
  BY <1>30 DEF BecomeDue, Typed, TypeOK, HasRefresh, ReauthHasReason, TokenSets, NoTokens,
      Flights, Verdicts, Calling, Section, Unlocked
<1>31. ASSUME UNCHANGED vars
      PROVE  Typed'
  BY <1>31 DEF vars, Typed, TypeOK, HasRefresh, ReauthHasReason, TokenSets, NoTokens,
      Flights, Verdicts, Calling, Section, Unlocked
<1> QED
  BY <1>1, <1>2, <1>3, <1>4, <1>5, <1>6, <1>7, <1>8, <1>9, <1>10, <1>11, <1>12, <1>13,
      <1>14, <1>15, <1>16, <1>17, <1>18, <1>19, <1>20, <1>21, <1>22, <1>23, <1>24, <1>25,
      <1>26, <1>27, <1>28, <1>29, <1>30, <1>31 DEF Next, CallerStep, RefreshStep

LEMMA InitTyped == Init => Typed
<1> SUFFICES ASSUME Init
             PROVE  Typed
  OBVIOUS
<1> USE TokenRefreshAssumption
<1>1. TypeOK
  <2>1. current \in TokenSets /\ issued \in 1 .. MaxTokens
    BY DEF Init, TokenSets
  <2>2. lock \in [holder : Processes \cup {Nobody}, left : 0 .. LockTtl]
    BY DEF Init, Unlocked
  <2>3. /\ flight \in [Processes -> Flights]
        /\ copy \in [Processes -> TokenSets \cup {NoTokens}]
        /\ verdict \in [Processes -> Verdicts]
        /\ waited \in [Processes -> 0 .. AcquireTimeout]
    BY DEF Init, Flights, Verdicts
  <2>4. /\ pc \in [Callers -> Calling \cup {"idle", "done", "failed"}]
        /\ seen \in [Callers -> TokenSets \cup {NoTokens}]
        /\ began \in [Callers -> 0 .. MaxTokens]
    BY DEF Init
  <2>5. /\ pairing \in TokenSets \cup {NoTokens}
        /\ account = "active"
        /\ pairings \in 0 .. MaxPairings /\ exits \in 0 .. MaxExits /\ lost \in 0 .. MaxLost
    BY DEF Init
  <2>6. accepted \in SUBSET (1 .. MaxTokens) /\ withdrawn = {} /\ rejected = {} /\ due = {}
    BY DEF Init
  <2>7. removing \in BOOLEAN
    BY Zenon DEF Init
  <2> QED
    BY <2>1, <2>2, <2>3, <2>4, <2>5, <2>6, <2>7 DEF TypeOK
<1> QED
  BY <1>1 DEF Init, Typed, HasRefresh, ReauthHasReason

\* The types hold whatever becomes of the lock.
THEOREM TypeCorrect == Spec => []TypeOK
<1>1. Typed /\ [Next]_vars => Typed'
  BY TypeStep
<1>2. Typed => TypeOK
  BY DEF Typed
<1> QED
  BY <1>1, <1>2, InitTyped, PTL DEF Spec

\* A refresh keeps its lock row, and keeps it live.
LEMMA LockStep ==
  ASSUME Typed, LockCoversCall, HoldsLock, [Next]_vars
  PROVE  HoldsLock'
<1> USE TokenRefreshAssumption DEF flightVars, callerVars, userVars, platformVars, rowVars
<1>1. ASSUME NEW c \in Callers, StartFlight(c)
      PROVE  HoldsLock'
  <2>0. Home[c] \in Processes
    OBVIOUS
  <2>1. CASE LockFree
    BY <1>1, <2>0, <2>1 DEF StartFlight, TakeLock, LockFree, HoldsLock, InSection, Section,
        Typed, TypeOK
  <2>2. CASE ~LockFree
    BY <1>1, <2>0, <2>2 DEF StartFlight, HoldsLock, InSection, Section, Typed, TypeOK
  <2> QED
    BY <2>1, <2>2
<1>2. ASSUME NEW p \in Processes, PollLock(p)
      PROVE  HoldsLock'
  BY <1>2 DEF PollLock, TakeLock, LockFree, HoldsLock, InSection, Section, Typed, TypeOK,
      Unlocked
<1>3. ASSUME NEW p \in Processes, GiveUp(p)
      PROVE  HoldsLock'
  BY <1>3 DEF GiveUp, EndFlight, Settle, LockFree, HoldsLock, InSection, Section, Typed,
      TypeOK, Unlocked
<1>4. ASSUME NEW p \in Processes, ReadUnderLock(p)
      PROVE  HoldsLock'
  BY <1>4 DEF ReadUnderLock, Proceed, HoldsLock, InSection, Section, Typed, TypeOK, Unlocked
<1>5. ASSUME NEW p \in Processes, StillFresh(p)
      PROVE  HoldsLock'
  BY <1>5 DEF StillFresh, Proceed, HoldsLock, InSection, Section, Typed, TypeOK, Unlocked
<1>6. ASSUME NEW p \in Processes, NoRefreshToken(p)
      PROVE  HoldsLock'
  BY <1>6 DEF NoRefreshToken, Proceed, HoldsLock, InSection, Section, Typed, TypeOK,
      Unlocked
<1>7. ASSUME NEW p \in Processes, CallPlatform(p)
      PROVE  HoldsLock'
  BY <1>7 DEF CallPlatform, Proceed, HoldsLock, InSection, Section, Typed, TypeOK, Unlocked
<1>8. ASSUME NEW p \in Processes, RefreshGranted(p)
      PROVE  HoldsLock'
  BY <1>8 DEF RefreshGranted, Proceed, Granted, HoldsLock, InSection, Section, Typed,
      TypeOK, Unlocked
<1>9. ASSUME NEW p \in Processes, AnswerLost(p)
      PROVE  HoldsLock'
  BY <1>9 DEF AnswerLost, Proceed, Granted, HoldsLock, InSection, Section, Typed, TypeOK,
      Unlocked
<1>10. ASSUME NEW p \in Processes, RefreshRejected(p)
      PROVE  HoldsLock'
  BY <1>10 DEF RefreshRejected, Proceed, HoldsLock, InSection, Section, Typed, TypeOK,
      Unlocked
<1>11. ASSUME NEW p \in Processes, AuthFailed(p)
      PROVE  HoldsLock'
  BY <1>11 DEF AuthFailed, Proceed, HoldsLock, InSection, Section, Typed, TypeOK, Unlocked
<1>12. ASSUME NEW p \in Processes, RefreshFailed(p)
      PROVE  HoldsLock'
  BY <1>12 DEF RefreshFailed, Proceed, HoldsLock, InSection, Section, Typed, TypeOK,
      Unlocked
<1>13. ASSUME NEW p \in Processes, StoreRefreshed(p)
      PROVE  HoldsLock'
  BY <1>13 DEF StoreRefreshed, Proceed, RotateCurrent, HoldsLock, InSection, Section, Typed,
      TypeOK, Unlocked
<1>14. ASSUME NEW p \in Processes, StoreThrows(p)
      PROVE  HoldsLock'
  BY <1>14 DEF StoreThrows, Proceed, HoldsLock, InSection, Section, Typed, TypeOK, Unlocked
<1>15. ASSUME NEW p \in Processes, MarkReauth(p)
      PROVE  HoldsLock'
  BY <1>15 DEF MarkReauth, Proceed, HoldsLock, InSection, Section, Typed, TypeOK, Unlocked
<1>16. ASSUME NEW p \in Processes, Release(p)
      PROVE  HoldsLock'
  BY <1>16 DEF Release, DropLock, EndFlight, Settle, HoldsLock, InSection, Section, Typed,
      TypeOK, Unlocked
<1>17. ASSUME NEW p \in Processes, Exit(p)
      PROVE  HoldsLock'
  BY <1>17 DEF Exit, EndFlight, HoldsLock, InSection, Section, Typed, TypeOK, Unlocked
<1>18. ASSUME Tick
      PROVE  HoldsLock'
  BY <1>18 DEF Tick, Earlier, HoldsLock, InSection, Section, Typed, TypeOK, Unlocked
<1>19. ASSUME
        \/ \E c \in Callers :
             \/ ReadCurrent(c) \/ ReadNothing(c) \/ UseToken(c) \/ SkipToken(c) \/ JoinFlight(c)
        \/ \E n \in 1 .. MaxTokens : BecomeDue(n)
        \/ UpdateAccount \/ StorePaired \/ PairingLost \/ DeleteTokens \/ DeleteAccount
        \/ Withdraw \/ UNCHANGED vars
      PROVE  HoldsLock'
  <2>1. UNCHANGED <<lock, flight>>
    BY <1>19 DEF vars, ReadCurrent, ReadNothing, UseToken, SkipToken, JoinFlight,
        UpdateAccount, StorePaired, PairingLost, DeleteTokens, DeleteAccount, Withdraw,
        BecomeDue, RotateCurrent
  <2> QED
    BY <2>1 DEF HoldsLock, InSection, Section, Typed, TypeOK, Unlocked
<1> QED
  BY <1>1, <1>2, <1>3, <1>4, <1>5, <1>6, <1>7, <1>8, <1>9, <1>10, <1>11, <1>12, <1>13,
      <1>14, <1>15, <1>16, <1>17, <1>18, <1>19 DEF Next, CallerStep, RefreshStep

\* What the types say, without the sets they are built from.
LEMMA TypeFacts ==
  ASSUME Typed
  PROVE  /\ flight \in [Processes -> Flights] /\ verdict \in [Processes -> Verdicts]
         /\ copy \in [Processes -> TokenSets \cup {NoTokens}]
         /\ current \in TokenSets \cup {NoTokens} /\ pairing \in TokenSets \cup {NoTokens}
         /\ \A t \in TokenSets \cup {NoTokens} : t.number \in Nat /\ t.refresh \in Nat
         /\ pc \in [Callers -> Calling \cup {"idle", "done", "failed"}]
         /\ seen \in [Callers -> TokenSets \cup {NoTokens}]
         /\ began \in [Callers -> Nat]
         /\ issued \in Nat \ {0} /\ pairings \in Nat /\ exits \in Nat /\ lost \in Nat
         /\ accepted \subseteq Nat \ {0} /\ withdrawn \subseteq Nat \ {0}
<1> USE TokenRefreshAssumption
<1>1. MaxTokens \in Nat /\ MaxPairings \in Nat /\ MaxExits \in Nat /\ MaxLost \in Nat
  OBVIOUS
<1>2. \A t \in TokenSets \cup {NoTokens} : t.number \in Nat /\ t.refresh \in Nat
  BY <1>1 DEF TokenSets, NoTokens
<1>3. began \in [Callers -> Nat]
  BY <1>1 DEF Typed, TypeOK
<1> QED
  BY <1>1, <1>2, <1>3 DEF Typed, TypeOK

\* What a refresh that the platform grants changes.
LEMMA GrantedFacts ==
  ASSUME Typed, AllKnown, NEW p \in Processes, NEW policy \in Policies, Granted(p, policy)
  PROVE  /\ issued' = issued + 1 /\ withdrawn' = withdrawn /\ rejected' = rejected
         /\ copy[p].refresh \in accepted
         /\ \A q \in Processes : q # p => copy'[q] = copy[q]
         /\ copy'[p].number = issued + 1
         /\ copy'[p].refresh \in {0, copy[p].refresh, issued + 1}
         /\ accepted' \subseteq accepted \cup {issued + 1}
         /\ accepted \ accepted' \subseteq {copy[p].refresh}
         /\ copy'[p].refresh = 0 \/ copy'[p].refresh \in accepted'
<1> USE TokenRefreshAssumption DEF Granted, Typed, TypeOK, TokenSets, NoTokens
<1>1. CASE policy = "rotates"
  BY <1>1
<1>2. CASE policy = "repeats"
  BY <1>2
<1>3. CASE policy = "omits"
  BY <1>3
<1> QED
  BY <1>1, <1>2, <1>3

\* Nothing unknown to the platform is stored or used.
LEMMA KnownStep ==
  ASSUME Typed, AllKnown, [Next]_vars
  PROVE  AllKnown'
<1> USE TokenRefreshAssumption DEF flightVars, callerVars, userVars, platformVars, rowVars
<1>1. ASSUME NEW p \in Processes, GiveUp(p)
      PROVE  AllKnown'
  BY TypeFacts, <1>1 DEF GiveUp, EndFlight, Settle, LockFree, AllKnown, Known, NoTokens
<1>2. ASSUME NEW p \in Processes, ReadUnderLock(p)
      PROVE  AllKnown'
  BY TypeFacts, <1>2 DEF ReadUnderLock, Proceed, AllKnown, Known, NoTokens
<1>3. ASSUME NEW p \in Processes, RefreshGranted(p)
      PROVE  AllKnown'
  <2>1. PICK policy \in Policies : Granted(p, policy)
    BY <1>3 DEF RefreshGranted
  <2>2. UNCHANGED <<current, pairing>>
    BY <1>3 DEF RefreshGranted
  <2>3. /\ issued' = issued + 1 /\ copy'[p].number = issued + 1
        /\ copy[p].refresh \in accepted
        /\ copy'[p].refresh \in {0, copy[p].refresh, issued + 1}
        /\ \A q \in Processes : q # p => copy'[q] = copy[q]
        /\ accepted' \subseteq accepted \cup {issued + 1}
    BY <2>1, GrantedFacts
  <2> QED
    BY <2>2, <2>3, TypeFacts DEF AllKnown, Known, NoTokens
<1>4. ASSUME NEW p \in Processes, AnswerLost(p)
      PROVE  AllKnown'
  <2>1. PICK policy \in Policies : Granted(p, policy)
    BY <1>4 DEF AnswerLost
  <2>2. UNCHANGED <<current, pairing>>
    BY <1>4 DEF AnswerLost
  <2>3. /\ issued' = issued + 1 /\ copy'[p].number = issued + 1
        /\ copy[p].refresh \in accepted
        /\ copy'[p].refresh \in {0, copy[p].refresh, issued + 1}
        /\ \A q \in Processes : q # p => copy'[q] = copy[q]
        /\ accepted' \subseteq accepted \cup {issued + 1}
    BY <2>1, GrantedFacts
  <2> QED
    BY <2>2, <2>3, TypeFacts DEF AllKnown, Known, NoTokens
<1>5. ASSUME NEW p \in Processes, StoreRefreshed(p)
      PROVE  AllKnown'
  BY TypeFacts, <1>5 DEF StoreRefreshed, Proceed, RotateCurrent, AllKnown, Known, NoTokens
<1>6. ASSUME NEW p \in Processes, Release(p)
      PROVE  AllKnown'
  BY TypeFacts, <1>6 DEF Release, DropLock, EndFlight, Settle, AllKnown, Known, NoTokens
<1>7. ASSUME NEW p \in Processes, Exit(p)
      PROVE  AllKnown'
  BY TypeFacts, <1>7 DEF Exit, EndFlight, AllKnown, Known, NoTokens
<1>8. ASSUME UpdateAccount
      PROVE  AllKnown'
  BY TypeFacts, <1>8 DEF UpdateAccount, AllKnown, Known, NoTokens
<1>9. ASSUME StorePaired
      PROVE  AllKnown'
  BY TypeFacts, <1>9 DEF StorePaired, RotateCurrent, AllKnown, Known, NoTokens
<1>10. ASSUME PairingLost
      PROVE  AllKnown'
  BY TypeFacts, <1>10 DEF PairingLost, AllKnown, Known, NoTokens
<1>11. ASSUME DeleteTokens
      PROVE  AllKnown'
  BY TypeFacts, <1>11 DEF DeleteTokens, AllKnown, Known, NoTokens
<1>12. ASSUME DeleteAccount
      PROVE  AllKnown'
  BY TypeFacts, <1>12 DEF DeleteAccount, AllKnown, Known, NoTokens
<1>13. ASSUME Withdraw
      PROVE  AllKnown'
  BY TypeFacts, <1>13 DEF Withdraw, AllKnown, Known, NoTokens
<1>14. ASSUME
        \/ \E c \in Callers :
             \/ ReadCurrent(c) \/ ReadNothing(c) \/ UseToken(c) \/ SkipToken(c) \/ JoinFlight(c)
             \/ StartFlight(c)
        \/ \E p \in Processes :
             \/ PollLock(p) \/ StillFresh(p) \/ NoRefreshToken(p) \/ CallPlatform(p)
             \/ RefreshRejected(p) \/ AuthFailed(p) \/ RefreshFailed(p) \/ StoreThrows(p)
             \/ MarkReauth(p)
        \/ \E n \in 1 .. MaxTokens : BecomeDue(n)
        \/ Tick \/ UNCHANGED vars
      PROVE  AllKnown'
  <2>1. UNCHANGED <<current, copy, pairing, accepted, issued>>
    BY <1>14 DEF vars, ReadCurrent, ReadNothing, UseToken, SkipToken, JoinFlight, StartFlight,
        PollLock, StillFresh, NoRefreshToken, CallPlatform, RefreshRejected, AuthFailed,
        RefreshFailed, StoreThrows, MarkReauth, Tick, BecomeDue, Earlier, LockFree, Proceed,
        TakeLock
  <2> QED
    BY TypeFacts, <2>1 DEF AllKnown, Known, NoTokens
<1> QED
  BY <1>1, <1>2, <1>3, <1>4, <1>5, <1>6, <1>7, <1>8, <1>9, <1>10, <1>11, <1>12, <1>13, <1>14
      DEF Next, CallerStep, RefreshStep

\* A re-pairing brings a refresh token of its own.
LEMMA PairingStep ==
  ASSUME Typed, AllKnown, PairingIsNew, [Next]_vars
  PROVE  PairingIsNew'
<1> USE TokenRefreshAssumption DEF flightVars, callerVars, userVars, platformVars, rowVars
<1>1. ASSUME NEW p \in Processes, GiveUp(p)
      PROVE  PairingIsNew'
  BY TypeFacts, <1>1 DEF GiveUp, EndFlight, Settle, LockFree, PairingIsNew, AllKnown, Known,
      NoTokens
<1>2. ASSUME NEW p \in Processes, ReadUnderLock(p)
      PROVE  PairingIsNew'
  BY TypeFacts, <1>2 DEF ReadUnderLock, Proceed, PairingIsNew, AllKnown, Known, NoTokens
<1>3. ASSUME NEW p \in Processes, RefreshGranted(p)
      PROVE  PairingIsNew'
  <2>1. PICK policy \in Policies : Granted(p, policy)
    BY <1>3 DEF RefreshGranted
  <2>2. UNCHANGED <<current, pairing, pairings>>
    BY <1>3 DEF RefreshGranted
  <2>3. /\ issued' = issued + 1 /\ copy'[p].number = issued + 1
        /\ copy[p].refresh \in accepted
        /\ copy'[p].refresh \in {0, copy[p].refresh, issued + 1}
        /\ \A q \in Processes : q # p => copy'[q] = copy[q]
        /\ accepted' \subseteq accepted \cup {issued + 1}
    BY <2>1, GrantedFacts
  <2> QED
    BY <2>2, <2>3, TypeFacts DEF PairingIsNew, AllKnown, Known, NoTokens
<1>4. ASSUME NEW p \in Processes, AnswerLost(p)
      PROVE  PairingIsNew'
  <2>1. PICK policy \in Policies : Granted(p, policy)
    BY <1>4 DEF AnswerLost
  <2>2. UNCHANGED <<current, pairing, pairings>>
    BY <1>4 DEF AnswerLost
  <2>3. /\ issued' = issued + 1 /\ copy'[p].number = issued + 1
        /\ copy[p].refresh \in accepted
        /\ copy'[p].refresh \in {0, copy[p].refresh, issued + 1}
        /\ \A q \in Processes : q # p => copy'[q] = copy[q]
        /\ accepted' \subseteq accepted \cup {issued + 1}
    BY <2>1, GrantedFacts
  <2> QED
    BY <2>2, <2>3, TypeFacts DEF PairingIsNew, AllKnown, Known, NoTokens
<1>5. ASSUME NEW p \in Processes, StoreRefreshed(p)
      PROVE  PairingIsNew'
  BY TypeFacts, <1>5 DEF StoreRefreshed, Proceed, RotateCurrent, PairingIsNew, AllKnown,
      Known, NoTokens
<1>6. ASSUME NEW p \in Processes, Release(p)
      PROVE  PairingIsNew'
  BY TypeFacts, <1>6 DEF Release, DropLock, EndFlight, Settle, PairingIsNew, AllKnown,
      Known, NoTokens
<1>7. ASSUME NEW p \in Processes, Exit(p)
      PROVE  PairingIsNew'
  BY TypeFacts, <1>7 DEF Exit, EndFlight, PairingIsNew, AllKnown, Known, NoTokens
<1>8. ASSUME UpdateAccount
      PROVE  PairingIsNew'
  BY TypeFacts, <1>8 DEF UpdateAccount, PairingIsNew, AllKnown, Known, NoTokens
<1>9. ASSUME StorePaired
      PROVE  PairingIsNew'
  BY TypeFacts, <1>9 DEF StorePaired, RotateCurrent, PairingIsNew, AllKnown, Known, NoTokens
<1>10. ASSUME PairingLost
      PROVE  PairingIsNew'
  BY TypeFacts, <1>10 DEF PairingLost, PairingIsNew, AllKnown, Known, NoTokens
<1>11. ASSUME DeleteTokens
      PROVE  PairingIsNew'
  BY TypeFacts, <1>11 DEF DeleteTokens, PairingIsNew, AllKnown, Known, NoTokens
<1>12. ASSUME DeleteAccount
      PROVE  PairingIsNew'
  BY TypeFacts, <1>12 DEF DeleteAccount, PairingIsNew, AllKnown, Known, NoTokens
<1>13. ASSUME
        \/ \E c \in Callers :
             \/ ReadCurrent(c) \/ ReadNothing(c) \/ UseToken(c) \/ SkipToken(c) \/ JoinFlight(c)
             \/ StartFlight(c)
        \/ \E p \in Processes :
             \/ PollLock(p) \/ StillFresh(p) \/ NoRefreshToken(p) \/ CallPlatform(p)
             \/ RefreshRejected(p) \/ AuthFailed(p) \/ RefreshFailed(p) \/ StoreThrows(p)
             \/ MarkReauth(p)
        \/ \E n \in 1 .. MaxTokens : BecomeDue(n)
        \/ Withdraw \/ Tick \/ UNCHANGED vars
      PROVE  PairingIsNew'
  <2>1. UNCHANGED <<current, copy, pairing, pairings>>
    BY <1>13 DEF vars, ReadCurrent, ReadNothing, UseToken, SkipToken, JoinFlight, StartFlight,
        PollLock, StillFresh, NoRefreshToken, CallPlatform, RefreshRejected, AuthFailed,
        RefreshFailed, StoreThrows, MarkReauth, Withdraw, Tick, BecomeDue, Earlier, LockFree,
        Proceed, TakeLock
  <2> QED
    BY TypeFacts, <2>1 DEF PairingIsNew, AllKnown, Known, NoTokens
<1> QED
  BY <1>1, <1>2, <1>3, <1>4, <1>5, <1>6, <1>7, <1>8, <1>9, <1>10, <1>11, <1>12, <1>13 DEF
      Next, CallerStep, RefreshStep

\* A removed account leaves no token, whatever was under way.
LEMMA PurgeStep ==
  ASSUME Typed, RemovalPurges, [Next]_vars
  PROVE  RemovalPurges'
<1> USE TokenRefreshAssumption DEF flightVars, callerVars, userVars, platformVars, rowVars
<1>1. ASSUME NEW p \in Processes, StoreRefreshed(p)
      PROVE  RemovalPurges'
  BY <1>1 DEF StoreRefreshed, Proceed, RotateCurrent, RemovalPurges, ReauthHasReason, Typed
<1>2. ASSUME NEW p \in Processes, MarkReauth(p)
      PROVE  RemovalPurges'
  BY <1>2 DEF MarkReauth, Proceed, RemovalPurges, ReauthHasReason, Typed
<1>3. ASSUME UpdateAccount
      PROVE  RemovalPurges'
  BY <1>3 DEF UpdateAccount, RemovalPurges, ReauthHasReason, Typed
<1>4. ASSUME StorePaired
      PROVE  RemovalPurges'
  BY <1>4 DEF StorePaired, RotateCurrent, RemovalPurges, ReauthHasReason, Typed
<1>5. ASSUME DeleteTokens
      PROVE  RemovalPurges'
  BY <1>5 DEF DeleteTokens, RemovalPurges, ReauthHasReason, Typed
<1>6. ASSUME DeleteAccount
      PROVE  RemovalPurges'
  BY <1>6 DEF DeleteAccount, RemovalPurges, ReauthHasReason, Typed
<1>7. ASSUME
        \/ \E c \in Callers :
             \/ ReadCurrent(c) \/ ReadNothing(c) \/ UseToken(c) \/ SkipToken(c) \/ JoinFlight(c)
             \/ StartFlight(c)
        \/ \E p \in Processes :
             \/ PollLock(p) \/ GiveUp(p) \/ ReadUnderLock(p) \/ StillFresh(p) \/ NoRefreshToken(p)
             \/ CallPlatform(p) \/ RefreshGranted(p) \/ AnswerLost(p) \/ RefreshRejected(p)
             \/ AuthFailed(p) \/ RefreshFailed(p) \/ StoreThrows(p) \/ Release(p) \/ Exit(p)
        \/ \E n \in 1 .. MaxTokens : BecomeDue(n)
        \/ PairingLost \/ Withdraw \/ Tick \/ UNCHANGED vars
      PROVE  RemovalPurges'
  <2>1. UNCHANGED <<account, current>>
    BY <1>7 DEF vars, ReadCurrent, ReadNothing, UseToken, SkipToken, JoinFlight, StartFlight,
        PollLock, GiveUp, ReadUnderLock, StillFresh, NoRefreshToken, CallPlatform,
        RefreshGranted, AnswerLost, RefreshRejected, AuthFailed, RefreshFailed, StoreThrows,
        Release, Exit, PairingLost, Withdraw, Tick, BecomeDue, DropLock, Earlier, EndFlight,
        Granted, LockFree, Proceed, Settle, TakeLock
  <2> QED
    BY <2>1 DEF RemovalPurges, ReauthHasReason, Typed
<1> QED
  BY <1>1, <1>2, <1>3, <1>4, <1>5, <1>6, <1>7 DEF Next, CallerStep, RefreshStep

\* Nothing is used up without a successor under way.
LEMMA UsedUpStep ==
  ASSUME Typed, HoldsLock, AllKnown, PairingIsNew, RemovalPurges, NothingUsedUp,
         [Next]_vars
  PROVE  NothingUsedUp'
<1> USE TokenRefreshAssumption DEF flightVars, callerVars, userVars, platformVars, rowVars
<1>0. \A p, q \in Processes : InSection(p) /\ InSection(q) => p = q
  BY DEF HoldsLock
<1>1. ASSUME NEW c \in Callers, StartFlight(c)
      PROVE  NothingUsedUp'
  BY TypeFacts, <1>0, <1>1 DEF StartFlight, TakeLock, NothingUsedUp, RemovalPurges, Alive,
      PairingIsNew, AllKnown, Known, InSection, Section, NoTokens
<1>2. ASSUME NEW p \in Processes, PollLock(p)
      PROVE  NothingUsedUp'
  BY TypeFacts, <1>0, <1>2 DEF PollLock, TakeLock, LockFree, NothingUsedUp, RemovalPurges,
      Alive, PairingIsNew, AllKnown, Known, InSection, Section, NoTokens
<1>3. ASSUME NEW p \in Processes, GiveUp(p)
      PROVE  NothingUsedUp'
  BY TypeFacts, <1>0, <1>3 DEF GiveUp, EndFlight, Settle, LockFree, NothingUsedUp,
      RemovalPurges, Alive, PairingIsNew, AllKnown, Known, InSection, Section, NoTokens
<1>4. ASSUME NEW p \in Processes, ReadUnderLock(p)
      PROVE  NothingUsedUp'
  BY TypeFacts, <1>0, <1>4 DEF ReadUnderLock, Proceed, NothingUsedUp, RemovalPurges, Alive,
      PairingIsNew, AllKnown, Known, InSection, Section, NoTokens
<1>5. ASSUME NEW p \in Processes, StillFresh(p)
      PROVE  NothingUsedUp'
  BY TypeFacts, <1>0, <1>5 DEF StillFresh, Proceed, NothingUsedUp, RemovalPurges, Alive,
      PairingIsNew, AllKnown, Known, InSection, Section, NoTokens
<1>6. ASSUME NEW p \in Processes, NoRefreshToken(p)
      PROVE  NothingUsedUp'
  BY TypeFacts, <1>0, <1>6 DEF NoRefreshToken, Proceed, NothingUsedUp, RemovalPurges, Alive,
      PairingIsNew, AllKnown, Known, InSection, Section, NoTokens
<1>7. ASSUME NEW p \in Processes, CallPlatform(p)
      PROVE  NothingUsedUp'
  BY TypeFacts, <1>0, <1>7 DEF CallPlatform, Proceed, NothingUsedUp, RemovalPurges, Alive,
      PairingIsNew, AllKnown, Known, InSection, Section, NoTokens
<1>8. ASSUME NEW p \in Processes, RefreshGranted(p)
      PROVE  NothingUsedUp'
  BY TypeFacts, <1>0, <1>8 DEF RefreshGranted, Proceed, Granted, NothingUsedUp,
      RemovalPurges, Alive, PairingIsNew, AllKnown, Known, InSection, Section, NoTokens
<1>9. ASSUME NEW p \in Processes, AnswerLost(p)
      PROVE  NothingUsedUp'
  BY TypeFacts, <1>0, <1>9 DEF AnswerLost, Proceed, Granted, NothingUsedUp, RemovalPurges,
      Alive, PairingIsNew, AllKnown, Known, InSection, Section, NoTokens
<1>10. ASSUME NEW p \in Processes, RefreshRejected(p)
      PROVE  NothingUsedUp'
  BY TypeFacts, <1>0, <1>10 DEF RefreshRejected, Proceed, NothingUsedUp, RemovalPurges,
      Alive, PairingIsNew, AllKnown, Known, InSection, Section, NoTokens
<1>11. ASSUME NEW p \in Processes, AuthFailed(p)
      PROVE  NothingUsedUp'
  BY TypeFacts, <1>0, <1>11 DEF AuthFailed, Proceed, NothingUsedUp, RemovalPurges, Alive,
      PairingIsNew, AllKnown, Known, InSection, Section, NoTokens
<1>12. ASSUME NEW p \in Processes, RefreshFailed(p)
      PROVE  NothingUsedUp'
  BY TypeFacts, <1>0, <1>12 DEF RefreshFailed, Proceed, NothingUsedUp, RemovalPurges, Alive,
      PairingIsNew, AllKnown, Known, InSection, Section, NoTokens
<1>13. ASSUME NEW p \in Processes, StoreRefreshed(p)
      PROVE  NothingUsedUp'
  BY TypeFacts, <1>0, <1>13 DEF StoreRefreshed, Proceed, RotateCurrent, NothingUsedUp,
      RemovalPurges, Alive, PairingIsNew, AllKnown, Known, InSection, Section, NoTokens
<1>14. ASSUME NEW p \in Processes, StoreThrows(p)
      PROVE  NothingUsedUp'
  BY TypeFacts, <1>0, <1>14 DEF StoreThrows, Proceed, NothingUsedUp, RemovalPurges, Alive,
      PairingIsNew, AllKnown, Known, InSection, Section, NoTokens
<1>15. ASSUME NEW p \in Processes, MarkReauth(p)
      PROVE  NothingUsedUp'
  BY TypeFacts, <1>0, <1>15 DEF MarkReauth, Proceed, NothingUsedUp, RemovalPurges, Alive,
      PairingIsNew, AllKnown, Known, InSection, Section, NoTokens
<1>16. ASSUME NEW p \in Processes, Release(p)
      PROVE  NothingUsedUp'
  BY TypeFacts, <1>0, <1>16 DEF Release, DropLock, EndFlight, Settle, NothingUsedUp,
      RemovalPurges, Alive, PairingIsNew, AllKnown, Known, InSection, Section, NoTokens
<1>17. ASSUME NEW p \in Processes, Exit(p)
      PROVE  NothingUsedUp'
  BY TypeFacts, <1>0, <1>17 DEF Exit, EndFlight, NothingUsedUp, RemovalPurges, Alive,
      PairingIsNew, AllKnown, Known, InSection, Section, NoTokens
<1>18. ASSUME UpdateAccount
      PROVE  NothingUsedUp'
  BY TypeFacts, <1>0, <1>18 DEF UpdateAccount, NothingUsedUp, RemovalPurges, Alive,
      PairingIsNew, AllKnown, Known, InSection, Section, NoTokens
<1>19. ASSUME StorePaired
      PROVE  NothingUsedUp'
  BY TypeFacts, <1>0, <1>19 DEF StorePaired, RotateCurrent, NothingUsedUp, RemovalPurges,
      Alive, PairingIsNew, AllKnown, Known, InSection, Section, NoTokens
<1>20. ASSUME PairingLost
      PROVE  NothingUsedUp'
  BY TypeFacts, <1>0, <1>20 DEF PairingLost, NothingUsedUp, RemovalPurges, Alive,
      PairingIsNew, AllKnown, Known, InSection, Section, NoTokens
<1>21. ASSUME DeleteTokens
      PROVE  NothingUsedUp'
  BY TypeFacts, <1>0, <1>21 DEF DeleteTokens, NothingUsedUp, RemovalPurges, Alive,
      PairingIsNew, AllKnown, Known, InSection, Section, NoTokens
<1>22. ASSUME DeleteAccount
      PROVE  NothingUsedUp'
  BY TypeFacts, <1>0, <1>22 DEF DeleteAccount, NothingUsedUp, RemovalPurges, Alive,
      PairingIsNew, AllKnown, Known, InSection, Section, NoTokens
<1>23. ASSUME Withdraw
      PROVE  NothingUsedUp'
  BY TypeFacts, <1>0, <1>23 DEF Withdraw, NothingUsedUp, RemovalPurges, Alive, PairingIsNew,
      AllKnown, Known, InSection, Section, NoTokens
<1>24. ASSUME
        \/ \E c \in Callers :
             \/ ReadCurrent(c) \/ ReadNothing(c) \/ UseToken(c) \/ SkipToken(c) \/ JoinFlight(c)
        \/ \E n \in 1 .. MaxTokens : BecomeDue(n)
        \/ Tick \/ UNCHANGED vars
      PROVE  NothingUsedUp'
  <2>1. UNCHANGED <<current, copy, pairing, accepted, withdrawn, flight, exits, lost>>
    BY <1>24 DEF vars, ReadCurrent, ReadNothing, UseToken, SkipToken, JoinFlight, Tick,
        BecomeDue, Earlier
  <2> QED
    BY TypeFacts, <1>0, <2>1 DEF NothingUsedUp, RemovalPurges, Alive, PairingIsNew, AllKnown,
        Known, InSection, Section, NoTokens
<1> QED
  BY <1>1, <1>2, <1>3, <1>4, <1>5, <1>6, <1>7, <1>8, <1>9, <1>10, <1>11, <1>12, <1>13,
      <1>14, <1>15, <1>16, <1>17, <1>18, <1>19, <1>20, <1>21, <1>22, <1>23, <1>24 DEF Next,
      CallerStep, RefreshStep

\* A refusal is never for a token the application used up.
LEMMA WedgeStep ==
  ASSUME Typed, NothingUsedUp, NoWedge, [Next]_vars
  PROVE  NoWedge'
<1> USE TokenRefreshAssumption DEF flightVars, callerVars, userVars, platformVars, rowVars
<1>1. ASSUME NEW p \in Processes, AnswerLost(p)
      PROVE  NoWedge'
  BY TypeFacts, <1>1 DEF AnswerLost, Proceed, Granted, NoWedge, NothingUsedUp, Alive,
      HasRefresh, Typed
<1>2. ASSUME NEW p \in Processes, RefreshRejected(p)
      PROVE  NoWedge'
  BY TypeFacts, <1>2 DEF RefreshRejected, Proceed, NoWedge, NothingUsedUp, Alive,
      HasRefresh, Typed
<1>3. ASSUME NEW p \in Processes, StoreThrows(p)
      PROVE  NoWedge'
  BY TypeFacts, <1>3 DEF StoreThrows, Proceed, NoWedge, NothingUsedUp, Alive, HasRefresh,
      Typed
<1>4. ASSUME NEW p \in Processes, Exit(p)
      PROVE  NoWedge'
  BY TypeFacts, <1>4 DEF Exit, EndFlight, NoWedge, NothingUsedUp, Alive, HasRefresh, Typed
<1>5. ASSUME Withdraw
      PROVE  NoWedge'
  BY TypeFacts, <1>5 DEF Withdraw, NoWedge, NothingUsedUp, Alive, HasRefresh, Typed
<1>6. ASSUME NEW p \in Processes, RefreshGranted(p)
      PROVE  NoWedge'
  BY TypeFacts, <1>6 DEF RefreshGranted, Proceed, Granted, NoWedge, NothingUsedUp, Alive,
      HasRefresh, Typed
<1>7. ASSUME
        \/ \E c \in Callers :
             \/ ReadCurrent(c) \/ ReadNothing(c) \/ UseToken(c) \/ SkipToken(c) \/ JoinFlight(c)
             \/ StartFlight(c)
        \/ \E p \in Processes :
             \/ PollLock(p) \/ GiveUp(p) \/ ReadUnderLock(p) \/ StillFresh(p) \/ NoRefreshToken(p)
             \/ CallPlatform(p) \/ AuthFailed(p) \/ RefreshFailed(p) \/ StoreRefreshed(p)
             \/ MarkReauth(p) \/ Release(p)
        \/ \E n \in 1 .. MaxTokens : BecomeDue(n)
        \/ UpdateAccount \/ StorePaired \/ PairingLost \/ DeleteTokens \/ DeleteAccount \/ Tick
        \/ UNCHANGED vars
      PROVE  NoWedge'
  <2>1. UNCHANGED <<rejected, withdrawn, exits, lost>>
    BY <1>7 DEF vars, ReadCurrent, ReadNothing, UseToken, SkipToken, JoinFlight, StartFlight,
        PollLock, GiveUp, ReadUnderLock, StillFresh, NoRefreshToken, CallPlatform, AuthFailed,
        RefreshFailed, StoreRefreshed, MarkReauth, Release, UpdateAccount, StorePaired,
        PairingLost, DeleteTokens, DeleteAccount, Tick, BecomeDue, DropLock, Earlier,
        EndFlight, LockFree, Proceed, RotateCurrent, Settle, TakeLock
  <2> QED
    BY TypeFacts, <2>1 DEF NoWedge, NothingUsedUp, Alive, HasRefresh, Typed
<1> QED
  BY <1>1, <1>2, <1>3, <1>4, <1>5, <1>6, <1>7 DEF Next, CallerStep, RefreshStep

\* Nobody changes the row while a refresh goes by its copy.
LEMMA CurrentStep ==
  ASSUME Typed, HoldsLock, PairingIsNew, CopyIsCurrent, [Next]_vars
  PROVE  CopyIsCurrent'
<1> USE TokenRefreshAssumption DEF flightVars, callerVars, userVars, platformVars, rowVars
<1>0. \A p, q \in Processes : InSection(p) /\ InSection(q) => p = q
  BY DEF HoldsLock
<1>1. ASSUME NEW c \in Callers, StartFlight(c)
      PROVE  CopyIsCurrent'
  BY TypeFacts, <1>0, <1>1 DEF StartFlight, TakeLock, CopyIsCurrent, CopiesRow,
      PairingIsNew, InSection, Section, NoTokens
<1>2. ASSUME NEW p \in Processes, PollLock(p)
      PROVE  CopyIsCurrent'
  BY TypeFacts, <1>0, <1>2 DEF PollLock, TakeLock, LockFree, CopyIsCurrent, CopiesRow,
      PairingIsNew, InSection, Section, NoTokens
<1>3. ASSUME NEW p \in Processes, GiveUp(p)
      PROVE  CopyIsCurrent'
  BY TypeFacts, <1>0, <1>3 DEF GiveUp, EndFlight, Settle, LockFree, CopyIsCurrent,
      CopiesRow, PairingIsNew, InSection, Section, NoTokens
<1>4. ASSUME NEW p \in Processes, ReadUnderLock(p)
      PROVE  CopyIsCurrent'
  BY TypeFacts, <1>0, <1>4 DEF ReadUnderLock, Proceed, CopyIsCurrent, CopiesRow,
      PairingIsNew, InSection, Section, NoTokens
<1>5. ASSUME NEW p \in Processes, StillFresh(p)
      PROVE  CopyIsCurrent'
  BY TypeFacts, <1>0, <1>5 DEF StillFresh, Proceed, CopyIsCurrent, CopiesRow, PairingIsNew,
      InSection, Section, NoTokens
<1>6. ASSUME NEW p \in Processes, NoRefreshToken(p)
      PROVE  CopyIsCurrent'
  BY TypeFacts, <1>0, <1>6 DEF NoRefreshToken, Proceed, CopyIsCurrent, CopiesRow,
      PairingIsNew, InSection, Section, NoTokens
<1>7. ASSUME NEW p \in Processes, CallPlatform(p)
      PROVE  CopyIsCurrent'
  BY TypeFacts, <1>0, <1>7 DEF CallPlatform, Proceed, CopyIsCurrent, CopiesRow,
      PairingIsNew, InSection, Section, NoTokens
<1>8. ASSUME NEW p \in Processes, RefreshGranted(p)
      PROVE  CopyIsCurrent'
  BY TypeFacts, <1>0, <1>8 DEF RefreshGranted, Proceed, Granted, CopyIsCurrent, CopiesRow,
      PairingIsNew, InSection, Section, NoTokens
<1>9. ASSUME NEW p \in Processes, AnswerLost(p)
      PROVE  CopyIsCurrent'
  BY TypeFacts, <1>0, <1>9 DEF AnswerLost, Proceed, Granted, CopyIsCurrent, CopiesRow,
      PairingIsNew, InSection, Section, NoTokens
<1>10. ASSUME NEW p \in Processes, RefreshRejected(p)
      PROVE  CopyIsCurrent'
  BY TypeFacts, <1>0, <1>10 DEF RefreshRejected, Proceed, CopyIsCurrent, CopiesRow,
      PairingIsNew, InSection, Section, NoTokens
<1>11. ASSUME NEW p \in Processes, AuthFailed(p)
      PROVE  CopyIsCurrent'
  BY TypeFacts, <1>0, <1>11 DEF AuthFailed, Proceed, CopyIsCurrent, CopiesRow, PairingIsNew,
      InSection, Section, NoTokens
<1>12. ASSUME NEW p \in Processes, RefreshFailed(p)
      PROVE  CopyIsCurrent'
  BY TypeFacts, <1>0, <1>12 DEF RefreshFailed, Proceed, CopyIsCurrent, CopiesRow,
      PairingIsNew, InSection, Section, NoTokens
<1>13. ASSUME NEW p \in Processes, StoreRefreshed(p)
      PROVE  CopyIsCurrent'
  BY TypeFacts, <1>0, <1>13 DEF StoreRefreshed, Proceed, RotateCurrent, CopyIsCurrent,
      CopiesRow, PairingIsNew, InSection, Section, NoTokens
<1>14. ASSUME NEW p \in Processes, StoreThrows(p)
      PROVE  CopyIsCurrent'
  BY TypeFacts, <1>0, <1>14 DEF StoreThrows, Proceed, CopyIsCurrent, CopiesRow,
      PairingIsNew, InSection, Section, NoTokens
<1>15. ASSUME NEW p \in Processes, MarkReauth(p)
      PROVE  CopyIsCurrent'
  BY TypeFacts, <1>0, <1>15 DEF MarkReauth, Proceed, CopyIsCurrent, CopiesRow, PairingIsNew,
      InSection, Section, NoTokens
<1>16. ASSUME NEW p \in Processes, Release(p)
      PROVE  CopyIsCurrent'
  BY TypeFacts, <1>0, <1>16 DEF Release, DropLock, EndFlight, Settle, CopyIsCurrent,
      CopiesRow, PairingIsNew, InSection, Section, NoTokens
<1>17. ASSUME NEW p \in Processes, Exit(p)
      PROVE  CopyIsCurrent'
  BY TypeFacts, <1>0, <1>17 DEF Exit, EndFlight, CopyIsCurrent, CopiesRow, PairingIsNew,
      InSection, Section, NoTokens
<1>18. ASSUME UpdateAccount
      PROVE  CopyIsCurrent'
  BY TypeFacts, <1>0, <1>18 DEF UpdateAccount, CopyIsCurrent, CopiesRow, PairingIsNew,
      InSection, Section, NoTokens
<1>19. ASSUME StorePaired
      PROVE  CopyIsCurrent'
  BY TypeFacts, <1>0, <1>19 DEF StorePaired, RotateCurrent, CopyIsCurrent, CopiesRow,
      PairingIsNew, InSection, Section, NoTokens
<1>20. ASSUME PairingLost
      PROVE  CopyIsCurrent'
  BY TypeFacts, <1>0, <1>20 DEF PairingLost, CopyIsCurrent, CopiesRow, PairingIsNew,
      InSection, Section, NoTokens
<1>21. ASSUME DeleteTokens
      PROVE  CopyIsCurrent'
  BY TypeFacts, <1>0, <1>21 DEF DeleteTokens, CopyIsCurrent, CopiesRow, PairingIsNew,
      InSection, Section, NoTokens
<1>22. ASSUME DeleteAccount
      PROVE  CopyIsCurrent'
  BY TypeFacts, <1>0, <1>22 DEF DeleteAccount, CopyIsCurrent, CopiesRow, PairingIsNew,
      InSection, Section, NoTokens
<1>23. ASSUME
        \/ \E c \in Callers :
             \/ ReadCurrent(c) \/ ReadNothing(c) \/ UseToken(c) \/ SkipToken(c) \/ JoinFlight(c)
        \/ \E n \in 1 .. MaxTokens : BecomeDue(n)
        \/ Withdraw \/ Tick \/ UNCHANGED vars
      PROVE  CopyIsCurrent'
  <2>1. UNCHANGED <<current, copy, flight, verdict, pairings>>
    BY <1>23 DEF vars, ReadCurrent, ReadNothing, UseToken, SkipToken, JoinFlight, Withdraw,
        Tick, BecomeDue, Earlier
  <2> QED
    BY TypeFacts, <1>0, <2>1 DEF CopyIsCurrent, CopiesRow, PairingIsNew, InSection, Section,
        NoTokens
<1> QED
  BY <1>1, <1>2, <1>3, <1>4, <1>5, <1>6, <1>7, <1>8, <1>9, <1>10, <1>11, <1>12, <1>13,
      <1>14, <1>15, <1>16, <1>17, <1>18, <1>19, <1>20, <1>21, <1>22, <1>23 DEF Next,
      CallerStep, RefreshStep

\* A refresh stores something later than the row.
LEMMA LaterStep ==
  ASSUME Typed, HoldsLock, AllKnown, PairingIsNew, StoreIsLater, [Next]_vars
  PROVE  StoreIsLater'
<1> USE TokenRefreshAssumption DEF flightVars, callerVars, userVars, platformVars, rowVars
<1>0. \A p, q \in Processes : InSection(p) /\ InSection(q) => p = q
  BY DEF HoldsLock
<1>1. ASSUME NEW c \in Callers, StartFlight(c)
      PROVE  StoreIsLater'
  BY TypeFacts, <1>0, <1>1 DEF StartFlight, TakeLock, StoreIsLater, PairingIsNew, AllKnown,
      Known, InSection, Section, NoTokens
<1>2. ASSUME NEW p \in Processes, PollLock(p)
      PROVE  StoreIsLater'
  BY TypeFacts, <1>0, <1>2 DEF PollLock, TakeLock, LockFree, StoreIsLater, PairingIsNew,
      AllKnown, Known, InSection, Section, NoTokens
<1>3. ASSUME NEW p \in Processes, GiveUp(p)
      PROVE  StoreIsLater'
  BY TypeFacts, <1>0, <1>3 DEF GiveUp, EndFlight, Settle, LockFree, StoreIsLater,
      PairingIsNew, AllKnown, Known, InSection, Section, NoTokens
<1>4. ASSUME NEW p \in Processes, ReadUnderLock(p)
      PROVE  StoreIsLater'
  BY TypeFacts, <1>0, <1>4 DEF ReadUnderLock, Proceed, StoreIsLater, PairingIsNew, AllKnown,
      Known, InSection, Section, NoTokens
<1>5. ASSUME NEW p \in Processes, StillFresh(p)
      PROVE  StoreIsLater'
  BY TypeFacts, <1>0, <1>5 DEF StillFresh, Proceed, StoreIsLater, PairingIsNew, AllKnown,
      Known, InSection, Section, NoTokens
<1>6. ASSUME NEW p \in Processes, NoRefreshToken(p)
      PROVE  StoreIsLater'
  BY TypeFacts, <1>0, <1>6 DEF NoRefreshToken, Proceed, StoreIsLater, PairingIsNew,
      AllKnown, Known, InSection, Section, NoTokens
<1>7. ASSUME NEW p \in Processes, CallPlatform(p)
      PROVE  StoreIsLater'
  BY TypeFacts, <1>0, <1>7 DEF CallPlatform, Proceed, StoreIsLater, PairingIsNew, AllKnown,
      Known, InSection, Section, NoTokens
<1>8. ASSUME NEW p \in Processes, RefreshGranted(p)
      PROVE  StoreIsLater'
  BY TypeFacts, <1>0, <1>8 DEF RefreshGranted, Proceed, Granted, StoreIsLater, PairingIsNew,
      AllKnown, Known, InSection, Section, NoTokens
<1>9. ASSUME NEW p \in Processes, AnswerLost(p)
      PROVE  StoreIsLater'
  BY TypeFacts, <1>0, <1>9 DEF AnswerLost, Proceed, Granted, StoreIsLater, PairingIsNew,
      AllKnown, Known, InSection, Section, NoTokens
<1>10. ASSUME NEW p \in Processes, RefreshRejected(p)
      PROVE  StoreIsLater'
  BY TypeFacts, <1>0, <1>10 DEF RefreshRejected, Proceed, StoreIsLater, PairingIsNew,
      AllKnown, Known, InSection, Section, NoTokens
<1>11. ASSUME NEW p \in Processes, AuthFailed(p)
      PROVE  StoreIsLater'
  BY TypeFacts, <1>0, <1>11 DEF AuthFailed, Proceed, StoreIsLater, PairingIsNew, AllKnown,
      Known, InSection, Section, NoTokens
<1>12. ASSUME NEW p \in Processes, RefreshFailed(p)
      PROVE  StoreIsLater'
  BY TypeFacts, <1>0, <1>12 DEF RefreshFailed, Proceed, StoreIsLater, PairingIsNew,
      AllKnown, Known, InSection, Section, NoTokens
<1>13. ASSUME NEW p \in Processes, StoreRefreshed(p)
      PROVE  StoreIsLater'
  BY TypeFacts, <1>0, <1>13 DEF StoreRefreshed, Proceed, RotateCurrent, StoreIsLater,
      PairingIsNew, AllKnown, Known, InSection, Section, NoTokens
<1>14. ASSUME NEW p \in Processes, StoreThrows(p)
      PROVE  StoreIsLater'
  BY TypeFacts, <1>0, <1>14 DEF StoreThrows, Proceed, StoreIsLater, PairingIsNew, AllKnown,
      Known, InSection, Section, NoTokens
<1>15. ASSUME NEW p \in Processes, MarkReauth(p)
      PROVE  StoreIsLater'
  BY TypeFacts, <1>0, <1>15 DEF MarkReauth, Proceed, StoreIsLater, PairingIsNew, AllKnown,
      Known, InSection, Section, NoTokens
<1>16. ASSUME NEW p \in Processes, Release(p)
      PROVE  StoreIsLater'
  BY TypeFacts, <1>0, <1>16 DEF Release, DropLock, EndFlight, Settle, StoreIsLater,
      PairingIsNew, AllKnown, Known, InSection, Section, NoTokens
<1>17. ASSUME NEW p \in Processes, Exit(p)
      PROVE  StoreIsLater'
  BY TypeFacts, <1>0, <1>17 DEF Exit, EndFlight, StoreIsLater, PairingIsNew, AllKnown,
      Known, InSection, Section, NoTokens
<1>18. ASSUME UpdateAccount
      PROVE  StoreIsLater'
  BY TypeFacts, <1>0, <1>18 DEF UpdateAccount, StoreIsLater, PairingIsNew, AllKnown, Known,
      InSection, Section, NoTokens
<1>19. ASSUME StorePaired
      PROVE  StoreIsLater'
  BY TypeFacts, <1>0, <1>19 DEF StorePaired, RotateCurrent, StoreIsLater, PairingIsNew,
      AllKnown, Known, InSection, Section, NoTokens
<1>20. ASSUME PairingLost
      PROVE  StoreIsLater'
  BY TypeFacts, <1>0, <1>20 DEF PairingLost, StoreIsLater, PairingIsNew, AllKnown, Known,
      InSection, Section, NoTokens
<1>21. ASSUME DeleteTokens
      PROVE  StoreIsLater'
  BY TypeFacts, <1>0, <1>21 DEF DeleteTokens, StoreIsLater, PairingIsNew, AllKnown, Known,
      InSection, Section, NoTokens
<1>22. ASSUME DeleteAccount
      PROVE  StoreIsLater'
  BY TypeFacts, <1>0, <1>22 DEF DeleteAccount, StoreIsLater, PairingIsNew, AllKnown, Known,
      InSection, Section, NoTokens
<1>23. ASSUME
        \/ \E c \in Callers :
             \/ ReadCurrent(c) \/ ReadNothing(c) \/ UseToken(c) \/ SkipToken(c) \/ JoinFlight(c)
        \/ \E n \in 1 .. MaxTokens : BecomeDue(n)
        \/ Withdraw \/ Tick \/ UNCHANGED vars
      PROVE  StoreIsLater'
  <2>1. UNCHANGED <<current, copy, flight, pairings>>
    BY <1>23 DEF vars, ReadCurrent, ReadNothing, UseToken, SkipToken, JoinFlight, Withdraw,
        Tick, BecomeDue, Earlier
  <2> QED
    BY TypeFacts, <1>0, <2>1 DEF StoreIsLater, PairingIsNew, AllKnown, Known, InSection,
        Section, NoTokens
<1> QED
  BY <1>1, <1>2, <1>3, <1>4, <1>5, <1>6, <1>7, <1>8, <1>9, <1>10, <1>11, <1>12, <1>13,
      <1>14, <1>15, <1>16, <1>17, <1>18, <1>19, <1>20, <1>21, <1>22, <1>23 DEF Next,
      CallerStep, RefreshStep

\* An account is marked revoked only for a token that is refused for good.
LEMMA RevokedStep ==
  ASSUME Typed, HoldsLock, AllKnown, PairingIsNew, CopyIsCurrent, RevokedIsRefused,
         [Next]_vars
  PROVE  RevokedIsRefused'
<1> USE TokenRefreshAssumption DEF flightVars, callerVars, userVars, platformVars, rowVars
<1>0. \A p, q \in Processes : InSection(p) /\ InSection(q) => p = q
  BY DEF HoldsLock
<1>1. ASSUME NEW c \in Callers, StartFlight(c)
      PROVE  RevokedIsRefused'
  BY TypeFacts, <1>0, <1>1 DEF StartFlight, TakeLock, RevokedIsRefused, CopyIsCurrent,
      CopiesRow, PairingIsNew, AllKnown, Known, InSection, Section, NoTokens
<1>2. ASSUME NEW p \in Processes, PollLock(p)
      PROVE  RevokedIsRefused'
  BY TypeFacts, <1>0, <1>2 DEF PollLock, TakeLock, LockFree, RevokedIsRefused,
      CopyIsCurrent, CopiesRow, PairingIsNew, AllKnown, Known, InSection, Section, NoTokens
<1>3. ASSUME NEW p \in Processes, GiveUp(p)
      PROVE  RevokedIsRefused'
  BY TypeFacts, <1>0, <1>3 DEF GiveUp, EndFlight, Settle, LockFree, RevokedIsRefused,
      CopyIsCurrent, CopiesRow, PairingIsNew, AllKnown, Known, InSection, Section, NoTokens
<1>4. ASSUME NEW p \in Processes, ReadUnderLock(p)
      PROVE  RevokedIsRefused'
  BY TypeFacts, <1>0, <1>4 DEF ReadUnderLock, Proceed, RevokedIsRefused, CopyIsCurrent,
      CopiesRow, PairingIsNew, AllKnown, Known, InSection, Section, NoTokens
<1>5. ASSUME NEW p \in Processes, StillFresh(p)
      PROVE  RevokedIsRefused'
  BY TypeFacts, <1>0, <1>5 DEF StillFresh, Proceed, RevokedIsRefused, CopyIsCurrent,
      CopiesRow, PairingIsNew, AllKnown, Known, InSection, Section, NoTokens
<1>6. ASSUME NEW p \in Processes, NoRefreshToken(p)
      PROVE  RevokedIsRefused'
  BY TypeFacts, <1>0, <1>6 DEF NoRefreshToken, Proceed, RevokedIsRefused, CopyIsCurrent,
      CopiesRow, PairingIsNew, AllKnown, Known, InSection, Section, NoTokens
<1>7. ASSUME NEW p \in Processes, CallPlatform(p)
      PROVE  RevokedIsRefused'
  BY TypeFacts, <1>0, <1>7 DEF CallPlatform, Proceed, RevokedIsRefused, CopyIsCurrent,
      CopiesRow, PairingIsNew, AllKnown, Known, InSection, Section, NoTokens
<1>8. ASSUME NEW p \in Processes, RefreshGranted(p)
      PROVE  RevokedIsRefused'
  BY TypeFacts, <1>0, <1>8 DEF RefreshGranted, Proceed, Granted, RevokedIsRefused,
      CopyIsCurrent, CopiesRow, PairingIsNew, AllKnown, Known, InSection, Section, NoTokens
<1>9. ASSUME NEW p \in Processes, AnswerLost(p)
      PROVE  RevokedIsRefused'
  BY TypeFacts, <1>0, <1>9 DEF AnswerLost, Proceed, Granted, RevokedIsRefused,
      CopyIsCurrent, CopiesRow, PairingIsNew, AllKnown, Known, InSection, Section, NoTokens
<1>10. ASSUME NEW p \in Processes, RefreshRejected(p)
      PROVE  RevokedIsRefused'
  BY TypeFacts, <1>0, <1>10 DEF RefreshRejected, Proceed, RevokedIsRefused, CopyIsCurrent,
      CopiesRow, PairingIsNew, AllKnown, Known, InSection, Section, NoTokens
<1>11. ASSUME NEW p \in Processes, AuthFailed(p)
      PROVE  RevokedIsRefused'
  BY TypeFacts, <1>0, <1>11 DEF AuthFailed, Proceed, RevokedIsRefused, CopyIsCurrent,
      CopiesRow, PairingIsNew, AllKnown, Known, InSection, Section, NoTokens
<1>12. ASSUME NEW p \in Processes, RefreshFailed(p)
      PROVE  RevokedIsRefused'
  BY TypeFacts, <1>0, <1>12 DEF RefreshFailed, Proceed, RevokedIsRefused, CopyIsCurrent,
      CopiesRow, PairingIsNew, AllKnown, Known, InSection, Section, NoTokens
<1>13. ASSUME NEW p \in Processes, StoreRefreshed(p)
      PROVE  RevokedIsRefused'
  BY TypeFacts, <1>0, <1>13 DEF StoreRefreshed, Proceed, RotateCurrent, RevokedIsRefused,
      CopyIsCurrent, CopiesRow, PairingIsNew, AllKnown, Known, InSection, Section, NoTokens
<1>14. ASSUME NEW p \in Processes, StoreThrows(p)
      PROVE  RevokedIsRefused'
  BY TypeFacts, <1>0, <1>14 DEF StoreThrows, Proceed, RevokedIsRefused, CopyIsCurrent,
      CopiesRow, PairingIsNew, AllKnown, Known, InSection, Section, NoTokens
<1>15. ASSUME NEW p \in Processes, MarkReauth(p)
      PROVE  RevokedIsRefused'
  BY TypeFacts, <1>0, <1>15 DEF MarkReauth, Proceed, RevokedIsRefused, CopyIsCurrent,
      CopiesRow, PairingIsNew, AllKnown, Known, InSection, Section, NoTokens
<1>16. ASSUME NEW p \in Processes, Release(p)
      PROVE  RevokedIsRefused'
  BY TypeFacts, <1>0, <1>16 DEF Release, DropLock, EndFlight, Settle, RevokedIsRefused,
      CopyIsCurrent, CopiesRow, PairingIsNew, AllKnown, Known, InSection, Section, NoTokens
<1>17. ASSUME NEW p \in Processes, Exit(p)
      PROVE  RevokedIsRefused'
  BY TypeFacts, <1>0, <1>17 DEF Exit, EndFlight, RevokedIsRefused, CopyIsCurrent, CopiesRow,
      PairingIsNew, AllKnown, Known, InSection, Section, NoTokens
<1>18. ASSUME UpdateAccount
      PROVE  RevokedIsRefused'
  BY TypeFacts, <1>0, <1>18 DEF UpdateAccount, RevokedIsRefused, CopyIsCurrent, CopiesRow,
      PairingIsNew, AllKnown, Known, InSection, Section, NoTokens
<1>19. ASSUME StorePaired
      PROVE  RevokedIsRefused'
  BY TypeFacts, <1>0, <1>19 DEF StorePaired, RotateCurrent, RevokedIsRefused, CopyIsCurrent,
      CopiesRow, PairingIsNew, AllKnown, Known, InSection, Section, NoTokens
<1>20. ASSUME PairingLost
      PROVE  RevokedIsRefused'
  BY TypeFacts, <1>0, <1>20 DEF PairingLost, RevokedIsRefused, CopyIsCurrent, CopiesRow,
      PairingIsNew, AllKnown, Known, InSection, Section, NoTokens
<1>21. ASSUME DeleteTokens
      PROVE  RevokedIsRefused'
  BY TypeFacts, <1>0, <1>21 DEF DeleteTokens, RevokedIsRefused, CopyIsCurrent, CopiesRow,
      PairingIsNew, AllKnown, Known, InSection, Section, NoTokens
<1>22. ASSUME DeleteAccount
      PROVE  RevokedIsRefused'
  BY TypeFacts, <1>0, <1>22 DEF DeleteAccount, RevokedIsRefused, CopyIsCurrent, CopiesRow,
      PairingIsNew, AllKnown, Known, InSection, Section, NoTokens
<1>23. ASSUME Withdraw
      PROVE  RevokedIsRefused'
  BY TypeFacts, <1>0, <1>23 DEF Withdraw, RevokedIsRefused, CopyIsCurrent, CopiesRow,
      PairingIsNew, AllKnown, Known, InSection, Section, NoTokens
<1>24. ASSUME
        \/ \E c \in Callers :
             \/ ReadCurrent(c) \/ ReadNothing(c) \/ UseToken(c) \/ SkipToken(c) \/ JoinFlight(c)
        \/ \E n \in 1 .. MaxTokens : BecomeDue(n)
        \/ Tick \/ UNCHANGED vars
      PROVE  RevokedIsRefused'
  <2>1. UNCHANGED <<account, current, copy, accepted, flight, verdict, pairings>>
    BY <1>24 DEF vars, ReadCurrent, ReadNothing, UseToken, SkipToken, JoinFlight, Tick,
        BecomeDue, Earlier
  <2> QED
    BY TypeFacts, <1>0, <2>1 DEF RevokedIsRefused, CopyIsCurrent, CopiesRow, PairingIsNew,
        AllKnown, Known, InSection, Section, NoTokens
<1> QED
  BY <1>1, <1>2, <1>3, <1>4, <1>5, <1>6, <1>7, <1>8, <1>9, <1>10, <1>11, <1>12, <1>13,
      <1>14, <1>15, <1>16, <1>17, <1>18, <1>19, <1>20, <1>21, <1>22, <1>23, <1>24 DEF Next,
      CallerStep, RefreshStep

\* No caller is handed a token older than the one that was there when it asked.
LEMMA OlderStep ==
  ASSUME Typed, HoldsLock, AllKnown, PairingIsNew, CopyIsCurrent, StoreIsLater,
         NeverOlder, [Next]_vars
  PROVE  NeverOlder'
<1> USE TokenRefreshAssumption DEF flightVars, callerVars, userVars, platformVars, rowVars
<1>0. \A p, q \in Processes : InSection(p) /\ InSection(q) => p = q
  BY DEF HoldsLock
<1>1. ASSUME NEW c \in Callers, ReadCurrent(c)
      PROVE  NeverOlder'
  BY TypeFacts, <1>0, <1>1 DEF ReadCurrent, NeverOlder, StoreIsLater, CopyIsCurrent,
      CopiesRow, PairingIsNew, AllKnown, Known, InSection, Section, NoTokens
<1>2. ASSUME NEW c \in Callers, ReadNothing(c)
      PROVE  NeverOlder'
  BY TypeFacts, <1>0, <1>2 DEF ReadNothing, NeverOlder, StoreIsLater, CopyIsCurrent,
      CopiesRow, PairingIsNew, AllKnown, Known, InSection, Section, NoTokens
<1>3. ASSUME NEW c \in Callers, UseToken(c)
      PROVE  NeverOlder'
  BY TypeFacts, <1>0, <1>3 DEF UseToken, NeverOlder, StoreIsLater, CopyIsCurrent, CopiesRow,
      PairingIsNew, AllKnown, Known, InSection, Section, NoTokens
<1>4. ASSUME NEW c \in Callers, SkipToken(c)
      PROVE  NeverOlder'
  BY TypeFacts, <1>0, <1>4 DEF SkipToken, NeverOlder, StoreIsLater, CopyIsCurrent,
      CopiesRow, PairingIsNew, AllKnown, Known, InSection, Section, NoTokens
<1>5. ASSUME NEW c \in Callers, JoinFlight(c)
      PROVE  NeverOlder'
  BY TypeFacts, <1>0, <1>5 DEF JoinFlight, NeverOlder, StoreIsLater, CopyIsCurrent,
      CopiesRow, PairingIsNew, AllKnown, Known, InSection, Section, NoTokens
<1>6. ASSUME NEW c \in Callers, StartFlight(c)
      PROVE  NeverOlder'
  BY TypeFacts, <1>0, <1>6 DEF StartFlight, TakeLock, NeverOlder, StoreIsLater,
      CopyIsCurrent, CopiesRow, PairingIsNew, AllKnown, Known, InSection, Section, NoTokens
<1>7. ASSUME NEW p \in Processes, PollLock(p)
      PROVE  NeverOlder'
  BY TypeFacts, <1>0, <1>7 DEF PollLock, TakeLock, LockFree, NeverOlder, StoreIsLater,
      CopyIsCurrent, CopiesRow, PairingIsNew, AllKnown, Known, InSection, Section, NoTokens
<1>8. ASSUME NEW p \in Processes, GiveUp(p)
      PROVE  NeverOlder'
  BY TypeFacts, <1>0, <1>8 DEF GiveUp, EndFlight, Settle, LockFree, NeverOlder,
      StoreIsLater, CopyIsCurrent, CopiesRow, PairingIsNew, AllKnown, Known, InSection,
      Section, NoTokens
<1>9. ASSUME NEW p \in Processes, ReadUnderLock(p)
      PROVE  NeverOlder'
  BY TypeFacts, <1>0, <1>9 DEF ReadUnderLock, Proceed, NeverOlder, StoreIsLater,
      CopyIsCurrent, CopiesRow, PairingIsNew, AllKnown, Known, InSection, Section, NoTokens
<1>10. ASSUME NEW p \in Processes, StillFresh(p)
      PROVE  NeverOlder'
  BY TypeFacts, <1>0, <1>10 DEF StillFresh, Proceed, NeverOlder, StoreIsLater,
      CopyIsCurrent, CopiesRow, PairingIsNew, AllKnown, Known, InSection, Section, NoTokens
<1>11. ASSUME NEW p \in Processes, NoRefreshToken(p)
      PROVE  NeverOlder'
  BY TypeFacts, <1>0, <1>11 DEF NoRefreshToken, Proceed, NeverOlder, StoreIsLater,
      CopyIsCurrent, CopiesRow, PairingIsNew, AllKnown, Known, InSection, Section, NoTokens
<1>12. ASSUME NEW p \in Processes, CallPlatform(p)
      PROVE  NeverOlder'
  BY TypeFacts, <1>0, <1>12 DEF CallPlatform, Proceed, NeverOlder, StoreIsLater,
      CopyIsCurrent, CopiesRow, PairingIsNew, AllKnown, Known, InSection, Section, NoTokens
<1>13. ASSUME NEW p \in Processes, RefreshGranted(p)
      PROVE  NeverOlder'
  BY TypeFacts, <1>0, <1>13 DEF RefreshGranted, Proceed, Granted, NeverOlder, StoreIsLater,
      CopyIsCurrent, CopiesRow, PairingIsNew, AllKnown, Known, InSection, Section, NoTokens
<1>14. ASSUME NEW p \in Processes, AnswerLost(p)
      PROVE  NeverOlder'
  BY TypeFacts, <1>0, <1>14 DEF AnswerLost, Proceed, Granted, NeverOlder, StoreIsLater,
      CopyIsCurrent, CopiesRow, PairingIsNew, AllKnown, Known, InSection, Section, NoTokens
<1>15. ASSUME NEW p \in Processes, RefreshRejected(p)
      PROVE  NeverOlder'
  BY TypeFacts, <1>0, <1>15 DEF RefreshRejected, Proceed, NeverOlder, StoreIsLater,
      CopyIsCurrent, CopiesRow, PairingIsNew, AllKnown, Known, InSection, Section, NoTokens
<1>16. ASSUME NEW p \in Processes, AuthFailed(p)
      PROVE  NeverOlder'
  BY TypeFacts, <1>0, <1>16 DEF AuthFailed, Proceed, NeverOlder, StoreIsLater,
      CopyIsCurrent, CopiesRow, PairingIsNew, AllKnown, Known, InSection, Section, NoTokens
<1>17. ASSUME NEW p \in Processes, RefreshFailed(p)
      PROVE  NeverOlder'
  BY TypeFacts, <1>0, <1>17 DEF RefreshFailed, Proceed, NeverOlder, StoreIsLater,
      CopyIsCurrent, CopiesRow, PairingIsNew, AllKnown, Known, InSection, Section, NoTokens
<1>18. ASSUME NEW p \in Processes, StoreRefreshed(p)
      PROVE  NeverOlder'
  BY TypeFacts, <1>0, <1>18 DEF StoreRefreshed, Proceed, RotateCurrent, NeverOlder,
      StoreIsLater, CopyIsCurrent, CopiesRow, PairingIsNew, AllKnown, Known, InSection,
      Section, NoTokens
<1>19. ASSUME NEW p \in Processes, StoreThrows(p)
      PROVE  NeverOlder'
  BY TypeFacts, <1>0, <1>19 DEF StoreThrows, Proceed, NeverOlder, StoreIsLater,
      CopyIsCurrent, CopiesRow, PairingIsNew, AllKnown, Known, InSection, Section, NoTokens
<1>20. ASSUME NEW p \in Processes, MarkReauth(p)
      PROVE  NeverOlder'
  BY TypeFacts, <1>0, <1>20 DEF MarkReauth, Proceed, NeverOlder, StoreIsLater,
      CopyIsCurrent, CopiesRow, PairingIsNew, AllKnown, Known, InSection, Section, NoTokens
<1>21. ASSUME NEW p \in Processes, Release(p)
      PROVE  NeverOlder'
  BY TypeFacts, <1>0, <1>21 DEF Release, DropLock, EndFlight, Settle, NeverOlder,
      StoreIsLater, CopyIsCurrent, CopiesRow, PairingIsNew, AllKnown, Known, InSection,
      Section, NoTokens
<1>22. ASSUME NEW p \in Processes, Exit(p)
      PROVE  NeverOlder'
  BY TypeFacts, <1>0, <1>22 DEF Exit, EndFlight, NeverOlder, StoreIsLater, CopyIsCurrent,
      CopiesRow, PairingIsNew, AllKnown, Known, InSection, Section, NoTokens
<1>23. ASSUME UpdateAccount
      PROVE  NeverOlder'
  BY TypeFacts, <1>0, <1>23 DEF UpdateAccount, NeverOlder, StoreIsLater, CopyIsCurrent,
      CopiesRow, PairingIsNew, AllKnown, Known, InSection, Section, NoTokens
<1>24. ASSUME StorePaired
      PROVE  NeverOlder'
  BY TypeFacts, <1>0, <1>24 DEF StorePaired, RotateCurrent, NeverOlder, StoreIsLater,
      CopyIsCurrent, CopiesRow, PairingIsNew, AllKnown, Known, InSection, Section, NoTokens
<1>25. ASSUME PairingLost
      PROVE  NeverOlder'
  BY TypeFacts, <1>0, <1>25 DEF PairingLost, NeverOlder, StoreIsLater, CopyIsCurrent,
      CopiesRow, PairingIsNew, AllKnown, Known, InSection, Section, NoTokens
<1>26. ASSUME DeleteTokens
      PROVE  NeverOlder'
  BY TypeFacts, <1>0, <1>26 DEF DeleteTokens, NeverOlder, StoreIsLater, CopyIsCurrent,
      CopiesRow, PairingIsNew, AllKnown, Known, InSection, Section, NoTokens
<1>27. ASSUME DeleteAccount
      PROVE  NeverOlder'
  BY TypeFacts, <1>0, <1>27 DEF DeleteAccount, NeverOlder, StoreIsLater, CopyIsCurrent,
      CopiesRow, PairingIsNew, AllKnown, Known, InSection, Section, NoTokens
<1>28. ASSUME
        \/ \E n \in 1 .. MaxTokens : BecomeDue(n)
        \/ Withdraw \/ Tick \/ UNCHANGED vars
      PROVE  NeverOlder'
  <2>1. UNCHANGED <<current, copy, flight, verdict, pairings, pc, seen, began>>
    BY <1>28 DEF vars, Withdraw, Tick, BecomeDue, Earlier
  <2> QED
    BY TypeFacts, <1>0, <2>1 DEF NeverOlder, StoreIsLater, CopyIsCurrent, CopiesRow,
        PairingIsNew, AllKnown, Known, InSection, Section, NoTokens
<1> QED
  BY <1>1, <1>2, <1>3, <1>4, <1>5, <1>6, <1>7, <1>8, <1>9, <1>10, <1>11, <1>12, <1>13,
      <1>14, <1>15, <1>16, <1>17, <1>18, <1>19, <1>20, <1>21, <1>22, <1>23, <1>24, <1>25,
      <1>26, <1>27, <1>28 DEF Next, CallerStep, RefreshStep

-----------------------------------------------------------------------------
\* The inductive invariant holds in every reachable state, as long as a refresh
\* always ends before its lock expires.
THEOREM Invariant ==
  ASSUME LockCoversCall
  PROVE  Spec => []IInv
<1>1. Init => IInv
  <2> SUFFICES ASSUME Init
               PROVE  IInv
    OBVIOUS
  <2>1. Typed
    BY InitTyped
  <2>2. HoldsLock /\ PairingIsNew /\ RemovalPurges
    BY DEF Init, HoldsLock, InSection, Section, PairingIsNew, RemovalPurges
  <2>3. AllKnown
    BY DEF Init, AllKnown, Known, NoTokens
  <2>4. NothingUsedUp /\ NoWedge
    BY DEF Init, NothingUsedUp, Alive, NoTokens, NoWedge
  <2>5. CopyIsCurrent /\ StoreIsLater /\ RevokedIsRefused
    BY DEF Init, CopyIsCurrent, CopiesRow, StoreIsLater, RevokedIsRefused
  <2>6. NeverOlder
    BY DEF Init, NeverOlder, CopiesRow
  <2> QED
    BY <2>1, <2>2, <2>3, <2>4, <2>5, <2>6 DEF IInv
<1>2. IInv /\ [Next]_vars => IInv'
  <2> SUFFICES ASSUME IInv, [Next]_vars
               PROVE  IInv'
    OBVIOUS
  <2> USE DEF IInv
  <2>1. Typed' /\ HoldsLock' /\ AllKnown'
    BY TypeStep, LockStep, KnownStep
  <2>2. PairingIsNew' /\ RemovalPurges'
    BY PairingStep, PurgeStep
  <2>3. NothingUsedUp' /\ NoWedge'
    BY UsedUpStep, WedgeStep
  <2>4. CopyIsCurrent' /\ StoreIsLater'
    BY CurrentStep, LaterStep
  <2>5. RevokedIsRefused' /\ NeverOlder'
    BY RevokedStep, OlderStep
  <2> QED
    BY <2>1, <2>2, <2>3, <2>4, <2>5
<1> QED
  BY <1>1, <1>2, PTL DEF Spec

\* Under the same assumption: refreshes exclude each other, no refresh token is
\* used up without its successor being stored, and an account is shown as revoked
\* only when it is.
THEOREM RefreshCorrect ==
  ASSUME LockCoversCall
  PROVE  Spec => []RefreshIsSafe
<1>1. IInv => OneRefreshAtATime
  BY DEF IInv, HoldsLock, OneRefreshAtATime
<1>2. IInv => NoWedge /\ RevokedIsReal
  BY DEF IInv, RevokedIsRefused, RevokedIsReal
<1>3. IInv => RefreshIsSafe
  BY <1>1, <1>2 DEF RefreshIsSafe
<1> QED
  BY <1>3, Invariant, PTL

\* And nobody is handed a token that had already been replaced when it was asked for.
THEOREM HandsOutCurrentCorrect ==
  ASSUME LockCoversCall
  PROVE  Spec => []HandsOutCurrent
<1>1. IInv => HandsOutCurrent
  BY DEF IInv, NeverOlder, HandsOutCurrent
<1> QED
  BY <1>1, Invariant, PTL

\* The stored token set only moves on.
THEOREM CurrentMovesOnCorrect ==
  ASSUME LockCoversCall
  PROVE  Spec => CurrentMovesOn
<1> DEFINE Moves == pairings' = 0 /\ current' # NoTokens => current.number <= current'.number
<1>1. IInv /\ [Next]_vars => [Moves]_vars
  <2> SUFFICES ASSUME IInv, [Next]_vars
               PROVE  Moves
    OBVIOUS
  <2> USE TokenRefreshAssumption, TypeFacts
  <2> USE DEF rowVars, flightVars, callerVars, userVars, platformVars
  <2> USE DEF IInv
  <2>1. ASSUME NEW p \in Processes, StoreRefreshed(p)
        PROVE  Moves
    BY <2>1 DEF StoreRefreshed, RotateCurrent, StoreIsLater
  <2>2. ASSUME StorePaired
        PROVE  Moves
    BY <2>2 DEF StorePaired, PairingIsNew
  <2>3. ASSUME DeleteTokens \/ DeleteAccount
        PROVE  Moves
    BY <2>3 DEF DeleteTokens, DeleteAccount
  <2>4. ASSUME
          \/ \E c \in Callers : ReadCurrent(c) \/ ReadNothing(c) \/ CallerStep(c)
          \/ \E p \in Processes : (RefreshStep(p) /\ ~StoreRefreshed(p)) \/ Exit(p)
          \/ \E n \in 1 .. MaxTokens : BecomeDue(n)
          \/ UpdateAccount \/ PairingLost \/ Withdraw \/ Tick \/ UNCHANGED vars
        PROVE  Moves
    <3>1. UNCHANGED current
      BY <2>4 DEF vars, CallerStep, RefreshStep, ReadCurrent, ReadNothing, UseToken, SkipToken,
           JoinFlight, StartFlight, PollLock, GiveUp, ReadUnderLock, StillFresh, NoRefreshToken,
           CallPlatform, RefreshGranted, AnswerLost, RefreshRejected, AuthFailed, RefreshFailed,
           StoreThrows, MarkReauth, Release, Exit, EndFlight, Settle, Proceed, Granted,
           DropLock, TakeLock, UpdateAccount, PairingLost, Withdraw, Tick, BecomeDue
    <3> QED
      BY <3>1
  <2> QED
    BY <2>1, <2>2, <2>3, <2>4 DEF Next, CallerStep, RefreshStep
<1> QED
  BY <1>1, Invariant, PTL DEF Spec, CurrentMovesOn

\* Removal purges every token, whatever becomes of the lock.
THEOREM RemovalPurgesCorrect == Spec => []RemovalPurges
<1>1. Init => Typed /\ RemovalPurges
  BY InitTyped DEF Init, RemovalPurges
<1>2. Typed /\ RemovalPurges /\ [Next]_vars => (Typed /\ RemovalPurges)'
  BY TypeStep, PurgeStep
<1> QED
  BY <1>1, <1>2, PTL DEF Spec

-----------------------------------------------------------------------------
(***************************************************************************)
(* RotationContract: what whoever holds the lock does is the one refresh   *)
(* of the contract, because nobody else is inside.                         *)
(***************************************************************************)
\* Steps that change neither the rows nor the platform nor the refreshes that are
\* under way, are none of the contract's.
LEMMA InvisibleStep ==
  ASSUME UNCHANGED <<account, current, pairing, issued, accepted>>,
         HolderStage' = HolderStage, HolderCopy' = HolderCopy
  PROVE  UNCHANGED Contract!contractVars
BY DEF Contract!contractVars, Contract!accountVars, Contract!refreshVars,
   Contract!platformVars

\* What the contract sees of p, when p is the one it sees.
Shown(p) == IF Stage(p) = "idle" THEN NoTokens ELSE copy[p]

\* The contract sees who holds the lock.
SeesHolder ==
  /\ \A p \in Processes : lock.holder = p => HolderStage = Stage(p) /\ HolderCopy = Shown(p)
  /\ lock.holder = Nobody => HolderStage = "idle" /\ HolderCopy = NoTokens

LEMMA HolderFacts == SeesHolder /\ SeesHolder'
<1>1. SeesHolder
  BY TokenRefreshAssumption DEF SeesHolder, HolderStage, HolderCopy, Shown
<1> QED
  BY <1>1, PTL

LEMMA HolderType ==
  ASSUME Typed
  PROVE  lock.holder \in Processes \cup {Nobody}
BY DEF Typed, TypeOK

\* Who is inside is the one the contract sees.
LEMMA InsideIsSeen ==
  ASSUME HoldsLock, NEW p \in Processes, InSection(p)
  PROVE  lock.holder = p /\ HolderStage = Stage(p) /\ HolderCopy = Shown(p)
BY HolderFacts DEF HoldsLock, SeesHolder

\* Nobody is seen where the lock is free.
LEMMA FreeFacts ==
  ASSUME Typed, HoldsLock, LockFree
  PROVE  HolderStage = "idle" /\ HolderCopy = NoTokens
<1>1. lock.holder \in Processes \cup {Nobody}
  BY HolderType
<1>2. CASE lock.holder = Nobody
  BY <1>2, HolderFacts DEF SeesHolder
<1>3. CASE lock.holder \in Processes
  <2>1. ~InSection(lock.holder)
    BY <1>3 DEF HoldsLock, LockFree
  <2>2. Stage(lock.holder) = "idle"
    BY <1>3, <2>1, TypeFacts DEF Stage, Resting, InSection, Section, Flights
  <2> QED
    BY <1>3, <2>2, HolderFacts DEF SeesHolder, Shown
<1> QED
  BY <1>1, <1>2, <1>3

\* A step of p inside, which keeps the lock, shows as p's before and after.
LEMMA InsideStep ==
  ASSUME HoldsLock, NEW p \in Processes, InSection(p), UNCHANGED lock
  PROVE  /\ HolderStage = Stage(p) /\ HolderCopy = Shown(p)
         /\ HolderStage' = Stage(p)' /\ HolderCopy' = Shown(p)'
<1>1. lock.holder = p /\ lock'.holder = p
  BY DEF HoldsLock
<1> QED
  BY <1>1, HolderFacts DEF SeesHolder

\* Waiting for the lock, and taking it, does not show.
LEMMA AcquireImplements ==
  ASSUME IInv, NEW p \in Processes, PollLock(p) \/ GiveUp(p)
  PROVE  UNCHANGED Contract!contractVars
<1> USE TokenRefreshAssumption, TypeFacts
    DEF IInv, rowVars, flightVars, callerVars, userVars, platformVars
<1>1. CASE PollLock(p)
  <2>1. lock'.holder = p /\ (Stage(p))' = "idle"
    BY <1>1 DEF PollLock, TakeLock, Stage, Resting
  <2>2. HolderStage' = "idle" /\ HolderCopy' = NoTokens
    BY <2>1, HolderFacts DEF SeesHolder, Shown
  <2>3. UNCHANGED <<account, current, pairing, issued, accepted>> /\ LockFree
    BY <1>1 DEF PollLock
  <2> QED
    BY <2>2, <2>3, FreeFacts, InvisibleStep
<1>2. CASE GiveUp(p)
  <2>1. Stage(p) = "idle" /\ Stage(p)' = "idle"
    BY <1>2 DEF GiveUp, EndFlight, Stage, Resting
  <2>2. \A q \in Processes : q # p => Stage(q)' = Stage(q) /\ copy'[q] = copy[q]
    BY <1>2 DEF GiveUp, EndFlight, Stage
  <2>3. UNCHANGED <<account, current, pairing, issued, accepted, lock>>
    BY <1>2 DEF GiveUp
  <2>4. \A q \in Processes : Stage(q)' = Stage(q) /\ Shown(q)' = Shown(q)
    BY <2>1, <2>2 DEF Shown
  <2>5. HolderStage' = HolderStage /\ HolderCopy' = HolderCopy
    BY <2>3, <2>4, HolderType, HolderFacts DEF SeesHolder
  <2> QED
    BY <2>3, <2>5, InvisibleStep
<1> QED
  BY <1>1, <1>2

\* What p does inside, up to its answer, is a step of the contract's refresh.
LEMMA InsideImplements ==
  ASSUME IInv, NEW p \in Processes,
         \/ ReadUnderLock(p) \/ StillFresh(p) \/ NoRefreshToken(p) \/ CallPlatform(p)
         \/ RefreshRejected(p) \/ AuthFailed(p) \/ RefreshFailed(p) \/ StoreThrows(p)
  PROVE  [Contract!Next]_(Contract!contractVars)
<1> USE TypeFacts
    DEF IInv, rowVars, flightVars, callerVars, userVars, platformVars, Contract!accountVars,
        Contract!refreshVars, Contract!platformVars
<1>1. InSection(p) /\ UNCHANGED <<account, current, pairing, accepted, issued, lock>>
  BY DEF ReadUnderLock, StillFresh, NoRefreshToken, CallPlatform, RefreshRejected, AuthFailed,
     RefreshFailed, StoreThrows, InSection, Section
<1>2. /\ HolderStage = Stage(p) /\ HolderCopy = Shown(p)
      /\ HolderStage' = Stage(p)' /\ HolderCopy' = Shown(p)'
  BY <1>1, InsideStep
<1> DEFINE Keeps  == Stage(p) = "held" /\ Stage(p)' = "held" /\ copy'[p] = copy[p]
           Takes  == /\ Stage(p) = "idle" /\ Stage(p)' = "held" /\ copy'[p] = current
                     /\ account # "absent" /\ current # NoTokens
           Drops  == Stage(p) # "idle" /\ Stage(p)' = "idle"
           Idles  == Stage(p) = "idle" /\ Stage(p)' = "idle"
           Fails  == /\ Stage(p) = "held" /\ Stage(p)' = "refused"
                     /\ copy'[p] = copy[p] /\ copy[p].refresh \notin accepted
<1>3. CASE ReadUnderLock(p)
  <2>1. Takes \/ Idles
    BY <1>3 DEF ReadUnderLock, Proceed, Stage, Resting
  <2> QED
    BY <1>1, <1>2, <2>1, InvisibleStep DEF Shown, Contract!Next, Contract!Take, Contract!None,
       NoTokens
<1>4. CASE StillFresh(p) \/ RefreshFailed(p) \/ StoreThrows(p)
  <2>1. Drops
    BY <1>4 DEF StillFresh, RefreshFailed, StoreThrows, Proceed, Stage, Resting
  <2> QED
    BY <1>1, <1>2, <2>1 DEF Shown, Contract!Next, Contract!Advance, Contract!Drop, Contract!End,
       Contract!None, NoTokens
<1>5. CASE NoRefreshToken(p) \/ CallPlatform(p) \/ AuthFailed(p)
  <2>1. Keeps
    BY <1>5 DEF NoRefreshToken, CallPlatform, AuthFailed, Proceed, Stage, Resting
  <2> QED
    BY <1>1, <1>2, <2>1, InvisibleStep DEF Shown
<1>6. CASE RefreshRejected(p)
  <2>1. Fails
    BY <1>6 DEF RefreshRejected, Proceed, Stage, Resting
  <2> QED
    BY <1>1, <1>2, <2>1 DEF Shown, Contract!Next, Contract!Advance, Contract!Refuse
<1> QED
  BY <1>3, <1>4, <1>5, <1>6

\* A refresh that the platform grants is granted for the copy.
LEMMA GrantImplements ==
  ASSUME IInv, NEW p \in Processes, RefreshGranted(p) \/ AnswerLost(p)
  PROVE  Contract!Next
<1> USE TypeFacts
    DEF IInv, rowVars, flightVars, callerVars, userVars, platformVars, Contract!accountVars,
        Contract!refreshVars, Contract!platformVars
<1>1. /\ InSection(p) /\ UNCHANGED <<account, current, pairing, lock>>
      /\ Stage(p) = "held"
  BY DEF RefreshGranted, AnswerLost, InSection, Section, Stage, Resting
<1>2. /\ HolderStage = Stage(p) /\ HolderCopy = Shown(p)
      /\ HolderStage' = Stage(p)' /\ HolderCopy' = Shown(p)'
  BY <1>1, InsideStep
<1>3. PICK policy \in Policies : Granted(p, policy)
  BY DEF RefreshGranted, AnswerLost
<1>4. PICK r \in {issued + 1, copy[p].refresh, 0} :
        /\ copy[p].refresh \in accepted /\ issued' = issued + 1
        /\ accepted' = IF r = issued + 1 THEN (accepted \ {copy[p].refresh}) \cup {r}
                       ELSE accepted
        /\ copy'[p] = [number |-> issued + 1, refresh |-> r]
  <2>1. copy[p].refresh # issued + 1 /\ 0 # issued + 1
    BY DEF AllKnown, Known
  <2>2. CASE policy = "rotates"
    BY <1>3, <2>2 DEF Granted
  <2>3. CASE policy = "repeats"
    BY <1>3, <2>1, <2>3 DEF Granted
  <2>4. CASE policy = "omits"
    BY <1>3, <2>1, <2>4 DEF Granted
  <2> QED
    BY <2>2, <2>3, <2>4, TokenRefreshAssumption
<1>5. Contract!Grants(r) /\ r \in Contract!Answers
  BY <1>1, <1>2, <1>4 DEF Contract!Grants, Contract!Answers, Shown
<1>6. CASE RefreshGranted(p)
  <2>1. Stage(p)' = "granted"
    BY <1>6 DEF RefreshGranted, Proceed, Stage, Resting
  <2> QED
    BY <1>2, <1>4, <1>5, <1>1, <2>1 DEF Shown, Contract!Next, Contract!Advance, Contract!Grant
<1>7. CASE AnswerLost(p)
  <2>1. Stage(p)' = "idle"
    BY <1>7 DEF AnswerLost, Proceed, Stage, Resting
  <2> QED
    BY <1>2, <1>5, <1>1, <2>1 DEF Shown, Contract!Next, Contract!Advance, Contract!GrantLost,
       Contract!End, Contract!None, NoTokens
<1> QED
  BY <1>6, <1>7

\* The write of a refresh, and giving the account up; both end it.  An account that
\* is gone lets neither through.
LEMMA WriteImplements ==
  ASSUME IInv, NEW p \in Processes, StoreRefreshed(p) \/ MarkReauth(p)
  PROVE  Contract!Next
<1> USE TypeFacts
    DEF IInv, rowVars, flightVars, callerVars, userVars, platformVars, Contract!accountVars,
        Contract!refreshVars, Contract!platformVars
<1>1. InSection(p) /\ UNCHANGED <<pairing, accepted, issued, lock, copy>> /\ (Stage(p))' = "idle"
  BY DEF StoreRefreshed, MarkReauth, Proceed, InSection, Section, Stage, Resting
<1>2. /\ HolderStage = Stage(p) /\ HolderCopy = Shown(p)
      /\ HolderStage' = "idle" /\ HolderCopy' = NoTokens
  BY <1>1, InsideStep DEF Shown
<1>3. Contract!End
  BY <1>2 DEF Contract!End, Contract!None, NoTokens
<1>4. CASE StoreRefreshed(p)
  <2>1. Stage(p) = "granted" /\ UNCHANGED account
    BY <1>4 DEF StoreRefreshed, Stage, Resting
  <2>2. CASE account = "absent"
    BY <1>1, <1>2, <1>3, <1>4, <2>1, <2>2 DEF StoreRefreshed, RotateCurrent, Contract!Next,
       Contract!Advance, Contract!Drop
  <2>3. CASE account # "absent"
    BY <1>1, <1>2, <1>3, <1>4, <2>1, <2>3 DEF StoreRefreshed, RotateCurrent, Shown,
       Contract!Next, Contract!Advance, Contract!Store
  <2> QED
    BY <2>2, <2>3
<1>5. CASE MarkReauth(p)
  <2>1. /\ UNCHANGED current
        /\ \/ Stage(p) = "refused" /\ verdict[p] = "revoked"
           \/ Stage(p) = "held" /\ verdict[p] = "error"
    BY <1>5 DEF MarkReauth, Stage, Resting, Typed, ReauthHasReason
  <2>2. CASE account = "absent"
    BY <1>1, <1>2, <1>3, <1>5, <2>1, <2>2 DEF MarkReauth, Contract!Next, Contract!Advance,
       Contract!Drop
  <2>3. CASE account # "absent"
    BY <1>1, <1>2, <1>3, <1>5, <2>1, <2>3 DEF MarkReauth, Contract!Next, Contract!Advance,
       Contract!GiveUp
  <2> QED
    BY <2>2, <2>3
<1> QED
  BY <1>4, <1>5

\* The release of the lock does not show; an exit drops the refresh, if it was the
\* holder's, and does not show otherwise.
LEMMA LeaveImplements ==
  ASSUME IInv, NEW p \in Processes, Release(p) \/ Exit(p)
  PROVE  [Contract!Next]_(Contract!contractVars)
<1> USE TypeFacts, TokenRefreshAssumption
    DEF IInv, rowVars, flightVars, callerVars, userVars, platformVars
<1>1. UNCHANGED <<account, current, pairing, accepted, issued>>
  BY DEF Release, Exit
<1>2. /\ (Stage(p))' = "idle"
      /\ \A q \in Processes : q # p => Stage(q)' = Stage(q) /\ Shown(q)' = Shown(q)
  BY DEF Release, Exit, EndFlight, Stage, Resting, Shown
<1>3. CASE lock.holder = p
  <2>1. lock'.holder = Nobody
    BY <1>3, HolderType DEF Release, DropLock, Exit, Unlocked, Typed, TypeOK
  <2>2. HolderStage' = "idle" /\ HolderCopy' = NoTokens
    BY <2>1, HolderFacts DEF SeesHolder
  <2>3. CASE HolderStage = "idle"
    <3>1. HolderCopy = NoTokens
      BY <2>3 DEF HolderCopy
    <3> QED
      BY <1>1, <2>2, <2>3, <3>1, InvisibleStep
  <2>4. CASE HolderStage # "idle"
    BY <1>1, <2>2, <2>4 DEF Contract!Next, Contract!Advance, Contract!Drop, Contract!End,
       Contract!None, NoTokens, Contract!accountVars, Contract!platformVars
  <2> QED
    BY <2>3, <2>4
<1>4. CASE lock.holder # p
  <2>1. UNCHANGED lock
    BY <1>4 DEF Release, DropLock, Exit
  <2>2. HolderStage' = HolderStage /\ HolderCopy' = HolderCopy
    BY <1>2, <1>4, <2>1, HolderType, HolderFacts DEF SeesHolder
  <2> QED
    BY <1>1, <2>2, InvisibleStep
<1> QED
  BY <1>3, <1>4

\* Requests and scans show nowhere.
LEMMA CallerImplements ==
  ASSUME IInv, NEW c \in Callers, ReadCurrent(c) \/ ReadNothing(c) \/ CallerStep(c)
  PROVE  UNCHANGED Contract!contractVars
<1> USE TypeFacts, TokenRefreshAssumption
    DEF IInv, rowVars, flightVars, callerVars, userVars, platformVars
<1>1. UNCHANGED <<account, current, pairing, accepted, issued, copy, verdict>>
  BY DEF CallerStep, ReadCurrent, ReadNothing, UseToken, SkipToken, JoinFlight, StartFlight
<1>2. CASE StartFlight(c) /\ LockFree
  <2>1. lock'.holder = Home[c] /\ (Stage(Home[c]))' = "idle" /\ Home[c] \in Processes
    BY <1>2 DEF StartFlight, TakeLock, Stage, Resting
  <2>2. HolderStage' = "idle" /\ HolderCopy' = NoTokens
    BY <2>1, HolderFacts DEF SeesHolder, Shown
  <2> QED
    BY <1>1, <1>2, <2>2, FreeFacts, InvisibleStep
<1>3. CASE StartFlight(c) /\ ~LockFree
  <2>1. UNCHANGED lock
    BY <1>3 DEF StartFlight
  <2>2. \A q \in Processes : Stage(q)' = Stage(q) /\ Shown(q)' = Shown(q)
    BY <1>1, <1>3 DEF StartFlight, Stage, Resting, Shown
  <2>3. HolderStage' = HolderStage /\ HolderCopy' = HolderCopy
    BY <2>1, <2>2, HolderType, HolderFacts DEF SeesHolder
  <2> QED
    BY <1>1, <2>3, InvisibleStep
<1>4. CASE ~StartFlight(c)
  <2>1. UNCHANGED <<lock, flight>>
    BY <1>4 DEF CallerStep, ReadCurrent, ReadNothing, UseToken, SkipToken, JoinFlight
  <2>2. HolderStage' = HolderStage /\ HolderCopy' = HolderCopy
    BY <1>1, <2>1 DEF HolderStage, HolderCopy, Stage
  <2> QED
    BY <1>1, <2>2, InvisibleStep
<1> QED
  BY <1>2, <1>3, <1>4

\* The user pairs again, removes the account, or revokes on the platform, in the
\* midst of the refresh.
LEMMA UserImplements ==
  ASSUME IInv,
         \/ UpdateAccount \/ StorePaired \/ PairingLost \/ DeleteTokens \/ DeleteAccount \/ Withdraw
  PROVE  [Contract!Next]_(Contract!contractVars)
<1> USE TypeFacts
    DEF IInv, rowVars, flightVars, callerVars, userVars, platformVars, Contract!accountVars,
        Contract!refreshVars, Contract!platformVars
<1>1. UNCHANGED <<lock, flight, verdict, copy>>
  BY DEF UpdateAccount, StorePaired, PairingLost, DeleteTokens, DeleteAccount, Withdraw
<1>2. HolderStage' = HolderStage /\ HolderCopy' = HolderCopy
  BY <1>1 DEF HolderStage, HolderCopy, Stage
<1>3. CASE UpdateAccount
  BY <1>2, <1>3 DEF UpdateAccount, Contract!Next, Contract!Authorize, Contract!None, NoTokens
<1>4. CASE StorePaired
  BY <1>2, <1>4 DEF StorePaired, RotateCurrent, Contract!Next, Contract!Pair, Contract!None,
     NoTokens
<1>5. CASE PairingLost
  BY <1>2, <1>5 DEF PairingLost, Contract!Next, Contract!PairingLost, Contract!None, NoTokens
<1>6. CASE DeleteTokens \/ DeleteAccount
  <2>1. CASE account = "absent"
    <3>1. UNCHANGED <<account, current, pairing, issued, accepted>>
      BY <1>6, <2>1 DEF DeleteTokens, DeleteAccount, RemovalPurges
    <3> QED
      BY <1>2, <3>1, InvisibleStep
  <2>2. CASE account # "absent"
    BY <1>2, <1>6, <2>2 DEF DeleteTokens, DeleteAccount, Contract!Next, Contract!Remove,
       Contract!None, NoTokens
  <2> QED
    BY <2>1, <2>2
<1>7. CASE Withdraw
  BY <1>2, <1>7 DEF Withdraw, Contract!Next, Contract!Withdraw
<1> QED
  BY <1>3, <1>4, <1>5, <1>6, <1>7

\* Time shows nowhere.
LEMMA TimeImplements ==
  ASSUME IInv, Tick \/ (\E n \in 1 .. MaxTokens : BecomeDue(n)) \/ UNCHANGED vars
  PROVE  UNCHANGED Contract!contractVars
<1> USE DEF rowVars, flightVars, callerVars, userVars, platformVars
<1>1. UNCHANGED <<account, current, pairing, accepted, issued, flight, verdict, copy>>
  BY DEF Tick, BecomeDue, vars
<1>2. lock'.holder = lock.holder
  BY DEF Tick, BecomeDue, vars, IInv, Typed, TypeOK
<1>3. HolderStage' = HolderStage /\ HolderCopy' = HolderCopy
  BY <1>1, <1>2 DEF HolderStage, HolderCopy, Stage
<1> QED
  BY <1>1, <1>3, InvisibleStep

LEMMA StepImplements ==
  ASSUME IInv, [Next]_vars
  PROVE  [Contract!Next]_(Contract!contractVars)
<1>1. CASE \E c \in Callers : ReadCurrent(c) \/ ReadNothing(c) \/ CallerStep(c)
  BY <1>1, CallerImplements
<1>2. CASE \E p \in Processes : RefreshStep(p) \/ Exit(p)
  BY <1>2, AcquireImplements, InsideImplements, GrantImplements, WriteImplements,
     LeaveImplements DEF RefreshStep
<1>3. CASE UpdateAccount \/ StorePaired \/ PairingLost \/ DeleteTokens \/ DeleteAccount \/ Withdraw
  BY <1>3, UserImplements
<1>4. CASE Tick \/ (\E n \in 1 .. MaxTokens : BecomeDue(n)) \/ UNCHANGED vars
  BY <1>4, TimeImplements
<1> QED
  BY <1>1, <1>2, <1>3, <1>4 DEF Next

LEMMA InitImplements == Init => Contract!Init
BY DEF Init, Contract!Init, Contract!None, HolderStage, HolderCopy, NoTokens, Unlocked

\* Requests, scans, the lock and its expiry, crashes and losses together are an
\* implementation of RotationContract, re-pairing and removal included.
THEOREM RefreshImplementsContract ==
  ASSUME LockCoversCall
  PROVE  Spec => ImplementsContract
BY InitImplements, StepImplements, Invariant, PTL DEF Spec, ImplementsContract, Contract!Spec
=============================================================================
