-------------------------- MODULE TokenRefreshInv --------------------------
(***************************************************************************)
(* The inductive invariant of TokenRefresh.  Its last parts speak of        *)
(* behaviours without a re-pairing, which stores its tokens past the lock.  *)
(***************************************************************************)
EXTENDS TokenRefresh

\* Whoever is inside the refresh has a lock row that is live.
HoldsLock ==
  \A p \in Processes : InSection(p) => lock.holder = p /\ lock.left > 0

\* A token set without a row has neither number nor refresh token, and there is
\* none that was not issued.
Known(t) == t.number <= issued /\ t.refresh <= issued

AllKnown ==
  /\ Known(current) /\ Known(pairing)
  /\ \A p \in Processes : Known(copy[p])
  /\ \A n \in accepted : n <= issued

\* A pairing under way has a refresh token that nothing else has.
PairingIsNew ==
  /\ pairings = 0 => pairing = NoTokens
  /\ pairing # NoTokens =>
       /\ pairing.refresh # 0
       /\ current.refresh # pairing.refresh
       /\ \A p \in Processes : copy[p].refresh # pairing.refresh

\* A refresh token that was not used up.
Alive(t) == t.refresh \in accepted \cup withdrawn \cup {0}

\* What is stored, and what a refresh goes by, was not used up: except the stored
\* token while its successor is on its way to the row.
NothingUsedUp ==
  exits = 0 /\ lost = 0 =>
    /\ Alive(pairing)
    /\ \A p \in Processes : flight[p] \in {"judge", "call", "store"} => Alive(copy[p])
    /\ (\A p \in Processes : flight[p] # "store") => Alive(current)

\* A refresh calls the platform with a refresh token.
HasRefresh == \A p \in Processes : flight[p] = "call" => copy[p].refresh # 0

\* A refresh that marks the account knows what to mark it with.
ReauthHasReason ==
  \A p \in Processes : flight[p] = "reauth" => verdict[p] \in {"revoked", "error"}

\* The parts that TypeOK needs to be inductive.
Typed == TypeOK /\ HasRefresh /\ ReauthHasReason

\* p's copy is a copy of the row that it must be told about.
CopiesRow(p) ==
  \/ flight[p] \in {"judge", "call", "reauth"}
  \/ flight[p] = "release" /\ verdict[p] = "fresh"

CopyIsCurrent ==
  pairings = 0 => \A p \in Processes : CopiesRow(p) => current \in {copy[p], NoTokens}

\* What a refresh is about to store is later than what is stored.
StoreIsLater ==
  pairings = 0 => \A p \in Processes : flight[p] = "store" => current.number < copy[p].number

\* An account is revoked, or about to be, only with a token that is refused.
RevokedIsRefused ==
  pairings = 0 =>
    /\ account = "revoked" => current.refresh \notin accepted
    /\ \A p \in Processes :
         /\ account = "revoked" =>
              /\ flight[p] # "store"
              /\ flight[p] \in {"judge", "call", "reauth"} => copy[p].refresh \notin accepted
         /\ flight[p] = "reauth" /\ verdict[p] = "revoked" => copy[p].refresh \notin accepted

\* No caller began with a token later than what is stored, under way or handed out.
NeverOlder ==
  pairings = 0 => \A c \in Callers :
    /\ current # NoTokens => began[c] <= current.number
    /\ \A p \in Processes : CopiesRow(p) \/ flight[p] = "store" => began[c] <= copy[p].number
    /\ pc[c] \in {"checking", "done"} => began[c] <= seen[c].number

IInv ==
  /\ Typed
  /\ HoldsLock
  /\ AllKnown
  /\ PairingIsNew
  /\ NothingUsedUp
  /\ NoWedge
  /\ RemovalPurges
  /\ CopyIsCurrent
  /\ StoreIsLater
  /\ RevokedIsRefused
  /\ NeverOlder
=============================================================================
