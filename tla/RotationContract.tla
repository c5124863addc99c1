-------------------------- MODULE RotationContract --------------------------
(***************************************************************************)
(* What the token manager promises about the tokens of one account,        *)
(* without callers, processes, locks or a clock: there is one refresh at a *)
(* time, which goes by a copy of the stored token set, stores what it was  *)
(* granted for that copy, and gives the account up as revoked only after   *)
(* the platform refused the copy.  A re-pairing and a removal come between *)
(* any two of its steps.                                                   *)
(*                                                                         *)
(* A token set is a number, in the order the platform issues them, and the *)
(* number of the refresh token it carries, 0 for none.                     *)
(***************************************************************************)
EXTENDS Naturals

VARIABLES
  status,    \* of the account: "active", "revoked", "error" or "absent"
  stored,    \* the current token set
  stage,     \* of the refresh: "idle", "held", "granted" or "refused"
  token,     \* the copy it holds, then the token set it was granted
  paired,    \* a token set that was authorized and is not stored yet
  issued,    \* token sets the platform has issued
  accepted   \* refresh tokens it takes

accountVars  == <<status, stored>>
refreshVars  == <<stage, token>>
platformVars == <<issued, accepted>>
contractVars == <<accountVars, refreshVars, paired, platformVars>>

None == [number |-> 0, refresh |-> 0]

Take ==
  /\ stage = "idle"
  /\ status # "absent" /\ stored # None
  /\ stage' = "held" /\ token' = stored
  /\ UNCHANGED <<accountVars, paired, platformVars>>

End == stage' = "idle" /\ token' = None

\* The refresh is not needed, fails or is lost, at whatever point.
Drop ==
  /\ End
  /\ UNCHANGED <<accountVars, paired, platformVars>>

\* The platform grants a token set with refresh token r for the copy: a new one,
\* which uses that of the copy up, or the same, or none.
Grants(r) ==
  /\ issued' = issued + 1
  /\ stage = "held" /\ token.refresh \in accepted
  /\ accepted' = IF r = issued + 1 THEN (accepted \ {token.refresh}) \cup {r} ELSE accepted
  /\ UNCHANGED <<accountVars, paired>>

Answers == {issued + 1, token.refresh, 0}

Grant ==
  \E r \in Answers :
    /\ Grants(r)
    /\ stage' = "granted" /\ token' = [number |-> issued + 1, refresh |-> r]

GrantLost == \E r \in Answers : Grants(r) /\ End

Store ==
  /\ stage = "granted" /\ status # "absent"
  /\ stored' = token
  /\ End
  /\ UNCHANGED <<status, paired, platformVars>>

Refuse ==
  /\ stage = "held" /\ token.refresh \notin accepted
  /\ stage' = "refused"
  /\ UNCHANGED <<accountVars, token, paired, platformVars>>

\* The account is given up: as revoked after a refusal only.
GiveUp ==
  /\ status # "absent"
  /\ \/ stage = "refused" /\ status' = "revoked"
     \/ stage = "held" /\ status' = "error"
  /\ End
  /\ UNCHANGED <<stored, paired, platformVars>>

Authorize ==
  /\ status # "absent" /\ paired = None
  /\ issued' = issued + 1
  /\ status' = "active"
  /\ accepted' = accepted \cup {issued + 1}
  /\ paired' = [number |-> issued + 1, refresh |-> issued + 1]
  /\ UNCHANGED <<stored, refreshVars>>

\* A token set that was authorized is stored, or lost.
Pair ==
  /\ paired # None /\ paired' = None
  /\ stored' = IF status = "absent" THEN stored ELSE paired
  /\ UNCHANGED <<status, refreshVars, platformVars>>

PairingLost ==
  /\ paired # None /\ paired' = None
  /\ UNCHANGED <<accountVars, refreshVars, platformVars>>

\* The account goes after its tokens.
Remove ==
  /\ status # "absent"
  /\ stored' = None
  /\ status' \in {status, "absent"}
  /\ UNCHANGED <<refreshVars, paired, platformVars>>

Withdraw ==
  /\ accepted # {} /\ accepted' = {}
  /\ UNCHANGED <<accountVars, refreshVars, paired, issued>>

Init ==
  /\ status = "active"
  /\ stored = [number |-> 1, refresh |-> 1]
  /\ stage = "idle" /\ token = None
  /\ paired = None
  /\ issued = 1 /\ accepted = {1}

\* The refresh goes on.
Advance ==
  /\ stage # "idle"
  /\ Drop \/ Grant \/ GrantLost \/ Store \/ Refuse \/ GiveUp

Next ==
  \/ Take \/ Advance
  \/ Authorize \/ Pair \/ PairingLost \/ Remove \/ Withdraw

Spec == Init /\ [][Next]_contractVars
=============================================================================
