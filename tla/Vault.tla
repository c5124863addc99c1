--------------------------------- MODULE Vault ---------------------------------
(***************************************************************************)
(* What is kept sealed, and what it takes to read it back: the keyring and *)
(* the authenticated encryption (packages/auth/src/crypto), the vault of   *)
(* the account tokens (packages/auth/src/vault.ts), and the store of the   *)
(* application credentials with the key file both share                    *)
(* (packages/pipeline/src/secure-app-credentials.ts).                      *)
(*                                                                         *)
(* A key is a number, a random one that was never drawn before.  Opening   *)
(* yields the set of what was sealed: one element, or none when it throws. *)
(***************************************************************************)
EXTENDS Naturals

-------------------------------------------------------------------------------
(* Keys *)

\* The keyring of one key.  Its rows name the version, never the key.
Keyring(key) == [keys |-> [v \in {"v1"} |-> key], active |-> "v1"]

ActiveRef(ring) == <<"local", ring.active>>

\* The key a reference stands for, if the keyring has that version.
ResolveKey(ring, ref) ==
  {ring.keys[v] : v \in {u \in DOMAIN ring.keys : ref = <<"local", u>>}}

\* Defect: every start draws a key of its own.
FreshKey(file, fresh) == fresh

\* The key in the key file, 0 when there is no file: then a fresh one, which is written to it.
LoadOrCreateKey(file, fresh) == IF file = 0 THEN fresh ELSE file

-------------------------------------------------------------------------------
(* Authenticated encryption *)

SealBytes(key, secret, aad) == [key |-> key, secret |-> secret, aad |-> aad]

\* The tag matches under the key and the associated data of the sealing only.
OpenBytes(key, sealed, aad) ==
  IF sealed.key = key /\ sealed.aad = aad THEN {sealed.secret} ELSE {}

Sealed(ring, secret, aad) ==
  {[bytes |-> SealBytes(key, secret, aad), ref |-> ActiveRef(ring)] :
     key \in ResolveKey(ring, ActiveRef(ring))}

Opened(ring, row, aad) ==
  UNION {OpenBytes(key, row.bytes, aad) : key \in ResolveKey(ring, row.ref)}

-------------------------------------------------------------------------------
(* Account tokens *)

TokenAad(account, ref) == [account |-> account, field |-> "tokenbundle", ref |-> ref]

\* A token bundle [access, refresh]: sealed for its account, unless the access token is empty.
SealToken(ring, account, bundle) ==
  IF bundle.access = "" THEN {} ELSE Sealed(ring, bundle, TokenAad(account, ActiveRef(ring)))

OpenToken(ring, account, row) == Opened(ring, row, TokenAad(account, row.ref))

-------------------------------------------------------------------------------
(* Application credentials *)

CredentialsAad(platform, ref) == [platform |-> platform, ref |-> ref]

SealCredentials(ring, platform, credentials) ==
  Sealed(ring, credentials, CredentialsAad(platform, ActiveRef(ring)))

\* get: what cannot be opened is treated as not configured.
OpenCredentials(ring, platform, row) == Opened(ring, row, CredentialsAad(platform, row.ref))

\* loadAll: setting holds the row of every platform with one.
LoadAll(ring, platforms, setting) ==
  LET found == {p \in platforms \cap DOMAIN setting : OpenCredentials(ring, p, setting[p]) # {}} IN
  [p \in found |-> CHOOSE c \in OpenCredentials(ring, p, setting[p]) : TRUE]

\* The credentials in use for a platform; the placeholder is no application of the platform's.
CredentialsInUse(byPlatform, platform, placeholder) ==
  IF platform \in DOMAIN byPlatform THEN byPlatform[platform] ELSE placeholder
===============================================================================
