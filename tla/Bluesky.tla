------------------------------- MODULE Bluesky -------------------------------
(***************************************************************************)
(* The Bluesky connector, plugins/bluesky/src.                             *)
(***************************************************************************)
EXTENDS Connector

MaxText == 300
MaxBytesOfText == 3000
MaxAlt == 1000
MaxMedia == 4
MaxThread == 25
MaxSeconds == 180
MaxBytes(kind) == IF kind = "image" THEN 1000000 ELSE 100000000
Mimes == {"image/png", "image/jpeg", "image/webp", "image/gif", "video/mp4"}

\* An app password is the only way in; its session carries no expiry.
Grants == {"password"}

Operations == {"connect", "authenticate", "refreshToken", "validatePost", "uploadMedia", "publish",
               "delete", "getAnalytics", "disconnect"}

\* XrpcClient.call
Failure(call) ==
  Errors("token_revoked", "token_expired", "unknown", "unknown",
         IF call \in {"metrics", "thread"} THEN "auth_failed" ELSE "none")

-----------------------------------------------------------------------------
\* One kind of embed per post: images, or a single video.
ValidMedia(media) ==
  /\ Len(media) <= MaxMedia
  /\ (\E i \in DOMAIN media : Kind(media[i].mime) = "video") => Len(media) = 1
  /\ \A i \in DOMAIN media :
       /\ media[i].mime \in Mimes
       /\ media[i].bytes <= MaxBytes(Kind(media[i].mime))
       /\ Kind(media[i].mime) = "video" => media[i].seconds <= MaxSeconds
       /\ media[i].alt <= MaxAlt

\* Graphemes; the byte limit is for texts of many bytes per grapheme ("emoji").
SentLength(p) == AssembledLength(p, TextLength(p))

Bytes(p) == IF "emoji" \in p.options THEN 11 * SentLength(p) ELSE SentLength(p)

Takes(p) == SentLength(p) <= MaxText /\ Bytes(p) <= MaxBytesOfText

ValidItem(p) ==
  /\ Takes(p)
  /\ SentLength(p) > 0 \/ p.media # <<>>
  /\ ValidMedia(p.media)

Accepts(p) ==
  /\ Len(Items(p)) <= MaxThread
  /\ \A i \in DOMAIN Items(p) : ValidItem(Items(p)[i])

-----------------------------------------------------------------------------
\* buildFacets asks for the DID of every handle; one that does not resolve is left out.
Facets(p, n) == [i \in DOMAIN Items(p)[n].mentions |-> Try("resolve", n)]

Upload(p, n) ==
  LET Bring(i) == IF Items(p)[n].media[i].readable THEN <<Do("upload", n)>> ELSE <<Throw("plain")>>
  IN  Each(Bring, Len(Items(p)[n].media))

CreateOnePost(p, n) == Facets(p, n) \o Upload(p, n) \o <<Do("post", n)>>

\* resolveReplyRefs, for a post that answers another one
ReplyRefs(p) == IF "reply" \in p.options THEN <<Do("thread", 0)>> ELSE <<>>

Publish(p) ==
  LET Create(n) == CreateOnePost(p, n)
  IN  Validated(Accepts(p), ReplyRefs(p) \o Each(Create, Len(Items(p))))

Delete == Guarded(Operations, "delete", <<Do("remove", 1)>>)

Edit == Guarded(Operations, "edit", <<>>)

-----------------------------------------------------------------------------
Connect == <<Do("reach", 0)>>

Authenticate(grant) == IF grant = "password" THEN <<Do("exchange", 0)>> ELSE <<Throw("auth_failed")>>

RefreshToken(refreshable) ==
  IF refreshable THEN <<Do("refresh", 0)>> ELSE <<Throw("auth_failed")>>

\* A post that is not there is an answer without it, and an AuthError.
GetAnalytics == Guarded(Operations, "getAnalytics", <<Do("metrics", 1)>>)
=============================================================================
