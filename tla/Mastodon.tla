------------------------------ MODULE Mastodon -------------------------------
(***************************************************************************)
(* The Mastodon connector, plugins/mastodon/src.  `refreshable` is whether *)
(* the account's token came with a refresh token: only tokens that expire  *)
(* do.                                                                     *)
(***************************************************************************)
EXTENDS Connector

MaxText == 500
CountedUrl == 23
MaxAlt == 1500
MaxMedia == 4
MaxThread == 25
MaxBytes(kind) == IF kind = "image" THEN 16777216 ELSE 103809024

Grants == {"code", "client"}

Operations == {"connect", "authenticate", "refreshToken", "validatePost", "uploadMedia", "publish",
               "delete", "edit", "getAnalytics", "disconnect"}

\* MastodonClient.call: a 401 counts as an expired token, whatever it is for.
Failure(call) == Errors("token_expired", "token_expired", "unknown", "unknown", "none")

-----------------------------------------------------------------------------
\* countedLength: a URL counts 23, however long it is.
CountedLength(p) == p.text + CountedUrl * Len(p.urls)

Mimes == (MimeTypes.image \ {"image/tiff"}) \cup (MimeTypes.video \ {"video/avi"}) \cup MimeTypes.audio

\* A GIF has the limit of a video.
Classify(mime) == IF mime = "image/gif" THEN "gif" ELSE Kind(mime)

ValidMedia(media) ==
  /\ Len(media) <= MaxMedia
  /\ (\E i \in DOMAIN media : Classify(media[i].mime) \in {"video", "audio"}) => Len(media) <= 1
  /\ \A i \in DOMAIN media :
       /\ media[i].mime \in Mimes
       /\ media[i].bytes <= MaxBytes(Classify(media[i].mime))
       /\ media[i].alt <= MaxAlt

\* validateMastodonPost counts the text alone; the tags and mentions that are sent with it
\* are not part of it.
ValidItem(p) ==
  /\ CountedLength(p) <= MaxText
  /\ CountedLength(p) > 0 \/ p.media # <<>>
  /\ ValidMedia(p.media)
  /\ "unknownVisibility" \notin p.options

Accepts(p) ==
  /\ Len(Items(p)) <= MaxThread
  /\ \A i \in DOMAIN Items(p) : ValidItem(Items(p)[i])

\* What an instance takes as a status: the assembled text counts.
Takes(p) == AssembledLength(p, CountedLength(p)) <= MaxText

-----------------------------------------------------------------------------
\* uploadMedia: the file, then the request
Upload(p, n) ==
  LET Bring(i) == IF Items(p)[n].media[i].readable THEN <<Do("upload", n)>> ELSE <<Throw("plain")>>
  IN  Each(Bring, Len(Items(p)[n].media))

\* Defect: the status is created before its media are uploaded.
CreateBeforeUpload(p, n) == <<Do("post", n)>> \o Upload(p, n)

CreateOneStatus(p, n) == Upload(p, n) \o <<Do("post", n)>>

Publish(p) ==
  LET Create(n) == CreateOneStatus(p, n)
  IN  Validated(Accepts(p), Each(Create, Len(Items(p))))

Delete == <<Do("remove", 1)>>

Edit(p) == Validated(Accepts(p), Upload(p, 1) \o <<Do("update", 1)>>)

-----------------------------------------------------------------------------
Connect == <<Do("reach", 0)>>

\* fetchProfile catches its failure.
Authenticate(grant) ==
  IF grant = "code" THEN <<Do("exchange", 0), Try("profile", 0)>>
  ELSE IF grant = "client" THEN <<Do("exchange", 0)>>
  ELSE <<Throw("auth_failed")>>

RefreshToken(refreshable) ==
  IF refreshable THEN <<Do("refresh", 0)>> ELSE <<Throw("auth_failed")>>

\* The count of followers is best effort.
GetAnalytics == <<Do("metrics", 1), Try("followers", 0)>>
=============================================================================
