------------------------------- MODULE Discord -------------------------------
(***************************************************************************)
(* The Discord connector, plugins/discord/src.  `credential` is the shape  *)
(* of the account's token: "bot", "webhook" or "oauth".                    *)
(***************************************************************************)
EXTENDS Connector

MaxText == 2000
MaxTitle == 256
MaxAlt == 1024
MaxMedia == 10
MaxBytes == 25 * 1024 * 1024

Grants == {"code", "client"}

Static(credential) == credential \in {"bot", "webhook"}

\* discordCapabilitiesFor: a static credential is neither refreshed nor revoked.
Operations(credential) ==
  {"connect", "authenticate", "validatePost", "uploadMedia", "publish", "delete", "edit"}
  \cup IF Static(credential) THEN {} ELSE {"refreshToken", "disconnect"}

\* DiscordHttpClient.request
Failure(call) == Errors("token_revoked", "token_revoked", "not_found", "unknown", "none")

-----------------------------------------------------------------------------
(***************************************************************************)
(* Validation.  Tags, the title and mentions only give warnings.           *)
(***************************************************************************)
ValidMedia(m) == m.bytes <= MaxBytes /\ m.alt <= MaxAlt

\* validateEmbeds: a part that is too long, or all of them together
ValidEmbed(p) == "longEmbed" \notin p.options

ValidItem(p) ==
  /\ TextLength(p) <= MaxText
  /\ TextLength(p) > 0 \/ p.media # <<>> \/ p.options \cap {"embed", "longEmbed"} # {}
  /\ ValidEmbed(p)
  /\ Len(p.media) <= MaxMedia
  /\ \A i \in DOMAIN p.media : ValidMedia(p.media[i])
  /\ "quote" \notin p.options

Accepts(p) == \A i \in DOMAIN Items(p) : ValidItem(Items(p)[i])

\* buildContentWithMentions puts the pings that are not in the text in front of it: the
\* mention of a role is 22 characters and a space.
ContentLength(p) == TextLength(p) + IF "ping" \in p.options THEN 23 ELSE 0

\* What the API takes as the content and the embeds of a message; without embeds of its
\* own a post's title becomes one.
Takes(p) ==
  /\ ContentLength(p) <= MaxText
  /\ "embed" \in p.options \/ p.title <= MaxTitle

-----------------------------------------------------------------------------
\* Defect: a child has its own options only.
SentAlone(p, n) == Items(p)[n]

\* A child takes over the options of the first post.
Sent(p, n) == LET item == Items(p)[n] IN [item EXCEPT !.options = @ \cup p.options]

\* readMediaBytes: a file that cannot be read or fetched throws a plain error.
Read(p, n) == [i \in DOMAIN Items(p)[n].media |->
                 IF Items(p)[n].media[i].readable THEN Do("read", n) ELSE Throw("plain")]

ByWebhook(p, credential) ==
  \/ credential = "webhook"
  \/ credential # "bot" /\ "webhookUrl" \in p.options

\* sendOne
SendOne(p, n, credential) ==
  Read(p, n) \o
  IF ByWebhook(Sent(p, n), credential) THEN <<Do("post", n)>>
  ELSE IF Sent(p, n).options \cap {"channelId", "threadId"} = {} THEN <<Throw("validation_failed")>>
  ELSE IF "createThread" \in Sent(p, n).options THEN <<Do("post", n), Do("openThread", n)>>
  ELSE <<Do("post", n)>>

\* A child is validated once more with the options it takes over.
Publish(p, credential) ==
  LET Send(n) == Validated(n = 1 \/ ValidItem(Sent(p, n)), SendOne(p, n, credential))
  IN  Validated(Accepts(p), Each(Send, Len(Items(p))))

\* resolveTarget: a job of the queue passes no target, and its remote id is bare.
Unaddressed == <<Throw("validation_failed")>>

Delete == Unaddressed

Edit(p) == Validated(Accepts(p), Unaddressed)

-----------------------------------------------------------------------------
Connect(credential) == <<Do("reach", 0)>>

Authenticate(grant) ==
  IF grant = "code" THEN <<Do("exchange", 0), Try("profile", 0)>>
  ELSE IF grant = "client" THEN <<Do("exchange", 0)>>
  ELSE <<Throw("auth_failed")>>

RefreshToken(credential, refreshable) ==
  Guarded(Operations(credential), "refreshToken",
          IF refreshable THEN <<Do("refresh", 0)>> ELSE <<Throw("auth_failed")>>)

GetAnalytics == Guarded(Operations("oauth"), "getAnalytics", <<Do("metrics", 0)>>)
=============================================================================
