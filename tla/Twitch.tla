-------------------------------- MODULE Twitch --------------------------------
(***************************************************************************)
(* The Twitch connector, plugins/twitch/src: publishing sets the title and *)
(* the tags of the channel, so that doing it again changes nothing.        *)
(***************************************************************************)
EXTENDS Connector

MaxTitle == 140
MaxTags == 10
MaxTag == 25

Grants == {"code", "client"}

Operations == {"connect", "authenticate", "refreshToken", "validatePost", "publish", "edit",
               "getAnalytics", "disconnect"}

\* tokenRequest: whatever is not a success is a failure for good.
TokenErrors == [Errors("auth_failed", "auth_failed", "auth_failed", "auth_failed", "none")
                EXCEPT !.limited = "auth_failed", !.failing = "auth_failed"]

RefreshErrors == [Errors("token_revoked", "token_revoked", "transient", "token_revoked", "none")
                  EXCEPT !.limited = "transient"]

\* validateToken, whose answer may lack the user
ValidateErrors == [Errors("token_expired", "token_expired", "transient", "transient", "auth_failed")
                   EXCEPT !.limited = "transient"]

\* helixRequest: TransientError is retryable, although a 4xx asks for it not to be.
HelixErrors == Errors("token_expired", "token_expired", "transient", "transient", "none")

Failure(call) ==
  CASE call = "exchange" -> TokenErrors
    [] call = "refresh" -> RefreshErrors
    [] call = "validate" -> ValidateErrors
    [] OTHER -> HelixErrors

-----------------------------------------------------------------------------
\* The title of the channel: the title of the post, or its text
ChannelTitle(p) == IF p.title > 0 THEN p.title ELSE TextLength(p)

Takes(p) ==
  /\ ChannelTitle(p) <= MaxTitle
  /\ Len(p.tags) <= MaxTags
  /\ \A i \in DOMAIN p.tags : p.tags[i] <= MaxTag

Accepts(p) ==
  /\ Takes(p)
  /\ ChannelTitle(p) > 0
  /\ "invalidTag" \notin p.options
  /\ p.mentions = <<>>
  /\ p.media = <<>>
  /\ p.thread = <<>>

-----------------------------------------------------------------------------
\* validateToken tells whose channel it is.
UpdateChannel(p) == Validated(Accepts(p), <<Do("validate", 0), Do("channel", 1)>>)

Publish(p) == UpdateChannel(p)

Edit(p) == UpdateChannel(p)

Delete == Guarded(Operations, "delete", <<>>)

-----------------------------------------------------------------------------
Connect(paired) == IF paired THEN <<Do("validate", 0)>> ELSE <<>>

Authenticate(grant) ==
  IF grant = "code" THEN <<Do("exchange", 0), Do("profile", 0)>>
  ELSE IF grant = "client" THEN <<Do("exchange", 0)>>
  ELSE <<Throw("auth_failed")>>

RefreshToken(refreshable) ==
  IF refreshable THEN <<Do("refresh", 0)>> ELSE <<Throw("token_revoked")>>

\* The stream, if there is one, and the followers, which are best effort.
GetAnalytics == <<Do("metrics", 1), Try("followers", 0)>>
=============================================================================
