-------------------------------- MODULE Reddit --------------------------------
(***************************************************************************)
(* The Reddit connector, plugins/reddit/src.  `agent` is whether the app   *)
(* credentials name a user agent.                                          *)
(***************************************************************************)
EXTENDS Connector

MaxText == 40000
MaxTitle == 300

Grants == {"code", "password", "client"}

Operations == {"connect", "authenticate", "refreshToken", "validatePost", "publish", "delete", "edit",
               "getAnalytics", "disconnect"}

\* tokenRequest: a status of its own, or a body that names an error
TokenErrors == [Errors("auth_failed", "auth_failed", "transient", "auth_failed", "auth_failed")
                EXCEPT !.limited = "transient"]

\* redditRequest: TransientError is retryable, although a 4xx asks for it not to be.
ApiErrors(rejected) == Errors("token_expired", "token_expired", "transient", "transient", rejected)

Failure(call) ==
  IF call \in {"exchange", "refresh"} THEN TokenErrors
  ELSE IF call = "post" THEN ApiErrors("validation_failed")
  ELSE IF call = "metrics" THEN ApiErrors("auth_failed")
  ELSE ApiErrors("none")

-----------------------------------------------------------------------------
\* A post is its title with either a text or a link, in one subreddit.
Accepts(p) ==
  /\ p.title \in 1 .. MaxTitle
  /\ "subreddit" \in p.options
  /\ p.link = 0 \/ TextLength(p) = 0
  /\ "invalidLink" \notin p.options
  /\ TextLength(p) <= MaxText
  /\ p.media = <<>>
  /\ p.thread = <<>>

Takes(p) == p.title <= MaxTitle /\ TextLength(p) <= MaxText

-----------------------------------------------------------------------------
\* requireUserAgent
WithAgent(agent, plan) == IF agent THEN plan ELSE <<Throw("auth_failed")>>

Publish(p, agent) == Validated(Accepts(p), WithAgent(agent, <<Do("post", 1)>>))

Delete(agent) == WithAgent(agent, <<Do("remove", 1)>>)

Edit(p, agent) == Validated(TextLength(p) > 0, WithAgent(agent, <<Do("update", 1)>>))

-----------------------------------------------------------------------------
\* Without a token nothing is asked of Reddit.
Connect(agent, paired) == WithAgent(agent, IF paired THEN <<Do("profile", 0)>> ELSE <<>>)

\* fetchOwnProfile needs the user agent, and by then the code has been exchanged.
Authenticate(grant, agent) ==
  <<Do("exchange", 0)>> \o
  IF grant = "client" THEN <<>> ELSE WithAgent(agent, <<Do("profile", 0)>>)

RefreshToken(refreshable) ==
  IF refreshable THEN <<Do("refresh", 0)>> ELSE <<Throw("token_revoked")>>

GetAnalytics(agent) == WithAgent(agent, <<Do("metrics", 1)>>)
=============================================================================
