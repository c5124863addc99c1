---------------------------- MODULE ConnectorJobs ----------------------------
(***************************************************************************)
(* Jobs for TLC: for each platform posts of the kinds its connector tells  *)
(* apart, and the operations on a published one.                           *)
(***************************************************************************)
EXTENDS PlanContract

D == INSTANCE Discord
M == INSTANCE Mastodon
B == INSTANCE Bluesky
R == INSTANCE Reddit
T == INSTANCE Twitch

-----------------------------------------------------------------------------
(***************************************************************************)
(* Posts.                                                                  *)
(***************************************************************************)
Long(n) == [Blank EXCEPT !.text = n]

Short == Long(40)

Illustrated == [Short EXCEPT !.media = <<Attachment, Attachment>>]

Unreadable == [Short EXCEPT !.media = <<[Attachment EXCEPT !.readable = FALSE]>>]

Naming(p) == [p EXCEPT !.tags = <<6>>, !.mentions = <<12>>]

With(p, options) == [p EXCEPT !.options = options]

Threaded(p, child) == [p EXCEPT !.thread = <<child>>]

Titled == [Short EXCEPT !.title = 30, !.options = {"subreddit"}]

-----------------------------------------------------------------------------
(***************************************************************************)
(* Jobs: publishing p, and operations on a post that is there.             *)
(***************************************************************************)
ErrorsOf(Failure(_)) ==
  [call \in {"refresh", "upload", "post", "openThread", "resolve", "thread", "validate", "channel",
             "update", "remove", "metrics", "followers"} |-> Failure(call)]

Job(account, operation, plan, media, addressed, taken) ==
  [operation |-> operation, plan |-> plan, refresh |-> account.refresh, errors |-> account.errors,
   life |-> account.life, media |-> media, addressed |-> addressed, taken |-> taken]

Publishing(account, plan, p, Takes(_)) ==
  Job(account, "publish", plan, [n \in DOMAIN Items(p) |-> Len(Items(p)[n].media)], FALSE,
      \A n \in DOMAIN Items(p) : Takes(Items(p)[n]))

About(account, operation, plan, taken) == Job(account, operation, plan, <<>>, TRUE, taken)

\* Setting the channel is about no post.
OfChannel(account, operation, plan, taken) == Job(account, operation, plan, <<>>, FALSE, taken)

DiscordJobs ==
  LET Account(credential) ==
        [refresh |-> D!RefreshToken(credential, TRUE), errors |-> ErrorsOf(D!Failure),
         life |-> IF D!Static(credential) THEN "endless" ELSE "known"]
      Post(p, credential) ==
        Publishing(Account(credential), D!Publish(p, credential), p, D!Takes)
      channel == {"channelId"}
  IN  <<Post(With(Illustrated, channel), "bot"),
        Post(Threaded(With(Short, channel), Short), "bot"),
        Post(With(Short, channel \cup {"createThread"}), "bot"),
        Post(With(Unreadable, channel), "bot"),
        Post(Threaded(Short, With(Short, channel)), "bot"),
        Post(With(Long(D!MaxText), {"ping"}), "webhook"),
        Post(With(Blank, {"embed"}), "webhook"),
        Post(With(Short, {"webhookUrl"}), "oauth"),
        Post(With(Short, {"quote"}), "oauth"),
        About(Account("oauth"), "delete", D!Delete, TRUE),
        About(Account("bot"), "edit", D!Edit(Short), TRUE),
        About(Account("bot"), "collect_analytics", D!GetAnalytics, TRUE)>>

\* The tokens of most instances do not run out.
MastodonJobs ==
  LET Account(life) ==
        [refresh |-> M!RefreshToken(life = "known"), errors |-> ErrorsOf(M!Failure), life |-> life]
      Post(p, life) == Publishing(Account(life), M!Publish(p), p, M!Takes)
  IN  <<Post(Illustrated, "endless"),
        Post(Threaded(Short, Naming(Short)), "known"),
        Post(Naming(Long(M!MaxText)), "endless"),
        Post(Threaded(Short, Long(M!MaxText + 1)), "endless"),
        Post(Unreadable, "known"),
        About(Account("known"), "delete", M!Delete, TRUE),
        About(Account("endless"), "edit", M!Edit(Illustrated), TRUE),
        About(Account("known"), "collect_analytics", M!GetAnalytics, TRUE)>>

BlueskyJobs ==
  LET account == [refresh |-> B!RefreshToken(TRUE), errors |-> ErrorsOf(B!Failure),
                  life |-> "unknown"]
      Post(p) == Publishing(account, B!Publish(p), p, B!Takes)
  IN  <<Post(Naming(Illustrated)),
        Post([With(Short, {"reply"}) EXCEPT !.thread = <<Short, Short>>]),
        Post(Naming(Long(B!MaxText))),
        About(account, "delete", B!Delete, TRUE),
        About(account, "edit", B!Edit, TRUE),
        About(account, "collect_analytics", B!GetAnalytics, TRUE)>>

RedditJobs ==
  LET account == [refresh |-> R!RefreshToken(TRUE), errors |-> ErrorsOf(R!Failure), life |-> "known"]
      Post(p, agent) == Publishing(account, R!Publish(p, agent), p, R!Takes)
  IN  <<Post(Titled, TRUE),
        Post(Titled, FALSE),
        Post([Titled EXCEPT !.link = 30], TRUE),
        About(account, "delete", R!Delete(TRUE), TRUE),
        About(account, "edit", R!Edit(Short, TRUE), TRUE),
        About(account, "collect_analytics", R!GetAnalytics(TRUE), TRUE)>>

TwitchJobs ==
  LET account == [refresh |-> T!RefreshToken(TRUE), errors |-> ErrorsOf(T!Failure), life |-> "known"]
      Channel(operation, p) ==
        OfChannel(account, operation, T!UpdateChannel(p), T!Takes(p))
  IN  <<Channel("publish", Short),
        Channel("publish", Long(T!MaxTitle + 1)),
        Channel("edit", Short),
        About(account, "delete", T!Delete, TRUE),
        OfChannel(account, "collect_analytics", T!GetAnalytics, TRUE)>>

AllJobs == DiscordJobs \o MastodonJobs \o BlueskyJobs \o RedditJobs \o TwitchJobs

-----------------------------------------------------------------------------
(***************************************************************************)
(* Many more posts, of up to three parts, for what holds of every plan.    *)
(***************************************************************************)
Parts ==
  {Blank, Short, Titled, Long(D!MaxText + 1), Illustrated, Unreadable, Naming(Short),
   Naming(Long(M!MaxText)), Naming(Unreadable)}

Children ==
  {<<>>, <<With(Short, {"channelId"}), Short>>} \cup {<<p>> : p \in Parts}
  \cup {<<p, q>> : p, q \in {Illustrated, Unreadable, Naming(Short)}}

ManyPosts ==
  {With([p EXCEPT !.thread = children], options) :
     p \in Parts, children \in Children,
     options \in SUBSET {"channelId", "createThread", "webhookUrl", "embed", "reply"} \cup {{"subreddit"}, {"ping"}}}

Bare == [refresh |-> <<>>, errors |-> <<>>, life |-> "endless"]

ManyJobs ==
  UNION {{Publishing(Bare, D!Publish(p, "bot"), p, D!Takes), Publishing(Bare, D!Publish(p, "oauth"), p, D!Takes),
          Publishing(Bare, M!Publish(p), p, M!Takes), Publishing(Bare, B!Publish(p), p, B!Takes),
          Publishing(Bare, R!Publish(p, TRUE), p, R!Takes),
          About(Bare, "edit", D!Edit(p), TRUE), About(Bare, "edit", M!Edit(p), TRUE),
          About(Bare, "edit", R!Edit(p, TRUE), TRUE),
          OfChannel(Bare, "publish", T!UpdateChannel(p), T!Takes(p))} : p \in ManyPosts}
=============================================================================
