---------------------------- MODULE CompositionMC ----------------------------
(***************************************************************************)
(* Instances of Composition for TLC: one target per platform with briefs   *)
(* around each limit, two targets that want short links at once, media     *)
(* around the limits of one platform or of two that share them, the three  *)
(* kinds of provider, and previews, which are asked for without media.     *)
(***************************************************************************)
EXTENDS Composition

J == INSTANCE ConnectorJobs

\* What is submitted becomes a job, and every connector makes its plans of a job the way the
\* worker relies on.
ASSUME ConnectorsKeepContract ==
  \A work \in J!ManyJobs \cup {J!AllJobs[j] : j \in DOMAIN J!AllJobs} : J!KeepsContract(work)

\* The errors of their clients are those of errors.ts.
ASSUME ConnectorsThrowKnownErrors ==
  \A j \in DOMAIN J!AllJobs : J!ErrorsAreKnown(J!AllJobs[j])

Platforms == DOMAIN Profile

\* A word is four characters, or never ends.
Briefs ==
  [description : {41, 243, 277, 483, 2103}, word : {4, 3000}, link : {0, 12, 30}, cta : {0, 13, 402},
   tags : {<<>>, <<6, 9>>, <<38, 60>>}, words : {<<>>},
   mentions : {<<>>, <<12>>, [i \in 1 .. 10 |-> 20 + i], [i \in 1 .. 20 |-> 13 + i]},
   title : {0}, keyword : {0}]

One(platform) == <<platform, None>>

Plainly(platform, brief, rewriter) ==
  [platforms |-> One(platform), brief |-> brief, provider |-> "template", rewriter |-> rewriter, sources |-> <<>>,
   options |-> {"subreddit"}, preview |-> FALSE]

Short == [description |-> 41, word |-> 4, link |-> 30, cta |-> 13, tags |-> <<6, 9>>, words |-> <<5, 7>>,
          mentions |-> <<12>>, title |-> 402, keyword |-> 8]

Long == [Short EXCEPT !.description = 2103]

\* A title that leads the text, and none
Modest ==
  {[Short EXCEPT !.title = 21], [Short EXCEPT !.title = 0, !.link = 0, !.mentions = <<>>],
   [Short EXCEPT !.title = 0, !.keyword = 0, !.link = 12, !.mentions = [i \in 1 .. 10 |-> 20 + i]]}

\* A text that fills what there is, with a link that Mastodon counts as longer than it is
Tight == [Long EXCEPT !.word = 3000, !.link = 12, !.title = 0, !.mentions = <<>>]

\* More mentions than are ever left out
Many == [Short EXCEPT !.mentions = [i \in 1 .. 80 |-> 30]]

Photo == [type |-> "image", mime |-> "image/jpeg", bytes |-> 300000, size |-> 300000, seconds |-> 0,
          edge |-> 3000, pixels |-> "plain", broken |-> FALSE]

Photos ==
  {Photo, [Photo EXCEPT !.bytes = 12000000, !.size = 12000000], [Photo EXCEPT !.bytes = 0],
   [Photo EXCEPT !.mime = "image/heic"], [Photo EXCEPT !.mime = "image/tiff"],
   [Photo EXCEPT !.mime = "image/png", !.pixels = "alpha"],
   [Photo EXCEPT !.type = "gif", !.mime = "image/gif", !.pixels = "animated"],
   [Photo EXCEPT !.broken = TRUE]}

Clip == [type |-> "video", mime |-> "video/mp4", bytes |-> 8000000, size |-> 8000000, seconds |-> 20,
         edge |-> 1280, pixels |-> "plain", broken |-> FALSE]

\* Unlimited, in another format, of more pixels, of a large size, too long for one platform
\* or another or for any rate, of a size and a shape nobody knows
Clips ==
  {Clip, [Clip EXCEPT !.mime = "video/quicktime"], [Clip EXCEPT !.mime = "video/avi"],
   [Clip EXCEPT !.edge = 3840], [Clip EXCEPT !.edge = 1920, !.seconds = 60],
   [Clip EXCEPT !.bytes = 120000000, !.size = 120000000, !.seconds = 100],
   [Clip EXCEPT !.seconds = 181], [Clip EXCEPT !.seconds = 700],
   [Clip EXCEPT !.bytes = 0, !.size = 120000000, !.edge = 0, !.seconds = 0]}

Song == [Clip EXCEPT !.type = "audio", !.mime = "audio/mpeg", !.edge = 0]

Illustrations ==
  {<<source>> : source \in Photos \cup Clips \cup {Song}}
  \cup {<<Photo, Photo, Photo, Photo, Photo>>, <<Photo, Clip>>, <<Clip, Clip>>}

\* Nothing, a line, what fills Bluesky's limit, more than most limits; no tags, some, and
\* more than are cut off at 200 characters
ModelLengths == {0, 41, 299, 2103}

ModelTags == {<<>>, <<6, 9>>, [i \in 1 .. 12 |-> 19 + i]}

AllCampaigns ==
  {Plainly(p, b, "none") : p \in Platforms, b \in Briefs \cup {Many}}
  \cup [platforms : {One(p) : p \in Platforms}, brief : Modest, provider : Providers,
        rewriter : {"none"}, sources : {<<>>}, options : {{"subreddit"}}, preview : BOOLEAN]
  \cup {Plainly(p, [b EXCEPT !.link = 30], "tags") : p \in Platforms, b \in {c \in Briefs : c.link = 12}}
  \cup [platforms : {One(p) : p \in Platforms}, brief : {Short, Long}, provider : {"template"}, rewriter : {"none", "tags"},
        sources : {<<>>}, options : {{}, {"subreddit"}, {"ping"}}, preview : {FALSE}]
  \cup [platforms : {<<p, q>> : p, q \in Platforms}, brief : {Long}, provider : {"template"},
        rewriter : {"none"}, sources : {<<>>}, options : {{}, {"subreddit"}}, preview : {TRUE}]
  \cup [platforms : {One(p) : p \in Platforms}, brief : Modest \cup {Tight}, provider : {"template"},
        rewriter : {"none", "tags"}, sources : {<<>>, <<Photo>>}, options : {{"subreddit"}, {"quote"}}, preview : {TRUE}]
  \cup [platforms : {<<p, q>> : p, q \in Platforms}, brief : {Short}, provider : {"template"}, rewriter : {"shortens"},
        sources : {<<>>}, options : {{"subreddit"}}, preview : {FALSE}]
  \cup [platforms : {One(p) : p \in Platforms}, brief : {Long}, provider : {"template"}, rewriter : {"none"},
        sources : Illustrations, options : {{"subreddit"}}, preview : {FALSE}]
  \cup [platforms : {<<p, q>> : p, q \in {"discord", "mastodon", "bluesky"}}, brief : {Long},
        provider : {"template"}, rewriter : {"none"}, sources : {<<clip>> : clip \in Clips \cup {Photo}},
        options : {{"subreddit"}}, preview : {FALSE}]
=============================================================================
