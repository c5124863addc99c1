----------------------------- MODULE Composition -----------------------------
(***************************************************************************)
(* CampaignService.composeAndSubmit (packages/pipeline/src/                *)
(* campaign-service.ts): make the renditions of each source for all the    *)
(* platforms together, and then for every target of a campaign at once,    *)
(* rewrite its link, generate its post (CampaignGenerator.generateVariant, *)
(* one action for each call of the content provider and what follows it up *)
(* to the next one), attach its media, have its connector validate it and  *)
(* enqueue it.  The link rewriter and the short URLs it makes are those of *)
(* packages/analytics/src/url-tracking.  A campaign may be previewed first *)
(* (composePreview in packages/api/src/preview.ts): its posts are          *)
(* generated and validated, and forgotten.                                 *)
(***************************************************************************)
EXTENDS Provider

CONSTANTS
  Targets,     \* 1 .. n: the accounts a campaign goes to, in its order
  Campaigns,   \* records [platforms: that of each target or None, brief, provider, rewriter,
               \*          sources, options, preview: whether the author looks at it first]
  Lengths,     \* of the texts a model may answer with
  TagLists,    \* the lengths of the tags a model may answer with
  ImageSizes,  \* what a rendition of an image may weigh
  Slugs,       \* the slugs a random draw may give
  MaxRetries,  \* maxCollisionRetries
  MaxVisits,   \* bound on how often the link in a post is followed
  None

D == INSTANCE Discord
M == INSTANCE Mastodon
B == INSTANCE Bluesky
R == INSTANCE Reddit
T == INSTANCE Twitch
P == INSTANCE Media

\* NULL is neither a slug nor a row.  A length is a number; a target has a platform with a
\* profile, or is left out.  A brief has a description (a request without is refused,
\* packages/api/src/server.ts:229), and a word and a tag at least a character.  A source
\* weighs what it is said to weigh, if anything is said.  A slug is drawn once at least.
ASSUME CompositionAssumption ==
  /\ MaxVisits \in Nat /\ MaxRetries \in Nat \ {0}
  /\ None \notin Slugs \cup [target : Targets, clicks : 0 .. MaxVisits]
  /\ Lengths \subseteq Nat /\ TagLists \subseteq Seq(Nat \ {0}) /\ ImageSizes \subseteq Nat
  /\ \A c \in Campaigns :
       /\ c.platforms \in [Targets -> DOMAIN Profile \cup {None}]
       /\ c.provider \in Providers
       /\ c.brief.description \in Nat \ {0} /\ c.brief.title \in Nat /\ c.brief.keyword \in Nat
       /\ c.brief.cta \in Nat /\ c.brief.link \in Nat /\ c.brief.word \in Nat \ {0}
       /\ c.brief.tags \in Seq(Nat \ {0}) /\ c.brief.words \in Seq(Nat \ {0})
       /\ c.brief.mentions \in Seq(Nat)
       /\ c.sources \in Seq(P!Sources)
       /\ \A i \in DOMAIN c.sources : c.sources[i].bytes \in {0, c.sources[i].size}

VARIABLES
  campaign,   \* the campaign that is composed
  stage,      \* of each target
  rendered,   \* of each source that was executed, the renditions a platform may attach
  candidate,  \* the slug a target has found free
  draws,      \* how many slugs it has drawn
  link,       \* [len, slug] the link its post is generated with; slug None: not a short one
  short,      \* short_urls: of a slug the row [target, clicks], or None
  visits,     \* how often the link in a target's post was followed
  verdict,    \* "pending" while a target is only previewed, then what the preview said
  draft,      \* [text, inline, tags, mentions, title; full: the call to action filled what was left]
  post        \* the payload of each target

vars == <<campaign, stage, rendered, candidate, draws, link, short, visits, verdict, draft, post>>

-----------------------------------------------------------------------------
(***************************************************************************)
(* The five connectors behind the one contract                             *)
(***************************************************************************)
Accepts(platform, p) ==
  \/ platform = "discord" /\ D!Accepts(p)
  \/ platform = "mastodon" /\ M!Accepts(p)
  \/ platform = "bluesky" /\ B!Accepts(p)
  \/ platform = "reddit" /\ R!Accepts(p)
  \/ platform = "twitch" /\ T!Accepts(p)

\* A platform sees what a file weighs, whatever the payload says of it.
Weighed(p) ==
  [p EXCEPT !.media = [i \in DOMAIN @ |-> [@[i] EXCEPT !.bytes = p.media[i].size]]]

TakesText(platform, p) ==
  \/ platform = "discord" /\ D!Takes(p)
  \/ platform = "mastodon" /\ M!Takes(p)
  \/ platform = "bluesky" /\ B!Takes(p)
  \/ platform = "reddit" /\ R!Takes(p)
  \/ platform = "twitch" /\ T!Takes(p)

Takes(platform, p) == TakesText(platform, p) /\ Accepts(platform, Weighed(p))

MaxMediaCount ==
  [discord |-> D!MaxMedia, mastodon |-> M!MaxMedia, bluesky |-> B!MaxMedia, reddit |-> 0, twitch |-> 0]

\* buildUtmUrl appends four parameters; a short URL is a host and seven characters.
UtmTagged(len) == len + 80
ShortUrl == 25

Original(len) == [len |-> len, slug |-> None]

-----------------------------------------------------------------------------
TypeOK ==
  /\ campaign \in Campaigns
  /\ stage \in [Targets -> {"absent", "media", "link", "drawn", "tags", "body", "emoji", "title", "cta",
                              "validate", "enqueued", "rejected", "error", "previewed"}]
  /\ Len(rendered) <= Len(campaign.sources)
  /\ candidate \in [Targets -> Slugs \cup {None}]
  /\ draws \in [Targets -> 0 .. MaxRetries]
  /\ \A t \in Targets : link[t].len \in Nat /\ link[t].slug \in Slugs \cup {None}
  /\ short \in [Slugs -> [target : Targets, clicks : 0 .. MaxVisits] \cup {None}]
  /\ visits \in [Targets -> 0 .. MaxVisits]
  /\ verdict \in [Targets -> {"none", "pending", "ok", "rejected", "error"}]
  /\ DOMAIN draft = Targets /\ DOMAIN post = Targets

\* Where a target starts once all the sources are executed
Started(c) ==
  [t \in Targets |->
     IF c.platforms[t] = None THEN "absent"
     ELSE IF c.rewriter = "none" \/ c.brief.link = 0 THEN "tags" ELSE "link"]

Everywhere(c, first) == [t \in Targets |-> IF c.platforms[t] = None THEN "absent" ELSE first]

Begun(c) == IF c.sources = <<>> THEN Started(c) ELSE Everywhere(c, "media")

NoDraft == [text |-> <<>>, inline |-> <<>>, tags |-> <<>>, mentions |-> <<>>, title |-> 0, full |-> FALSE]

Init ==
  /\ campaign \in Campaigns
  /\ stage = IF campaign.preview THEN Everywhere(campaign, "tags") ELSE Begun(campaign)
  /\ verdict = [t \in Targets |-> IF campaign.preview /\ stage[t] = "tags" THEN "pending" ELSE "none"]
  /\ rendered = <<>>
  /\ candidate = [t \in Targets |-> None]
  /\ draws = [t \in Targets |-> 0]
  /\ link = [t \in Targets |-> Original(campaign.brief.link)]
  /\ short = [s \in Slugs |-> None]
  /\ visits = [t \in Targets |-> 0]
  /\ draft = [t \in Targets |-> NoDraft]
  /\ post = [t \in Targets |-> Blank]

-----------------------------------------------------------------------------
(***************************************************************************)
(* Media: RenditionPlanner.plan and execute for one source after the other *)
(***************************************************************************)
PlatformIds == SelectSeq(campaign.platforms, LAMBDA platform : platform # None)

\* The renditions that a platform may attach: what else is made goes nowhere.
Picked(source) == {P!First(source, PlatformIds, PlatformIds[i]) : i \in DOMAIN PlatformIds} \ {"original"}

\* Each of them may fail, all of them do when the source cannot be read or, of a video, when
\* there is no ffmpeg.
Renditions(source) ==
  UNION {[made -> P!Results(source, PlatformIds, ImageSizes)] : made \in SUBSET Picked(source)}

Execute ==
  /\ Len(rendered) < Len(campaign.sources)
  /\ \E t \in Targets : stage[t] = "media"
  /\ \E renditions \in Renditions(campaign.sources[Len(rendered) + 1]) :
       rendered' = Append(rendered, renditions)
  /\ stage' = IF Len(rendered') = Len(campaign.sources) THEN Started(campaign) ELSE stage
  /\ UNCHANGED <<campaign, candidate, draws, link, short, visits, verdict, draft, post>>

\* The directory for the renditions cannot be made: the whole call throws.
ExecuteFails ==
  /\ \E t \in Targets : stage[t] = "media"
  /\ stage' = [t \in Targets |-> IF stage[t] = "media" THEN "error" ELSE stage[t]]
  /\ UNCHANGED <<campaign, rendered, candidate, draws, link, short, visits, verdict, draft, post>>

-----------------------------------------------------------------------------
(***************************************************************************)
(* SqliteShortUrlsStore (packages/db/src/repositories/short-urls.ts)       *)
(***************************************************************************)
FindBySlug(slug) == short[slug]

Create(slug, t) == short' = [short EXCEPT ![slug] = [target |-> t, clicks |-> 0]]

RecordClick(slug) == short' = [short EXCEPT ![slug].clicks = @ + 1]

-----------------------------------------------------------------------------
(***************************************************************************)
(* LinkRewriter.rewriteLink                                                *)
(***************************************************************************)
Rewritten(t, l) == stage' = [stage EXCEPT ![t] = "tags"] /\ link' = [link EXCEPT ![t] = l]

\* Without a short URL service the link is tagged, and that is all.
Tag(t) ==
  /\ stage[t] = "link" /\ campaign.rewriter = "tags"
  /\ Rewritten(t, Original(UtmTagged(campaign.brief.link)))
  /\ UNCHANGED <<campaign, rendered, candidate, draws, short, visits, verdict, draft, post>>

\* pickFreeSlug draws until a slug is free; when none was, processTarget catches its error
\* and goes on with the link as it was.
PickFreeSlug(t, s) ==
  /\ stage[t] = "link" /\ campaign.rewriter = "shortens"
  /\ draws' = [draws EXCEPT ![t] = @ + 1]
  /\ IF FindBySlug(s) = None
     THEN /\ candidate' = [candidate EXCEPT ![t] = s]
          /\ stage' = [stage EXCEPT ![t] = "drawn"]
     ELSE /\ UNCHANGED candidate
          /\ stage' = [stage EXCEPT ![t] = IF draws'[t] = MaxRetries THEN "tags" ELSE @]
  /\ UNCHANGED <<campaign, rendered, link, short, visits, verdict, draft, post>>

\* Defect: the row is replaced when there is one.
Replace(t) ==
  /\ stage[t] = "drawn"
  /\ Create(candidate[t], t)
  /\ Rewritten(t, [len |-> ShortUrl, slug |-> candidate[t]])
  /\ UNCHANGED <<campaign, rendered, candidate, draws, visits, verdict, draft, post>>

\* The insert is an await later, and fails when the slug has gone to another target.
CreateShortUrl(t) ==
  /\ stage[t] = "drawn"
  /\ IF FindBySlug(candidate[t]) = None
     THEN /\ Create(candidate[t], t)
          /\ Rewritten(t, [len |-> ShortUrl, slug |-> candidate[t]])
     ELSE /\ UNCHANGED short
          /\ Rewritten(t, Original(campaign.brief.link))
  /\ UNCHANGED <<campaign, rendered, candidate, draws, visits, verdict, draft, post>>

-----------------------------------------------------------------------------
(***************************************************************************)
(* CampaignService.processTarget                                           *)
(***************************************************************************)
\* The brief with the rewritten link and, once there are any, the tags for the text
Brief(t) ==
  [inline |-> draft[t].inline, link |-> link[t].len, mentions |-> campaign.brief.mentions,
   word |-> campaign.brief.word]

Platform(t) == campaign.platforms[t]

Voice(t) == Profile[Platform(t)]

Room(t) == PreHashtagLimit(Brief(t), Voice(t))

Drafted(t, to, d) ==
  /\ stage' = [stage EXCEPT ![t] = to]
  /\ draft' = [draft EXCEPT ![t] = d]

Texts(template, max) == Replies(campaign.provider, template, Lengths, max, campaign.brief.word)

\* The tags come first: what they need is kept free.
GenerateTags(t) ==
  LET tags == TemplateTags(campaign.brief, Voice(t).tags)
  IN  /\ stage[t] = "tags"
      /\ \E answer \in IF Voice(t).tags = 0 THEN {<<>>}
                        ELSE TagReplies(campaign.provider, tags, TagLists, Brief(t).word) :
         \E sanitized \in {Sanitized(answer, Voice(t).tags, Voice(t).longestTag)} :
           Drafted(t, IF Voice(t).titleOnly THEN "title" ELSE "body",
                   [draft[t] EXCEPT !.tags = sanitized,
                                    !.inline = InlineTags(sanitized, Voice(t)),
                                    !.mentions = Mentions(Brief(t), Voice(t))])
      /\ UNCHANGED <<campaign, rendered, candidate, draws, link, short, visits, verdict, post>>

GenerateBody(t) ==
  /\ stage[t] = "body"
  /\ \E body \in Texts(TemplateBody(campaign.brief), Room(t)) :
       Drafted(t, "emoji", [draft[t] EXCEPT !.text = body])
  /\ UNCHANGED <<campaign, rendered, candidate, draws, link, short, visits, verdict, post>>

\* The rewriting with emoji, and then the link
GenerateEmoji(t) ==
  /\ stage[t] = "emoji"
  /\ \E text \in IF Voice(t).emoji THEN Texts(TemplateEmoji(draft[t].text), Room(t)) ELSE {draft[t].text} :
       Drafted(t, "title",
               [draft[t] EXCEPT !.text =
                  IF Brief(t).link = 0 THEN text
                  ELSE AppendWithin(text, <<Piece("link", 0, Brief(t).link)>>, Room(t), Brief(t).word, 1)])
  /\ UNCHANGED <<campaign, rendered, candidate, draws, link, short, visits, verdict, post>>

\* A title of the provider's, or the author's own, clamped either way
GenerateTitle(t) ==
  LET max == IF Voice(t).title > 0 THEN Voice(t).title ELSE Voice(t).limit
      own == Truncate(Prose(campaign.brief.title), max, Brief(t).word)
  IN  /\ stage[t] = "title"
      /\ \E title \in IF Voice(t).titled THEN Texts(TemplateTitle(campaign.brief), max) ELSE {own} :
           Drafted(t, "cta", [draft[t] EXCEPT !.title = Size(title)])
      /\ UNCHANGED <<campaign, rendered, candidate, draws, link, short, visits, verdict, post>>

\* What is left decides whether a call to action is asked for, and how long it may be.  A
\* link with no text before it still has its space.
CallsToAction(t) ==
  LET text      == draft[t].text
      remaining == Room(t) - Size(text) - IF text = <<>> THEN 0 ELSE text[1].sep
  IN  IF Voice(t).cta /\ remaining > 6 /\ (campaign.brief.cta > 0 \/ Brief(t).link > 0)
      THEN Texts(TemplateCta(campaign.brief), remaining) ELSE {<<>>}

\* pickRenditionForPlatform: the original, which is always there, where the rendition failed
Rendition(t, i) ==
  LET kind == P!First(campaign.sources[i], PlatformIds, Platform(t))
  IN  IF kind \in DOMAIN rendered[i] THEN rendered[i][kind] ELSE P!OriginalRendition(campaign.sources[i])

\* A source's alternative text is not passed on.
AsMedia(file) ==
  [Attachment EXCEPT !.mime = file.mime, !.bytes = file.bytes, !.size = file.size, !.seconds = file.seconds]

\* As many of the media as the platform takes, and the target's own options
Attach(t, p) ==
  [p EXCEPT !.media = [i \in 1 .. Least(Len(rendered), MaxMediaCount[Platform(t)]) |-> AsMedia(Rendition(t, i))],
            !.options = campaign.options]

\* The call to action, the tags behind everything else, and the last check
Finish(t) ==
  LET max  == PostHashtagLimit(Brief(t), Voice(t))
      word == Brief(t).word
  IN
  /\ stage[t] = "cta"
  /\ \E cta \in CallsToAction(t) :
     \E called \in {AppendWithin(draft[t].text, cta, Room(t), word, 1)} :
     \E tagged \in {AppendWithin(called, draft[t].inline, max, word, Voice(t).tagSep)} :
     \E text \in {Truncate(tagged, max, word)} :
     \E d \in {[draft[t] EXCEPT !.text = text,
                                !.full = cta # <<>> /\ Size(draft[t].text) + Size(cta) = Room(t)]} :
     \E settled \in {IF Voice(t).titleOnly THEN draft[t] ELSE Settled(d, Voice(t))} :
        /\ Drafted(t, "validate", settled)
        /\ post' = [post EXCEPT ![t] = Attach(t, Payload(settled, Brief(t), Voice(t)))]
        /\ UNCHANGED <<campaign, rendered, candidate, draws, link, short, visits, verdict>>

Told(t, answer) ==
  /\ verdict' = [verdict EXCEPT ![t] = answer]
  /\ stage' = [stage EXCEPT ![t] = "previewed"]

\* Nothing is behind a model in the cloud: the target is reported, the others go on.
GenerationFails(t) ==
  /\ campaign.provider = "cloud"
  /\ stage[t] \in {"tags", "body", "emoji", "title", "cta"}
  /\ IF verdict[t] = "pending" THEN Told(t, "error")
     ELSE stage' = [stage EXCEPT ![t] = "error"] /\ UNCHANGED verdict
  /\ UNCHANGED <<campaign, rendered, candidate, draws, link, short, visits, draft, post>>

\* composePreview ends with what the connector says of the post.
Preview(t) ==
  /\ stage[t] = "validate" /\ verdict[t] = "pending"
  /\ Told(t, IF Accepts(Platform(t), post[t]) THEN "ok" ELSE "rejected")
  /\ UNCHANGED <<campaign, rendered, candidate, draws, link, short, visits, draft, post>>

\* The author has seen every preview and submits; all is generated anew.
ComposeAndSubmit ==
  /\ \E t \in Targets : stage[t] = "previewed"
  /\ \A t \in Targets : stage[t] \in {"previewed", "absent"}
  /\ stage' = Begun(campaign)
  /\ draft' = [t \in Targets |-> NoDraft]
  /\ post' = [t \in Targets |-> Blank]
  /\ UNCHANGED <<campaign, rendered, candidate, draws, link, short, visits, verdict>>

\* What the connector accepts is submitted; submitPost asks it again.
Submit(t) ==
  /\ stage[t] = "validate" /\ verdict[t] # "pending"
  /\ stage' = [stage EXCEPT ![t] = IF Accepts(Platform(t), post[t]) THEN "enqueued" ELSE "rejected"]
  /\ UNCHANGED <<campaign, rendered, candidate, draws, link, short, visits, verdict, draft, post>>

\* LocalShortUrlService.resolve: somebody follows the link in a post, and is counted.
Resolve(t) ==
  /\ stage[t] = "enqueued" /\ link[t].slug # None /\ visits[t] < MaxVisits
  /\ FindBySlug(link[t].slug) # None
  /\ RecordClick(link[t].slug)
  /\ visits' = [visits EXCEPT ![t] = @ + 1]
  /\ UNCHANGED <<campaign, stage, rendered, candidate, draws, link, verdict, draft, post>>

Next ==
  \/ ComposeAndSubmit
  \/ Execute
  \/ ExecuteFails
  \/ \E t \in Targets :
       \/ Tag(t)
       \/ \E s \in Slugs : PickFreeSlug(t, s)
       \/ CreateShortUrl(t)
       \/ GenerateTags(t)
       \/ GenerateBody(t)
       \/ GenerateEmoji(t)
       \/ GenerateTitle(t)
       \/ Finish(t)
       \/ GenerationFails(t)
       \/ Preview(t)
       \/ Submit(t)
       \/ Resolve(t)

Spec == Init /\ [][Next]_vars

-----------------------------------------------------------------------------
\* The mentions, and the tags, leave room for more than the ten characters there always are.
Roomy(t) == ~Voice(t).titleOnly /\ Room(t) > 10

\* Mastodon counts each URL as 23 characters, the generator as what it has.
ShortLinkOnMastodon(t) ==
  Platform(t) = "mastodon" /\ \E i \in DOMAIN post[t].urls : post[t].urls[i] < M!CountedUrl

NamesSubreddit(t) == Platform(t) = "reddit" => "subreddit" \in campaign.options

\* A model that says nothing is not taken to have failed: there is no text or no title.
Silent(t) ==
  /\ campaign.provider # "template"
  /\ IF Voice(t).titled THEN post[t].title = 0 ELSE draft[t].text = <<>>

\* Bluesky and Mastodon take images or one video, whatever was made of the sources.
Mixed(t) ==
  \E i, j \in DOMAIN post[t].media :
    i # j /\ Kind(post[t].media[i].mime) # "image"

\* Nothing that fits came of the source: no rendition was made, since none was planned or
\* it failed, and the file is left as it is; an image came out too large, as it is asked
\* for in pixels and quality; a video is as long as it was; or the platform's rules are a
\* placeholder that allows more than the platform.
LeftAsIs(t, i) == Rendition(t, i) = P!OriginalRendition(campaign.sources[i])

Unfit(t, i) ==
  LET source == campaign.sources[i]
      issues == P!Issues(source, Platform(t))
  IN  \/ LeftAsIs(t, i) /\ (issues # {} \/ P!KindOf(source) \notin P!Kinds)
      \/ P!KindOf(source) = "image" /\ Rendition(t, i).bytes > P!Rules(source, Platform(t)).maxBytes
      \/ "duration_too_long" \in issues
      \/ LeftAsIs(t, i) /\ P!MediaSpec(Platform(t)) = P!Placeholder

\* A video's transcode is not weighed.  It is made once, at the rate of one of the platforms
\* that want it, for the limit that a placeholder allows, and there is a least rate.  A
\* source need not say what it weighs.
Unweighed(t, i) ==
  LET source == campaign.sources[i]
      target == P!Target(source, Platform(t))
  IN  \/ source.bytes = 0
      \/ /\ P!KindOf(source) = "video" /\ ~LeftAsIs(t, i)
         /\ \/ Rendition(t, i) # P!Transcoded(source, target)
            \/ target.rate = P!LeastRate
            \/ P!MediaSpec(Platform(t)) = P!Placeholder

\* The last check gives up after 64 entries, of which two may be tags.
Crowded(t) == Len(campaign.brief.mentions) > 62

\* What else a target may ask of its platform, such as to quote a post, may be refused.
AsksForMore(t) == ~(campaign.options \subseteq {"subreddit", "ping"})

\* A preview knows neither the media nor the link that is to be rewritten, and a model does
\* not answer the same twice.
Foreseeable ==
  /\ campaign.provider = "template" /\ campaign.sources = <<>>
  /\ campaign.rewriter = "none" \/ campaign.brief.link = 0

\* What generation promises ("clamped to that platform's CapabilityDescriptor so the result
\* is built to pass that connector's validatePost", campaignGenerator.ts), and what the
\* renditions are for ("to fail with an actionable error here", validation.ts): a post of
\* one kind of media, each file of which could be made to fit, with the subreddit Reddit
\* wants, is never rejected, and what is enqueued is a post and files the platform takes,
\* although connectors append the tags and mentions that are missing in the text long after
\* it was cut to length.  On Mastodon a link of less than 23 characters is counted as 23,
\* which the generator does not know; on Discord the pings that are put in front of the
\* text are counted by nobody; more mentions than the generator is ready to leave out are
\* appended.  A file is too large when nothing knows what it weighs: a transcode at another
\* platform's rate, a placeholder's or the least one, or a source of untold size.  What the
\* template writes is what its preview said ("a live preview reflects the same accept/reject
\* outcome a submit would", preview.ts:74-75), where a preview can know.
GeneratedIsAccepted ==
  \A t \in Targets :
    /\ stage[t] = "rejected" =>
         \/ ~NamesSubreddit(t) \/ ShortLinkOnMastodon(t) \/ Mixed(t) \/ Silent(t) \/ Crowded(t) \/ AsksForMore(t)
         \/ \E i \in DOMAIN post[t].media : Unfit(t, i)
    /\ stage[t] = "enqueued" =>
         \/ Takes(Platform(t), post[t]) \/ ShortLinkOnMastodon(t) \/ Crowded(t) \/ "ping" \in campaign.options
         \/ \E i \in DOMAIN post[t].media : Unweighed(t, i)
    /\ verdict[t] = "ok" /\ Foreseeable => stage[t] # "rejected"
    /\ verdict[t] = "rejected" /\ Foreseeable => stage[t] # "enqueued"

\* What was appended is there to the last character: the body gives way to the link, and
\* the tags take no room from either ("they are guaranteed to survive verbatim in the final
\* text", campaignGenerator.ts:205).  Unless the mentions leave no room at all, the link is
\* as long as the room there is, or the call to action exactly fills what is left: its
\* separator is not accounted for, and the last word, the link, gives way.
LinkAndTagsSurvive ==
  \A t \in Targets :
    stage[t] = "validate" /\ Roomy(t) =>
      /\ \A i \in DOMAIN draft[t].inline :
           \E j \in DOMAIN draft[t].text :
             [draft[t].text[j] EXCEPT !.sep = 1] = draft[t].inline[i]
      /\ \/ Brief(t).link = 0 \/ Brief(t).link + 1 >= Room(t)
         \/ draft[t].full
         \/ \E i \in DOMAIN draft[t].text : draft[t].text[i].kind = "link" /\ draft[t].text[i].whole

\* A short link in a post leads where its own target wants it, and counts who follows it
\* there and nobody else: two targets that found the same slug free do not share it, and a
\* row is never given to another target.
LinksLeadHome ==
  \A t \in Targets :
    link[t].slug # None => short[link[t].slug] = [target |-> t, clicks |-> visits[t]]
=============================================================================
