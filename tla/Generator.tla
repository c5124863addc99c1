------------------------------ MODULE Generator ------------------------------
(***************************************************************************)
(* How a post is put together from a brief and a content provider's text:  *)
(* CampaignGenerator.generateVariant (packages/ai/src/campaignGenerator.ts)*)
(* with the text helpers of text.ts and the profiles of                    *)
(* platformProfiles.ts.                                                    *)
(*                                                                         *)
(* A text is the sequence of the pieces it was appended from.  All that    *)
(* counts of a piece is its length, the length of what separates it from   *)
(* the one before, whether it still is what it was, and, for prose, where  *)
(* its spaces are: after each `word` characters.                           *)
(***************************************************************************)
EXTENDS Connector

Piece(kind, sep, len) == [kind |-> kind, sep |-> sep, len |-> len, whole |-> TRUE]

Size(t) == FoldLeft(LAMBDA n, p : n + p.sep + p.len, 0, t) - IF t = <<>> THEN 0 ELSE t[1].sep

\* Where piece i begins
Start(t, i) == Size(SubSeq(t, 1, i)) - t[i].len

Least(a, b) == IF a < b THEN a ELSE b
Most(a, b)  == IF a > b THEN a ELSE b

-----------------------------------------------------------------------------
(***************************************************************************)
(* text.ts                                                                 *)
(***************************************************************************)
\* The first n characters, without the space they may end in
Cut(t, n, word) ==
  LET k    == Cardinality({i \in DOMAIN t : Start(t, i) < n})
      left == n - Start(t, k)
      end  == IF t[k].kind = "prose" /\ left % (word + 1) = 0 THEN left - 1 ELSE left
  IN  SubSeq(t, 1, k - 1) \o
      <<IF left >= t[k].len THEN t[k] ELSE [t[k] EXCEPT !.len = end, !.whole = FALSE]>>

\* The last space among the first n characters, counted from 0; 0 if there is none
LastSpace(t, n, word) ==
  LET Kept(i) == Least(n - Start(t, i), t[i].len) - 1
      between == {Start(t, i) - 1 : i \in {j \in DOMAIN t : j > 1 /\ t[j].sep = 1 /\ Start(t, j) <= n}}
      within  == {Start(t, i) + Kept(i) - ((Kept(i) - word) % (word + 1)) :
                    i \in {j \in DOMAIN t : t[j].kind = "prose" /\ Start(t, j) < n /\ Kept(j) >= word}}
  IN  CHOOSE s \in between \cup within \cup {0} : \A r \in between \cup within : r <= s

\* backOffToWordBoundary gives up to a fifth of the budget to end with a word.
Truncate(t, max, word) ==
  LET space == LastSpace(t, max, word)
  IN  IF max <= 0 THEN <<>>
      ELSE IF Size(t) <= max THEN t
      ELSE Cut(t, IF 10 * space > 8 * max THEN space ELSE max, word)

\* appendWithinLimit: the base gives way to what is appended.
AppendWithin(t, suffix, max, word, sep) ==
  IF suffix = <<>> THEN t
  ELSE IF Size(suffix) + sep >= max THEN Truncate(suffix, max, word)
  ELSE Truncate(t, max - Size(suffix) - sep, word) \o [suffix EXCEPT ![1].sep = sep]

\* sanitizeHashtags and sanitizeMentions, for candidates that differ
Sanitized(lengths, max, longest) ==
  [i \in 1 .. Least(Len(lengths), max) |-> Least(lengths[i], longest)]

Inline(tags) == [i \in DOMAIN tags |-> Piece("tag", 1, tags[i] + 1)]

\* The lengths that are left when some are struck out, which are 0
Listed(lengths) == FoldLeft(LAMBDA listed, n : IF n = 0 THEN listed ELSE Append(listed, n), <<>>, lengths)

\* Tags whose token was cut are no longer in the text.  (Tags differ in length here.)
Missing(t, tags) ==
  Listed([i \in DOMAIN tags |->
            IF \E j \in DOMAIN t : t[j].kind = "tag" /\ t[j].whole /\ t[j].len = tags[i] + 1
            THEN 0 ELSE tags[i]])

\* assembledExtrasFootprint
Footprint(t, tags, mentions) ==
  LET extras == Missing(t, tags) \o mentions
  IN  IF extras = <<>> THEN 0 ELSE ListLength(extras) + IF t = <<>> THEN 0 ELSE 2

-----------------------------------------------------------------------------
(***************************************************************************)
(* The voice profiles, with the limits of the capability descriptors.      *)
(*   title     characters a title may have, 0: no title                    *)
(*   titled    the provider writes the title                               *)
(*   titleOnly the title is the whole post                                 *)
(*   tags      how many tags; tagSep separates them from the text, 0: they *)
(*             stay out of it                                              *)
(*   linked    the link is a field of its own, too                         *)
(***************************************************************************)
Plain == [limit |-> 0, title |-> 0, titled |-> FALSE, titleOnly |-> FALSE, tags |-> 0,
          longestTag |-> 40, tagSep |-> 0, mentions |-> TRUE, emoji |-> TRUE, cta |-> TRUE,
          linked |-> TRUE]

Profile ==
  [discord  |-> [Plain EXCEPT !.limit = 2000, !.title = 256],
   bluesky  |-> [Plain EXCEPT !.limit = 300, !.tags = 2, !.tagSep = 1],
   mastodon |-> [Plain EXCEPT !.limit = 500, !.tags = 2, !.tagSep = 2],
   reddit   |-> [Plain EXCEPT !.limit = 40000, !.title = 300, !.titled = TRUE, !.emoji = FALSE,
                              !.cta = FALSE, !.linked = FALSE],
   twitch   |-> [Plain EXCEPT !.limit = 140, !.title = 140, !.titled = TRUE, !.titleOnly = TRUE,
                              !.tags = 10, !.longestTag = 25, !.mentions = FALSE, !.emoji = FALSE,
                              !.cta = FALSE, !.linked = FALSE]]

-----------------------------------------------------------------------------
(***************************************************************************)
(* The parts of generateVariant; Composition puts them together.  Of the   *)
(* brief count here the mentions, the link and `inline`, the tags that are *)
(* going to be in the text.                                                *)
(***************************************************************************)
Prose(len) == IF len = 0 THEN <<>> ELSE <<Piece("prose", 0, len)>>

Mentions(brief, f) == IF f.mentions THEN brief.mentions ELSE <<>>

InlineTags(tags, f) == IF f.tagSep > 0 THEN Inline(tags) ELSE <<>>

MentionReserve(brief, f) ==
  IF Mentions(brief, f) = <<>> THEN 0 ELSE 2 + ListLength(Mentions(brief, f))

HashtagReserve(brief, f) ==
  IF brief.inline = <<>> THEN 0 ELSE f.tagSep + Size(brief.inline)

\* Defect: the tags get no room of their own.
NoRoomForTags(brief, f) == Most(10, f.limit - MentionReserve(brief, f))

\* Room for the body, the link and the call to action
PreHashtagLimit(brief, f) == Most(10, f.limit - MentionReserve(brief, f) - HashtagReserve(brief, f))

\* Room once the tags are in, before the mentions
PostHashtagLimit(brief, f) == Most(PreHashtagLimit(brief, f), f.limit - MentionReserve(brief, f))

-----------------------------------------------------------------------------
Fits(draft, f) == Size(draft.text) + Footprint(draft.text, draft.tags, draft.mentions) <= f.limit

\* n entries fewer: mentions from the end first, then tags.  (The loop would go on with the
\* text, which without them fits: no limit it was cut to is above the platform's.)
Without(draft, n) ==
  LET m == Most(0, Len(draft.mentions) - n)
      g == Most(0, Len(draft.tags) - Most(0, n - Len(draft.mentions)))
  IN  [draft EXCEPT !.mentions = SubSeq(@, 1, m), !.tags = SubSeq(@, 1, g)]

\* Defect: the last check is left out.
Unsettled(draft, f) == draft

\* The last check: what the connector would add again must fit as well, or entries go, one
\* at a time and 64 at most.
Settled(draft, f) ==
  LET Enough(n) == n = 64 \/ Fits(Without(draft, n), f)
  IN  Without(draft, CHOOSE n \in 0 .. 64 : Enough(n) /\ \A m \in 0 .. n - 1 : ~Enough(m))

\* A cut link is one as long as there is something behind its https://.
IsUrl(p) == p.kind = "link" /\ p.len > 8

(***************************************************************************)
(* The payload.  Tags that are in the text are no part of what a connector *)
(* adds to it.                                                             *)
(***************************************************************************)
Urls(t) == Listed([i \in DOMAIN t |-> IF IsUrl(t[i]) THEN t[i].len ELSE 0])

Payload(draft, brief, f) ==
  LET urls == Urls(draft.text)
  IN  [Blank EXCEPT !.text = Size(draft.text) - Total(urls),
                    !.urls = urls,
                    !.title = draft.title,
                    !.link = IF f.linked THEN brief.link ELSE 0,
                    !.tags = IF f.titleOnly THEN draft.tags ELSE Missing(draft.text, draft.tags),
                    !.mentions = draft.mentions]
=============================================================================
