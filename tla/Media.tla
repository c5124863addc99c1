-------------------------------- MODULE Media --------------------------------
(***************************************************************************)
(* Which file each platform gets of a source: packages/media, that is the  *)
(* rules of platformSpecs.ts, validateSourceMedia, RenditionPlanner.plan   *)
(* and execute, and selectVideoTarget.                                     *)
(*                                                                         *)
(* A source is [type, mime, bytes, size, seconds, edge, pixels, broken]:   *)
(* what it is said to weigh (0: nothing is said) and what it weighs, its   *)
(* longer edge, whether its pixels are animated, transparent or plain, and *)
(* whether its dimensions are no dimensions.  Of an image all that counts  *)
(* later is its format and its weight, so the dimensions and the quality   *)
(* that sharp is asked for are left out.  Rates are in bytes per second.   *)
(***************************************************************************)
EXTENDS Connector

Sources ==
  [type : {"image", "gif", "video", "audio", "document"}, mime : UNION Range(MimeTypes), bytes : Nat, size : Nat,
   seconds : Nat, edge : Nat, pixels : {"animated", "alpha", "plain"}, broken : BOOLEAN]

WebImages == {"image/png", "image/jpeg", "image/webp", "image/gif"}

\* Captions are left out: no caller passes any.
ImageSpec(maxBytes, kinds) ==
  [supported |-> TRUE, mimes |-> WebImages, maxBytes |-> maxBytes, kinds |-> kinds, maxSeconds |-> 0]

VideoSpec(mimes, maxBytes, maxSeconds, edge, rate) ==
  [supported |-> TRUE, mimes |-> mimes, maxBytes |-> maxBytes, maxSeconds |-> maxSeconds,
   edge |-> edge, rate |-> rate]

Unsupported == [supported |-> FALSE]

AllVideos == {"video/mp4", "video/webm", "video/quicktime"}

AudioRate == 16000
LeastRate == 25000

\* maxSeconds 0: no limit
Twitch == [image |-> Unsupported, video |-> Unsupported]

Bluesky ==
  [image |-> ImageSpec(1000000, <<"square", "landscape", "portrait", "thumbnail">>),
   video |-> VideoSpec({"video/mp4"}, 100000000, 180, 1280, 437500)]

Discord ==
  [image |-> ImageSpec(25 * 1024 * 1024, <<"square", "landscape", "portrait", "story", "thumbnail">>),
   video |-> VideoSpec(AllVideos, 25 * 1024 * 1024, 0, 1920, 750000)]

Placeholder ==
  [image |-> ImageSpec(8 * 1024 * 1024, <<"square", "portrait", "landscape", "story", "thumbnail">>),
   video |-> VideoSpec(AllVideos, 512 * 1024 * 1024, 600, 1920, 1000000)]

\* getPlatformMediaSpec: a platform whose rules nobody wrote down has placeholders.
MediaSpec(platform) ==
  CASE platform = "twitch"  -> Twitch
    [] platform = "bluesky" -> Bluesky
    [] platform = "discord" -> Discord
    [] OTHER                -> Placeholder

-----------------------------------------------------------------------------
(***************************************************************************)
(* validateSourceMedia                                                     *)
(***************************************************************************)
Kinds == {"image", "video"}

\* A GIF is checked as an image; what is neither image nor video is not checked.
KindOf(source) == IF source.type = "gif" THEN "image" ELSE source.type

Rules(source, platform) == MediaSpec(platform)[KindOf(source)]

Issues(source, platform) ==
  LET rules == Rules(source, platform)
  IN  IF KindOf(source) \notin Kinds THEN {}
      ELSE IF ~rules.supported THEN {"media_not_supported"}
      ELSE {issue \in {"unsupported_mime_type", "file_too_large", "duration_too_long", "invalid_dimensions"} :
              \/ issue = "unsupported_mime_type" /\ source.mime \notin rules.mimes
              \/ issue = "file_too_large" /\ source.bytes > rules.maxBytes
              \/ issue = "duration_too_long" /\ rules.maxSeconds > 0 /\ source.seconds > rules.maxSeconds
              \/ issue = "invalid_dimensions" /\ KindOf(source) = "image" /\ source.broken}

\* What no rendition can mend; a file that is too large or too long is planned for.
Fixable(source, platform) ==
  Issues(source, platform) \cap {"media_not_supported", "unsupported_mime_type", "invalid_dimensions"} = {}

-----------------------------------------------------------------------------
(***************************************************************************)
(* selectVideoTarget: no upscaling, and a rate that keeps the whole file   *)
(* within the limit, down to a least one                                   *)
(***************************************************************************)
Rate(source, rules) ==
  IF (rules.rate + AudioRate) * source.seconds <= rules.maxBytes THEN rules.rate
  ELSE LET left == (rules.maxBytes \div source.seconds) - AudioRate
       IN  IF left > LeastRate THEN left ELSE LeastRate

Target(source, platform) ==
  LET rules == Rules(source, platform)
  IN  [edge |-> IF source.edge > rules.edge THEN rules.edge ELSE source.edge,
       rate |-> Rate(source, rules)]

NeedsTranscode(source, platform) ==
  LET rules == Rules(source, platform)
  IN  \/ source.edge > rules.edge
      \/ Rate(source, rules) # rules.rate
      \/ source.bytes > rules.maxBytes
      \/ source.mime # "video/mp4"

-----------------------------------------------------------------------------
(***************************************************************************)
(* RenditionPlanner.plan                                                   *)
(***************************************************************************)
\* What a platform wants of a source, in the order in which it is planned
Wants(source, platform) ==
  IF KindOf(source) \notin Kinds \/ ~Fixable(source, platform) THEN <<>>
  ELSE IF KindOf(source) = "image"
  THEN Rules(source, platform).kinds \o
       (IF source.bytes > Rules(source, platform).maxBytes THEN <<"compressed">> ELSE <<>>)
  ELSE IF NeedsTranscode(source, platform) THEN <<"compressed">> ELSE <<>>

\* One rendition of each kind, for all the platforms that want it
Needs(source, platforms) ==
  FoldLeft(LAMBDA needs, kind : IF kind \in ToSet(needs) THEN needs ELSE Append(needs, kind),
           <<>>,
           FlattenSeq([i \in DOMAIN platforms |-> Wants(source, platforms[i])]))

\* pickRenditionForPlatform attaches the first that was planned for the platform.
First(source, platforms, platform) ==
  LET its == SelectSeq(Needs(source, platforms), LAMBDA kind : kind \in ToSet(Wants(source, platform)))
  IN  IF its = <<>> THEN "original" ELSE its[1]

-----------------------------------------------------------------------------
(***************************************************************************)
(* RenditionPlanner.execute                                                *)
(***************************************************************************)
File(mime, bytes, size, seconds) == [mime |-> mime, bytes |-> bytes, size |-> size, seconds |-> seconds]

OriginalRendition(source) == File(source.mime, source.bytes, source.size, source.seconds)

\* chooseOutputFormat
OutputFormat(source) ==
  CASE source.pixels = "animated" -> "image/gif"
    [] source.pixels = "alpha"    -> "image/webp"
    [] OTHER                      -> "image/jpeg"

\* One transcode for all the platforms that want one: at the rate of the first with the
\* smallest edge.
Tightest(source, platforms) ==
  LET its(i) == Target(source, platforms[i])
      asking == {i \in DOMAIN platforms : "compressed" \in ToSet(Wants(source, platforms[i]))}
  IN  {its(i) : i \in {j \in asking : \A k \in asking : \/ its(j).edge < its(k).edge
                                                        \/ its(j).edge = its(k).edge /\ j <= k}}

\* An image of whatever size sharp makes it
Derived(source, size) == File(OutputFormat(source), size, size, 0)

\* A video of the length it had at the rate that was asked for, whose size nobody asks
Transcoded(source, target) ==
  File("video/mp4", 0, (target.rate + AudioRate) * source.seconds, source.seconds)

\* What may come of a rendition, but for its failure
Results(source, platforms, sizes) ==
  IF KindOf(source) = "image" THEN {Derived(source, size) : size \in sizes}
  ELSE {Transcoded(source, target) : target \in Tightest(source, platforms)}
=============================================================================
