------------------------------ MODULE Connector ------------------------------
(***************************************************************************)
(* What the five platform connectors share: the payload they are handed    *)
(* (packages/core/src/connector/types.ts), the errors they throw           *)
(* (errors.ts) and the form in which this project writes an operation of   *)
(* a connector down, its plan: the sequence of the things it awaits.       *)
(*                                                                         *)
(* A text is its length, in the unit its platform counts.  Whether a post  *)
(* names a channel, carries an embed and so on is an element of `options`. *)
(***************************************************************************)
EXTENDS Naturals, Sequences, SequencesExt, FiniteSets

(***************************************************************************)
(* Payloads.  A tag or a mention is its length without # or @; those that  *)
(* are already in the text are not listed.                                 *)
(***************************************************************************)
Blank == [text    |-> 0,     \* characters outside of URLs
          urls    |-> <<>>,  \* lengths of the URLs in the text
          title   |-> 0,     \* 0: no title
          link    |-> 0,     \* 0: no link
          tags    |-> <<>>, mentions |-> <<>>,
          media   |-> <<>>,  \* attachments
          thread  |-> <<>>,  \* further posts
          options |-> {}]

\* The size of a file, and the bytes it is said to have; 0: nothing is said.
Attachment == [mime |-> "image/jpeg", bytes |-> 1, size |-> 1, seconds |-> 0, alt |-> 0, readable |-> TRUE]

MimeTypes ==
  [image    |-> {"image/png", "image/jpeg", "image/webp", "image/gif", "image/heic", "image/tiff"},
   video    |-> {"video/mp4", "video/webm", "video/quicktime", "video/avi"},
   audio    |-> {"audio/mpeg"},
   document |-> {"application/pdf"}]

\* The part of a MIME type before the slash
Kind(mime) == CHOOSE kind \in DOMAIN MimeTypes : mime \in MimeTypes[kind]

Items(p) == <<p>> \o p.thread

Total(lengths) == FoldLeft(+, 0, lengths)

TextLength(p) == p.text + Total(p.urls)

\* Tags and mentions one after the other, each with its # or @ and a space between two.
ListLength(lengths) == Total(lengths) + 2 * Len(lengths) - 1

(***************************************************************************)
(* assembleText, which the Bluesky and the Mastodon connector share: tags  *)
(* and mentions that are not in the text go below it, after an empty line. *)
(***************************************************************************)
AssembledLength(p, base) ==
  LET extras == p.tags \o p.mentions
  IN  IF extras = <<>> THEN base
      ELSE base + (IF base > 0 THEN 2 ELSE 0) + ListLength(extras)

-----------------------------------------------------------------------------
(***************************************************************************)
(* Plans.  A call on item n is about post n of the thread; its failure is  *)
(* the failure of the operation, unless the code catches it.               *)
(***************************************************************************)
Do(call, item)  == [call |-> call, item |-> item, caught |-> FALSE]
Try(call, item) == [call |-> call, item |-> item, caught |-> TRUE]
Throw(code)     == Do(code, 0)

Each(F(_), n) == FlattenSeq([i \in 1 .. n |-> F(i)])

Codes == {"not_supported", "auth_failed", "token_expired", "token_revoked", "rate_limited",
          "validation_failed", "not_found", "transient", "unknown", "plain"}

\* TokenExpiredError, RateLimitError and TransientError are retryable whatever their
\* caller passes; everything else the connectors throw is not.
Retryable == {"token_expired", "rate_limited", "transient"}

\* What may come of a request: done, done but the answer is lost, not sent, put off,
\* refused for the token or because its object is not there or for its content, or
\* answered with a body that says no.
Answers == {"ok", "lost", "unreachable", "limited", "failing", "unauthorized", "expired",
            "missing", "refused", "rejected"}

\* The errors of a client, given those in which the clients differ.  "none": the request
\* has no such answer.
Errors(unauthorized, expired, missing, refused, rejected) ==
  [ok |-> "ok", lost |-> "transient", unreachable |-> "transient", limited |-> "rate_limited",
   failing |-> "transient", unauthorized |-> unauthorized, expired |-> expired,
   missing |-> missing, refused |-> refused, rejected |-> rejected]

(***************************************************************************)
(* assertSupported: an operation the descriptor declares unsupported       *)
(* throws before it does anything.                                         *)
(***************************************************************************)
Guarded(operations, operation, plan) ==
  IF operation \in operations THEN plan ELSE <<Throw("not_supported")>>

\* publish and edit refuse what validatePost rejects.
Validated(accepted, plan) == IF accepted THEN plan ELSE <<Throw("validation_failed")>>
=============================================================================
