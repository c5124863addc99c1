------------------------------ MODULE Provider ------------------------------
(***************************************************************************)
(* The content providers of packages/ai: the template generator            *)
(* (mockProvider.ts), which puts a text together from what the brief says, *)
(* a language model, on the device (localProvider.ts) or in the cloud,     *)
(* whose text may be anything, and the chain of the two                    *)
(* (fallbackProvider.ts).                                                  *)
(*                                                                         *)
(* Of a brief count the lengths of its description, its title, its call to *)
(* action and its first search keyword (0: none), those of its tags and of *)
(* the words of its description that would do as tags.  A title is one     *)
(* that the description does not repeat, and no sentence.                  *)
(***************************************************************************)
EXTENDS Generator

-----------------------------------------------------------------------------
(***************************************************************************)
(* MockProvider                                                            *)
(***************************************************************************)
\* b behind a and a space
Spaced(a, b) == IF a = <<>> THEN b ELSE a \o [i \in DOMAIN b |-> IF i = 1 THEN [b[i] EXCEPT !.sep = 1] ELSE b[i]]

\* The author's title leads, as a sentence.
TemplateBody(brief) ==
  Spaced(IF brief.title = 0 THEN <<>> ELSE Prose(brief.title + 1), Prose(brief.description))

\* The first keyword and a colon, whether the platform wants keywords or not
TemplateTitle(brief) ==
  Spaced(IF brief.keyword = 0 THEN <<>> ELSE Prose(brief.keyword + 1),
         Prose(IF brief.title = 0 THEN brief.description ELSE brief.title))

\* "Check it out" where the brief has no call to action
TemplateCta(brief) == Prose(IF brief.cta = 0 THEN 12 ELSE brief.cta)

TemplateEmoji(text) == Spaced(Prose(2), text)

TemplateTags(brief, max) ==
  LET seeds == brief.tags \o brief.words
  IN  SubSeq(seeds, 1, Least(max, Len(seeds)))

-----------------------------------------------------------------------------
(***************************************************************************)
(* Who answers: the template alone, the model on the device with the       *)
(* template behind it, whenever the model cannot be loaded or fails, from  *)
(* one call to the next, or a model in the cloud with nothing behind it.   *)
(* A model is not asked again when it says nothing.                        *)
(***************************************************************************)
Providers == {"template", "local", "cloud"}

Answering(provider, template, model) ==
  CASE provider = "template" -> {template}
    [] provider = "local"    -> {template} \cup model
    [] provider = "cloud"    -> model

\* Whoever answers keeps to the length it is asked for.
Replies(provider, template, lengths, max, word) ==
  {Truncate(text, max, word) : text \in Answering(provider, template, {Prose(n) : n \in lengths})}

\* The tags come as one text, which is cut at 200 characters and split again.
TagReplies(provider, template, lists, word) ==
  {[i \in DOMAIN text |-> text[i].len] :
     text \in {Truncate([i \in DOMAIN tags |-> Piece("tag", 1, tags[i])], 200, word) :
                 tags \in Answering(provider, template, lists)}}
=============================================================================
