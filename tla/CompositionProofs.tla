--------------------------- MODULE CompositionProofs ---------------------------
(***************************************************************************)
(* Short links lead home, and links and tags survive in a text, for every  *)
(* number of targets, slugs, draws and visits, for texts, tags, links and  *)
(* mentions of every length, and for all campaigns.                        *)
(*                                                                         *)
(* The row of a slug is made where there is none and never given away, so  *)
(* a target that got its row keeps it.  That a target gets one at most     *)
(* needs the order of the stages: whatever is still to be rewritten has no *)
(* short link yet, and a preview, which may be followed by everything      *)
(* else, makes none.                                                       *)
(*                                                                         *)
(* What survives in a text is a matter of lengths, which are folds over    *)
(* its pieces.  Size is shown to be the sum it looks like, by induction    *)
(* over the pieces; then what Truncate and AppendWithin make of a text     *)
(* keeps to its limit and, up to it, leaves the text alone; and then the   *)
(* stages of generation, each of which leaves the text in a form that the  *)
(* next one needs.                                                         *)
(***************************************************************************)
EXTENDS Composition, FiniteSetTheorems, SequenceTheorems, WellFoundedInduction, TLAPS

\* The stages in front of the rewriting and those in which nothing is rewritten
Ahead == {"absent", "media", "link", "drawn", "previewed"}

Shapes ==
  /\ DOMAIN link = Targets /\ DOMAIN short = Slugs /\ DOMAIN stage = Targets
  /\ DOMAIN verdict = Targets
  /\ visits \in [Targets -> 0 .. MaxVisits] /\ candidate \in [Targets -> Slugs \cup {None}]
  /\ \A t \in Targets : link[t].slug \in Slugs \cup {None}

\* The media are made for all targets before anything else is done.
MediaFirst ==
  \A t, u \in Targets : stage[t] = "media" => stage[u] \in {"absent", "media"}

\* A target that has a link to make, or may have, has none.
NotYetShort ==
  \A t \in Targets :
    /\ stage[t] \in Ahead \/ verdict[t] = "pending" => link[t].slug = None
    /\ verdict[t] = "pending" => stage[t] \notin Ahead
    /\ stage[t] = "drawn" => candidate[t] \in Slugs
    /\ link[t].slug = None => visits[t] = 0

IInv == Shapes /\ MediaFirst /\ NotYetShort /\ LinksLeadHome

-------------------------------------------------------------------------------
LEMMA Rows ==
  ASSUME NEW t \in Targets, NEW n \in 0 .. MaxVisits
  PROVE  None # [target |-> t, clicks |-> n]
BY CompositionAssumption

\* Where a target starts, it has nothing behind it.
LEMMA Starts ==
  ASSUME NEW c
  PROVE  /\ DOMAIN Begun(c) = Targets /\ DOMAIN Started(c) = Targets
         /\ \A t \in Targets : /\ Begun(c)[t] \in {"absent", "media", "link", "tags"}
                               /\ Started(c)[t] \in {"absent", "link", "tags"}
         /\ \A t, u \in Targets : Begun(c)[t] = "media" => Begun(c)[u] \in {"absent", "media"}
BY DEF Begun, Started, Everywhere

LEMMA Initially == Init => IInv
<1> SUFFICES ASSUME Init
             PROVE  IInv
  OBVIOUS
<1>1. /\ \A t \in Targets : link[t].slug = None
      /\ DOMAIN link = Targets /\ DOMAIN short = Slugs
      /\ visits = [t \in Targets |-> 0] /\ candidate = [t \in Targets |-> None]
  BY DEF Init, Original
<1>2. visits \in [Targets -> 0 .. MaxVisits]
  BY <1>1, CompositionAssumption
<1>3. CASE campaign.preview
  <2>1. \A t \in Targets : stage[t] \in {"absent", "tags"}
    BY <1>3 DEF Init, Everywhere
  <2>2. \A t \in Targets : verdict[t] = "pending" => stage[t] = "tags"
    BY DEF Init
  <2>3. DOMAIN stage = Targets /\ DOMAIN verdict = Targets
    BY <1>3 DEF Init, Everywhere
  <2> QED
    BY <1>1, <1>2, <2>1, <2>2, <2>3 DEF IInv, Shapes, MediaFirst, NotYetShort, LinksLeadHome, Ahead
<1>4. CASE ~campaign.preview
  <2>1. stage = Begun(campaign)
    BY <1>4 DEF Init
  <2>2. \A t \in Targets : verdict[t] # "pending"
    BY <1>4 DEF Init
  <2>3. DOMAIN verdict = Targets
    BY DEF Init
  <2> QED
    BY <1>1, <1>2, <2>1, <2>2, <2>3, Starts DEF IInv, Shapes, MediaFirst, NotYetShort, LinksLeadHome, Ahead
<1> QED
  BY <1>3, <1>4

-------------------------------------------------------------------------------
\* A step of one target that makes no link and follows none.
Onwards(t, to) ==
  /\ stage' = [stage EXCEPT ![t] = to]
  /\ UNCHANGED <<candidate, link, short, visits>>

LEMMA OnwardsKeeps ==
  ASSUME IInv, NEW t \in Targets, NEW to, Onwards(t, to), to \notin Ahead, stage[t] \notin Ahead,
         UNCHANGED verdict
  PROVE  IInv'
<1>1. /\ stage'[t] = to /\ \A u \in Targets \ {t} : stage'[u] = stage[u]
      /\ DOMAIN stage' = Targets
  BY DEF Onwards, IInv, Shapes
<1>2. Shapes' /\ LinksLeadHome'
  BY <1>1 DEF Onwards, IInv, Shapes, LinksLeadHome
<1>3. \A u \in Targets : stage[u] # "media"
  BY DEF IInv, MediaFirst, Ahead
<1>4. MediaFirst'
  BY <1>1, <1>3 DEF MediaFirst, Ahead
<1>5. NotYetShort'
  BY <1>1 DEF Onwards, IInv, NotYetShort, Ahead
<1> QED
  BY <1>2, <1>4, <1>5 DEF IInv

\* A preview ends where its target has no link yet.
LEMMA ToldKeeps ==
  ASSUME IInv, NEW t \in Targets, NEW answer \in {"ok", "rejected", "error"}, verdict[t] = "pending",
         Told(t, answer), UNCHANGED <<candidate, link, short, visits>>
  PROVE  IInv'
<1>1. /\ stage'[t] = "previewed" /\ \A u \in Targets \ {t} : stage'[u] = stage[u]
      /\ verdict'[t] # "pending" /\ \A u \in Targets \ {t} : verdict'[u] = verdict[u]
      /\ DOMAIN stage' = Targets /\ DOMAIN verdict' = Targets
  BY DEF Told, IInv, Shapes
<1>2. Shapes' /\ LinksLeadHome'
  BY <1>1 DEF IInv, Shapes, LinksLeadHome
<1>3. \A u \in Targets : stage[u] # "media"
  BY DEF IInv, MediaFirst, NotYetShort, Ahead
<1>4. MediaFirst'
  BY <1>1, <1>3 DEF MediaFirst
<1>5. NotYetShort'
  BY <1>1 DEF IInv, NotYetShort, Ahead
<1> QED
  BY <1>2, <1>4, <1>5 DEF IInv

\* Nor has anything its link that begins anew.
LEMMA BeginsKeeps ==
  ASSUME IInv, UNCHANGED <<candidate, link, short, visits, verdict>>,
         \A t \in Targets : stage[t] \in Ahead /\ verdict[t] # "pending",
         DOMAIN stage' = Targets, \A t \in Targets : stage'[t] # "drawn",
         \A t, u \in Targets : stage'[t] = "media" => stage'[u] \in {"absent", "media"}
  PROVE  IInv'
BY DEF IInv, Shapes, MediaFirst, NotYetShort, LinksLeadHome

LEMMA ExecuteFailsKeeps ==
  ASSUME IInv, ExecuteFails
  PROVE  IInv'
<1>1. /\ \A t \in Targets : stage[t] \in {"absent", "media"}
      /\ \A t \in Targets : stage'[t] \in {"absent", "error"}
      /\ \A t \in Targets : stage'[t] = "absent" => stage[t] = "absent"
      /\ DOMAIN stage' = Targets /\ UNCHANGED <<candidate, link, short, visits, verdict>>
  BY DEF ExecuteFails, IInv, MediaFirst
<1> QED
  BY <1>1 DEF IInv, Shapes, MediaFirst, NotYetShort, LinksLeadHome, Ahead

-------------------------------------------------------------------------------
(* The rewriting *)

\* A link that is only tagged, or left as it was
LEMMA NoShortLinkKeeps ==
  ASSUME IInv, NEW t \in Targets, stage[t] \in {"link", "drawn"}, NEW len,
         Rewritten(t, Original(len)), UNCHANGED <<candidate, short, visits, verdict>>
  PROVE  IInv'
<1>1. /\ stage'[t] = "tags" /\ \A u \in Targets \ {t} : stage'[u] = stage[u]
      /\ link'[t].slug = None /\ \A u \in Targets \ {t} : link'[u] = link[u]
      /\ DOMAIN stage' = Targets /\ DOMAIN link' = Targets
  BY DEF Rewritten, Original, IInv, Shapes
<1>2. link[t].slug = None /\ \A u \in Targets : stage[u] # "media"
  BY DEF IInv, NotYetShort, MediaFirst, Ahead
<1> QED
  BY <1>1, <1>2 DEF IInv, Shapes, MediaFirst, NotYetShort, LinksLeadHome, Ahead

LEMMA PickKeeps ==
  ASSUME IInv, NEW t \in Targets, NEW s \in Slugs, PickFreeSlug(t, s)
  PROVE  IInv'
<1>1. /\ stage[t] = "link" /\ UNCHANGED <<link, short, visits, verdict>>
      /\ \A u \in Targets \ {t} : stage'[u] = stage[u] /\ candidate'[u] = candidate[u]
      /\ stage'[t] \in {"link", "drawn", "tags"} /\ (stage'[t] = "drawn" => candidate'[t] = s)
      /\ DOMAIN stage' = Targets /\ candidate' \in [Targets -> Slugs \cup {None}]
  BY DEF PickFreeSlug, IInv, Shapes
<1>2. link[t].slug = None /\ verdict[t] # "pending" /\ \A u \in Targets : stage[u] # "media"
  BY <1>1 DEF IInv, NotYetShort, MediaFirst, Ahead
<1> QED
  BY <1>1, <1>2 DEF IInv, Shapes, MediaFirst, NotYetShort, LinksLeadHome, Ahead

\* The row is made where there is none, and nobody's link leads there.
LEMMA CreateKeeps ==
  ASSUME IInv, NEW t \in Targets, CreateShortUrl(t)
  PROVE  IInv'
<1>1. stage[t] = "drawn" /\ UNCHANGED <<candidate, visits, verdict>>
  BY DEF CreateShortUrl
<1>2. CASE FindBySlug(candidate[t]) = None
  <2> DEFINE s == candidate[t]
  <2>1. /\ s \in Slugs /\ short[s] = None /\ visits[t] = 0 /\ verdict[t] # "pending"
        /\ \A u \in Targets : stage[u] # "media"
    BY <1>1, <1>2 DEF IInv, NotYetShort, MediaFirst, FindBySlug, Ahead
  <2>2. /\ short' = [short EXCEPT ![s] = [target |-> t, clicks |-> 0]]
        /\ stage' = [stage EXCEPT ![t] = "tags"]
        /\ link' = [link EXCEPT ![t] = [len |-> ShortUrl, slug |-> s]]
    BY <1>1, <1>2 DEF CreateShortUrl, Create, Rewritten
  <2> HIDE DEF s
  <2>3. /\ stage'[t] = "tags" /\ \A u \in Targets \ {t} : stage'[u] = stage[u]
        /\ link'[t].slug = s /\ \A u \in Targets \ {t} : link'[u] = link[u]
        /\ short'[s] = [target |-> t, clicks |-> 0] /\ \A r \in Slugs \ {s} : short'[r] = short[r]
        /\ DOMAIN stage' = Targets /\ DOMAIN link' = Targets /\ DOMAIN short' = Slugs
    BY <2>1, <2>2 DEF IInv, Shapes
  <2>4. s # None
    BY <2>1, CompositionAssumption
  <2>5. ASSUME NEW u \in Targets \ {t}, link[u].slug # None
        PROVE  link[u].slug \in Slugs \ {s}
    <3>1. short[link[u].slug] = [target |-> u, clicks |-> visits[u]] /\ visits[u] \in 0 .. MaxVisits
          /\ link[u].slug \in Slugs
      BY <2>5 DEF IInv, LinksLeadHome, Shapes
    <3> QED
      BY <2>1, <3>1, Rows
  <2>6. LinksLeadHome'
    BY <1>1, <2>1, <2>3, <2>5 DEF IInv, LinksLeadHome
  <2>7. Shapes' /\ MediaFirst'
    BY <1>1, <2>1, <2>3 DEF IInv, Shapes, MediaFirst
  <2>8. NotYetShort'
    BY <1>1, <2>1, <2>3, <2>4 DEF IInv, NotYetShort, Ahead
  <2> QED
    BY <2>6, <2>7, <2>8 DEF IInv
<1>3. CASE FindBySlug(candidate[t]) # None
  BY <1>1, <1>3, NoShortLinkKeeps DEF CreateShortUrl
<1> QED
  BY <1>2, <1>3

\* A visit is counted in the row of the target whose link was followed.
LEMMA ResolveKeeps ==
  ASSUME IInv, NEW t \in Targets, Resolve(t)
  PROVE  IInv'
<1> DEFINE s == link[t].slug
<1>1. /\ s # None /\ s \in Slugs /\ visits[t] < MaxVisits /\ visits[t] \in 0 .. MaxVisits
      /\ short[s] = [target |-> t, clicks |-> visits[t]]
      /\ short' = [short EXCEPT ![s].clicks = @ + 1] /\ visits' = [visits EXCEPT ![t] = @ + 1]
      /\ UNCHANGED <<stage, candidate, link, verdict>>
  BY DEF Resolve, RecordClick, IInv, Shapes, LinksLeadHome
<1>2. short'[s] = [short[s] EXCEPT !.clicks = @ + 1] /\ \A r \in Slugs \ {s} : short'[r] = short[r]
  BY <1>1 DEF IInv, Shapes
<1>3. short'[s] = [target |-> t, clicks |-> visits[t] + 1] /\ DOMAIN short' = Slugs
  BY <1>1, <1>2 DEF IInv, Shapes
<1>4. /\ visits'[t] = visits[t] + 1 /\ \A u \in Targets \ {t} : visits'[u] = visits[u]
      /\ visits' \in [Targets -> 0 .. MaxVisits]
  BY <1>1, CompositionAssumption DEF IInv, Shapes
<1>5. ASSUME NEW u \in Targets \ {t}, link[u].slug # None
      PROVE  link[u].slug # s /\ link[u].slug \in Slugs
  <2>1. short[link[u].slug] = [target |-> u, clicks |-> visits[u]] /\ link[u].slug \in Slugs
    BY <1>5 DEF IInv, LinksLeadHome, Shapes
  <2>2. short[link[u].slug].target = u /\ short[s].target = t
    BY <1>1, <2>1
  <2> QED
    BY <2>1, <2>2
<1>6. LinksLeadHome'
  <2> SUFFICES ASSUME NEW u \in Targets, link'[u].slug # None
               PROVE  short'[link'[u].slug] = [target |-> u, clicks |-> visits'[u]]
    BY DEF LinksLeadHome
  <2>1. CASE u = t
    BY <1>1, <1>3, <1>4, <2>1
  <2>2. CASE u # t
    BY <1>1, <1>2, <1>4, <1>5, <2>2 DEF IInv, LinksLeadHome
  <2> QED
    BY <2>1, <2>2
<1>7. Shapes' /\ MediaFirst'
  BY <1>1, <1>3, <1>4 DEF IInv, Shapes, MediaFirst
<1>8. NotYetShort'
  BY <1>1, <1>4 DEF IInv, NotYetShort
<1> QED
  BY <1>6, <1>7, <1>8 DEF IInv

-------------------------------------------------------------------------------
LEMMA IInvNext ==
  ASSUME IInv, [Next]_vars
  PROVE  IInv'
<1>1. CASE ComposeAndSubmit
  <2>1. \A t \in Targets : stage[t] \in Ahead /\ verdict[t] # "pending"
    BY <1>1 DEF ComposeAndSubmit, IInv, NotYetShort, Ahead
  <2>2. stage' = Begun(campaign) /\ UNCHANGED <<candidate, link, short, visits, verdict>>
    BY <1>1 DEF ComposeAndSubmit
  <2> QED
    BY <2>1, <2>2, Starts, BeginsKeeps
<1>2. CASE Execute
  <2>1. /\ \A t \in Targets : stage[t] \in {"absent", "media"}
        /\ stage' = Started(campaign) \/ stage' = stage
        /\ UNCHANGED <<candidate, link, short, visits, verdict>>
    BY <1>2 DEF Execute, IInv, MediaFirst
  <2>2. \A t \in Targets : stage[t] \in Ahead /\ verdict[t] # "pending"
    BY <2>1 DEF IInv, NotYetShort, Ahead
  <2>3. /\ DOMAIN stage' = Targets /\ \A t \in Targets : stage'[t] # "drawn"
        /\ \A t, u \in Targets : stage'[t] = "media" => stage'[u] \in {"absent", "media"}
    BY <2>1, Starts DEF IInv, Shapes
  <2> QED
    BY <2>1, <2>2, <2>3, BeginsKeeps
<1>3. CASE ExecuteFails
  BY <1>3, ExecuteFailsKeeps
<1>4. ASSUME NEW t \in Targets, Tag(t)
      PROVE  IInv'
  BY <1>4, NoShortLinkKeeps DEF Tag
<1>5. ASSUME NEW t \in Targets,
             \/ GenerateTags(t) \/ GenerateBody(t) \/ GenerateEmoji(t) \/ GenerateTitle(t)
             \/ Finish(t)
      PROVE  IInv'
  <2>1. /\ stage[t] \in {"tags", "body", "emoji", "title", "cta"}
        /\ \E to \in {"title", "body", "emoji", "cta", "validate"} : Onwards(t, to)
        /\ UNCHANGED verdict
    BY <1>5 DEF GenerateTags, GenerateBody, GenerateEmoji, GenerateTitle, Finish, Drafted, Onwards
  <2> QED
    BY <2>1, OnwardsKeeps DEF Ahead
<1>6. ASSUME NEW t \in Targets, GenerationFails(t)
      PROVE  IInv'
  <2>1. CASE verdict[t] = "pending"
    BY <1>6, <2>1, ToldKeeps DEF GenerationFails
  <2>2. CASE verdict[t] # "pending"
    <3>1. stage[t] \in {"tags", "body", "emoji", "title", "cta"} /\ Onwards(t, "error") /\ UNCHANGED verdict
      BY <1>6, <2>2 DEF GenerationFails, Onwards
    <3> QED
      BY <3>1, OnwardsKeeps DEF Ahead
  <2> QED
    BY <2>1, <2>2
<1>7. ASSUME NEW t \in Targets, Preview(t)
      PROVE  IInv'
  BY <1>7, ToldKeeps DEF Preview
<1>8. ASSUME NEW t \in Targets, Submit(t)
      PROVE  IInv'
  <2>1. /\ stage[t] = "validate" /\ UNCHANGED verdict
        /\ \E to \in {"enqueued", "rejected"} : Onwards(t, to)
    BY <1>8 DEF Submit, Onwards
  <2> QED
    BY <2>1, OnwardsKeeps DEF Ahead
<1>9. CASE UNCHANGED vars
  BY <1>9 DEF vars, IInv, Shapes, MediaFirst, NotYetShort, LinksLeadHome
<1> QED
  BY <1>1, <1>2, <1>3, <1>4, <1>5, <1>6, <1>7, <1>8, <1>9, PickKeeps, CreateKeeps, ResolveKeeps DEF Next

(***************************************************************************)
(* The short link in a post leads to what its own target links to and      *)
(* counts who follows it there: whatever slugs are drawn, no two targets   *)
(* share one and no row is given away.                                     *)
(***************************************************************************)
THEOREM LinksLeadHomeCorrect == Spec => []LinksLeadHome
<1>1. Init => IInv
  BY Initially
<1>2. IInv /\ [Next]_vars => IInv'
  BY IInvNext
<1>3. IInv => LinksLeadHome
  BY DEF IInv
<1> QED
  BY <1>1, <1>2, <1>3, PTL DEF Spec

\* Induction over the natural numbers for a set: the least number outside of it would have
\* no predecessor.
LEMMA SetInduction ==
  ASSUME NEW S, 0 \in S, \A n \in Nat : n \in S => n + 1 \in S
  PROVE Nat \subseteq S
<1> DEFINE less == {ss \in Nat \X Nat : ss[1] < ss[2]}
           rest == Nat \ S
<1>1. SUFFICES ASSUME rest # {} PROVE FALSE
  OBVIOUS
<1>2. IsWellFoundedOn(less, Nat)
  BY NatLessThanWellFounded DEF OpToRel
<1> HIDE DEF less
<1>3. PICK x \in rest : \A y \in rest : ~(<<y, x>> \in less)
  BY <1>1, <1>2, WFMin
<1>4. x \in Nat /\ x # 0 /\ x - 1 \in Nat
  BY <1>3
<1>5. x - 1 \in S
  <2>1. <<x - 1, x>> \in less
    BY <1>4 DEF less
  <2> QED
    BY <2>1, <1>3, <1>4
<1>6. x - 1 + 1 = x
  BY <1>4
<1> QED
  BY <1>3, <1>4, <1>5, <1>6

\* A set of integers that has a bound has a greatest element.
LEMMA Greatest ==
  ASSUME NEW S, S \subseteq Int, S # {}, NEW n \in Int, \A s \in S : s <= n
  PROVE  \E s \in S : \A r \in S : r <= s
<1> DEFINE less == {ss \in Nat \X Nat : ss[1] < ss[2]}
           gaps == {n - s : s \in S}
<1>1. gaps \subseteq Nat /\ gaps # {}
  <2>1. \A s \in S : s \in Int /\ n - s \in Nat
    OBVIOUS
  <2>2. \E s \in S : n - s \in gaps
    OBVIOUS
  <2> QED
    BY <2>1, <2>2
<1>2. IsWellFoundedOn(less, Nat)
  BY NatLessThanWellFounded DEF OpToRel
<1> HIDE DEF less
<1>3. PICK x \in gaps : \A y \in gaps : ~(<<y, x>> \in less)
  <2> HIDE DEF gaps
  <2> QED
    BY <1>1, <1>2, WFMin
<1>4. PICK s \in S : x = n - s
  BY DEF gaps
<1>5. ASSUME NEW r \in S PROVE r <= s
  <2>1. ~(<<n - r, x>> \in less)
    BY <1>3
  <2>2. ~(n - r < x)
    BY <2>1, <1>1, <1>3 DEF less
  <2> QED
    BY <2>2, <1>4
<1> QED
  BY <1>5

\* A fold over 1 .. n, last element first, as the community modules define one
FoldsWith(g, base, step, n) ==
  /\ g[{}] = base
  /\ \A s \in SUBSET (1 .. n) : s # {} => Max(s) \in s /\ g[s] = step[<<g[s \ {Max(s)}], Max(s)>>]

LEMMA FoldExists ==
  ASSUME NEW A, NEW base \in A, NEW n \in Nat, NEW step \in [A \X (1 .. n) -> A]
  PROVE  \E g \in [SUBSET (1 .. n) -> A] : FoldsWith(g, base, step, n)
<1> DEFINE Folds(g, m) ==
             /\ g \in [SUBSET (1 .. m) -> A] /\ g[{}] = base
             /\ \A s \in SUBSET (1 .. m) : s # {} => g[s] = step[<<g[s \ {Max(s)}], Max(s)>>]
           Good == {m \in Nat : m <= n => \E g : Folds(g, m)}
<1>p. \A m : m \in Good <=> m \in Nat /\ (m <= n => \E g : Folds(g, m))
  <2> HIDE DEF Folds
  <2> QED
    OBVIOUS
<1>0. \A s \in SUBSET (1 .. n) : s # {} => Max(s) \in s /\ \A i \in s : i <= Max(s)
  <2> SUFFICES ASSUME NEW s \in SUBSET (1 .. n), s # {}
               PROVE  Max(s) \in s /\ \A i \in s : i <= Max(s)
    OBVIOUS
  <2>1. s \subseteq Int /\ \A i \in s : i <= n
    OBVIOUS
  <2>2. PICK i \in s : \A j \in s : j <= i
    <3>1. n \in Int
      OBVIOUS
    <3> QED
      BY <2>1, <3>1, Greatest
  <2>3. \A j \in s : i >= j
    BY <2>1, <2>2
  <2>4. Max(s) \in s /\ \A j \in s : Max(s) >= j
    BY <2>3 DEF Max
  <2> QED
    BY <2>1, <2>4
<1>1. 0 \in Good
  <2> DEFINE g == [s \in SUBSET (1 .. 0) |-> base]
  <2>1. 1 .. 0 = {}
    OBVIOUS
  <2>2. g \in [SUBSET (1 .. 0) -> A] /\ g[{}] = base
    OBVIOUS
  <2>3. Folds(g, 0)
    <3> HIDE DEF g
    <3> QED
      BY <2>1, <2>2
  <2> HIDE DEF Folds, Good, g
  <2> QED
    BY <2>3, <1>p
<1>2. ASSUME NEW m \in Nat, m \in Good PROVE m + 1 \in Good
  <2> SUFFICES ASSUME m + 1 <= n PROVE \E g : Folds(g, m + 1)
    <3> HIDE DEF Folds, Good
    <3> QED
      BY <1>p
  <2>1. PICK g : Folds(g, m)
    <3> HIDE DEF Folds, Good
    <3> QED
      BY <1>p, <1>2
  <2> DEFINE h == [s \in SUBSET (1 .. m + 1) |->
                     IF m + 1 \in s THEN step[<<g[s \ {m + 1}], m + 1>>] ELSE g[s]]
  <2>2. \A s \in SUBSET (1 .. m + 1) : s \ {m + 1} \in SUBSET (1 .. m)
    OBVIOUS
  <2>3. \A s \in SUBSET (1 .. m + 1) : m + 1 \notin s => s \in SUBSET (1 .. m)
    OBVIOUS
  <2>4. h \in [SUBSET (1 .. m + 1) -> A] /\ h[{}] = base
    <3>1. m + 1 \in 1 .. n
      OBVIOUS
    <3>2. ASSUME NEW s \in SUBSET (1 .. m + 1) PROVE h[s] \in A
      <4>1. CASE m + 1 \in s
        <5>1. g[s \ {m + 1}] \in A
          BY <2>1, <2>2
        <5>2. <<g[s \ {m + 1}], m + 1>> \in A \X (1 .. n)
          BY <5>1, <3>1
        <5> QED
          BY <4>1, <5>2
      <4>2. CASE m + 1 \notin s
        BY <2>1, <2>3, <4>2
      <4> QED
        BY <4>1, <4>2
    <3>3. h[{}] = g[{}]
      OBVIOUS
    <3> QED
      BY <2>1, <3>2, <3>3
  <2>5. ASSUME NEW s \in SUBSET (1 .. m + 1), s # {}
        PROVE  h[s] = step[<<h[s \ {Max(s)}], Max(s)>>]
    <3>1. Max(s) \in s /\ \A i \in s : i <= Max(s)
      BY <1>0, <2>5
    <3>2. CASE m + 1 \in s
      <4>1. Max(s) = m + 1
        <5>1. Max(s) \in 1 .. m + 1 /\ m + 1 <= Max(s)
          BY <3>1, <3>2
        <5> QED
          BY <5>1
      <4>2. h[s \ {m + 1}] = g[s \ {m + 1}]
        OBVIOUS
      <4> QED
        BY <3>2, <4>1, <4>2
    <3>3. CASE m + 1 \notin s
      <4>1. s \in SUBSET (1 .. m) /\ h[s] = g[s] /\ h[s \ {Max(s)}] = g[s \ {Max(s)}]
        BY <3>3, <2>3
      <4> QED
        BY <4>1, <2>1, <2>5
    <3> QED
      BY <3>2, <3>3
  <2>6. Folds(h, m + 1)
    <3> HIDE DEF h
    <3> QED
      BY <2>4, <2>5
  <2> HIDE DEF Folds, h
  <2> QED
    BY <2>6
<1>3. n \in Good
  <2> HIDE DEF Good
  <2> QED
    BY <1>1, <1>2, SetInduction
<1>4. PICK g : Folds(g, n)
  <2> HIDE DEF Folds, Good
  <2> QED
    BY <1>p, <1>3
<1> QED
  BY <1>0, <1>4 DEF FoldsWith

\* Texts, of pieces of any length
Pieces == [kind : {"prose", "link", "tag"}, sep : Nat, len : Nat \ {0}, whole : BOOLEAN]

Text == Seq(Pieces)

\* f[i] is what the first i pieces and their separators take.
Adds(t, f) ==
  /\ f[0] = 0 /\ \A i \in 0 .. Len(t) : f[i] \in Nat
  /\ \A i \in 1 .. Len(t) : f[i] = f[i - 1] + t[i].sep + t[i].len

\* The pieces of a text, one by one
LEMMA TextIs ==
  ASSUME NEW t \in Text
  PROVE  /\ Len(t) \in Nat /\ DOMAIN t = 1 .. Len(t)
         /\ \A i \in 1 .. Len(t) : t[i] \in Pieces /\ t[i].sep \in Nat /\ t[i].len \in Nat
<1>1. Len(t) \in Nat /\ DOMAIN t = 1 .. Len(t) /\ \A i \in 1 .. Len(t) : t[i] \in Pieces
  BY DEF Text
<1>2. \A p \in Pieces : p.sep \in Nat /\ p.len \in Nat
  BY DEF Pieces
<1> QED
  BY <1>1, <1>2

\* The fold of the community modules starts with the greatest.
LEMMA MaxOfRange ==
  ASSUME NEW m \in Nat \ {0}
  PROVE  Max(1 .. m) = m
<1>1. m \in 1 .. m /\ \A i \in 1 .. m : m >= i
  OBVIOUS
<1>2. \A k \in 1 .. m : (\A i \in 1 .. m : k >= i) => k = m
  <2> SUFFICES ASSUME NEW k \in 1 .. m, \A i \in 1 .. m : k >= i PROVE k = m
    OBVIOUS
  <2>1. k >= m
    BY <1>1
  <2> QED
    BY <2>1
<1> QED
  BY <1>1, <1>2 DEF Max

\* Size is such a sum, without the separator of the first piece, and there is one only.
LEMMA Added ==
  ASSUME NEW t \in Text
  PROVE  \E f : Adds(t, f) /\ Size(t) = f[Len(t)] - IF t = <<>> THEN 0 ELSE t[1].sep
<1> DEFINE n == Len(t)
           step == [ax \in Nat \X (1 .. n) |-> ax[1] + t[ax[2]].sep + t[ax[2]].len]
           Stepped(g, s) == IF s = {} THEN 0 ELSE g[s \ {Max(s)}] + t[Max(s)].sep + t[Max(s)].len
<1>0. n \in Nat /\ DOMAIN t = 1 .. n /\ \A i \in 1 .. n : t[i].sep \in Nat /\ t[i].len \in Nat
  BY TextIs
<1> HIDE DEF n
<1>1. step \in [Nat \X (1 .. n) -> Nat]
  BY <1>0
<1>2. PICK g \in [SUBSET (1 .. n) -> Nat] :
           /\ g[{}] = 0
           /\ \A s \in SUBSET (1 .. n) : s # {} => Max(s) \in s /\ g[s] = step[<<g[s \ {Max(s)}], Max(s)>>]
  <2> HIDE DEF step
  <2>1. PICK A, none : A = Nat /\ none = 0
    OBVIOUS
  <2>2. none \in A /\ step \in [A \X (1 .. n) -> A]
    BY <1>1, <2>1
  <2>3. \E g \in [SUBSET (1 .. n) -> A] : FoldsWith(g, none, step, n)
    BY <1>0, <2>2, FoldExists
  <2> QED
    BY <2>1, <2>3 DEF FoldsWith
<1>3. ASSUME NEW s \in SUBSET (1 .. n) PROVE g[s] = Stepped(g, s)
  <2>1. CASE s = {}
    BY <2>1, <1>2
  <2>2. CASE s # {}
    <3>1. Max(s) \in 1 .. n /\ g[s \ {Max(s)}] \in Nat
      BY <2>2, <1>2
    <3>2. <<g[s \ {Max(s)}], Max(s)>> \in Nat \X (1 .. n)
      BY <3>1
    <3> QED
      BY <2>2, <3>2, <1>2
  <2> QED
    BY <2>1, <2>2
<1>4. g = [s \in SUBSET (1 .. n) |-> Stepped(g, s)]
  <2> HIDE DEF Stepped
  <2> QED
    BY <1>2, <1>3
<1> DEFINE iter == CHOOSE f : f = [s \in SUBSET (1 .. n) |-> Stepped(f, s)]
<1>5. iter = [s \in SUBSET (1 .. n) |-> Stepped(iter, s)]
  <2> HIDE DEF Stepped
  <2> QED
    BY <1>4
<1>6. Size(t) = iter[1 .. n] - IF t = <<>> THEN 0 ELSE t[1].sep
  BY <1>0 DEF Size, FoldLeft, MapThenFoldSet
<1> HIDE DEF iter
<1> DEFINE f == [i \in 0 .. n |-> iter[1 .. i]]
<1>7. f[0] = 0
  <2>1. 1 .. 0 = {}
    OBVIOUS
  <2> QED
    BY <2>1, <1>0, <1>5
<1>8. ASSUME NEW i \in 1 .. n PROVE f[i] = f[i - 1] + t[i].sep + t[i].len
  <2>1. Max(1 .. i) = i
    BY <1>0, MaxOfRange
  <2>2. (1 .. i) \ {i} = 1 .. i - 1
    OBVIOUS
  <2>3. 1 .. i \in SUBSET (1 .. n) /\ 1 .. i # {}
    <3>1. i \in 1 .. i /\ \A k \in 1 .. i : k \in 1 .. n
      BY <1>0
    <3> QED
      BY <3>1
  <2>4. iter[1 .. i] = iter[1 .. i - 1] + t[i].sep + t[i].len
    BY <1>5, <2>1, <2>2, <2>3
  <2>5. i - 1 \in 0 .. n /\ i \in 0 .. n
    BY <1>0
  <2> QED
    BY <2>4, <2>5
<1>9. \A i \in 0 .. n : f[i] \in Nat
  <2> HIDE DEF f
  <2> DEFINE Good == {m \in Nat : m <= n => f[m] \in Nat}
  <2>1. 0 \in Good
    BY <1>7
  <2>2. ASSUME NEW m \in Nat, m \in Good PROVE m + 1 \in Good
    <3> SUFFICES ASSUME m + 1 <= n PROVE f[m + 1] \in Nat
      OBVIOUS
    <3>1. m + 1 \in 1 .. n /\ (m + 1) - 1 = m /\ f[m] \in Nat
      BY <1>0, <2>2
    <3>2. PICK i \in 1 .. n : i = m + 1
      BY <3>1
    <3>3. f[i] = f[m] + t[i].sep + t[i].len
      BY <3>1, <3>2, <1>8
    <3>4. t[i].sep \in Nat /\ t[i].len \in Nat
      BY <1>0
    <3> QED
      BY <3>1, <3>2, <3>3, <3>4
  <2>3. Nat \subseteq Good
    <3> HIDE DEF Good
    <3> QED
      BY <2>1, <2>2, SetInduction
  <2> QED
    BY <2>3, <1>0
<1>10. Size(t) = f[n] - IF t = <<>> THEN 0 ELSE t[1].sep
  BY <1>0, <1>6
<1>11. Adds(t, f)
  <2> HIDE DEF f
  <2> QED
    BY <1>7, <1>8, <1>9 DEF Adds, n
<1> HIDE DEF f
<1> QED
  BY <1>10, <1>11 DEF n

LEMMA AddsAgree ==
  ASSUME NEW t \in Text, NEW u \in Text, Len(u) <= Len(t), \A i \in 1 .. Len(u) : u[i] = t[i],
         NEW f, NEW g, Adds(t, f), Adds(u, g)
  PROVE  \A i \in 0 .. Len(u) : g[i] = f[i]
<1>0. Len(u) \in Nat /\ Len(t) \in Nat
  BY DEF Text
<1> DEFINE Good == {m \in Nat : m <= Len(u) => g[m] = f[m]}
<1>1. 0 \in Good
  BY DEF Adds
<1>2. ASSUME NEW m \in Nat, m \in Good PROVE m + 1 \in Good
  <2> SUFFICES ASSUME m + 1 <= Len(u) PROVE g[m + 1] = f[m + 1]
    OBVIOUS
  <2>1. m + 1 \in 1 .. Len(u) /\ m + 1 \in 1 .. Len(t) /\ (m + 1) - 1 = m
    BY <1>0
  <2>2. g[m] = f[m]
    BY <1>0, <1>2
  <2>3. /\ g[m + 1] = g[m] + u[m + 1].sep + u[m + 1].len
        /\ f[m + 1] = f[m] + t[m + 1].sep + t[m + 1].len
    BY <2>1 DEF Adds
  <2> QED
    BY <2>1, <2>2, <2>3
<1>3. Nat \subseteq Good
  <2> HIDE DEF Good
  <2> QED
    BY <1>1, <1>2, SetInduction
<1> QED
  BY <1>0, <1>3

LEMMA SizeOfNothing == Size(<<>>) = 0
<1>1. <<>> \in Text
  BY DEF Text
<1>2. PICK f : Adds(<<>>, f) /\ Size(<<>>) = f[Len(<<>>)] - 0
  BY <1>1, Added
<1> QED
  BY <1>2 DEF Adds

\* A prefix of a text, and what it takes
LEMMA SizeOfPrefix ==
  ASSUME NEW t \in Text, NEW f, Adds(t, f), NEW u \in Text, Len(u) \in 1 .. Len(t),
         \A i \in 1 .. Len(u) : u[i] = t[i]
  PROVE  Size(u) = f[Len(u)] - t[1].sep
<1>1. PICK g : Adds(u, g) /\ Size(u) = g[Len(u)] - IF u = <<>> THEN 0 ELSE u[1].sep
  BY Added
<1>2. u # <<>> /\ u[1] = t[1] /\ Len(u) \in 0 .. Len(u) /\ Len(u) <= Len(t)
  BY TextIs
<1>3. g[Len(u)] = f[Len(u)]
  BY <1>1, <1>2, AddsAgree
<1> QED
  BY <1>1, <1>2, <1>3

\* One more piece
LEMMA SizeOfAppended ==
  ASSUME NEW t \in Text, NEW p \in Pieces
  PROVE  Append(t, p) \in Text /\ Size(Append(t, p)) = IF t = <<>> THEN p.len ELSE Size(t) + p.sep + p.len
<1> DEFINE u == Append(t, p)
<1>0. Len(t) \in Nat /\ p.sep \in Nat /\ p.len \in Nat
  BY TextIs DEF Pieces
<1>1. u \in Text /\ Len(u) = Len(t) + 1 /\ u[Len(t) + 1] = p /\ \A i \in 1 .. Len(t) : u[i] = t[i]
  BY DEF Text
<1> HIDE DEF u
<1>2. PICK f : Adds(u, f) /\ Size(u) = f[Len(u)] - IF u = <<>> THEN 0 ELSE u[1].sep
  BY <1>1, Added
<1>3. Len(u) \in 1 .. Len(u) /\ Len(u) - 1 = Len(t) /\ u # <<>>
  BY <1>0, <1>1
<1>4. f[Len(u)] = f[Len(t)] + p.sep + p.len
  BY <1>1, <1>2, <1>3 DEF Adds
<1>5. f[Len(t)] \in Nat /\ f[0] = 0
  BY <1>0, <1>1, <1>2 DEF Adds
<1>6. CASE t = <<>>
  <2>1. Len(t) = 0 /\ u[1] = p
    BY <1>1, <1>6
  <2>2. Size(u) = p.len
    BY <2>1, <1>0, <1>2, <1>3, <1>4, <1>5
  <2> QED
    BY <2>2, <1>1, <1>6 DEF u
<1>7. CASE t # <<>>
  <2>1. Len(t) \in 1 .. Len(u) /\ u[1] = t[1]
    <3>1. Len(t) # 0
      BY <1>7 DEF Text
    <3> QED
      BY <3>1, <1>0, <1>1
  <2>2. Size(t) = f[Len(t)] - u[1].sep
    BY <2>1, <1>1, <1>2, SizeOfPrefix
  <2>3. u[1].sep \in Nat
    BY <1>1, <2>1, TextIs
  <2>4. Size(u) = f[Len(u)] - u[1].sep
    BY <1>2, <1>3
  <2> HIDE DEF u
  <2>5. Size(u) = Size(t) + p.sep + p.len
    BY <2>2, <2>3, <2>4, <1>0, <1>4, <1>5
  <2> QED
    BY <2>5, <1>1, <1>7 DEF u
<1> QED
  BY <1>6, <1>7

\* Induction over texts, appending a piece at a time
LEMMA TextInduction ==
  ASSUME NEW S, <<>> \in S, \A t \in Text : t \in S => \A p \in Pieces : Append(t, p) \in S
  PROVE  Text \subseteq S
<1> DEFINE Good == {m \in Nat : \A t \in Text : Len(t) = m => t \in S}
<1>1. 0 \in Good
  BY DEF Text
<1>2. ASSUME NEW m \in Nat, m \in Good PROVE m + 1 \in Good
  <2> SUFFICES ASSUME NEW t \in Text, Len(t) = m + 1 PROVE t \in S
    OBVIOUS
  <2>1. t \in Seq(Pieces) /\ t # <<>>
    BY DEF Text
  <2> DEFINE u == SubSeq(t, 1, Len(t) - 1)
  <2>2. u \in Text /\ Len(u) = m /\ t[Len(t)] \in Pieces /\ t = Append(u, t[Len(t)])
    BY <2>1 DEF Text
  <2>3. u \in S
    BY <1>2, <2>2
  <2> HIDE DEF u
  <2> QED
    BY <2>2, <2>3
<1>3. Nat \subseteq Good
  <2> HIDE DEF Good
  <2> QED
    BY <1>1, <1>2, SetInduction
<1>4. \A t \in Text : Len(t) \in Nat
  BY TextIs
<1> QED
  BY <1>3, <1>4

LEMMA SizeIsNatural ==
  ASSUME NEW t \in Text
  PROVE  Size(t) \in Nat
<1> DEFINE S == {u \in Text : Size(u) \in Nat}
<1>1. <<>> \in S
  BY SizeOfNothing DEF Text
<1>2. ASSUME NEW u \in Text, u \in S, NEW p \in Pieces PROVE Append(u, p) \in S
  <2>1. p.sep \in Nat /\ p.len \in Nat /\ Size(u) \in Nat
    BY <1>2 DEF Pieces
  <2> QED
    BY <2>1, SizeOfAppended
<1>3. Text \subseteq S
  <2> HIDE DEF S
  <2> QED
    BY <1>1, <1>2, TextInduction
<1> QED
  BY <1>3

\* One text behind another
LEMMA SizeOfJoined ==
  ASSUME NEW s \in Text, NEW t \in Text
  PROVE  /\ s \o t \in Text
         /\ Size(s \o t) = IF s = <<>> THEN Size(t)
                           ELSE IF t = <<>> THEN Size(s) ELSE Size(s) + t[1].sep + Size(t)
<1>0. s \in Seq(Pieces) /\ \A u \in Text : u \in Seq(Pieces)
  BY DEF Text
<1>1. CASE s = <<>>
  <2>1. <<>> \o t = t
    BY <1>0
  <2> QED
    BY <1>1, <2>1
<1>2. CASE s # <<>>
  <2> DEFINE S == {u \in Text :
                     Size(s \o u) = IF u = <<>> THEN Size(s) ELSE Size(s) + u[1].sep + Size(u)}
  <2>1. <<>> \in S
    <3>1. s \o <<>> = s
      BY <1>0
    <3> QED
      BY <3>1 DEF Text
  <2>2. ASSUME NEW u \in Text, u \in S, NEW p \in Pieces PROVE Append(u, p) \in S
    <3>1. s \o Append(u, p) = Append(s \o u, p) /\ s \o u \in Text /\ s \o u # <<>>
      BY <1>0, <1>2 DEF Text
    <3>2. Append(u, p) \in Text /\ Append(u, p) # <<>>
      <4>1. Append(u, p) \in Text
        BY SizeOfAppended
      <4>2. Append(u, p) # <<>>
        BY <1>0
      <4> QED
        BY <4>1, <4>2
    <3>i. Append(u, p) \in S <=>
            Size(s \o Append(u, p)) = Size(s) + Append(u, p)[1].sep + Size(Append(u, p))
      BY <3>2
    <3>j. Size(s \o u) = IF u = <<>> THEN Size(s) ELSE Size(s) + u[1].sep + Size(u)
      BY <2>2
    <3> HIDE DEF S
    <3>3. Size(s \o Append(u, p)) = Size(s \o u) + p.sep + p.len
      BY <3>1, SizeOfAppended
    <3>4. Size(s) \in Nat /\ Size(u) \in Nat /\ p.sep \in Nat /\ p.len \in Nat
      BY SizeIsNatural DEF Pieces
    <3>5. CASE u = <<>>
      <4>1. Append(u, p)[1] = p
        BY <1>0, <3>5
      <4>2. Size(Append(u, p)) = p.len /\ Size(s \o u) = Size(s)
        BY <3>j, <3>5, SizeOfAppended
      <4> QED
        BY <4>1, <4>2, <3>i, <3>3, <3>4
    <3>6. CASE u # <<>>
      <4>1. Append(u, p)[1] = u[1] /\ u[1].sep \in Nat
        <5>1. Len(u) \in Nat /\ Len(u) # 0
          BY <1>0, <3>6
        <5> QED
          BY <1>0, <5>1, TextIs
      <4>2. Size(Append(u, p)) = Size(u) + p.sep + p.len /\ Size(s \o u) = Size(s) + u[1].sep + Size(u)
        BY <3>j, <3>6, SizeOfAppended
      <4> QED
        BY <4>1, <4>2, <3>i, <3>3, <3>4
    <3> QED
      BY <3>5, <3>6
  <2>3. t \in S
    <3> HIDE DEF S
    <3> QED
      BY <2>1, <2>2, TextInduction
  <2>4. s \o t \in Text
    BY <1>0 DEF Text
  <2> QED
    BY <1>2, <2>3, <2>4
<1> QED
  BY <1>1, <1>2

\* Where pieces begin
LEMMA StartsAt ==
  ASSUME NEW t \in Text, NEW k \in 1 .. Len(t)
  PROVE  /\ Start(t, k) \in Nat /\ (k = 1 => Start(t, k) = 0)
         /\ \A p \in Pieces : p.sep = t[k].sep =>
              /\ SubSeq(t, 1, k - 1) \o <<p>> \in Text
              /\ Size(SubSeq(t, 1, k - 1) \o <<p>>) = Start(t, k) + p.len
         /\ k + 1 \in 1 .. Len(t) => Start(t, k) <= Start(t, k + 1)
<1>0. /\ t \in Seq(Pieces) /\ Len(t) \in Nat /\ k \in Nat
      /\ \A i \in 1 .. Len(t) : t[i] \in Pieces /\ t[i].sep \in Nat /\ t[i].len \in Nat
  BY TextIs DEF Text
<1>1. /\ SubSeq(t, 1, k - 1) \in Text /\ SubSeq(t, 1, k) \in Text
      /\ SubSeq(t, 1, k) = Append(SubSeq(t, 1, k - 1), t[k])
      /\ SubSeq(t, 1, k - 1) = <<>> <=> k = 1
  BY <1>0 DEF Text
<1>2. Start(t, k) = IF k = 1 THEN 0 ELSE Size(SubSeq(t, 1, k - 1)) + t[k].sep
  <2>1. Size(SubSeq(t, 1, k)) = IF k = 1 THEN t[k].len ELSE Size(SubSeq(t, 1, k - 1)) + t[k].sep + t[k].len
    BY <1>0, <1>1, SizeOfAppended
  <2>2. Size(SubSeq(t, 1, k - 1)) \in Nat
    BY <1>1, SizeIsNatural
  <2> QED
    BY <1>0, <2>1, <2>2 DEF Start
<1>3. Start(t, k) \in Nat
  BY <1>0, <1>1, <1>2, SizeIsNatural
<1>4. ASSUME NEW p \in Pieces, p.sep = t[k].sep
      PROVE  /\ SubSeq(t, 1, k - 1) \o <<p>> \in Text
             /\ Size(SubSeq(t, 1, k - 1) \o <<p>>) = Start(t, k) + p.len
  <2>1. SubSeq(t, 1, k - 1) \o <<p>> = Append(SubSeq(t, 1, k - 1), p)
    BY <1>1 DEF Text
  <2>2. /\ Append(SubSeq(t, 1, k - 1), p) \in Text
        /\ Size(Append(SubSeq(t, 1, k - 1), p)) =
             IF k = 1 THEN p.len ELSE Size(SubSeq(t, 1, k - 1)) + p.sep + p.len
    BY <1>1, SizeOfAppended
  <2>3. p.len \in Nat /\ p.sep \in Nat /\ Size(SubSeq(t, 1, k - 1)) \in Nat
    BY <1>1, SizeIsNatural DEF Pieces
  <2>4. Size(Append(SubSeq(t, 1, k - 1), p)) = Start(t, k) + p.len
    BY <2>2, <2>3, <1>2, <1>4
  <2> QED
    BY <2>1, <2>2, <2>4
<1>5. ASSUME k + 1 \in 1 .. Len(t) PROVE Start(t, k) <= Start(t, k + 1)
  <2>1. /\ SubSeq(t, 1, k + 1) = Append(SubSeq(t, 1, k), t[k + 1])
        /\ t[k + 1] \in Pieces /\ t[k + 1].sep \in Nat /\ t[k + 1].len \in Nat /\ t[k].len \in Nat
        /\ SubSeq(t, 1, k) # <<>>
    BY <1>0, <1>5
  <2>2. Size(SubSeq(t, 1, k + 1)) = Size(SubSeq(t, 1, k)) + t[k + 1].sep + t[k + 1].len
    BY <2>1, <1>1, SizeOfAppended
  <2>3. Size(SubSeq(t, 1, k)) \in Nat
    BY <1>1, SizeIsNatural
  <2> QED
    BY <2>1, <2>2, <2>3 DEF Start
<1> QED
  BY <1>2, <1>3, <1>4, <1>5

\* A piece begins where the one before it has ended, or later.
LEMMA StartsInOrder ==
  ASSUME NEW t \in Text, NEW k \in 1 .. Len(t), NEW i \in 1 .. k
  PROVE  Start(t, i) <= Start(t, k)
<1>0. Len(t) \in Nat
  BY TextIs
<1> DEFINE Good == {m \in Nat : i + m <= Len(t) => Start(t, i) <= Start(t, i + m)}
<1>1. 0 \in Good
  <2>1. i \in 1 .. Len(t) /\ i + 0 = i
    BY <1>0
  <2> QED
    BY <2>1, StartsAt
<1>2. ASSUME NEW m \in Nat, m \in Good PROVE m + 1 \in Good
  <2> SUFFICES ASSUME i + (m + 1) <= Len(t) PROVE Start(t, i) <= Start(t, i + (m + 1))
    OBVIOUS
  <2>1. i \in 1 .. Len(t) /\ i + m \in 1 .. Len(t) /\ i + (m + 1) \in 1 .. Len(t) /\ (i + m) + 1 = i + (m + 1)
    BY <1>0
  <2>2. Start(t, i) <= Start(t, i + m)
    BY <1>2, <2>1
  <2>3. Start(t, i + m) <= Start(t, i + (m + 1))
    BY <2>1, StartsAt
  <2>4. Start(t, i) \in Nat /\ Start(t, i + m) \in Nat /\ Start(t, i + (m + 1)) \in Nat
    BY <2>1, StartsAt
  <2> QED
    BY <2>2, <2>3, <2>4
<1>3. Nat \subseteq Good
  <2> HIDE DEF Good
  <2> QED
    BY <1>1, <1>2, SetInduction
<1>4. k - i \in Good /\ i + (k - i) = k
  BY <1>0, <1>3
<1> QED
  BY <1>0, <1>4

\* No word ends behind no character.
LEMMA SpaceAfterOne ==
  ASSUME NEW word \in Nat \ {0}
  PROVE  1 % (word + 1) # 0
  OBVIOUS

\* A text that is cut to n characters has no more, and is still there.
LEMMA CutFits ==
  ASSUME NEW t \in Text, t # <<>>, NEW n \in Nat \ {0}, NEW word \in Nat \ {0}
  PROVE  Cut(t, n, word) \in Text /\ Size(Cut(t, n, word)) \in 1 .. n
<1>0. Len(t) \in Nat \ {0} /\ DOMAIN t = 1 .. Len(t) /\ 1 \in 1 .. Len(t)
  BY TextIs DEF Text
<1> DEFINE K == {i \in DOMAIN t : Start(t, i) < n}
           k == Cardinality(K)
           left == n - Start(t, k)
           end == IF t[k].kind = "prose" /\ left % (word + 1) = 0 THEN left - 1 ELSE left
           last == IF left >= t[k].len THEN t[k] ELSE [t[k] EXCEPT !.len = end, !.whole = FALSE]
<1>1. PICK m \in K : \A i \in K : i <= m
  <2>1. K \subseteq Int /\ Len(t) \in Int /\ \A i \in K : i <= Len(t)
    BY <1>0
  <2>2. 1 \in K
    BY <1>0, StartsAt
  <2> HIDE DEF K
  <2> QED
    BY <2>1, <2>2, Greatest
<1>2. m \in 1 .. Len(t) /\ Start(t, m) < n
  BY <1>0, <1>1
<1>3. K = 1 .. m
  <2>1. ASSUME NEW i \in 1 .. m PROVE i \in K
    <3>1. i \in 1 .. Len(t) /\ Start(t, i) <= Start(t, m)
      BY <1>0, <1>2, StartsInOrder
    <3>2. Start(t, i) \in Nat /\ Start(t, m) \in Nat
      BY <3>1, <1>2, StartsAt
    <3> QED
      BY <3>1, <3>2, <1>0, <1>2
  <2>2. ASSUME NEW i \in K PROVE i \in 1 .. m
    BY <1>0, <1>1
  <2> HIDE DEF K
  <2> QED
    BY <2>1, <2>2
<1>4. k = m
  <2>1. Cardinality(1 .. m) = m
    <3>1. 1 \in Int /\ m \in Int /\ m >= 1
      BY <1>0, <1>2
    <3>2. Cardinality(1 .. m) = m - 1 + 1
      BY <3>1, FS_Interval
    <3> QED
      BY <3>1, <3>2
  <2> HIDE DEF K
  <2> QED
    BY <2>1, <1>3
<1> HIDE DEF K, k
<1>5. Start(t, k) \in Nat /\ left \in Nat \ {0} /\ t[k] \in Pieces /\ t[k].len \in Nat
  BY <1>2, <1>4, StartsAt, TextIs
<1>6. end \in Nat \ {0} /\ end <= left
  <2>1. left % (word + 1) = 0 => left # 1
    BY SpaceAfterOne
  <2> HIDE DEF left
  <2> QED
    BY <1>5, <2>1
<1>7. last \in Pieces /\ last.sep = t[k].sep /\ last.len <= left /\ last.len \in Nat \ {0}
  <2> HIDE DEF end, left
  <2> QED
    BY <1>5, <1>6 DEF Pieces
<1>8. Cut(t, n, word) = SubSeq(t, 1, k - 1) \o <<last>>
  BY DEF Cut, k, K
<1> HIDE DEF last
<1>9. /\ SubSeq(t, 1, k - 1) \o <<last>> \in Text
      /\ Size(SubSeq(t, 1, k - 1) \o <<last>>) = Start(t, k) + last.len
  BY <1>2, <1>4, <1>7, StartsAt
<1>10. left = n - Start(t, k)
  OBVIOUS
<1> HIDE DEF left, end
<1>11. PICK a \in Nat, b \in Nat \ {0}, c \in Nat : a = Start(t, k) /\ b = last.len /\ c = left /\ b <= c /\ c = n - a
  BY <1>5, <1>7, <1>10
<1>12. a + b \in 1 .. n
  BY <1>11
<1> QED
  BY <1>8, <1>9, <1>11, <1>12

\* A remainder is a natural number.
LEMMA Remainder ==
  ASSUME NEW a \in Nat, NEW b \in Nat \ {0}
  PROVE  a % b \in Nat
  OBVIOUS

\* The last space is before the end, and at the beginning if there is none.
LEMMA SpaceIsBefore ==
  ASSUME NEW t \in Text, NEW n \in Nat, NEW word \in Nat \ {0}
  PROVE  LastSpace(t, n, word) \in Int /\ LastSpace(t, n, word) <= n
<1> DEFINE Kept(i) == Least(n - Start(t, i), t[i].len) - 1
           between == {Start(t, i) - 1 : i \in {j \in DOMAIN t : j > 1 /\ t[j].sep = 1 /\ Start(t, j) <= n}}
           within == {Start(t, i) + Kept(i) - ((Kept(i) - word) % (word + 1)) :
                        i \in {j \in DOMAIN t : t[j].kind = "prose" /\ Start(t, j) < n /\ Kept(j) >= word}}
<1>0. Len(t) \in Nat /\ DOMAIN t = 1 .. Len(t) /\ \A i \in DOMAIN t : Start(t, i) \in Nat /\ t[i].len \in Nat
  BY TextIs, StartsAt
<1>1. \A s \in between : s \in Int /\ s <= n
  BY <1>0
<1>2. ASSUME NEW s \in within PROVE s \in Int /\ s <= n
  <2>1. PICK i \in DOMAIN t : /\ s = Start(t, i) + Kept(i) - ((Kept(i) - word) % (word + 1))
                              /\ Start(t, i) < n /\ Kept(i) >= word
    OBVIOUS
  <2>2. Kept(i) \in Int /\ Start(t, i) + Kept(i) <= n
    <3>1. PICK a \in Nat, l \in Nat : a = Start(t, i) /\ l = t[i].len
      BY <1>0
    <3>2. Kept(i) = Least(n - a, l) - 1
      BY <3>1
    <3>3. Least(n - a, l) \in Int /\ Least(n - a, l) <= n - a
      BY DEF Least
    <3> HIDE DEF Kept
    <3> QED
      BY <3>1, <3>2, <3>3
  <2> HIDE DEF Kept
  <2>3. (Kept(i) - word) % (word + 1) \in Nat
    BY <2>1, <2>2, Remainder
  <2>4. Start(t, i) \in Nat
    BY <1>0
  <2> QED
    BY <2>1, <2>2, <2>3, <2>4
<1> DEFINE all == between \cup within \cup {0}
<1> HIDE DEF between, within
<1>3. PICK s \in all : \A r \in all : r <= s
  <2>1. all \subseteq Int /\ all # {} /\ \A s \in all : s <= n
    BY <1>1, <1>2
  <2>2. n \in Int
    OBVIOUS
  <2> HIDE DEF all
  <2> QED
    BY <2>1, <2>2, Greatest
<1>4. s \in between \cup within \cup {0} /\ \A r \in between \cup within : r <= s
  BY <1>3
<1> DEFINE last == CHOOSE x \in between \cup within \cup {0} : \A r \in between \cup within : r <= x
<1>5. last \in between \cup within \cup {0}
  BY <1>4
<1>6. LastSpace(t, n, word) = last
  BY DEF LastSpace, between, within
<1> HIDE DEF last
<1> QED
  BY <1>1, <1>2, <1>5, <1>6

\* Truncated to a budget, a text keeps to it.
LEMMA TruncateFits ==
  ASSUME NEW t \in Text, NEW max \in Int, NEW word \in Nat \ {0}
  PROVE  /\ Truncate(t, max, word) \in Text
         /\ max >= 0 => Size(Truncate(t, max, word)) <= max
         /\ max > 0 /\ Size(t) <= max => Truncate(t, max, word) = t
<1> DEFINE space == LastSpace(t, max, word)
<1>1. CASE max <= 0
  <2>1. Truncate(t, max, word) = <<>>
    BY <1>1 DEF Truncate
  <2> QED
    BY <1>1, <2>1, SizeOfNothing DEF Text
<1>2. CASE max > 0 /\ Size(t) <= max
  BY <1>2 DEF Truncate
<1>3. CASE max > 0 /\ ~(Size(t) <= max)
  <2>1. t # <<>>
    BY <1>3, SizeOfNothing
  <2>2. space \in Int /\ space <= max
    BY <1>3, SpaceIsBefore
  <2>3. Truncate(t, max, word) = Cut(t, IF 10 * space > 8 * max THEN space ELSE max, word)
    BY <1>3 DEF Truncate
  <2> HIDE DEF space
  <2>4. CASE 10 * space > 8 * max
    <3>1. space \in Nat \ {0}
      BY <1>3, <2>2, <2>4
    <3>2. Cut(t, space, word) \in Text /\ Size(Cut(t, space, word)) <= space
      BY <2>1, <3>1, CutFits
    <3>3. Size(Cut(t, space, word)) \in Nat
      BY <3>2, SizeIsNatural
    <3> QED
      BY <1>3, <2>2, <2>3, <2>4, <3>2, <3>3
  <2>5. CASE ~(10 * space > 8 * max)
    <3>1. max \in Nat \ {0}
      BY <1>3
    <3> QED
      BY <1>3, <2>1, <2>3, <2>5, <3>1, CutFits
  <2> QED
    BY <2>4, <2>5
<1>4. Size(t) \in Nat
  BY SizeIsNatural
<1> QED
  BY <1>1, <1>2, <1>3, <1>4

\* One piece, and a text whose first piece is separated by something else
LEMMA SizeOfPiece ==
  ASSUME NEW p \in Pieces
  PROVE  <<p>> \in Text /\ <<p>> # <<>> /\ Size(<<p>>) = p.len
<1>1. <<>> \in Text /\ Append(<<>>, p) = <<p>>
  BY DEF Text
<1> QED
  BY <1>1, SizeOfAppended

\* The separator of the first piece is not counted.
LEMMA SeparatorIsNotCounted ==
  ASSUME NEW t \in Text, t # <<>>, NEW sep \in Nat
  PROVE  LET u == [t EXCEPT ![1].sep = sep]
         IN  u \in Text /\ u # <<>> /\ u[1].sep = sep /\ Size(u) = Size(t)
<1> DEFINE u == [t EXCEPT ![1].sep = sep]
           p == t[1]
           q == [t[1] EXCEPT !.sep = sep]
<1>0. t \in Seq(Pieces) /\ Len(t) \in Nat \ {0} /\ p \in Pieces
  BY TextIs DEF Text
<1>1. q \in Pieces /\ q.len = p.len /\ q.sep = sep
  BY <1>0 DEF Pieces
<1>2. Tail(t) \in Text /\ t = <<p>> \o Tail(t)
  BY <1>0 DEF Text
<1>3. u = <<q>> \o Tail(t)
  BY <1>0
<1>4. u[1] = q
  BY <1>0
<1> HIDE DEF u, q, p
<1>5. <<p>> \in Text /\ <<q>> \in Text /\ Size(<<p>>) = Size(<<q>>) /\ <<p>> # <<>> /\ <<q>> # <<>>
  BY <1>0, <1>1, SizeOfPiece
<1>6. u \in Text /\ Size(u) = IF Tail(t) = <<>> THEN Size(<<q>>) ELSE Size(<<q>>) + Tail(t)[1].sep + Size(Tail(t))
  BY <1>2, <1>3, <1>5, SizeOfJoined
<1>7. Size(t) = IF Tail(t) = <<>> THEN Size(<<p>>) ELSE Size(<<p>>) + Tail(t)[1].sep + Size(Tail(t))
  BY <1>2, <1>5, SizeOfJoined
<1>8. u # <<>>
  BY <1>0, <1>3, <1>1, <1>2 DEF Text
<1> QED
  BY <1>1, <1>4, <1>5, <1>6, <1>7, <1>8 DEF u

\* What is appended within a limit is appended whole, unless it fills the limit itself.
LEMMA AppendedWhole ==
  ASSUME NEW t \in Text, NEW suffix \in Text, suffix # <<>>, NEW max \in Int, NEW word \in Nat \ {0},
         NEW sep \in Nat, Size(suffix) + sep < max
  PROVE  LET base == Truncate(t, max - Size(suffix) - sep, word)
             whole == AppendWithin(t, suffix, max, word, sep)
         IN  /\ whole = base \o [suffix EXCEPT ![1].sep = sep]
             /\ base \in Text /\ Size(base) <= max - Size(suffix) - sep
             /\ whole \in Text /\ Size(whole) <= max
<1> DEFINE base == Truncate(t, max - Size(suffix) - sep, word)
           whole == AppendWithin(t, suffix, max, word, sep)
           end == [suffix EXCEPT ![1].sep = sep]
<1>1. Size(suffix) \in Nat
  BY SizeIsNatural
<1>2. whole = base \o end
  BY <1>1 DEF AppendWithin
<1>3. base \in Text /\ Size(base) <= max - Size(suffix) - sep
  BY <1>1, TruncateFits
<1>4. end \in Text /\ end # <<>> /\ end[1].sep = sep /\ Size(end) = Size(suffix)
  BY SeparatorIsNotCounted
<1> HIDE DEF end, base, whole
<1>5. whole \in Text /\ Size(whole) = IF base = <<>> THEN Size(end) ELSE Size(base) + end[1].sep + Size(end)
  BY <1>2, <1>3, <1>4, SizeOfJoined
<1>6. Size(base) \in Nat
  BY <1>3, SizeIsNatural
<1>7. Size(whole) <= max
  BY <1>1, <1>3, <1>4, <1>5, <1>6
<1> QED
  BY <1>2, <1>3, <1>5, <1>7 DEF end, base, whole

\* A text with another separator before it
Parted(t, sep) == [t EXCEPT ![1].sep = sep]

\* What is before the end of a text
EndsIn(t, start, end) == t = start \o end

\* The room before a suffix
Before(suffix, sep, max, room) == room = max - Size(suffix) - sep /\ room > 0

\* The same, with a name for each of the texts
LEMMA AppendedBehind ==
  ASSUME NEW t \in Text, NEW suffix \in Text, suffix # <<>>, NEW max \in Int, NEW word \in Nat \ {0},
         NEW sep \in Nat, NEW room \in Int, Before(suffix, sep, max, room),
         NEW base, base = Truncate(t, room, word),
         NEW whole, whole = AppendWithin(t, suffix, max, word, sep)
  PROVE  /\ EndsIn(whole, base, Parted(suffix, sep))
         /\ base \in Text /\ Size(base) <= room
         /\ Parted(suffix, sep) \in Text
         /\ whole \in Text /\ Size(whole) <= max
<1>1. Size(suffix) \in Nat
  BY SizeIsNatural
<1>2. Size(suffix) + sep < max
  BY <1>1 DEF Before
<1>3. LET before == Truncate(t, max - Size(suffix) - sep, word)
          both == AppendWithin(t, suffix, max, word, sep)
      IN  /\ both = before \o [suffix EXCEPT ![1].sep = sep]
          /\ before \in Text /\ Size(before) <= max - Size(suffix) - sep
          /\ both \in Text /\ Size(both) <= max
  BY <1>2, AppendedWhole
<1>4. [suffix EXCEPT ![1].sep = sep] \in Text
  BY SeparatorIsNotCounted
<1> QED
  BY <1>3, <1>4 DEF Parted, Before, EndsIn

\* Whatever is appended, it is a text.
LEMMA AppendedIsText ==
  ASSUME NEW t \in Text, NEW suffix \in Text, NEW max \in Int, NEW word \in Nat \ {0}, NEW sep \in Nat
  PROVE  AppendWithin(t, suffix, max, word, sep) \in Text
<1>1. Size(suffix) \in Nat
  BY SizeIsNatural
<1>2. CASE suffix = <<>>
  BY <1>2 DEF AppendWithin
<1>3. CASE suffix # <<>> /\ Size(suffix) + sep >= max
  <2>1. AppendWithin(t, suffix, max, word, sep) = Truncate(suffix, max, word)
    BY <1>3 DEF AppendWithin
  <2> QED
    BY <2>1, TruncateFits
<1>4. CASE suffix # <<>> /\ ~(Size(suffix) + sep >= max)
  <2>1. Size(suffix) + sep < max
    BY <1>1, <1>4
  <2> QED
    BY <2>1, <1>4, AppendedWhole
<1> QED
  BY <1>2, <1>3, <1>4

-------------------------------------------------------------------------------
(* The parts of a post *)

\* What mentions take
LEMMA TotalIsNatural ==
  ASSUME NEW lengths \in Seq(Nat)
  PROVE  Total(lengths) \in Nat
<1> DEFINE n == Len(lengths)
           step == [ax \in Nat \X (1 .. n) |-> ax[1] + lengths[ax[2]]]
           Stepped(g, s) == IF s = {} THEN 0 ELSE g[s \ {Max(s)}] + lengths[Max(s)]
<1>0. n \in Nat /\ DOMAIN lengths = 1 .. n /\ \A i \in 1 .. n : lengths[i] \in Nat
  OBVIOUS
<1> HIDE DEF n
<1>1. step \in [Nat \X (1 .. n) -> Nat]
  BY <1>0
<1>2. PICK g \in [SUBSET (1 .. n) -> Nat] :
           /\ g[{}] = 0
           /\ \A s \in SUBSET (1 .. n) : s # {} => Max(s) \in s /\ g[s] = step[<<g[s \ {Max(s)}], Max(s)>>]
  <2> HIDE DEF step
  <2>1. PICK A, none : A = Nat /\ none = 0
    OBVIOUS
  <2>2. none \in A /\ step \in [A \X (1 .. n) -> A]
    BY <1>1, <2>1
  <2>3. \E g \in [SUBSET (1 .. n) -> A] : FoldsWith(g, none, step, n)
    BY <1>0, <2>2, FoldExists
  <2> QED
    BY <2>1, <2>3 DEF FoldsWith
<1>3. ASSUME NEW s \in SUBSET (1 .. n) PROVE g[s] = Stepped(g, s)
  <2>1. CASE s = {}
    BY <2>1, <1>2
  <2>2. CASE s # {}
    <3>1. Max(s) \in 1 .. n /\ g[s \ {Max(s)}] \in Nat
      BY <2>2, <1>2
    <3>2. <<g[s \ {Max(s)}], Max(s)>> \in Nat \X (1 .. n)
      BY <3>1
    <3> QED
      BY <2>2, <3>2, <1>2
  <2> QED
    BY <2>1, <2>2
<1>4. g = [s \in SUBSET (1 .. n) |-> Stepped(g, s)]
  <2> HIDE DEF Stepped
  <2> QED
    BY <1>2, <1>3
<1> DEFINE iter == CHOOSE f : f = [s \in SUBSET (1 .. n) |-> Stepped(f, s)]
<1>5. iter = [s \in SUBSET (1 .. n) |-> Stepped(iter, s)]
  <2> HIDE DEF Stepped
  <2> QED
    BY <1>4
<1>6. Total(lengths) = iter[1 .. n]
  BY <1>0 DEF Total, FoldLeft, MapThenFoldSet
<1> HIDE DEF iter
<1> DEFINE Good == {m \in Nat : m <= n => iter[1 .. m] \in Nat}
<1>7. 0 \in Good
  <2>1. 1 .. 0 = {}
    OBVIOUS
  <2>2. iter[{}] = 0
    BY <1>5
  <2> QED
    BY <2>1, <2>2
<1>8. ASSUME NEW m \in Nat, m \in Good PROVE m + 1 \in Good
  <2> SUFFICES ASSUME m + 1 <= n PROVE iter[1 .. m + 1] \in Nat
    OBVIOUS
  <2>1. Max(1 .. m + 1) = m + 1
    BY MaxOfRange
  <2>2. (1 .. m + 1) \ {m + 1} = 1 .. m
    OBVIOUS
  <2>3. 1 .. m + 1 \in SUBSET (1 .. n) /\ 1 .. m + 1 # {}
    <3>1. m + 1 \in 1 .. m + 1 /\ \A k \in 1 .. m + 1 : k \in 1 .. n
      BY <1>0
    <3> QED
      BY <3>1
  <2>4. iter[1 .. m + 1] = iter[1 .. m] + lengths[m + 1]
    BY <1>5, <2>1, <2>2, <2>3
  <2>5. iter[1 .. m] \in Nat /\ lengths[m + 1] \in Nat
    BY <1>0, <1>8
  <2> QED
    BY <2>4, <2>5
<1>9. n \in Good
  <2> HIDE DEF Good
  <2> QED
    BY <1>0, <1>7, <1>8, SetInduction
<1> QED
  BY <1>0, <1>6, <1>9

\* What the template generator puts together
LEMMA ProseIsText ==
  ASSUME NEW n \in Nat
  PROVE  Prose(n) \in Text
<1>1. n # 0 => Piece("prose", 0, n) \in Pieces
  BY DEF Piece, Pieces
<1>2. n # 0 => Prose(n) \in Text
  BY <1>1, SizeOfPiece DEF Prose
<1>3. n = 0 => Prose(n) = <<>>
  BY DEF Prose
<1>4. <<>> \in Text
  BY DEF Text
<1> QED
  BY <1>2, <1>3, <1>4

LEMMA SpacedIsText ==
  ASSUME NEW s \in Text, NEW t \in Text
  PROVE  Spaced(s, t) \in Text
<1> DEFINE u == [i \in DOMAIN t |-> IF i = 1 THEN [t[i] EXCEPT !.sep = 1] ELSE t[i]]
<1>1. Len(t) \in Nat /\ DOMAIN t = 1 .. Len(t) /\ \A i \in DOMAIN t : t[i] \in Pieces
  BY TextIs
<1>2. \A p \in Pieces : [p EXCEPT !.sep = 1] \in Pieces
  BY DEF Pieces
<1>3. u \in [1 .. Len(t) -> Pieces]
  BY <1>1, <1>2
<1>4. u \in Text
  BY <1>1, <1>3 DEF Text
<1> HIDE DEF u
<1>5. s \o u \in Text
  BY <1>4 DEF Text
<1> QED
  BY <1>5 DEF Spaced, u

\* Whoever answers, it is a text that keeps to its budget.
LEMMA RepliesFit ==
  ASSUME NEW provider \in Providers, NEW template \in Text, NEW lengths \in SUBSET Nat,
         NEW max \in Int, NEW word \in Nat \ {0}, NEW text \in Replies(provider, template, lengths, max, word)
  PROVE  text \in Text /\ (max >= 0 => Size(text) <= max)
<1> DEFINE model == {Prose(n) : n \in lengths}
<1>1. model \subseteq Text
  BY ProseIsText
<1> HIDE DEF model
<1>2. Answering(provider, template, model) \subseteq Text
  BY <1>1 DEF Answering, Providers
<1>3. PICK t \in Answering(provider, template, model) : text = Truncate(t, max, word)
  BY DEF Replies, model
<1> QED
  BY <1>2, <1>3, TruncateFits

\* The tags are lengths again, whoever names them.
LEMMA TagRepliesAre ==
  ASSUME NEW provider \in Providers, NEW template \in Seq(Nat \ {0}), NEW lists \in SUBSET Seq(Nat \ {0}),
         NEW word \in Nat \ {0}, NEW tags \in TagReplies(provider, template, lists, word)
  PROVE  tags \in Seq(Nat \ {0})
<1>1. Answering(provider, template, lists) \subseteq Seq(Nat \ {0})
  BY DEF Answering, Providers
<1>a. PICK cut \in {Truncate([i \in DOMAIN answer |-> Piece("tag", 1, answer[i])], 200, word) :
                        answer \in Answering(provider, template, lists)} :
        tags = [i \in DOMAIN cut |-> cut[i].len]
  BY DEF TagReplies
<1>2. PICK answer \in Answering(provider, template, lists) :
             LET text == Truncate([i \in DOMAIN answer |-> Piece("tag", 1, answer[i])], 200, word)
             IN  tags = [i \in DOMAIN text |-> text[i].len]
  BY <1>a
<1> DEFINE offered == [i \in DOMAIN answer |-> Piece("tag", 1, answer[i])]
           text == Truncate(offered, 200, word)
<1>3. offered \in Text
  <2>1. answer \in Seq(Nat \ {0})
    BY <1>1, <1>2
  <2>2. Len(answer) \in Nat /\ DOMAIN answer = 1 .. Len(answer) /\ \A i \in DOMAIN answer : answer[i] \in Nat \ {0}
    BY <2>1
  <2>3. \A n \in Nat \ {0} : Piece("tag", 1, n) \in Pieces
    BY DEF Piece, Pieces
  <2>4. offered \in [1 .. Len(answer) -> Pieces]
    BY <2>2, <2>3
  <2> QED
    BY <2>2, <2>4 DEF Text
<1> HIDE DEF offered
<1>4. text \in Text
  BY <1>3, TruncateFits
<1>5. tags = [i \in DOMAIN text |-> text[i].len]
  BY <1>2 DEF offered
<1> HIDE DEF text
<1>6. Len(text) \in Nat /\ DOMAIN text = 1 .. Len(text) /\ \A i \in DOMAIN text : text[i].len \in Nat \ {0}
  BY <1>4, TextIs DEF Pieces
<1>7. tags \in [1 .. Len(text) -> Nat \ {0}]
  BY <1>5, <1>6
<1> QED
  BY <1>6, <1>7

\* Tags, as they stand in a text
Tagged == {t \in Text : \A i \in DOMAIN t : t[i].sep = 1}

\* Sanitized tags are put into a text as such.
LEMMA InlineIsTagged ==
  ASSUME NEW lengths \in Seq(Nat), NEW max \in Nat, NEW longest \in Nat, NEW f
  PROVE  InlineTags(Sanitized(lengths, max, longest), f) \in Tagged
<1> DEFINE n == Least(Len(lengths), max)
           tags == Sanitized(lengths, max, longest)
<1>1. n \in Nat /\ n <= Len(lengths)
  BY DEF Least
<1>2. tags = [i \in 1 .. n |-> Least(lengths[i], longest)]
  BY DEF Sanitized
<1>3. \A i \in 1 .. n : Least(lengths[i], longest) \in Nat
  BY <1>1 DEF Least
<1>4. DOMAIN tags = 1 .. n /\ \A i \in 1 .. n : tags[i] \in Nat
  BY <1>2, <1>3
<1> HIDE DEF n, tags
<1>5. \A k \in Nat : Piece("tag", 1, k + 1) \in Pieces /\ Piece("tag", 1, k + 1).sep = 1
  BY DEF Piece, Pieces
<1>6. Inline(tags) \in [1 .. n -> Pieces] /\ \A i \in 1 .. n : Inline(tags)[i].sep = 1
  BY <1>4, <1>5 DEF Inline
<1>7. Inline(tags) \in Tagged
  BY <1>1, <1>6 DEF Tagged, Text
<1>8. <<>> \in Tagged
  BY DEF Tagged, Text
<1> QED
  BY <1>7, <1>8 DEF InlineTags, tags

-------------------------------------------------------------------------------
(* What generation is about: a brief b, a voice f and a draft d *)

IsBrief(b) ==
  b.link \in Nat /\ b.word \in Nat \ {0} /\ b.mentions \in Seq(Nat) /\ b.inline \in Tagged

IsVoice(f) ==
  /\ f.limit \in Nat /\ f.tags \in Nat /\ f.longestTag \in Nat /\ f.tagSep \in Nat /\ f.title \in Nat
  /\ f.titleOnly \in BOOLEAN /\ f.mentions \in BOOLEAN

\* The fields of a draft
Fields == {"text", "inline", "tags", "mentions", "title", "full"}

IsDraft(d) == DOMAIN d = Fields /\ d.text \in Text /\ d.inline \in Tagged

\* The link as it is appended
TheLink(n) == [Piece("link", 0, n) EXCEPT !.sep = 1]

\* A text that ends in the link, which has left room for itself
Linked(text, b, f) ==
  \E x \in Text : text = x \o <<TheLink(b.link)>> /\ Size(x) <= PreHashtagLimit(b, f) - b.link - 1

\* There is more room than the ten characters there always are, and for the link.
IsRoomy(b, f) == ~f.titleOnly /\ PreHashtagLimit(b, f) > 10

HasLink(b, f) == b.link # 0 /\ b.link + 1 < PreHashtagLimit(b, f)

\* A piece, whatever stands before it
AsTag(p) == [p EXCEPT !.sep = 1]

\* A text with all the tags
HasTags(text, inline) == \A i \in DOMAIN inline : \E j \in DOMAIN text : AsTag(text[j]) = inline[i]

\* What stays of a text behind which something is put
BeginsWith(text, start) == \E end \in Text : EndsIn(text, start, end)

\* The link is where it was put, whole.
KeepsLink(text, n) == \E x \in Text, end \in Text : text = (x \o <<TheLink(n)>>) \o end

HasWholeLink(text) == \E i \in DOMAIN text : text[i].kind = "link" /\ text[i].whole

\* What LinkAndTagsSurvive says
Survived(d, b, f) ==
  /\ HasTags(d.text, d.inline)
  /\ \/ b.link = 0 \/ b.link + 1 >= PreHashtagLimit(b, f)
     \/ d.full
     \/ HasWholeLink(d.text)

\* The limits are numbers, and what is kept free for the tags is there behind them.
LEMMA Limits ==
  ASSUME NEW b, IsBrief(b), NEW f, IsVoice(f)
  PROVE  /\ PreHashtagLimit(b, f) \in Nat /\ PreHashtagLimit(b, f) >= 10
         /\ PostHashtagLimit(b, f) \in Nat /\ PostHashtagLimit(b, f) >= PreHashtagLimit(b, f)
         /\ HashtagReserve(b, f) \in Nat
         /\ PreHashtagLimit(b, f) > 10 =>
              PostHashtagLimit(b, f) = PreHashtagLimit(b, f) + HashtagReserve(b, f)
<1>1. MentionReserve(b, f) \in Int
  <2>1. b.mentions \in Seq(Nat) /\ <<>> \in Seq(Nat)
    BY DEF IsBrief
  <2>2. Mentions(b, f) \in Seq(Nat)
    BY <2>1 DEF Mentions
  <2>3. Total(Mentions(b, f)) \in Nat /\ Len(Mentions(b, f)) \in Nat
    BY <2>2, TotalIsNatural
  <2> QED
    BY <2>3 DEF MentionReserve, ListLength
<1>2. HashtagReserve(b, f) \in Nat
  <2>1. Size(b.inline) \in Nat /\ f.tagSep \in Nat
    BY SizeIsNatural DEF IsBrief, IsVoice, Tagged
  <2> QED
    BY <2>1 DEF HashtagReserve
<1>3. f.limit \in Nat
  BY DEF IsVoice
<1> QED
  BY <1>1, <1>2, <1>3 DEF PreHashtagLimit, PostHashtagLimit, Most

\* A link that is not the whole text is appended whole.
LEMMA LinkIsAppended ==
  ASSUME NEW b, IsBrief(b), b.link # 0, NEW f, IsVoice(f), NEW text \in Text
  PROVE  LET linked == AppendWithin(text, <<Piece("link", 0, b.link)>>, PreHashtagLimit(b, f), b.word, 1)
         IN  linked \in Text /\ (HasLink(b, f) => Linked(linked, b, f))
<1>0. b.link \in Nat \ {0} /\ b.word \in Nat \ {0} /\ PreHashtagLimit(b, f) \in Int
  BY Limits DEF IsBrief
<1>1. Piece("link", 0, b.link) \in Pieces /\ Piece("link", 0, b.link).len = b.link
  BY <1>0 DEF Piece, Pieces
<1>2. PICK room \in Int, one \in Nat, word \in Nat \ {0}, end \in Text :
        /\ room = PreHashtagLimit(b, f) /\ one = 1 /\ word = b.word
        /\ end = <<Piece("link", 0, b.link)>> /\ end # <<>> /\ Size(end) = b.link
        /\ Parted(end, one) = <<TheLink(b.link)>>
  <2>1. <<Piece("link", 0, b.link)>> \in Text /\ Size(<<Piece("link", 0, b.link)>>) = b.link
    BY <1>1, SizeOfPiece
  <2>2. /\ <<Piece("link", 0, b.link)>> # <<>>
        /\ Parted(<<Piece("link", 0, b.link)>>, 1) = <<TheLink(b.link)>>
    BY <1>1 DEF TheLink, Parted
  <2>3. 1 \in Nat
    OBVIOUS
  <2> QED
    BY <2>1, <2>2, <2>3, <1>0
<1>3. PICK linked : linked = AppendWithin(text, end, room, word, one)
  OBVIOUS
<1>4. linked = AppendWithin(text, <<Piece("link", 0, b.link)>>, PreHashtagLimit(b, f), b.word, 1)
  BY <1>2, <1>3
<1>5. linked \in Text
  BY <1>3, AppendedIsText
<1>6. ASSUME b.link + 1 < PreHashtagLimit(b, f)
      PROVE  \E x \in Text : linked = x \o <<TheLink(b.link)>> /\ Size(x) <= PreHashtagLimit(b, f) - b.link - 1
  <2>1. PICK rest \in Int : rest = room - Size(end) - one /\ rest > 0
    BY <1>0, <1>2, <1>6
  <2>2. PICK x : x = Truncate(text, rest, word)
    OBVIOUS
  <2>3. Before(end, one, room, rest)
    BY <2>1 DEF Before
  <2>4. EndsIn(linked, x, Parted(end, one)) /\ x \in Text /\ Size(x) <= rest
    BY <1>2, <1>3, <2>2, <2>3, AppendedBehind
  <2>5. linked = x \o <<TheLink(b.link)>>
    BY <1>2, <2>4 DEF EndsIn
  <2> QED
    BY <1>2, <2>1, <2>4, <2>5
<1> QED
  BY <1>4, <1>5, <1>6 DEF HasLink, Linked

\* What is put behind a text leaves its link as it is.
LEMMA LinkStaysThere ==
  ASSUME NEW n \in Nat \ {0}, NEW start \in Text, KeepsLink(start, n), NEW text, BeginsWith(text, start)
  PROVE  HasWholeLink(text)
<1>1. TheLink(n) \in Pieces /\ TheLink(n).kind = "link" /\ TheLink(n).whole
  BY DEF TheLink, Piece, Pieces
<1>2. PICK x \in Seq(Pieces), end \in Seq(Pieces) : start = (x \o <<TheLink(n)>>) \o end
  BY DEF Text, KeepsLink
<1>3. PICK rest \in Seq(Pieces) : text = start \o rest
  BY DEF Text, BeginsWith, EndsIn
<1>4. Len(x) + 1 \in DOMAIN start /\ start[Len(x) + 1] = TheLink(n)
  <2> HIDE DEF TheLink
  <2> QED
    BY <1>1, <1>2
<1>5. start \in Seq(Pieces)
  BY DEF Text
<1>6. Len(x) + 1 \in DOMAIN text /\ text[Len(x) + 1] = TheLink(n)
  <2>1. PICK i \in DOMAIN start : i = Len(x) + 1 /\ start[i] = TheLink(n)
    BY <1>4
  <2>2. i \in DOMAIN text /\ text[i] = start[i]
    BY <1>3, <1>5
  <2> QED
    BY <2>1, <2>2
<1> QED
  BY <1>1, <1>6 DEF HasWholeLink

\* The room that is left for a call to action
Remaining(text, room) == room - Size(text) - IF text = <<>> THEN 0 ELSE text[1].sep

\* A call to action that fits, and one that leaves no room for its separator
CallFits(text, cta, room) == cta = <<>> \/ Size(cta) <= Remaining(text, room)

FillsUp(text, cta, room) == cta # <<>> /\ Size(text) + Size(cta) = room

\* Behind a text with a link, the call to action leaves the link as it is, unless the two
\* fill the room exactly.
LEMMA LinkIsKept ==
  ASSUME NEW b, IsBrief(b), NEW f, IsVoice(f), NEW text \in Text, HasLink(b, f), Linked(text, b, f),
         NEW room \in Int, room = PreHashtagLimit(b, f),
         NEW cta \in Text, CallFits(text, cta, room), ~FillsUp(text, cta, room),
         NEW called, called = AppendWithin(text, cta, room, b.word, 1)
  PROVE  called \in Text /\ Size(called) <= room /\ KeepsLink(called, b.link)
<1> DEFINE n == b.link
<1>0. room \in Nat /\ n \in Nat \ {0} /\ b.word \in Nat \ {0}
  BY Limits DEF IsBrief, HasLink
<1>1. PICK x \in Text : text = x \o <<TheLink(n)>> /\ Size(x) <= room - n - 1
  BY DEF Linked
<1> HIDE DEF n
<1>2. <<TheLink(n)>> \in Text /\ <<TheLink(n)>> # <<>> /\ Size(<<TheLink(n)>>) = n /\ <<TheLink(n)>>[1].sep = 1
  <2>1. TheLink(n) \in Pieces /\ TheLink(n).len = n /\ TheLink(n).sep = 1
    BY <1>0 DEF TheLink, Piece, Pieces
  <2> HIDE DEF TheLink
  <2> QED
    BY <2>1, SizeOfPiece
<1>3. Size(text) = IF x = <<>> THEN n ELSE Size(x) + 1 + n
  <2> DEFINE y == <<TheLink(n)>>
  <2>1. y \in Text /\ y # <<>> /\ Size(y) = n /\ y[1].sep = 1 /\ text = x \o y
    BY <1>1, <1>2
  <2> HIDE DEF y
  <2>2. Size(x \o y) = IF x = <<>> THEN Size(y) ELSE IF y = <<>> THEN Size(x) ELSE Size(x) + y[1].sep + Size(y)
    BY <2>1, SizeOfJoined
  <2> QED
    BY <2>1, <2>2
<1>4. Size(x) \in Nat /\ Size(cta) \in Nat /\ Size(text) \in Nat
  BY SizeIsNatural
<1>5. Size(text) <= room
  BY <1>0, <1>1, <1>3, <1>4
<1>6. text # <<>> /\ text[1].sep \in Nat /\ (x = <<>> => text[1].sep = 1)
  <2>1. text # <<>> /\ Len(text) \in Nat \ {0}
    BY <1>1, <1>2 DEF Text
  <2>2. text[1].sep \in Nat
    BY <2>1, TextIs
  <2>3. x = <<>> => text = <<TheLink(n)>>
    BY <1>1, <1>2 DEF Text
  <2> QED
    BY <2>1, <2>2, <2>3, <1>2
<1>7. CASE cta = <<>>
  <2>1. called = text /\ text = (x \o <<TheLink(n)>>) \o <<>> /\ <<>> \in Text
    BY <1>1, <1>2, <1>7 DEF AppendWithin, Text
  <2> QED
    BY <2>1, <1>5 DEF n, KeepsLink
<1>8. CASE cta # <<>>
  <2>1. Size(cta) <= room - Size(text) - text[1].sep
    BY <1>6, <1>8 DEF Remaining, CallFits
  <2>2. Size(cta) + 1 < room
    BY <2>1, <1>0, <1>3, <1>4, <1>6
  <2>3. Size(text) <= room - Size(cta) - 1
    <3>1. Size(text) + Size(cta) # room
      BY <1>8 DEF FillsUp
    <3>2. Size(cta) <= room - Size(text)
      BY <2>1, <1>0, <1>4, <1>6
    <3> QED
      BY <3>1, <3>2, <1>0, <1>4
  <2>4. PICK rest \in Int, one \in Nat : rest = room - Size(cta) - 1 /\ one = 1
    BY <1>0, <1>4
  <2>5. rest = room - Size(cta) - one /\ rest > 0 /\ Size(text) <= rest /\ room \in Int
    BY <2>2, <2>3, <2>4, <1>0, <1>4
  <2>6. PICK word \in Nat \ {0} : word = b.word
    BY <1>0
  <2>7. PICK base, whole : /\ base = Truncate(text, rest, word)
                           /\ whole = AppendWithin(text, cta, room, word, one)
    OBVIOUS
  <2>a. Before(cta, one, room, rest)
    BY <2>5 DEF Before
  <2>b. /\ EndsIn(whole, base, Parted(cta, one)) /\ Parted(cta, one) \in Text
        /\ whole \in Text /\ Size(whole) <= room
    BY <1>8, <2>5, <2>7, <2>a, AppendedBehind
  <2>8. base = text
    BY <2>5, <2>7, TruncateFits
  <2>9. called = whole
    BY <2>4, <2>6, <2>7
  <2>c. called = text \o Parted(cta, one)
    BY <2>b, <2>8, <2>9 DEF EndsIn
  <2> QED
    BY <2>b, <2>c, <2>9, <1>1 DEF n, KeepsLink
<1> QED
  BY <1>7, <1>8

\* Tags that are put behind a text stand in it.
LEMMA TagsStayThere ==
  ASSUME NEW base \in Text, NEW inline \in Tagged, inline # <<>>, NEW sep \in Nat,
         NEW text, EndsIn(text, base, Parted(inline, sep))
  PROVE  HasTags(text, inline)
<1> DEFINE tags == Parted(inline, sep)
<1>1. inline \in Text /\ \A i \in DOMAIN inline : inline[i].sep = 1
  BY DEF Tagged
<1>2. tags \in Text
  BY <1>1, SeparatorIsNotCounted DEF Parted
<1> SUFFICES ASSUME NEW i \in DOMAIN inline
             PROVE  \E j \in DOMAIN text : AsTag(text[j]) = inline[i]
  BY DEF HasTags
<1>3. /\ inline \in Seq(Pieces) /\ base \in Seq(Pieces) /\ tags \in Seq(Pieces)
      /\ Len(tags) = Len(inline) /\ i \in 1 .. Len(tags) /\ inline[i] \in Pieces
  BY <1>1, <1>2 DEF Text, Parted
<1>4. tags[i] = IF i = 1 THEN [inline[i] EXCEPT !.sep = sep] ELSE inline[i]
  BY <1>3 DEF Parted
<1> HIDE DEF tags
<1>5. Len(base) + i \in DOMAIN text /\ text[Len(base) + i] = tags[i]
  <2>1. text = base \o tags
    BY DEF tags, EndsIn
  <2> QED
    BY <2>1, <1>3
<1>6. AsTag(tags[i]) = inline[i]
  BY <1>1, <1>3, <1>4 DEF Pieces, AsTag
<1> QED
  BY <1>5, <1>6

\* The room that the tags have of their own
RoomForTags(inline, sep, room, max) ==
  max = room + IF inline = <<>> THEN 0 ELSE sep + Size(inline)

\* The tags, behind what room is theirs, are put behind all that was called.
LEMMA TagsAreAppended ==
  ASSUME NEW called \in Text, NEW inline \in Tagged, NEW word \in Nat \ {0}, NEW sep \in Nat,
         NEW room \in Int, room > 10,
         NEW max \in Int, RoomForTags(inline, sep, room, max),
         NEW text, text = Truncate(AppendWithin(called, inline, max, word, sep), max, word)
  PROVE  HasTags(text, inline) /\ (Size(called) <= room => BeginsWith(text, called))
<1> DEFINE tagged == AppendWithin(called, inline, max, word, sep)
<1>0. inline \in Text /\ Size(inline) \in Nat /\ Size(called) \in Nat
  BY SizeIsNatural DEF Tagged
<1>1. CASE inline = <<>>
  <2>1. tagged = called /\ max = room
    BY <1>1 DEF AppendWithin, RoomForTags
  <2>2. Size(called) <= room => text = called
    <3>1. Size(called) <= room => Truncate(called, room, word) = called
      BY TruncateFits
    <3> QED
      BY <2>1, <3>1
  <2>3. called = called \o <<>> /\ <<>> \in Text
    BY DEF Text
  <2>4. \A i \in DOMAIN inline : FALSE
    BY <1>1
  <2> QED
    BY <2>2, <2>3, <2>4 DEF HasTags, BeginsWith, EndsIn
<1>2. CASE inline # <<>>
  <2>1. room = max - Size(inline) - sep /\ room > 0 /\ max > 0 /\ max \in Int /\ room \in Int
    BY <1>0, <1>2 DEF RoomForTags
  <2>2. PICK base, whole : /\ base = Truncate(called, room, word)
                           /\ whole = AppendWithin(called, inline, max, word, sep)
    OBVIOUS
  <2>a. Before(inline, sep, max, room)
    BY <2>1 DEF Before
  <2>b. /\ EndsIn(whole, base, Parted(inline, sep)) /\ base \in Text /\ Parted(inline, sep) \in Text
        /\ whole \in Text /\ Size(whole) <= max
    BY <1>0, <1>2, <2>1, <2>2, <2>a, AppendedBehind
  <2>3. whole = base \o Parted(inline, sep) /\ Parted(inline, sep) \in Text
    BY <2>b DEF EndsIn
  <2>4. text = whole
    <3>1. Truncate(whole, max, word) = whole
      BY <2>1, <2>b, TruncateFits
    <3> QED
      BY <3>1, <2>2
  <2>5. Size(called) <= room => base = called
    BY <2>1, <2>2, TruncateFits
  <2>6. HasTags(text, inline)
    <3>1. EndsIn(text, base, Parted(inline, sep))
      BY <2>b, <2>4
    <3> QED
      BY <3>1, <2>b, <1>2, TagsStayThere
  <2> QED
    BY <2>3, <2>4, <2>5, <2>6 DEF BeginsWith, EndsIn
<1> QED
  BY <1>1, <1>2

\* The finished text has every tag, and the link unless the room is filled exactly.
LEMMA FinishedSurvives ==
  ASSUME NEW b, IsBrief(b), NEW f, IsVoice(f), IsRoomy(b, f), NEW text \in Text,
         HasLink(b, f) => Linked(text, b, f),
         NEW cta \in Text, CallFits(text, cta, PreHashtagLimit(b, f)),
         NEW d, d.inline = b.inline, FillsUp(text, cta, PreHashtagLimit(b, f)) => d.full,
         d.text = Truncate(AppendWithin(AppendWithin(text, cta, PreHashtagLimit(b, f), b.word, 1),
                                        b.inline, PostHashtagLimit(b, f), b.word, f.tagSep),
                           PostHashtagLimit(b, f), b.word)
  PROVE  Survived(d, b, f)
<1>0. /\ b.word \in Nat \ {0} /\ b.inline \in Tagged /\ b.link \in Nat /\ f.tagSep \in Nat
      /\ PreHashtagLimit(b, f) \in Nat /\ PreHashtagLimit(b, f) > 10 /\ PostHashtagLimit(b, f) \in Nat
      /\ PostHashtagLimit(b, f) =
           PreHashtagLimit(b, f) + IF b.inline = <<>> THEN 0 ELSE f.tagSep + Size(b.inline)
  BY Limits DEF IsBrief, IsVoice, IsRoomy, HashtagReserve
<1>1. PICK room \in Int, max \in Int, word \in Nat \ {0}, sep \in Nat, inline \in Tagged :
        /\ room = PreHashtagLimit(b, f) /\ max = PostHashtagLimit(b, f)
        /\ word = b.word /\ sep = f.tagSep /\ inline = b.inline
  BY <1>0
<1>2. PICK called : called = AppendWithin(text, cta, room, word, 1)
  OBVIOUS
<1>3. called \in Text
  <2>1. 1 \in Nat /\ room \in Int
    OBVIOUS
  <2> QED
    BY <2>1, <1>2, AppendedIsText
<1>4. PICK text2 : /\ text2 = Truncate(AppendWithin(called, inline, max, word, sep), max, word)
                   /\ text2 = d.text
  BY <1>1, <1>2
<1>5. room > 10 /\ RoomForTags(inline, sep, room, max)
  BY <1>0, <1>1 DEF RoomForTags
<1>6. HasTags(text2, inline) /\ (Size(called) <= room => BeginsWith(text2, called))
  BY <1>3, <1>4, <1>5, TagsAreAppended
<1>7. ASSUME HasLink(b, f), ~FillsUp(text, cta, PreHashtagLimit(b, f))
      PROVE  HasWholeLink(d.text)
  <2>1. Size(called) <= room /\ KeepsLink(called, b.link)
    BY <1>1, <1>2, <1>7, LinkIsKept
  <2>2. BeginsWith(text2, called)
    BY <2>1, <1>6
  <2>3. b.link \in Nat \ {0}
    BY <1>0, <1>7 DEF HasLink
  <2> QED
    BY <2>1, <2>2, <2>3, <1>3, <1>4, LinkStaysThere
<1>8. HasTags(d.text, d.inline)
  BY <1>1, <1>4, <1>6
<1>9. b.link = 0 \/ b.link + 1 >= PreHashtagLimit(b, f) \/ HasLink(b, f)
  BY <1>0 DEF HasLink
<1> QED
  BY <1>7, <1>8, <1>9 DEF Survived

-------------------------------------------------------------------------------
(* Drafts: what generation has appended so far, and what stays of it *)

\* Every draft is a text with tags, and a target that takes part has a platform.
DraftsAreTexts ==
  /\ campaign \in Campaigns
  /\ DOMAIN draft = Targets /\ DOMAIN link = Targets /\ DOMAIN stage = Targets
  /\ \A t \in Targets :
       /\ IsDraft(draft[t]) /\ link[t].len \in Nat
       /\ stage[t] # "absent" => Platform(t) \in DOMAIN Profile

\* What a draft d at stage s keeps: from the link on, the text ends in it until the call to
\* action and the tags are put behind it.
Kept(s, d, b, f) ==
  /\ s \in {"title", "cta"} /\ IsRoomy(b, f) /\ HasLink(b, f) => Linked(d.text, b, f)
  /\ s = "validate" /\ IsRoomy(b, f) => Survived(d, b, f)

\* So it is with every target that takes part.
TextsAreKept ==
  \A t \in Targets : stage[t] # "absent" => Kept(stage[t], draft[t], Brief(t), Voice(t))

TextInv == DraftsAreTexts /\ TextsAreKept

\* The profiles are such voices.
LEMMA PlainIsOne ==
  /\ IsVoice(Plain)
  /\ DOMAIN Plain = {"limit", "title", "titled", "titleOnly", "tags", "longestTag", "tagSep", "mentions",
                     "emoji", "cta", "linked"}
BY DEF Plain, IsVoice

LEMMA VoiceIsOne ==
  ASSUME NEW p \in DOMAIN Profile
  PROVE  IsVoice(Profile[p])
<1>1. p \in {"discord", "bluesky", "mastodon", "reddit", "twitch"}
  BY DEF Profile
<1>2. CASE p = "discord"
  <2>1. Profile[p] = [Plain EXCEPT !.limit = 2000, !.title = 256]
    BY <1>2 DEF Profile
  <2> QED
    BY <2>1, PlainIsOne DEF IsVoice
<1>3. CASE p = "bluesky"
  <2>1. Profile[p] = [Plain EXCEPT !.limit = 300, !.tags = 2, !.tagSep = 1]
    BY <1>3 DEF Profile
  <2> QED
    BY <2>1, PlainIsOne DEF IsVoice
<1>4. CASE p = "mastodon"
  <2>1. Profile[p] = [Plain EXCEPT !.limit = 500, !.tags = 2, !.tagSep = 2]
    BY <1>4 DEF Profile
  <2> QED
    BY <2>1, PlainIsOne DEF IsVoice
<1>5. CASE p = "reddit"
  <2>1. Profile[p] = [Plain EXCEPT !.limit = 40000, !.title = 300, !.titled = TRUE, !.emoji = FALSE,
                 !.cta = FALSE, !.linked = FALSE]
    BY <1>5 DEF Profile
  <2> QED
    BY <2>1, PlainIsOne DEF IsVoice
<1>6. CASE p = "twitch"
  <2>1. Profile[p] = [Plain EXCEPT !.limit = 140, !.title = 140, !.titled = TRUE, !.titleOnly = TRUE,
                 !.tags = 10, !.longestTag = 25, !.mentions = FALSE, !.emoji = FALSE,
                 !.cta = FALSE, !.linked = FALSE]
    BY <1>6 DEF Profile
  <2> QED
    BY <2>1, PlainIsOne DEF IsVoice
<1> QED
  BY <1>1, <1>2, <1>3, <1>4, <1>5, <1>6

\* What a campaign says is of the types that the generator takes.
LEMMA CampaignIsOne ==
  ASSUME campaign \in Campaigns
  PROVE  /\ campaign.provider \in Providers
         /\ Lengths \in SUBSET Nat /\ TagLists \in SUBSET Seq(Nat \ {0})
         /\ campaign.brief.word \in Nat \ {0} /\ campaign.brief.link \in Nat
         /\ campaign.brief.mentions \in Seq(Nat)
         /\ TemplateBody(campaign.brief) \in Text
         /\ TemplateTitle(campaign.brief) \in Text
         /\ TemplateCta(campaign.brief) \in Text
         /\ \A max \in Nat : TemplateTags(campaign.brief, max) \in Seq(Nat \ {0})
         /\ \A t \in Targets : Platform(t) \in DOMAIN Profile \/ Platform(t) = None
<1> DEFINE brief == campaign.brief
<1>1. /\ campaign.platforms \in [Targets -> DOMAIN Profile \cup {None}]
      /\ campaign.provider \in Providers
      /\ brief.description \in Nat \ {0} /\ brief.title \in Nat /\ brief.keyword \in Nat
      /\ brief.cta \in Nat /\ brief.link \in Nat /\ brief.word \in Nat \ {0}
      /\ brief.tags \in Seq(Nat \ {0}) /\ brief.words \in Seq(Nat \ {0}) /\ brief.mentions \in Seq(Nat)
      /\ Lengths \in SUBSET Nat /\ TagLists \in SUBSET Seq(Nat \ {0})
  BY CompositionAssumption
<1> HIDE DEF brief
<1>2. <<>> \in Text /\ \A n \in Nat : Prose(n) \in Text /\ n + 1 \in Nat
  BY ProseIsText DEF Text
<1>3. TemplateBody(brief) \in Text
  <2>1. (IF brief.title = 0 THEN <<>> ELSE Prose(brief.title + 1)) \in Text
    BY <1>1, <1>2
  <2> QED
    BY <2>1, <1>1, <1>2, SpacedIsText DEF TemplateBody
<1>4. TemplateTitle(brief) \in Text
  <2>1. /\ (IF brief.keyword = 0 THEN <<>> ELSE Prose(brief.keyword + 1)) \in Text
        /\ Prose(IF brief.title = 0 THEN brief.description ELSE brief.title) \in Text
    BY <1>1, <1>2
  <2> QED
    BY <2>1, SpacedIsText DEF TemplateTitle
<1>5. TemplateCta(brief) \in Text
  BY <1>1, <1>2 DEF TemplateCta
<1>6. ASSUME NEW max \in Nat
      PROVE  TemplateTags(brief, max) \in Seq(Nat \ {0})
  <2> DEFINE seeds == brief.tags \o brief.words
  <2>1. seeds \in Seq(Nat \ {0}) /\ Len(seeds) \in Nat
    <3>1. PICK tags \in Seq(Nat \ {0}), words \in Seq(Nat \ {0}) : tags = brief.tags /\ words = brief.words
      BY <1>1
    <3>2. tags \o words \in Seq(Nat \ {0})
      OBVIOUS
    <3>3. seeds \in Seq(Nat \ {0})
      BY <3>1, <3>2
    <3> HIDE DEF seeds
    <3> QED
      BY <3>3
  <2> HIDE DEF seeds
  <2>2. PICK n \in 0 .. Len(seeds) : n = Least(max, Len(seeds))
    BY <2>1 DEF Least
  <2>3. SubSeq(seeds, 1, n) \in Seq(Nat \ {0})
    BY <2>1, <2>2
  <2> QED
    BY <2>2, <2>3 DEF TemplateTags, seeds
<1> QED
  BY <1>1, <1>3, <1>4, <1>5, <1>6 DEF brief, Platform

\* What the generator goes by is a brief, and a voice.
LEMMA BriefIsOne ==
  ASSUME DraftsAreTexts, NEW t \in Targets
  PROVE  /\ IsBrief(Brief(t))
         /\ Brief(t).link = link[t].len /\ Brief(t).word = campaign.brief.word
         /\ Brief(t).inline = draft[t].inline
         /\ draft[t].text \in Text /\ draft[t].inline \in Tagged
         /\ stage[t] # "absent" => IsVoice(Voice(t)) /\ Room(t) \in Nat
<1>1. /\ campaign.brief.word \in Nat \ {0} /\ campaign.brief.mentions \in Seq(Nat)
      /\ link[t].len \in Nat /\ draft[t].text \in Text /\ draft[t].inline \in Tagged
  BY CampaignIsOne DEF DraftsAreTexts, IsDraft
<1>2. IsBrief(Brief(t))
  BY <1>1 DEF IsBrief, Brief
<1>3. stage[t] # "absent" => IsVoice(Voice(t))
  BY VoiceIsOne DEF DraftsAreTexts, Voice
<1>4. stage[t] # "absent" => Room(t) \in Nat
  BY <1>2, <1>3, Limits DEF Room
<1> QED
  BY <1>1, <1>2, <1>3, <1>4 DEF Brief

\* A brief is the same where the tags and the link are, and a voice where the campaign is.
LEMMA BriefStays ==
  ASSUME NEW t, UNCHANGED campaign, draft'[t].inline = draft[t].inline, link'[t].len = link[t].len
  PROVE  Brief(t)' = Brief(t) /\ Voice(t)' = Voice(t)
BY DEF Brief, Voice, Platform

\* Stages at which nothing is said of the text yet, or any more
LEMMA NothingSaid ==
  ASSUME NEW s, s \notin {"title", "cta", "validate"}, NEW d, NEW b, NEW f
  PROVE  Kept(s, d, b, f)
BY DEF Kept

\* It is enough to look at the targets whose draft, link or stage changes.
LEMMA OneByOne ==
  ASSUME TextInv, UNCHANGED campaign,
         DOMAIN draft' = Targets, DOMAIN link' = Targets, DOMAIN stage' = Targets,
         \A t \in Targets :
           \/ draft'[t] = draft[t] /\ link'[t] = link[t] /\ stage'[t] = stage[t]
           \/ /\ IsDraft(draft'[t]) /\ link'[t].len \in Nat
              /\ stage'[t] # "absent" => Platform(t) \in DOMAIN Profile
              /\ stage'[t] # "absent" => Kept(stage'[t], draft'[t], Brief(t)', Voice(t)')
  PROVE  TextInv'
<1> SUFFICES ASSUME NEW t \in Targets
             PROVE  /\ IsDraft(draft'[t]) /\ link'[t].len \in Nat
                    /\ stage'[t] # "absent" => Platform(t)' \in DOMAIN Profile
                    /\ stage'[t] # "absent" => Kept(stage'[t], draft'[t], Brief(t)', Voice(t)')
  BY DEF TextInv, DraftsAreTexts, TextsAreKept
<1>1. Platform(t)' = Platform(t)
  BY DEF Platform
<1>2. CASE draft'[t] = draft[t] /\ link'[t] = link[t] /\ stage'[t] = stage[t]
  <2>1. Brief(t)' = Brief(t) /\ Voice(t)' = Voice(t)
    BY <1>2, BriefStays
  <2>2. /\ IsDraft(draft[t]) /\ link[t].len \in Nat
        /\ stage[t] # "absent" => Platform(t) \in DOMAIN Profile
        /\ stage[t] # "absent" => Kept(stage[t], draft[t], Brief(t), Voice(t))
    BY DEF TextInv, DraftsAreTexts, TextsAreKept
  <2> QED
    BY <1>1, <1>2, <2>1, <2>2
<1> QED
  BY <1>1, <1>2

\* A target that goes on is one that takes part.
LEMMA OneGoesOn ==
  ASSUME TextInv, UNCHANGED <<campaign, link>>, NEW t \in Targets, stage[t] # "absent",
         NEW to, NEW d, Drafted(t, to, d), IsDraft(d), d.inline = draft[t].inline,
         Kept(to, d, Brief(t), Voice(t))
  PROVE  TextInv'
<1>1. DOMAIN draft = Targets /\ DOMAIN stage = Targets /\ DOMAIN link = Targets
  BY DEF TextInv, DraftsAreTexts
<1>2. /\ DOMAIN draft' = Targets /\ DOMAIN stage' = Targets /\ DOMAIN link' = Targets
      /\ draft'[t] = d /\ stage'[t] = to /\ link'[t] = link[t]
      /\ \A u \in Targets \ {t} : draft'[u] = draft[u] /\ link'[u] = link[u] /\ stage'[u] = stage[u]
  BY <1>1 DEF Drafted
<1>3. Brief(t)' = Brief(t) /\ Voice(t)' = Voice(t)
  BY <1>2, BriefStays
<1>4. Platform(t) \in DOMAIN Profile /\ link[t].len \in Nat
  BY DEF TextInv, DraftsAreTexts
<1> QED
  BY <1>2, <1>3, <1>4, OneByOne

\* The tags, which come first
LEMMA TagsAreDrafted ==
  ASSUME TextInv, NEW t \in Targets, GenerateTags(t)
  PROVE  TextInv'
<1> DEFINE f == Voice(t)
           offered == TemplateTags(campaign.brief, f.tags)
<1>1. /\ stage[t] = "tags" /\ UNCHANGED <<campaign, link>>
      /\ DOMAIN draft = Targets /\ DOMAIN stage = Targets /\ DOMAIN link = Targets
      /\ campaign \in Campaigns /\ IsDraft(draft[t]) /\ link[t].len \in Nat
      /\ Platform(t) \in DOMAIN Profile
  BY DEF GenerateTags, TextInv, DraftsAreTexts
<1>2. IsVoice(f)
  BY <1>1, VoiceIsOne DEF Voice
<1> HIDE DEF f
<1>3. PICK answer \in IF f.tags = 0 THEN {<<>>}
                      ELSE TagReplies(campaign.provider, offered, TagLists, Brief(t).word) :
      \E sanitized \in {Sanitized(answer, f.tags, f.longestTag)} :
        Drafted(t, IF f.titleOnly THEN "title" ELSE "body",
                [draft[t] EXCEPT !.tags = sanitized, !.inline = InlineTags(sanitized, f),
                                 !.mentions = Mentions(Brief(t), f)])
  BY DEF GenerateTags, f
<1>4. f.tags \in Nat /\ f.longestTag \in Nat /\ offered \in Seq(Nat \ {0})
  BY <1>1, <1>2, CampaignIsOne DEF IsVoice
<1> HIDE DEF offered
<1>5. answer \in Seq(Nat \ {0})
  <2>1. f.tags = 0 => answer = <<>>
    BY <1>3
  <2>2. f.tags # 0 => answer \in TagReplies(campaign.provider, offered, TagLists, Brief(t).word)
    BY <1>3
  <2>3. Brief(t).word \in Nat \ {0} /\ campaign.provider \in Providers /\ TagLists \in SUBSET Seq(Nat \ {0})
    BY <1>1, CampaignIsOne DEF Brief
  <2>4. f.tags # 0 => answer \in Seq(Nat \ {0})
    BY <2>2, <2>3, <1>4, TagRepliesAre
  <2>5. f.tags = 0 => answer \in Seq(Nat \ {0})
    <3>1. <<>> \in Seq(Nat \ {0})
      OBVIOUS
    <3> QED
      BY <3>1, <2>1
  <2> QED
    BY <2>4, <2>5
<1>6. PICK sanitized, d, to :
        /\ sanitized = Sanitized(answer, f.tags, f.longestTag)
        /\ d = [draft[t] EXCEPT !.tags = sanitized, !.inline = InlineTags(sanitized, f),
                                !.mentions = Mentions(Brief(t), f)]
        /\ to = IF f.titleOnly THEN "title" ELSE "body"
        /\ Drafted(t, to, d)
  BY <1>3
<1>7. InlineTags(sanitized, f) \in Tagged
  <2>1. answer \in Seq(Nat)
    BY <1>5
  <2> QED
    BY <2>1, <1>4, <1>6, InlineIsTagged
<1>8. IsDraft(d)
  BY <1>1, <1>6, <1>7 DEF IsDraft, Fields
<1>9. /\ DOMAIN draft' = Targets /\ DOMAIN stage' = Targets /\ DOMAIN link' = Targets
      /\ draft'[t] = d /\ stage'[t] = to /\ link'[t] = link[t]
      /\ \A u \in Targets \ {t} : draft'[u] = draft[u] /\ link'[u] = link[u] /\ stage'[u] = stage[u]
  BY <1>1, <1>6 DEF Drafted
<1>10. f' = f
  BY <1>1 DEF f, Voice, Platform
<1>11. Kept(to, d, Brief(t)', Voice(t)')
  BY <1>6, <1>10 DEF Kept, IsRoomy, f
<1> QED
  BY <1>1, <1>8, <1>9, <1>11, OneByOne

\* What the content provider is asked for is a text that fits.
LEMMA TextsFit ==
  ASSUME campaign \in Campaigns, NEW template \in Text, NEW max \in Int,
         NEW text \in Texts(template, max)
  PROVE  text \in Text /\ (max >= 0 => Size(text) <= max)
<1>1. PICK provider \in Providers, lengths \in SUBSET Nat, word \in Nat \ {0} :
        /\ provider = campaign.provider /\ lengths = Lengths /\ word = campaign.brief.word
  BY CampaignIsOne
<1>2. text \in Replies(provider, template, lengths, max, word)
  BY <1>1 DEF Texts
<1> QED
  BY <1>2, RepliesFit

\* What every step of generation finds
LEMMA Generating ==
  ASSUME TextInv, NEW t \in Targets, stage[t] # "absent"
  PROVE  /\ campaign \in Campaigns /\ IsBrief(Brief(t)) /\ IsVoice(Voice(t)) /\ Room(t) \in Int
         /\ IsDraft(draft[t]) /\ draft[t].text \in Text /\ draft[t].inline \in Tagged
         /\ Brief(t).inline = draft[t].inline /\ Brief(t).word = campaign.brief.word
         /\ Brief(t).word \in Nat \ {0}
         /\ Kept(stage[t], draft[t], Brief(t), Voice(t))
<1>1. DraftsAreTexts /\ TextsAreKept
  BY DEF TextInv
<1>2. Room(t) \in Nat
  BY <1>1, BriefIsOne
<1>3. Brief(t).word \in Nat \ {0}
  BY <1>1, BriefIsOne DEF IsBrief
<1> QED
  BY <1>1, <1>2, <1>3, BriefIsOne DEF DraftsAreTexts, TextsAreKept

\* Another text in a draft
LEMMA TextIsDrafted ==
  ASSUME NEW d, IsDraft(d), NEW text \in Text
  PROVE  /\ IsDraft([d EXCEPT !.text = text])
         /\ [d EXCEPT !.text = text].text = text /\ [d EXCEPT !.text = text].inline = d.inline
BY DEF IsDraft, Fields

\* The body
LEMMA BodyIsDrafted ==
  ASSUME TextInv, NEW t \in Targets, GenerateBody(t)
  PROVE  TextInv'
<1>1. stage[t] = "body" /\ UNCHANGED <<campaign, link>>
  BY DEF GenerateBody
<1>2. PICK body \in Texts(TemplateBody(campaign.brief), Room(t)) :
        Drafted(t, "emoji", [draft[t] EXCEPT !.text = body])
  BY DEF GenerateBody
<1>3. body \in Text
  <2>1. campaign \in Campaigns /\ Room(t) \in Int /\ TemplateBody(campaign.brief) \in Text
    BY <1>1, Generating, CampaignIsOne
  <2> QED
    BY <2>1, TextsFit
<1>4. PICK d : d = [draft[t] EXCEPT !.text = body] /\ Drafted(t, "emoji", d)
  BY <1>2
<1>5. IsDraft(d) /\ d.inline = draft[t].inline
  BY <1>1, <1>3, <1>4, Generating, TextIsDrafted
<1>6. Kept("emoji", d, Brief(t), Voice(t))
  BY NothingSaid
<1>7. stage[t] # "absent"
  BY <1>1
<1> QED
  BY <1>1, <1>4, <1>5, <1>6, <1>7, OneGoesOn

\* Emoji, and the link behind everything
LEMMA LinkIsDrafted ==
  ASSUME TextInv, NEW t \in Targets, GenerateEmoji(t)
  PROVE  TextInv'
<1> DEFINE b == Brief(t)
           f == Voice(t)
           end(text) == IF b.link = 0 THEN text
                        ELSE AppendWithin(text, <<Piece("link", 0, b.link)>>, Room(t), b.word, 1)
<1>1. stage[t] = "emoji" /\ UNCHANGED <<campaign, link>>
  BY DEF GenerateEmoji
<1>2. PICK text \in IF f.emoji THEN Texts(TemplateEmoji(draft[t].text), Room(t)) ELSE {draft[t].text} :
        Drafted(t, "title", [draft[t] EXCEPT !.text = end(text)])
  BY DEF GenerateEmoji
<1>3. stage[t] # "absent"
  BY <1>1
<1>4. text \in Text
  <2>1. campaign \in Campaigns /\ Room(t) \in Int /\ draft[t].text \in Text
    BY <1>3, Generating
  <2>2. TemplateEmoji(draft[t].text) \in Text
    BY <2>1, ProseIsText, SpacedIsText DEF TemplateEmoji
  <2>3. f.emoji => text \in Texts(TemplateEmoji(draft[t].text), Room(t))
    BY <1>2
  <2>4. ~f.emoji => text = draft[t].text
    BY <1>2
  <2> QED
    BY <2>1, <2>2, <2>3, <2>4, TextsFit
<1>5. IsBrief(b) /\ IsVoice(f)
  BY <1>3, Generating
<1>6. b.link # 0 =>
        LET linked == AppendWithin(text, <<Piece("link", 0, b.link)>>, PreHashtagLimit(b, f), b.word, 1)
        IN  linked \in Text /\ (HasLink(b, f) => Linked(linked, b, f))
  <2> HIDE DEF b, f, end
  <2> QED
    BY <1>4, <1>5, LinkIsAppended
<1>7. end(text) \in Text /\ (HasLink(b, f) => Linked(end(text), b, f))
  <2>1. CASE b.link = 0
    BY <2>1, <1>4 DEF HasLink
  <2>2. CASE b.link # 0
    BY <2>2, <1>6 DEF Room
  <2> QED
    BY <2>1, <2>2
<1>8. PICK d, whole : /\ whole = end(text) /\ d = [draft[t] EXCEPT !.text = whole]
                      /\ Drafted(t, "title", d)
  BY <1>2
<1>9. IsDraft(d) /\ d.text = whole /\ d.inline = draft[t].inline
  BY <1>3, <1>7, <1>8, Generating, TextIsDrafted
<1>10. Kept("title", d, b, f)
  BY <1>7, <1>8, <1>9 DEF Kept
<1> QED
  BY <1>1, <1>3, <1>8, <1>9, <1>10, OneGoesOn

\* A title says nothing of the text.
LEMMA TitleIsDrafted ==
  ASSUME TextInv, NEW t \in Targets, GenerateTitle(t)
  PROVE  TextInv'
<1>1. stage[t] = "title" /\ UNCHANGED <<campaign, link>>
  BY DEF GenerateTitle
<1>2. PICK n : Drafted(t, "cta", [draft[t] EXCEPT !.title = n])
  BY DEF GenerateTitle
<1>3. PICK d : d = [draft[t] EXCEPT !.title = n] /\ Drafted(t, "cta", d)
  BY <1>2
<1>4. /\ IsDraft(draft[t]) /\ stage[t] # "absent"
      /\ Kept("title", draft[t], Brief(t), Voice(t))
  BY <1>1, Generating
<1>5. IsDraft(d) /\ d.text = draft[t].text /\ d.inline = draft[t].inline
  BY <1>3, <1>4 DEF IsDraft, Fields
<1>6. Kept("cta", d, Brief(t), Voice(t))
  BY <1>4, <1>5 DEF Kept
<1> QED
  BY <1>1, <1>3, <1>4, <1>5, <1>6, OneGoesOn

\* What goes in the last check are mentions and tags that are not in the text.
LEMMA TextIsSettled ==
  ASSUME NEW d, IsDraft(d), NEW f
  PROVE  /\ IsDraft(Settled(d, f))
         /\ Settled(d, f).text = d.text /\ Settled(d, f).inline = d.inline /\ Settled(d, f).full = d.full
<1>1. ASSUME NEW n
      PROVE  /\ IsDraft(Without(d, n))
             /\ Without(d, n).text = d.text /\ Without(d, n).inline = d.inline /\ Without(d, n).full = d.full
  <2>1. PICK mentions, tags : Without(d, n) = [d EXCEPT !.mentions = mentions, !.tags = tags]
    BY DEF Without
  <2> QED
    BY <2>1 DEF IsDraft, Fields
<1>2. PICK n : Settled(d, f) = Without(d, n)
  BY DEF Settled
<1> QED
  BY <1>1, <1>2

\* A call to action is asked for only where it fits.
LEMMA CallsFit ==
  ASSUME TextInv, NEW t \in Targets, stage[t] # "absent", NEW cta \in CallsToAction(t)
  PROVE  cta \in Text /\ CallFits(draft[t].text, cta, Room(t))
<1> DEFINE remaining == Remaining(draft[t].text, Room(t))
<1>1. /\ campaign \in Campaigns /\ Room(t) \in Int /\ draft[t].text \in Text
      /\ TemplateCta(campaign.brief) \in Text
  BY Generating, CampaignIsOne
<1>2. remaining \in Int
  <2>1. PICK text \in Text, room \in Int : text = draft[t].text /\ room = Room(t)
    BY <1>1
  <2>2. Size(text) \in Nat
    BY SizeIsNatural
  <2>3. (IF text = <<>> THEN 0 ELSE text[1].sep) \in Nat
    <3>1. text # <<>> => 1 \in 1 .. Len(text)
      BY DEF Text
    <3>2. text # <<>> => text[1].sep \in Nat
      BY <3>1, TextIs
    <3> QED
      BY <3>2
  <2> QED
    BY <2>1, <2>2, <2>3 DEF Remaining
<1> HIDE DEF remaining
<1>3. cta = <<>> \/ (remaining > 6 /\ cta \in Texts(TemplateCta(campaign.brief), remaining))
  BY DEF CallsToAction, Remaining, remaining
<1>4. CASE cta = <<>>
  BY <1>4 DEF Text, CallFits
<1>5. CASE remaining > 6 /\ cta \in Texts(TemplateCta(campaign.brief), remaining)
  <2>1. cta \in Text /\ Size(cta) <= remaining
    BY <1>1, <1>2, <1>5, TextsFit
  <2> QED
    BY <2>1 DEF CallFits, remaining
<1> QED
  BY <1>3, <1>4, <1>5

\* The finished text
LEMMA TextIsFinished ==
  ASSUME TextInv, NEW t \in Targets, Finish(t)
  PROVE  TextInv'
<1> DEFINE b == Brief(t)
           f == Voice(t)
           max == PostHashtagLimit(b, f)
           text == draft[t].text
<1>1. stage[t] = "cta" /\ stage[t] # "absent" /\ UNCHANGED <<campaign, link>>
  BY DEF Finish
<1>2. /\ IsBrief(b) /\ IsVoice(f) /\ b.inline = draft[t].inline
      /\ IsDraft(draft[t]) /\ text \in Text /\ draft[t].inline \in Tagged
      /\ Kept("cta", draft[t], b, f)
  BY <1>1, Generating
<1>3. PICK cta \in CallsToAction(t) :
      \E called \in {AppendWithin(draft[t].text, cta, Room(t), Brief(t).word, 1)} :
      \E tagged \in {AppendWithin(called, draft[t].inline, PostHashtagLimit(Brief(t), Voice(t)), Brief(t).word,
                                  Voice(t).tagSep)} :
      \E whole \in {Truncate(tagged, PostHashtagLimit(Brief(t), Voice(t)), Brief(t).word)} :
      \E d \in {[draft[t] EXCEPT !.text = whole,
                                 !.full = cta # <<>> /\ Size(draft[t].text) + Size(cta) = Room(t)]} :
      \E settled \in {IF Voice(t).titleOnly THEN draft[t] ELSE Settled(d, Voice(t))} :
        /\ Drafted(t, "validate", settled)
        /\ post' = [post EXCEPT ![t] = Attach(t, Payload(settled, Brief(t), Voice(t)))]
        /\ UNCHANGED <<campaign, rendered, candidate, draws, link, short, visits, verdict>>
  BY DEF Finish
<1>4. PICK whole, d, settled :
        /\ whole = Truncate(AppendWithin(AppendWithin(text, cta, PreHashtagLimit(b, f), b.word, 1),
                                         b.inline, max, b.word, f.tagSep), max, b.word)
        /\ d = [draft[t] EXCEPT !.text = whole, !.full = FillsUp(text, cta, PreHashtagLimit(b, f))]
        /\ settled = IF f.titleOnly THEN draft[t] ELSE Settled(d, f)
        /\ Drafted(t, "validate", settled)
  <2>1. b.inline = draft[t].inline
    BY <1>2
  <2> QED
    BY <1>3, <2>1 DEF Room, FillsUp
<1>5. cta \in Text /\ CallFits(text, cta, PreHashtagLimit(b, f))
  BY <1>1, CallsFit DEF Room
<1> HIDE DEF b, f, text, max
<1>6. CASE f.titleOnly
  <2>1. settled = draft[t]
    BY <1>4, <1>6
  <2>2. Kept("validate", settled, b, f)
    BY <1>6 DEF Kept, IsRoomy
  <2> QED
    BY <2>1, <2>2, <1>1, <1>2, <1>4, OneGoesOn DEF b, f
<1>7. CASE ~f.titleOnly
  <2>1. d.text = whole /\ d.inline = b.inline /\ d.full = FillsUp(text, cta, PreHashtagLimit(b, f))
    BY <1>2, <1>4 DEF IsDraft, Fields
  <2>2. whole \in Text
    <3>1. b.word \in Nat \ {0} /\ b.inline \in Text /\ f.tagSep \in Nat /\ max \in Int /\ PreHashtagLimit(b, f) \in Int
      BY <1>2, Limits DEF IsBrief, IsVoice, Tagged, max
    <3>a. PICK one \in Nat : one = 1
      OBVIOUS
    <3>2. PICK called : called = AppendWithin(text, cta, PreHashtagLimit(b, f), b.word, one)
      OBVIOUS
    <3>3. called \in Text
      BY <3>1, <3>2, <1>2, <1>5, AppendedIsText
    <3>4. PICK tagged : tagged = AppendWithin(called, b.inline, max, b.word, f.tagSep)
      OBVIOUS
    <3>5. tagged \in Text
      BY <3>1, <3>3, <3>4, AppendedIsText
    <3>6. whole = Truncate(tagged, max, b.word)
      BY <3>a, <3>2, <3>4, <1>4
    <3> QED
      BY <3>1, <3>5, <3>6, TruncateFits
  <2>3. IsDraft(d)
    BY <1>2, <1>4, <2>1, <2>2 DEF IsDraft, Fields
  <2>4. IsRoomy(b, f) => Survived(d, b, f)
    <3>1. SUFFICES ASSUME IsRoomy(b, f)
                   PROVE  Survived(d, b, f)
      OBVIOUS
    <3>2. HasLink(b, f) => Linked(text, b, f)
      BY <1>2, <3>1 DEF Kept, text
    <3>3. d.text = Truncate(AppendWithin(AppendWithin(text, cta, PreHashtagLimit(b, f), b.word, 1),
                                         b.inline, PostHashtagLimit(b, f), b.word, f.tagSep),
                            PostHashtagLimit(b, f), b.word)
      BY <1>4, <2>1 DEF max
    <3> QED
      BY <1>2, <1>5, <2>1, <3>1, <3>2, <3>3, FinishedSurvives
  <2>5. settled = Settled(d, f)
    BY <1>4, <1>7
  <2>6. IsDraft(settled) /\ settled.text = d.text /\ settled.inline = d.inline /\ settled.full = d.full
    BY <2>3, <2>5, TextIsSettled
  <2>7. Kept("validate", settled, b, f)
    BY <2>4, <2>6 DEF Kept, Survived
  <2>8. settled.inline = draft[t].inline
    BY <1>2, <2>1, <2>6
  <2> QED
    BY <2>6, <2>7, <2>8, <1>1, <1>4, OneGoesOn DEF b, f
<1> QED
  BY <1>6, <1>7

\* Where a target starts, it takes part, and nothing is said of its text.
LEMMA StartsAnew ==
  ASSUME NEW c, c \in Campaigns, NEW t \in Targets, NEW s \in {Begun(c)[t], Started(c)[t], Everywhere(c, "tags")[t]}
  PROVE  /\ s \notin {"title", "cta", "validate"}
         /\ s # "absent" => c.platforms[t] \in DOMAIN Profile
<1>1. c.platforms[t] \in DOMAIN Profile \/ c.platforms[t] = None
  BY CompositionAssumption
<1>2. /\ s \in {"absent", "media", "link", "tags"}
      /\ c.platforms[t] = None => s = "absent"
  BY DEF Begun, Started, Everywhere
<1> QED
  BY <1>1, <1>2

LEMMA NoDraftIsOne == IsDraft(NoDraft)
<1>1. <<>> \in Tagged /\ <<>> \in Text
  BY DEF Tagged, Text
<1> QED
  BY <1>1 DEF NoDraft, IsDraft, Fields

\* The two facts of the invariant
LEMMA TextsAtFirst == Init => TextInv
<1> SUFFICES ASSUME Init
             PROVE  TextInv
  OBVIOUS
<1>1. /\ campaign \in Campaigns /\ DOMAIN draft = Targets /\ DOMAIN link = Targets
      /\ \A t \in Targets : draft[t] = NoDraft /\ link[t].len = campaign.brief.link
  BY DEF Init, Original
<1>2. DOMAIN stage = Targets
  BY Starts DEF Init, Everywhere
<1>3. campaign.brief.link \in Nat
  BY <1>1, CampaignIsOne
<1>4. ASSUME NEW t \in Targets
      PROVE  /\ stage[t] \notin {"title", "cta", "validate"}
             /\ stage[t] # "absent" => Platform(t) \in DOMAIN Profile
  <2>1. stage[t] \in {Begun(campaign)[t], Everywhere(campaign, "tags")[t]}
    BY DEF Init
  <2> QED
    BY <2>1, <1>1, StartsAnew DEF Platform
<1>5. \A t \in Targets : Kept(stage[t], draft[t], Brief(t), Voice(t))
  BY <1>4, NothingSaid
<1> QED
  BY <1>1, <1>2, <1>3, <1>4, <1>5, NoDraftIsOne DEF TextInv, DraftsAreTexts, TextsAreKept

\* Stages that say nothing of a text can follow on one another as they will.
LEMMA OnlyStages ==
  ASSUME TextInv, UNCHANGED <<campaign, draft, link>>, DOMAIN stage' = Targets,
         \A t \in Targets : stage'[t] = stage[t]
                            \/ /\ stage'[t] \notin {"title", "cta", "validate"}
                               /\ stage'[t] # "absent" => Platform(t) \in DOMAIN Profile
  PROVE  TextInv'
<1>1. /\ DOMAIN draft' = Targets /\ DOMAIN link' = Targets
      /\ \A t \in Targets : IsDraft(draft'[t]) /\ link'[t].len \in Nat
                            /\ draft'[t] = draft[t] /\ link'[t] = link[t]
  BY DEF TextInv, DraftsAreTexts
<1>2. \A t \in Targets : stage'[t] \notin {"title", "cta", "validate"} =>
                           Kept(stage'[t], draft'[t], Brief(t)', Voice(t)')
  BY NothingSaid
<1> QED
  BY <1>1, <1>2, OneByOne

\* Links are made before there is a text.
LEMMA LinkIsMade ==
  ASSUME TextInv, UNCHANGED <<campaign, draft>>, NEW t \in Targets, stage[t] # "absent",
         NEW l, l.len \in Nat, Rewritten(t, l)
  PROVE  TextInv'
<1>1. /\ DOMAIN draft = Targets /\ DOMAIN link = Targets /\ DOMAIN stage = Targets
      /\ IsDraft(draft[t]) /\ Platform(t) \in DOMAIN Profile
  BY DEF TextInv, DraftsAreTexts
<1>2. /\ DOMAIN draft' = Targets /\ DOMAIN stage' = Targets /\ DOMAIN link' = Targets
      /\ draft'[t] = draft[t] /\ stage'[t] = "tags" /\ link'[t] = l
      /\ \A u \in Targets \ {t} : draft'[u] = draft[u] /\ link'[u] = link[u] /\ stage'[u] = stage[u]
  BY <1>1 DEF Rewritten
<1>3. Kept("tags", draft'[t], Brief(t)', Voice(t)')
  BY NothingSaid
<1> QED
  BY <1>1, <1>2, <1>3, OneByOne

LEMMA TextsStay == TextInv /\ [Next]_vars => TextInv'
<1> SUFFICES ASSUME TextInv, [Next]_vars
             PROVE  TextInv'
  OBVIOUS
<1>0. /\ campaign \in Campaigns /\ campaign.brief.link \in Nat
      /\ DOMAIN draft = Targets /\ DOMAIN link = Targets /\ DOMAIN stage = Targets
      /\ \A t \in Targets : stage[t] # "absent" => Platform(t) \in DOMAIN Profile
  BY CampaignIsOne DEF TextInv, DraftsAreTexts
<1>1. CASE ComposeAndSubmit
  <2>1. /\ UNCHANGED <<campaign, link>> /\ stage' = Begun(campaign)
        /\ draft' = [t \in Targets |-> NoDraft]
    BY <1>1 DEF ComposeAndSubmit
  <2>2. DOMAIN stage' = Targets /\ DOMAIN link' = Targets /\ DOMAIN draft' = Targets
    BY <2>1, <1>0, Starts
  <2>3. ASSUME NEW t \in Targets
        PROVE  /\ IsDraft(draft'[t]) /\ link'[t].len \in Nat
               /\ stage'[t] # "absent" => Platform(t) \in DOMAIN Profile
               /\ Kept(stage'[t], draft'[t], Brief(t)', Voice(t)')
    <3>1. draft'[t] = NoDraft /\ link'[t] = link[t] /\ link[t].len \in Nat
      BY <2>1 DEF TextInv, DraftsAreTexts
    <3>2. /\ stage'[t] \notin {"title", "cta", "validate"}
          /\ stage'[t] # "absent" => Platform(t) \in DOMAIN Profile
      BY <2>1, <1>0, StartsAnew DEF Platform
    <3>3. Kept(stage'[t], draft'[t], Brief(t)', Voice(t)')
      BY <3>2, NothingSaid
    <3> QED
      BY <3>1, <3>2, <3>3, NoDraftIsOne
  <2> QED
    BY <2>1, <2>2, <2>3, OneByOne
<1>2. CASE Execute
  <2>1. UNCHANGED <<campaign, draft, link>> /\ (stage' = Started(campaign) \/ stage' = stage)
    BY <1>2 DEF Execute
  <2>2. DOMAIN stage' = Targets
    BY <2>1, <1>0, Starts
  <2>3. \A t \in Targets : stage'[t] = stage[t]
                           \/ /\ stage'[t] \notin {"title", "cta", "validate"}
                              /\ stage'[t] # "absent" => Platform(t) \in DOMAIN Profile
    BY <2>1, <1>0, StartsAnew DEF Platform
  <2> QED
    BY <2>1, <2>2, <2>3, OnlyStages
<1>3. CASE ExecuteFails
  <2>1. /\ UNCHANGED <<campaign, draft, link>> /\ DOMAIN stage' = Targets
        /\ \A t \in Targets : stage'[t] = stage[t] \/ (stage[t] = "media" /\ stage'[t] = "error")
    BY <1>3 DEF ExecuteFails
  <2>2. \A t \in Targets : stage'[t] = stage[t]
                           \/ /\ stage'[t] \notin {"title", "cta", "validate"}
                              /\ stage'[t] # "absent" => Platform(t) \in DOMAIN Profile
    BY <2>1, <1>0
  <2> QED
    BY <2>1, <2>2, OnlyStages
<1>4. ASSUME NEW t \in Targets, Tag(t)
      PROVE  TextInv'
  <2>1. /\ UNCHANGED <<campaign, draft>> /\ stage[t] # "absent"
        /\ Rewritten(t, Original(UtmTagged(campaign.brief.link)))
    BY <1>4 DEF Tag
  <2>2. Original(UtmTagged(campaign.brief.link)).len \in Nat
    BY <1>0 DEF Original, UtmTagged
  <2> QED
    BY <2>1, <2>2, LinkIsMade
<1>5. ASSUME NEW t \in Targets, NEW s \in Slugs, PickFreeSlug(t, s)
      PROVE  TextInv'
  <2>1. /\ UNCHANGED <<campaign, draft, link>> /\ stage[t] = "link"
        /\ \E to \in {"drawn", "tags", stage[t]} : stage' = [stage EXCEPT ![t] = to]
    BY <1>5 DEF PickFreeSlug
  <2>2. DOMAIN stage' = Targets
    BY <2>1, <1>0
  <2>3. \A u \in Targets : stage'[u] = stage[u]
                           \/ /\ stage'[u] \notin {"title", "cta", "validate"}
                              /\ stage'[u] # "absent" => Platform(u) \in DOMAIN Profile
    BY <2>1, <1>0
  <2> QED
    BY <2>1, <2>2, <2>3, OnlyStages
<1>6. ASSUME NEW t \in Targets, CreateShortUrl(t)
      PROVE  TextInv'
  <2>1. /\ UNCHANGED <<campaign, draft>> /\ stage[t] # "absent"
        /\ \/ Rewritten(t, [len |-> ShortUrl, slug |-> candidate[t]])
           \/ Rewritten(t, Original(campaign.brief.link))
    BY <1>6 DEF CreateShortUrl
  <2>2. /\ [len |-> ShortUrl, slug |-> candidate[t]].len \in Nat
        /\ Original(campaign.brief.link).len \in Nat
    BY <1>0 DEF Original, ShortUrl
  <2> QED
    BY <2>1, <2>2, LinkIsMade
<1>7. ASSUME NEW t \in Targets, GenerationFails(t) \/ Preview(t) \/ Submit(t)
      PROVE  TextInv'
  <2>1. /\ UNCHANGED <<campaign, draft, link>> /\ stage[t] # "absent"
        /\ \E to \in {"previewed", "error", "enqueued", "rejected"} : stage' = [stage EXCEPT ![t] = to]
    BY <1>7 DEF GenerationFails, Preview, Submit, Told
  <2>2. DOMAIN stage' = Targets
    BY <2>1, <1>0
  <2>3. \A u \in Targets : stage'[u] = stage[u]
                           \/ /\ stage'[u] \notin {"title", "cta", "validate"}
                              /\ stage'[u] # "absent" => Platform(u) \in DOMAIN Profile
    BY <2>1, <1>0
  <2> QED
    BY <2>1, <2>2, <2>3, OnlyStages
<1>8. ASSUME NEW t \in Targets, Resolve(t)
      PROVE  TextInv'
  <2>1. UNCHANGED <<campaign, stage, draft, link>>
    BY <1>8 DEF Resolve
  <2>2. DOMAIN stage' = Targets /\ \A u \in Targets : stage'[u] = stage[u]
    BY <2>1, <1>0
  <2> QED
    BY <2>1, <2>2, OnlyStages
<1>9. CASE UNCHANGED vars
  <2>1. UNCHANGED <<campaign, stage, draft, link>>
    BY <1>9 DEF vars
  <2>2. DOMAIN stage' = Targets /\ \A u \in Targets : stage'[u] = stage[u]
    BY <2>1, <1>0
  <2> QED
    BY <2>1, <2>2, OnlyStages
<1>10. ASSUME NEW t \in Targets,
              GenerateTags(t) \/ GenerateBody(t) \/ GenerateEmoji(t) \/ GenerateTitle(t) \/ Finish(t)
       PROVE  TextInv'
  BY <1>10, TagsAreDrafted, BodyIsDrafted, LinkIsDrafted, TitleIsDrafted, TextIsFinished
<1> QED
  BY <1>1, <1>2, <1>3, <1>4, <1>5, <1>6, <1>7, <1>8, <1>9, <1>10 DEF Next

\* Every tag that belongs into a text is in it to the last character when its connector is
\* asked, and so is the link unless the call to action fills the room, for campaigns, texts,
\* tags, links and mentions of every length and whatever a model answers (appendWithinLimit in
\* text.ts, generateVariant in campaignGenerator.ts).
THEOREM LinkAndTagsSurviveCorrect == Spec => []LinkAndTagsSurvive
<1>1. TextInv => LinkAndTagsSurvive
  <2> SUFFICES ASSUME TextInv, NEW t \in Targets, stage[t] = "validate", Roomy(t)
               PROVE  /\ \A i \in DOMAIN draft[t].inline :
                           \E j \in DOMAIN draft[t].text :
                             [draft[t].text[j] EXCEPT !.sep = 1] = draft[t].inline[i]
                      /\ \/ Brief(t).link = 0 \/ Brief(t).link + 1 >= Room(t)
                         \/ draft[t].full
                         \/ \E i \in DOMAIN draft[t].text :
                              draft[t].text[i].kind = "link" /\ draft[t].text[i].whole
    BY DEF LinkAndTagsSurvive
  <2>1. stage[t] # "absent" /\ IsRoomy(Brief(t), Voice(t))
    BY DEF Roomy, IsRoomy, Room
  <2>2. Survived(draft[t], Brief(t), Voice(t))
    BY <2>1 DEF TextInv, TextsAreKept, Kept
  <2> QED
    BY <2>2 DEF Survived, HasTags, HasWholeLink, AsTag, Room
<1> QED
  BY <1>1, TextsAtFirst, TextsStay, PTL DEF Spec
================================================================================
