--------------------------- MODULE AcceptanceProofs ---------------------------
(***************************************************************************)
(* What generation promises: a post is rejected, or not taken by its       *)
(* platform, for one of the named reasons only, and a preview that can     *)
(* know says what a submission will say.                                   *)
(*                                                                         *)
(* For every set of campaigns, of targets and of answers a model may give  *)
(* four facts are inductive: a draft at each stage is as short as its      *)
(* platform wants it and, of the template, never empty (DraftsAreMade);    *)
(* the renditions are those of the sources (RenditionsAreMade); a finished *)
(* post is what was made of its draft (PostsAreMade), so a connector can   *)
(* only find fault with what a named reason says; and the template writes  *)
(* the same draft in the preview and afterwards (Scripted). The types are   *)
(* inductive with them.                                                    *)
(***************************************************************************)
EXTENDS CompositionProofs

(***************************************************************************)
(* Totals and lists, element by element                                    *)
(***************************************************************************)
\* f[i] is what a fold over 1 .. n has come to after i elements, and last in the end.
Unrolls(f, base, step, n, last) ==
  /\ f[0] = base /\ \A i \in 1 .. n : f[i] = step[<<f[i - 1], i>>]
  /\ f[n] = last

\* A fold as one over sets of elements
Iterates(iter, A, base, step, n) ==
  /\ iter[{}] = base
  /\ \A i \in 1 .. n : iter[1 .. i - 1] \in A => iter[1 .. i] = step[<<iter[1 .. i - 1], i>>]

\* A fold that is given by its sets of elements, as a sequence of steps
LEMMA FoldUnrolls ==
  ASSUME NEW A, NEW base \in A, NEW n \in Nat, NEW step \in [A \X (1 .. n) -> A],
         NEW iter, Iterates(iter, A, base, step, n)
  PROVE  \E f \in [0 .. n -> A] : Unrolls(f, base, step, n, iter[1 .. n])
<1> DEFINE f == [i \in 0 .. n |-> iter[1 .. i]]
           Good == {m \in Nat : m <= n => iter[1 .. m] \in A}
<1>0. 1 .. 0 = {}
  OBVIOUS
<1>1. 0 \in Good
  BY <1>0 DEF Iterates
<1>2. ASSUME NEW m \in Nat, m \in Good PROVE m + 1 \in Good
  <2> SUFFICES ASSUME m + 1 <= n PROVE iter[1 .. m + 1] \in A
    OBVIOUS
  <2>1. m + 1 \in 1 .. n /\ m + 1 - 1 = m /\ iter[1 .. m] \in A
    BY <1>2
  <2>2. PICK i \in 1 .. n : i = m + 1 /\ i - 1 = m
    BY <2>1
  <2>3. iter[1 .. i] = step[<<iter[1 .. i - 1], i>>]
    BY <2>1, <2>2 DEF Iterates
  <2>4. <<iter[1 .. i - 1], i>> \in A \X (1 .. n)
    BY <2>1, <2>2
  <2> QED
    BY <2>2, <2>3, <2>4
<1>3. n \in Good
  <2> HIDE DEF Good
  <2> QED
    BY <1>1, <1>2, SetInduction
<1>4. \A i \in 0 .. n : i \in Good
  <2> HIDE DEF Good
  <2> QED
    BY <1>1, <1>2, SetInduction
<1>5. \A i \in 0 .. n : iter[1 .. i] \in A
  BY <1>4
<1>6. f \in [0 .. n -> A]
  BY <1>5
<1>7. \A i \in 1 .. n : f[i] = step[<<f[i - 1], i>>]
  <2> SUFFICES ASSUME NEW i \in 1 .. n PROVE f[i] = step[<<f[i - 1], i>>]
    OBVIOUS
  <2>1. i \in 0 .. n /\ i - 1 \in 0 .. n
    OBVIOUS
  <2>2. iter[1 .. i] = step[<<iter[1 .. i - 1], i>>]
    BY <1>5, <2>1 DEF Iterates
  <2> QED
    BY <2>1, <2>2
<1>8. f[0] = base /\ f[n] = iter[1 .. n]
  BY <1>0 DEF Iterates
<1> HIDE DEF f
<1> QED
  BY <1>6, <1>7, <1>8 DEF Unrolls

\* Steps that do the same with the first m elements
Alike(step, other, A, m) == \A a \in A : \A i \in 1 .. m : step[<<a, i>>] = other[<<a, i>>]

\* Folds that do the same come to the same.
LEMMA FoldsAgree ==
  ASSUME NEW A, NEW base, NEW n \in Nat, NEW m \in 0 .. n, NEW step, NEW other, NEW f, NEW g \in [0 .. m -> A],
         NEW last, NEW end, Unrolls(f, base, step, n, last), Unrolls(g, base, other, m, end),
         Alike(step, other, A, m)
  PROVE  f[m] = end
<1> DEFINE Good == {k \in Nat : k <= m => f[k] = g[k]}
<1>1. 0 \in Good
  BY DEF Unrolls
<1>2. ASSUME NEW k \in Nat, k \in Good PROVE k + 1 \in Good
  <2> SUFFICES ASSUME k + 1 <= m PROVE f[k + 1] = g[k + 1]
    OBVIOUS
  <2>1. PICK i \in 1 .. m : i = k + 1 /\ i - 1 = k /\ i \in 1 .. n
    OBVIOUS
  <2>2. f[k] = g[k] /\ g[k] \in A
    BY <1>2
  <2>3. f[i] = step[<<f[k], i>>] /\ g[i] = other[<<g[k], i>>]
    BY <2>1 DEF Unrolls
  <2> QED
    BY <2>1, <2>2, <2>3 DEF Alike
<1>3. Nat \subseteq Good
  <2> HIDE DEF Good
  <2> QED
    BY <1>1, <1>2, SetInduction
<1> QED
  BY <1>3 DEF Unrolls

\* Numbers, added up one after the other
TotalStep(s) == [ax \in Nat \X (1 .. Len(s)) |-> ax[1] + s[ax[2]]]

\* A total is a fold of one number after the other.
LEMMA TotalUnrolls ==
  ASSUME NEW lengths \in Seq(Nat)
  PROVE  \E f \in [0 .. Len(lengths) -> Nat] :
           Unrolls(f, 0, TotalStep(lengths), Len(lengths), Total(lengths))
<1> DEFINE Stepped(g, s) == IF s = {} THEN 0 ELSE g[s \ {Max(s)}] + lengths[Max(s)]
<1>0. PICK n, A, none, step : n = Len(lengths) /\ A = Nat /\ none = 0 /\ step = TotalStep(lengths)
  OBVIOUS
<1>1. /\ n \in Nat /\ DOMAIN lengths = 1 .. n /\ none \in A /\ step \in [A \X (1 .. n) -> A]
      /\ \A a \in A : \A i \in 1 .. n : step[<<a, i>>] = a + lengths[i]
  BY <1>0 DEF TotalStep
<1>2. PICK g \in [SUBSET (1 .. n) -> A] : FoldsWith(g, none, step, n)
  BY <1>1, FoldExists
<1>3. ASSUME NEW s \in SUBSET (1 .. n) PROVE g[s] = Stepped(g, s)
  <2>1. CASE s = {}
    BY <2>1, <1>0, <1>2 DEF FoldsWith
  <2>2. CASE s # {}
    BY <2>2, <1>1, <1>2 DEF FoldsWith
  <2> QED
    BY <2>1, <2>2
<1>4. g = [s \in SUBSET (1 .. n) |-> Stepped(g, s)]
  <2> HIDE DEF Stepped
  <2> QED
    BY <1>2, <1>3
<1> DEFINE iter == CHOOSE f : f = [s \in SUBSET (1 .. n) |-> Stepped(f, s)]
<1>5. iter = [s \in SUBSET (1 .. n) |-> Stepped(iter, s)]
  <2> HIDE DEF Stepped
  <2> QED
    BY <1>4
<1>6. Total(lengths) = iter[1 .. n]
  BY <1>0, <1>1 DEF Total, FoldLeft, MapThenFoldSet
<1> HIDE DEF iter
<1>7. iter[{}] = none
  BY <1>0, <1>5
<1>8. ASSUME NEW i \in 1 .. n, iter[1 .. i - 1] \in A PROVE iter[1 .. i] = step[<<iter[1 .. i - 1], i>>]
  <2>1. Max(1 .. i) = i /\ (1 .. i) \ {i} = 1 .. i - 1
    BY <1>1, MaxOfRange
  <2>2. 1 .. i \in SUBSET (1 .. n) /\ 1 .. i # {} /\ i \in Nat \ {0}
    <3>1. i \in 1 .. i /\ i \in Nat \ {0} /\ \A k \in 1 .. i : k \in 1 .. n
      BY <1>1
    <3> QED
      BY <3>1
  <2>3. iter[1 .. i] = iter[1 .. i - 1] + lengths[i]
    BY <2>1, <2>2, <1>5
  <2> QED
    BY <2>3, <1>1, <1>8
<1>9. PICK f \in [0 .. n -> A] : Unrolls(f, none, step, n, iter[1 .. n])
  <2>1. Iterates(iter, A, none, step, n)
    BY <1>7, <1>8 DEF Iterates
  <2> QED
    BY <2>1, <1>1, FoldUnrolls
<1> QED
  BY <1>0, <1>6, <1>9

\* The total grows by what is appended.
LEMMA TotalOfAppended ==
  ASSUME NEW lengths \in Seq(Nat), NEW k \in Nat
  PROVE  /\ Append(lengths, k) \in Seq(Nat) /\ Total(lengths) \in Nat
         /\ Total(Append(lengths, k)) = Total(lengths) + k
<1>0. PICK more : more = Append(lengths, k)
  OBVIOUS
<1>1. PICK n \in Nat, m \in Nat : n = Len(lengths) /\ m = n + 1
  OBVIOUS
<1>2. /\ more \in Seq(Nat) /\ Len(more) = m /\ more[m] = k
      /\ \A i \in 1 .. n : more[i] = lengths[i] /\ i \in 1 .. m
  BY <1>0, <1>1
<1>a. PICK none, A : none = 0 /\ A = Nat
  OBVIOUS
<1>3. PICK f \in [0 .. m -> A] : Unrolls(f, none, TotalStep(more), m, Total(more))
  BY <1>a, <1>2, TotalUnrolls
<1>4. PICK g \in [0 .. n -> A] : Unrolls(g, none, TotalStep(lengths), n, Total(lengths))
  BY <1>a, <1>1, TotalUnrolls
<1>5. /\ Alike(TotalStep(more), TotalStep(lengths), A, n)
      /\ \A a \in A : TotalStep(more)[<<a, m>>] = a + k
  <2>1. m \in 1 .. m /\ \A i \in 1 .. n : i \in 1 .. m
    BY <1>1, <1>2
  <2> QED
    BY <2>1, <1>a, <1>1, <1>2 DEF TotalStep, Alike
<1>b. n \in 0 .. m
  BY <1>1
<1>6. PICK step, other : step = TotalStep(more) /\ other = TotalStep(lengths)
  OBVIOUS
<1>7. f[n] = Total(lengths)
  BY <1>a, <1>b, <1>3, <1>4, <1>5, <1>6, FoldsAgree
<1>8. f[m] = f[n] + k /\ f[n] \in Nat
  <2>1. m \in 1 .. m /\ m - 1 = n /\ n \in 0 .. m
    BY <1>1
  <2> QED
    BY <2>1, <1>a, <1>3, <1>5 DEF Unrolls
<1> QED
  BY <1>0, <1>a, <1>2, <1>3, <1>4, <1>7, <1>8 DEF Unrolls

\* Induction over sequences, appending an element at a time
LEMMA SeqInduction ==
  ASSUME NEW A, NEW S, <<>> \in S, \A s \in Seq(A) : s \in S => \A a \in A : Append(s, a) \in S
  PROVE  Seq(A) \subseteq S
<1> DEFINE Good == {m \in Nat : \A s \in Seq(A) : Len(s) = m => s \in S}
<1>1. 0 \in Good
  OBVIOUS
<1>2. ASSUME NEW m \in Nat, m \in Good PROVE m + 1 \in Good
  <2> SUFFICES ASSUME NEW s \in Seq(A), Len(s) = m + 1 PROVE s \in S
    OBVIOUS
  <2> DEFINE r == SubSeq(s, 1, Len(s) - 1)
  <2>1. s # <<>>
    OBVIOUS
  <2>2. r \in Seq(A) /\ Len(r) = m /\ s[Len(s)] \in A /\ s = Append(r, s[Len(s)])
    BY <2>1
  <2>3. r \in S
    BY <1>2, <2>2
  <2> HIDE DEF r
  <2> QED
    BY <2>2, <2>3
<1>3. Nat \subseteq Good
  <2> HIDE DEF Good
  <2> QED
    BY <1>1, <1>2, SetInduction
<1>4. \A s \in Seq(A) : Len(s) \in Nat
  OBVIOUS
<1> QED
  BY <1>3, <1>4

\* Lengths that are struck out leave the others in their order.
ListedStep(s) == [ax \in Seq(Nat) \X (1 .. Len(s)) |-> IF s[ax[2]] = 0 THEN ax[1] ELSE Append(ax[1], s[ax[2]])]

\* Striking out is a fold too.
LEMMA ListedUnrolls ==
  ASSUME NEW lengths \in Seq(Nat)
  PROVE  \E f \in [0 .. Len(lengths) -> Seq(Nat)] :
           Unrolls(f, <<>>, ListedStep(lengths), Len(lengths), Listed(lengths))
<1> DEFINE Stepped(g, s) ==
             IF s = {} THEN <<>>
             ELSE IF lengths[Max(s)] = 0 THEN g[s \ {Max(s)}] ELSE Append(g[s \ {Max(s)}], lengths[Max(s)])
<1>0. PICK n, A, none, step : n = Len(lengths) /\ A = Seq(Nat) /\ none = <<>> /\ step = ListedStep(lengths)
  OBVIOUS
<1>1. /\ n \in Nat /\ DOMAIN lengths = 1 .. n /\ none \in A /\ step \in [A \X (1 .. n) -> A]
      /\ \A a \in A : \A i \in 1 .. n :
           step[<<a, i>>] = IF lengths[i] = 0 THEN a ELSE Append(a, lengths[i])
  <2>1. \A a \in Seq(Nat) : \A i \in 1 .. Len(lengths) :
          (IF lengths[i] = 0 THEN a ELSE Append(a, lengths[i])) \in Seq(Nat)
    OBVIOUS
  <2> QED
    BY <1>0, <2>1 DEF ListedStep
<1>2. PICK g \in [SUBSET (1 .. n) -> A] : FoldsWith(g, none, step, n)
  BY <1>1, FoldExists
<1>3. ASSUME NEW s \in SUBSET (1 .. n) PROVE g[s] = Stepped(g, s)
  <2>1. CASE s = {}
    BY <2>1, <1>0, <1>2 DEF FoldsWith
  <2>2. CASE s # {}
    BY <2>2, <1>1, <1>2 DEF FoldsWith
  <2> QED
    BY <2>1, <2>2
<1>4. g = [s \in SUBSET (1 .. n) |-> Stepped(g, s)]
  <2> HIDE DEF Stepped
  <2> QED
    BY <1>2, <1>3
<1> DEFINE iter == CHOOSE f : f = [s \in SUBSET (1 .. n) |-> Stepped(f, s)]
<1>5. iter = [s \in SUBSET (1 .. n) |-> Stepped(iter, s)]
  <2> HIDE DEF Stepped
  <2> QED
    BY <1>4
<1>6. Listed(lengths) = iter[1 .. n]
  BY <1>0, <1>1 DEF Listed, FoldLeft, MapThenFoldSet
<1> HIDE DEF iter
<1>7. iter[{}] = none
  BY <1>0, <1>5
<1>8. ASSUME NEW i \in 1 .. n, iter[1 .. i - 1] \in A PROVE iter[1 .. i] = step[<<iter[1 .. i - 1], i>>]
  <2>1. Max(1 .. i) = i /\ (1 .. i) \ {i} = 1 .. i - 1
    BY <1>1, MaxOfRange
  <2>2. 1 .. i \in SUBSET (1 .. n) /\ 1 .. i # {} /\ i \in Nat \ {0}
    <3>1. i \in 1 .. i /\ i \in Nat \ {0} /\ \A k \in 1 .. i : k \in 1 .. n
      BY <1>1
    <3> QED
      BY <3>1
  <2>3. iter[1 .. i] = IF lengths[i] = 0 THEN iter[1 .. i - 1] ELSE Append(iter[1 .. i - 1], lengths[i])
    BY <2>1, <2>2, <1>5
  <2> QED
    BY <2>3, <1>1, <1>8
<1>9. PICK f \in [0 .. n -> A] : Unrolls(f, none, step, n, iter[1 .. n])
  <2>1. Iterates(iter, A, none, step, n)
    BY <1>7, <1>8 DEF Iterates
  <2> QED
    BY <2>1, <1>1, FoldUnrolls
<1> QED
  BY <1>0, <1>6, <1>9

\* What is appended stays unless it is nothing.
LEMMA ListedOfAppended ==
  ASSUME NEW lengths \in Seq(Nat), NEW k \in Nat
  PROVE  /\ Listed(lengths) \in Seq(Nat)
         /\ Listed(Append(lengths, k)) = IF k = 0 THEN Listed(lengths) ELSE Append(Listed(lengths), k)
<1>0. PICK more : more = Append(lengths, k)
  OBVIOUS
<1>1. PICK n \in Nat, m \in Nat : n = Len(lengths) /\ m = n + 1
  OBVIOUS
<1>2. /\ more \in Seq(Nat) /\ Len(more) = m /\ more[m] = k
      /\ \A i \in 1 .. n : more[i] = lengths[i] /\ i \in 1 .. m
  BY <1>0, <1>1
<1>a. PICK none, A : none = <<>> /\ A = Seq(Nat)
  OBVIOUS
<1>3. PICK f \in [0 .. m -> A] : Unrolls(f, none, ListedStep(more), m, Listed(more))
  BY <1>a, <1>2, ListedUnrolls
<1>4. PICK g \in [0 .. n -> A] : Unrolls(g, none, ListedStep(lengths), n, Listed(lengths))
  BY <1>a, <1>1, ListedUnrolls
<1>5. /\ Alike(ListedStep(more), ListedStep(lengths), A, n)
      /\ \A a \in A : ListedStep(more)[<<a, m>>] = IF k = 0 THEN a ELSE Append(a, k)
  BY <1>a, <1>1, <1>2 DEF ListedStep, Alike
<1>b. n \in 0 .. m
  BY <1>1
<1>6. PICK step, other : step = ListedStep(more) /\ other = ListedStep(lengths)
  OBVIOUS
<1>7. f[n] = Listed(lengths)
  BY <1>a, <1>b, <1>3, <1>4, <1>5, <1>6, FoldsAgree
<1>8. f[m] = (IF k = 0 THEN f[n] ELSE Append(f[n], k)) /\ f[n] \in A
  <2>1. m \in 1 .. m /\ m - 1 = n /\ n \in 0 .. m
    BY <1>1
  <2> QED
    BY <2>1, <1>a, <1>3, <1>5 DEF Unrolls
<1> QED
  BY <1>0, <1>a, <1>2, <1>3, <1>4, <1>7, <1>8 DEF Unrolls

\* Nothing adds up to nothing.
LEMMA TotalOfNothing == Total(<<>>) = 0
<1>1. PICK A, none, nothing : A = Nat /\ none = 0 /\ nothing = <<>>
  OBVIOUS
<1>2. nothing \in Seq(Nat) /\ Len(nothing) = 0
  BY <1>1
<1>3. \E f \in [0 .. Len(nothing) -> Nat] : Unrolls(f, 0, TotalStep(nothing), Len(nothing), Total(nothing))
  BY <1>2, TotalUnrolls
<1> QED
  BY <1>1, <1>2, <1>3 DEF Unrolls

\* Of nothing, nothing is left.
LEMMA ListedOfNothing == Listed(<<>>) = <<>>
<1>1. PICK nothing : nothing = <<>>
  OBVIOUS
<1>2. nothing \in Seq(Nat) /\ Len(nothing) = 0
  BY <1>1
<1>3. \E f \in [0 .. Len(nothing) -> Seq(Nat)] : Unrolls(f, <<>>, ListedStep(nothing), Len(nothing), Listed(nothing))
  BY <1>2, ListedUnrolls
<1> QED
  BY <1>1, <1>2, <1>3 DEF Unrolls

\* Tags that are not in a text are lengths.
LEMMA MissingAre ==
  ASSUME NEW t, NEW tags \in Seq(Nat)
  PROVE  Missing(t, tags) \in Seq(Nat)
<1> DEFINE left == [i \in DOMAIN tags |->
            IF \E j \in DOMAIN t : t[j].kind = "tag" /\ t[j].whole /\ t[j].len = tags[i] + 1
            THEN 0 ELSE tags[i]]
<1>1. left \in [1 .. Len(tags) -> Nat]
  OBVIOUS
<1>2. left \in Seq(Nat)
  BY <1>1
<1>3. Missing(t, tags) = Listed(left)
  BY DEF Missing
<1> HIDE DEF left
<1>4. PICK k \in Nat : k = 0
  OBVIOUS
<1> QED
  BY <1>2, <1>3, <1>4, ListedOfAppended

\* A draft without tags misses none.
LEMMA NothingIsMissing ==
  ASSUME NEW t
  PROVE  Missing(t, <<>>) = <<>>
<1>1. Missing(t, <<>>) = Listed(<<>>)
  BY DEF Missing
<1> QED
  BY <1>1, ListedOfNothing

\* The URLs among the pieces of a text, which are in it
UrlLengths(t) == [i \in DOMAIN t |-> IF IsUrl(t[i]) THEN t[i].len ELSE 0]

UrlsIn(t) ==
  /\ UrlLengths(t) \in Seq(Nat) /\ Urls(t) \in Seq(Nat)
  /\ Total(Urls(t)) \in Nat /\ Total(Urls(t)) <= Size(t)

\* A piece is a URL or is not.
LEMMA UrlLengthsOfAppended ==
  ASSUME NEW t \in Text, UrlLengths(t) \in Seq(Nat), NEW p \in Pieces
  PROVE  UrlLengths(Append(t, p)) = Append(UrlLengths(t), IF IsUrl(p) THEN p.len ELSE 0)
<1>1. PICK n, more, s :
        n = (IF IsUrl(p) THEN p.len ELSE 0) /\ more = Append(t, p) /\ s = UrlLengths(t)
  OBVIOUS
<1>2. t \in Seq(Pieces) /\ Len(t) \in Nat /\ DOMAIN t = 1 .. Len(t)
  BY TextIs DEF Text
<1>3. DOMAIN more = 1 .. Len(t) + 1 /\ more[Len(t) + 1] = p /\ \A i \in 1 .. Len(t) : more[i] = t[i]
  BY <1>1, <1>2
<1>4. s \in Seq(Nat) /\ Len(s) = Len(t)
  BY <1>1, <1>2 DEF UrlLengths
<1>5. n \in Nat
  BY <1>1 DEF Pieces
<1>6. PICK longer : longer = Append(s, n)
  OBVIOUS
<1>7. /\ longer \in Seq(Nat) /\ Len(longer) = Len(t) + 1
      /\ longer[Len(t) + 1] = n /\ \A i \in 1 .. Len(t) : longer[i] = s[i]
  BY <1>2, <1>4, <1>5, <1>6
<1>8. UrlLengths(more) = [i \in 1 .. Len(t) + 1 |-> IF IsUrl(more[i]) THEN more[i].len ELSE 0]
  BY <1>3 DEF UrlLengths
<1>9. ASSUME NEW i \in 1 .. Len(t) + 1
      PROVE  longer[i] = IF IsUrl(more[i]) THEN more[i].len ELSE 0
  <2>1. CASE i = Len(t) + 1
    BY <2>1, <1>1, <1>3, <1>7
  <2>2. CASE i # Len(t) + 1
    <3>1. i \in 1 .. Len(t)
      BY <2>2, <1>2
    <3>2. s[i] = IF IsUrl(t[i]) THEN t[i].len ELSE 0
      BY <3>1, <1>1, <1>2 DEF UrlLengths
    <3> QED
      BY <3>1, <3>2, <1>3, <1>7
  <2> QED
    BY <2>1, <2>2
<1>10. longer = [i \in 1 .. Len(t) + 1 |-> longer[i]]
  BY <1>7
<1>11. UrlLengths(more) = longer
  BY <1>8, <1>9, <1>10
<1> QED
  BY <1>1, <1>6, <1>11

\* The URLs of a text are no longer than the text.
LEMMA UrlsAreIn ==
  ASSUME NEW t \in Text
  PROVE  UrlsIn(t)
<1> DEFINE S == {u \in Text : UrlsIn(u)}
<1>u. \A u : Urls(u) = Listed(UrlLengths(u))
  BY DEF Urls, UrlLengths
<1>1. <<>> \in S
  <2>1. PICK nothing : nothing = <<>>
    OBVIOUS
  <2>2. UrlLengths(nothing) = nothing /\ nothing \in Seq(Nat) /\ nothing \in Text
    BY <2>1 DEF UrlLengths, Text
  <2>3. Listed(nothing) = nothing /\ Total(nothing) = 0 /\ Size(nothing) = 0
    BY <2>1, ListedOfNothing, TotalOfNothing, SizeOfNothing
  <2>4. Urls(nothing) = nothing
    BY <2>2, <2>3, <1>u
  <2>5. UrlsIn(nothing)
    BY <2>2, <2>3, <2>4 DEF UrlsIn
  <2> QED
    BY <2>1, <2>2, <2>5
<1>2. ASSUME NEW u \in Text, u \in S, NEW p \in Pieces PROVE Append(u, p) \in S
  <2>0. PICK n \in Nat : n = IF IsUrl(p) THEN p.len ELSE 0
    BY DEF Pieces
  <2>1. PICK more : more = Append(u, p)
    OBVIOUS
  <2>2. p.len \in Nat /\ p.sep \in Nat /\ n <= p.len
    BY <2>0 DEF Pieces
  <2>3. UrlsIn(u)
    BY <1>2
  <2>4. UrlLengths(more) = Append(UrlLengths(u), n) /\ UrlLengths(u) \in Seq(Nat)
    BY <2>0, <2>1, <2>3, UrlLengthsOfAppended DEF UrlsIn
  <2>5. UrlLengths(more) \in Seq(Nat)
    BY <2>4
  <2>6. Urls(more) = IF n = 0 THEN Urls(u) ELSE Append(Urls(u), n)
    BY <2>4, <1>u, ListedOfAppended
  <2>7. more \in Text /\ Size(more) >= Size(u) + n /\ Size(u) \in Nat /\ Size(more) \in Nat
    <3>1. Size(u) \in Nat /\ (u = <<>> => Size(u) = 0)
      BY SizeIsNatural, SizeOfNothing
    <3>2. more \in Text /\ Size(more) = IF u = <<>> THEN p.len ELSE Size(u) + p.sep + p.len
      BY <2>1, SizeOfAppended
    <3> QED
      BY <3>1, <3>2, <2>2
  <2>8. Urls(more) \in Seq(Nat) /\ Total(Urls(more)) = Total(Urls(u)) + n
    <3>1. CASE n = 0
      BY <3>1, <2>3, <2>6 DEF UrlsIn
    <3>2. CASE n # 0
      BY <3>2, <2>3, <2>6, TotalOfAppended DEF UrlsIn
    <3> QED
      BY <3>1, <3>2
  <2>9. UrlsIn(more)
    BY <2>3, <2>5, <2>7, <2>8 DEF UrlsIn
  <2> QED
    BY <2>1, <2>7, <2>9
<1>3. Text \subseteq S
  <2> HIDE DEF S
  <2> QED
    BY <1>1, <1>2, TextInduction
<1> QED
  BY <1>3

\* Lengths that are at least so much are together at least as often so much.
LEMMA TotalAtLeast ==
  ASSUME NEW lengths \in Seq(Nat), \A i \in DOMAIN lengths : lengths[i] >= 23
  PROVE  Total(lengths) >= 23 * Len(lengths)
<1> DEFINE S == {s \in Seq(Nat) : (\A i \in DOMAIN s : s[i] >= 23) => Total(s) >= 23 * Len(s)}
<1>1. <<>> \in S
  BY TotalOfNothing
<1>2. ASSUME NEW s \in Seq(Nat), s \in S, NEW k \in Nat PROVE Append(s, k) \in S
  <2>1. Append(s, k) \in Seq(Nat) /\ Total(s) \in Nat /\ Total(Append(s, k)) = Total(s) + k
    BY TotalOfAppended
  <2>2. SUFFICES ASSUME \A i \in DOMAIN Append(s, k) : Append(s, k)[i] >= 23
                 PROVE  Total(Append(s, k)) >= 23 * Len(Append(s, k))
    BY <2>1
  <2>3. /\ Len(s) \in Nat /\ DOMAIN s = 1 .. Len(s)
        /\ DOMAIN Append(s, k) = 1 .. Len(s) + 1 /\ Len(Append(s, k)) = Len(s) + 1
        /\ Append(s, k)[Len(s) + 1] = k /\ \A i \in 1 .. Len(s) : Append(s, k)[i] = s[i]
    OBVIOUS
  <2>4. \A i \in DOMAIN s : s[i] >= 23
    BY <2>2, <2>3
  <2>5. k >= 23
    <3>1. Len(s) + 1 \in DOMAIN Append(s, k)
      BY <2>3
    <3> QED
      BY <3>1, <2>2, <2>3
  <2>6. Total(s) >= 23 * Len(s)
    BY <1>2, <2>4
  <2> QED
    BY <2>1, <2>3, <2>5, <2>6
<1>3. Seq(Nat) \subseteq S
  <2> HIDE DEF S
  <2> QED
    BY <1>1, <1>2, SeqInduction
<1> QED
  BY <1>3

\* A text takes some room.
LEMMA TextTakesRoom ==
  ASSUME NEW t \in Text, t # <<>>
  PROVE  Size(t) > 0
<1> DEFINE S == {u \in Text : u = <<>> \/ Size(u) > 0}
<1>1. <<>> \in S
  BY DEF Text
<1>2. ASSUME NEW u \in Text, u \in S, NEW p \in Pieces PROVE Append(u, p) \in S
  <2>1. p.sep \in Nat /\ p.len \in Nat \ {0} /\ Size(u) \in Nat
    BY SizeIsNatural DEF Pieces
  <2>2. Append(u, p) \in Text /\ Size(Append(u, p)) = IF u = <<>> THEN p.len ELSE Size(u) + p.sep + p.len
    BY SizeOfAppended
  <2> QED
    BY <2>1, <2>2
<1>3. Text \subseteq S
  <2> HIDE DEF S
  <2> QED
    BY <1>1, <1>2, TextInduction
<1> QED
  BY <1>3

\* What is cut to a budget is still there.
LEMMA TruncateStays ==
  ASSUME NEW t \in Text, t # <<>>, NEW max \in Nat \ {0}, NEW word \in Nat \ {0}
  PROVE  Truncate(t, max, word) # <<>>
<1>1. CASE Size(t) <= max
  BY <1>1, TruncateFits
<1>2. CASE ~(Size(t) <= max)
  <2>1. PICK space \in Int : space = LastSpace(t, max, word)
    BY SpaceIsBefore
  <2>2. PICK n \in Nat \ {0} : Truncate(t, max, word) = Cut(t, n, word)
    <3>1. Truncate(t, max, word) = Cut(t, IF 10 * space > 8 * max THEN space ELSE max, word)
      BY <1>2, <2>1 DEF Truncate
    <3> QED
      BY <3>1
  <2>3. Size(Cut(t, n, word)) \in 1 .. n
    BY CutFits
  <2> QED
    BY <2>2, <2>3, SizeOfNothing
<1> QED
  BY <1>1, <1>2

\* So is what is appended to.
LEMMA AppendedStays ==
  ASSUME NEW t \in Text, t # <<>>, NEW suffix \in Text, NEW max \in Nat \ {0}, NEW word \in Nat \ {0}, NEW sep \in Nat
  PROVE  AppendWithin(t, suffix, max, word, sep) # <<>>
<1>1. CASE suffix = <<>>
  BY <1>1 DEF AppendWithin
<1>2. CASE suffix # <<>> /\ Size(suffix) + sep >= max
  <2>1. AppendWithin(t, suffix, max, word, sep) = Truncate(suffix, max, word)
    BY <1>2 DEF AppendWithin
  <2> QED
    BY <1>2, <2>1, TruncateStays
<1>3. CASE suffix # <<>> /\ ~(Size(suffix) + sep >= max)
  <2>1. Size(suffix) \in Nat
    BY SizeIsNatural
  <2>r. PICK room \in Int : room = max - Size(suffix) - sep
    BY <2>1
  <2>2. PICK base, end : base = Truncate(t, room, word) /\ end = [suffix EXCEPT ![1].sep = sep]
    OBVIOUS
  <2>3. AppendWithin(t, suffix, max, word, sep) = base \o end
    BY <1>3, <2>r, <2>2 DEF AppendWithin
  <2>4. base \in Text
    BY <2>2, TruncateFits
  <2>5. end \in Text /\ end # <<>>
    BY <1>3, <2>2, SeparatorIsNotCounted
  <2>6. Len(base \o end) = Len(base) + Len(end) /\ Len(base) \in Nat /\ Len(end) \in Nat /\ Len(end) # 0
    BY <2>4, <2>5 DEF Text
  <2> QED
    BY <2>3, <2>6
<1> QED
  BY <1>1, <1>2, <1>3

(***************************************************************************)
(* Texts that say something, and drafts that fit                           *)
(***************************************************************************)
\* A set of numbers that is not empty has a smallest one.
LEMMA Smallest ==
  ASSUME NEW S, S \subseteq Nat, S # {}, NEW n \in Nat, \A s \in S : s <= n
  PROVE  \E s \in S : \A r \in S : s <= r
<1> DEFINE turned == {n - s : s \in S}
<1>1. turned \subseteq Int /\ turned # {} /\ \A r \in turned : r <= n
  <2>1. \A s \in S : n - s \in Int /\ n - s <= n
    OBVIOUS
  <2> QED
    BY <2>1
<1>2. PICK r \in turned : \A q \in turned : q <= r
  <2>1. n \in Int
    OBVIOUS
  <2> HIDE DEF turned
  <2> QED
    BY <1>1, <2>1, Greatest
<1>3. PICK s \in S : \A r0 \in S : n - r0 <= n - s
  BY <1>2
<1> QED
  BY <1>3

\* The first entries of a list
LEMMA Beginning ==
  ASSUME NEW s \in Seq(Nat), NEW n \in 0 .. Len(s)
  PROVE  /\ SubSeq(s, 1, n) \in Seq(Nat) /\ Len(SubSeq(s, 1, n)) = n
         /\ \A i \in 1 .. n : SubSeq(s, 1, n)[i] = s[i]
OBVIOUS

\* What the last check makes of a draft: entries go, from the end
Fewer(s, d) ==
  /\ s.text = d.text /\ s.title = d.title
  /\ s.tags \in Seq(Nat) /\ Len(s.tags) <= Len(d.tags) /\ \A i \in DOMAIN s.tags : s.tags[i] = d.tags[i]
  /\ s.mentions \in Seq(Nat) /\ Len(s.mentions) <= Len(d.mentions)

\* What is left of a draft without its n last tags and mentions.
LEMMA WithoutIs ==
  ASSUME NEW d, IsDraft(d), d.tags \in Seq(Nat), d.mentions \in Seq(Nat), NEW n \in Nat
  PROVE  /\ Fewer(Without(d, n), d)
         /\ n >= Len(d.tags) + Len(d.mentions) => Without(d, n).tags = <<>> /\ Without(d, n).mentions = <<>>
<1>1. PICK tags \in Seq(Nat), mentions \in Seq(Nat) : tags = d.tags /\ mentions = d.mentions
  OBVIOUS
<1>2. Len(tags) \in Nat /\ Len(mentions) \in Nat
  BY <1>1
<1>3. PICK m \in 0 .. Len(mentions) : m = Most(0, Len(d.mentions) - n)
  <2>1. Most(0, Len(mentions) - n) \in 0 .. Len(mentions)
    BY <1>2 DEF Most
  <2> QED
    BY <1>1, <2>1
<1>4. PICK g \in 0 .. Len(tags) : g = Most(0, Len(d.tags) - Most(0, n - Len(d.mentions)))
  <2>1. Most(0, Len(tags) - Most(0, n - Len(mentions))) \in 0 .. Len(tags)
    BY <1>2 DEF Most
  <2> QED
    BY <1>1, <2>1
<1>5. n >= Len(d.tags) + Len(d.mentions) => m = 0 /\ g = 0
  <2>1. PICK i \in Nat, j \in Nat : i = Len(tags) /\ j = Len(mentions)
    BY <1>2
  <2>2. n >= i + j => Most(0, j - n) = 0 /\ Most(0, i - Most(0, n - j)) = 0
    BY DEF Most
  <2> QED
    BY <1>1, <1>3, <1>4, <2>1, <2>2
<1>6. PICK s : s = Without(d, n)
  OBVIOUS
<1>7. /\ s.text = d.text /\ s.title = d.title
      /\ s.tags = SubSeq(tags, 1, g) /\ s.mentions = SubSeq(mentions, 1, m)
  BY <1>1, <1>3, <1>4, <1>6 DEF Without, IsDraft, Fields
<1>8. /\ SubSeq(tags, 1, g) \in Seq(Nat) /\ Len(SubSeq(tags, 1, g)) = g
      /\ \A i \in 1 .. g : SubSeq(tags, 1, g)[i] = tags[i]
      /\ SubSeq(mentions, 1, m) \in Seq(Nat) /\ Len(SubSeq(mentions, 1, m)) = m
  BY Beginning
<1>9. g = 0 => SubSeq(tags, 1, g) = <<>>
  BY <1>8
<1>10. m = 0 => SubSeq(mentions, 1, m) = <<>>
  BY <1>8
<1>11. Fewer(s, d)
  BY <1>1, <1>2, <1>7, <1>8 DEF Fewer
<1> QED
  BY <1>5, <1>6, <1>7, <1>9, <1>10, <1>11

\* Unless there are more than it leaves out, what is left fits.
LEMMA SettledFits ==
  ASSUME NEW d, IsDraft(d), d.tags \in Seq(Nat), d.mentions \in Seq(Nat), NEW f, f.limit \in Nat,
         Size(d.text) <= f.limit
  PROVE  /\ Fewer(Settled(d, f), d)
         /\ Len(d.tags) + Len(d.mentions) <= 64 => Fits(Settled(d, f), f)
<1> DEFINE Enough(n) == n = 64 \/ Fits(Without(d, n), f)
           S == {n \in 0 .. 64 : Enough(n)}
<1>1. S \subseteq Nat /\ 64 \in S /\ \A s \in S : s <= 64
  <2>1. Enough(64) /\ 64 \in 0 .. 64
    OBVIOUS
  <2>2. \A s \in 0 .. 64 : s \in Nat /\ s <= 64
    OBVIOUS
  <2> HIDE DEF Enough
  <2> QED
    BY <2>1, <2>2
<1>2. \E s \in S : \A r \in S : s <= r
  <2> HIDE DEF S
  <2> QED
    BY <1>1, Smallest
<1>3. \E n \in 0 .. 64 : Enough(n) /\ \A m \in 0 .. n - 1 : ~Enough(m)
  <2>1. PICK s \in S : \A r \in S : s <= r
    BY <1>2
  <2>2. \A m \in 0 .. s - 1 : m \in 0 .. 64 /\ ~(s <= m)
    BY <2>1
  <2>3. \A m \in 0 .. s - 1 : m \notin S
    <3> HIDE DEF S
    <3> QED
      BY <2>1, <2>2
  <2>4. s \in 0 .. 64 /\ Enough(s) /\ \A m \in 0 .. s - 1 : ~Enough(m)
    <3> HIDE DEF Enough
    <3> QED
      BY <2>2, <2>3
  <2> HIDE DEF S, Enough
  <2> QED
    BY <2>4
<1>4. PICK n \in 0 .. 64 : Enough(n) /\ Settled(d, f) = Without(d, n)
  BY <1>3 DEF Settled
<1>5. n \in Nat
  OBVIOUS
<1>6. Fewer(Without(d, n), d)
  BY <1>5, WithoutIs
<1>7. CASE n = 64 /\ Len(d.tags) + Len(d.mentions) <= 64
  <2>1. Without(d, n).tags = <<>> /\ Without(d, n).mentions = <<>> /\ Without(d, n).text = d.text
    BY <1>5, <1>6, <1>7, WithoutIs DEF Fewer
  <2>2. Missing(d.text, <<>>) = <<>>
    BY NothingIsMissing
  <2>3. PICK nothing : nothing = <<>>
    OBVIOUS
  <2>4. nothing \o nothing = nothing
    BY <2>3
  <2>5. Footprint(Without(d, n).text, Without(d, n).tags, Without(d, n).mentions) = 0
    BY <2>1, <2>2, <2>3, <2>4 DEF Footprint
  <2>6. Size(d.text) \in Nat
    BY SizeIsNatural DEF IsDraft
  <2>7. Fits(Without(d, n), f)
    BY <2>1, <2>5, <2>6 DEF Fits
  <2> QED
    BY <2>7, <1>4, <1>6
<1> QED
  BY <1>4, <1>6, <1>7

\* What there is room for in the end is what the platform takes at most.
LEMMA LimitIsKept ==
  ASSUME NEW b, IsBrief(b), NEW f, IsVoice(f), f.limit >= 10
  PROVE  PostHashtagLimit(b, f) <= f.limit
<1>1. MentionReserve(b, f) \in Nat
  <2>1. b.mentions \in Seq(Nat) /\ <<>> \in Seq(Nat)
    BY DEF IsBrief
  <2>2. Mentions(b, f) \in Seq(Nat)
    BY <2>1 DEF Mentions
  <2>3. Total(Mentions(b, f)) \in Nat /\ Len(Mentions(b, f)) \in Nat
    BY <2>2, TotalOfAppended
  <2> QED
    BY <2>3 DEF MentionReserve, ListLength
<1>2. HashtagReserve(b, f) \in Nat /\ f.limit \in Nat
  BY Limits DEF IsVoice
<1> QED
  BY <1>1, <1>2 DEF PreHashtagLimit, PostHashtagLimit, Most

\* Sanitized tags are as many and as long as they may be.
LEMMA SanitizedIs ==
  ASSUME NEW lengths \in Seq(Nat), NEW max \in Nat, NEW longest \in Nat
  PROVE  /\ Sanitized(lengths, max, longest) \in Seq(Nat) /\ Len(Sanitized(lengths, max, longest)) <= max
         /\ \A i \in DOMAIN Sanitized(lengths, max, longest) : Sanitized(lengths, max, longest)[i] <= longest
<1>1. PICK n \in Nat : n = Least(Len(lengths), max) /\ n <= Len(lengths) /\ n <= max
  BY DEF Least
<1>2. PICK tags : tags = [i \in 1 .. n |-> Least(lengths[i], longest)]
  OBVIOUS
<1>3. tags = Sanitized(lengths, max, longest)
  BY <1>1, <1>2 DEF Sanitized
<1>4. \A i \in 1 .. n : Least(lengths[i], longest) \in Nat /\ Least(lengths[i], longest) <= longest
  BY <1>1 DEF Least
<1>5. tags \in [1 .. n -> Nat] /\ DOMAIN tags = 1 .. n /\ \A i \in 1 .. n : tags[i] <= longest
  BY <1>2, <1>4
<1>6. tags \in Seq(Nat) /\ Len(tags) = n
  BY <1>1, <1>5
<1> QED
  BY <1>1, <1>3, <1>5, <1>6

\* Prose of some length is a text.
LEMMA ProseStays ==
  ASSUME NEW n \in Nat \ {0}
  PROVE  Prose(n) \in Text /\ Prose(n) # <<>>
<1>1. Prose(n) = <<Piece("prose", 0, n)>>
  BY DEF Prose
<1>2. n \in Nat
  OBVIOUS
<1> QED
  BY <1>1, <1>2, ProseIsText

\* Nothing is lost when something is put in front of it.
LEMMA SpacedStays ==
  ASSUME NEW s \in Text, NEW t \in Text, t # <<>>
  PROVE  Spaced(s, t) \in Text /\ Spaced(s, t) # <<>>
<1> DEFINE u == [i \in DOMAIN t |-> IF i = 1 THEN [t[i] EXCEPT !.sep = 1] ELSE t[i]]
<1>1. Len(t) \in Nat /\ DOMAIN t = 1 .. Len(t) /\ (\A i \in DOMAIN t : t[i] \in Pieces) /\ Len(t) # 0
  BY TextIs DEF Text
<1>2. \A p \in Pieces : [p EXCEPT !.sep = 1] \in Pieces
  BY DEF Pieces
<1>3. u \in [1 .. Len(t) -> Pieces]
  BY <1>1, <1>2
<1>4. u \in Text /\ Len(u) = Len(t)
  BY <1>1, <1>3 DEF Text
<1> HIDE DEF u
<1>5. Len(s \o u) = Len(s) + Len(t) /\ Len(s) \in Nat
  BY <1>4 DEF Text
<1>6. s \o u # <<>>
  BY <1>1, <1>5
<1>7. Spaced(s, t) # <<>>
  BY <1>6 DEF Spaced, u
<1> QED
  BY <1>7, SpacedIsText

\* What a brief says is never nothing.
LEMMA TemplatesSay ==
  ASSUME campaign \in Campaigns
  PROVE  /\ TemplateBody(campaign.brief) \in Text /\ TemplateBody(campaign.brief) # <<>>
         /\ TemplateTitle(campaign.brief) \in Text /\ TemplateTitle(campaign.brief) # <<>>
         /\ \A text \in Text : text # <<>> => TemplateEmoji(text) \in Text /\ TemplateEmoji(text) # <<>>
<1>1. PICK brief : brief = campaign.brief
  OBVIOUS
<1>2. /\ brief.description \in Nat \ {0} /\ brief.title \in Nat /\ brief.keyword \in Nat
  BY <1>1, CompositionAssumption
<1>3. <<>> \in Text /\ \A n \in Nat : Prose(n) \in Text /\ Prose(n + 1) \in Text
  <2>1. \A n \in Nat : n + 1 \in Nat
    OBVIOUS
  <2> QED
    BY <2>1, ProseIsText DEF Text
<1>4. TemplateBody(brief) \in Text /\ TemplateBody(brief) # <<>>
  <2>1. PICK lead \in Text : lead = IF brief.title = 0 THEN <<>> ELSE Prose(brief.title + 1)
    BY <1>2, <1>3
  <2>2. Prose(brief.description) \in Text /\ Prose(brief.description) # <<>>
    BY <1>2, ProseStays
  <2> QED
    BY <2>1, <2>2, SpacedStays DEF TemplateBody
<1>5. TemplateTitle(brief) \in Text /\ TemplateTitle(brief) # <<>>
  <2>1. PICK lead \in Text : lead = IF brief.keyword = 0 THEN <<>> ELSE Prose(brief.keyword + 1)
    BY <1>2, <1>3
  <2>2. PICK n \in Nat \ {0} : n = IF brief.title = 0 THEN brief.description ELSE brief.title
    BY <1>2
  <2>3. Prose(n) \in Text /\ Prose(n) # <<>>
    BY ProseStays
  <2> QED
    BY <2>1, <2>2, <2>3, SpacedStays DEF TemplateTitle
<1>6. ASSUME NEW text \in Text, text # <<>>
      PROVE  TemplateEmoji(text) \in Text /\ TemplateEmoji(text) # <<>>
  <2>1. Prose(2) \in Text
    BY ProseIsText
  <2> QED
    BY <1>6, <2>1, SpacedStays DEF TemplateEmoji
<1> QED
  BY <1>1, <1>4, <1>5, <1>6

\* Nor is what the template answers.
LEMMA TemplateAnswers ==
  ASSUME campaign \in Campaigns, campaign.provider = "template",
         NEW template \in Text, template # <<>>, NEW max \in Nat \ {0}, NEW text \in Texts(template, max)
  PROVE  text # <<>>
<1>1. PICK word \in Nat \ {0} : word = campaign.brief.word
  BY CampaignIsOne
<1>2. text = Truncate(template, max, word)
  BY <1>1 DEF Texts, Replies, Answering
<1> QED
  BY <1>2, TruncateStays

\* The voices, as far as the platforms hear them
LEMMA Voices ==
  ASSUME NEW p \in DOMAIN Profile, NEW f, f = Profile[p]
  PROVE  /\ p \in {"discord", "bluesky", "mastodon", "reddit", "twitch"}
         /\ p = "discord" => f.limit = 2000 /\ f.title = 256 /\ ~f.titled /\ ~f.titleOnly /\ f.tags = 0 /\ f.linked
                             /\ f.mentions /\ f.longestTag = 40
         /\ p = "bluesky" => f.limit = 300 /\ f.title = 0 /\ ~f.titled /\ ~f.titleOnly /\ f.tags = 2 /\ f.linked
                             /\ f.mentions /\ f.longestTag = 40
         /\ p = "mastodon" => f.limit = 500 /\ f.title = 0 /\ ~f.titled /\ ~f.titleOnly /\ f.tags = 2 /\ f.linked
                              /\ f.mentions /\ f.longestTag = 40
         /\ p = "reddit" => f.limit = 40000 /\ f.title = 300 /\ f.titled /\ ~f.titleOnly /\ f.tags = 0 /\ ~f.linked
                            /\ f.mentions /\ f.longestTag = 40
         /\ p = "twitch" => f.limit = 140 /\ f.title = 140 /\ f.titled /\ f.titleOnly /\ f.tags = 10 /\ ~f.linked
                            /\ ~f.mentions /\ f.longestTag = 25
<1>1. p \in {"discord", "bluesky", "mastodon", "reddit", "twitch"}
  BY DEF Profile
<1>2. /\ Plain.limit = 0 /\ Plain.title = 0 /\ ~Plain.titled /\ ~Plain.titleOnly /\ Plain.tags = 0
      /\ Plain.longestTag = 40 /\ Plain.mentions /\ Plain.linked
      /\ {"limit", "title", "titled", "titleOnly", "tags", "longestTag", "mentions", "linked"} \subseteq DOMAIN Plain
  BY DEF Plain
<1>3. CASE p = "discord"
  <2>1. f = [Plain EXCEPT !.limit = 2000, !.title = 256]
    BY <1>3 DEF Profile
  <2>2. f.limit = 2000 /\ f.title = 256 /\ ~f.titled /\ ~f.titleOnly /\ f.tags = 0 /\ f.linked /\ f.mentions /\ f.longestTag = 40
    BY <1>2, <2>1
  <2> QED
    BY <1>3, <2>2
<1>4. CASE p = "bluesky"
  <2>1. f = [Plain EXCEPT !.limit = 300, !.tags = 2, !.tagSep = 1]
    BY <1>4 DEF Profile
  <2>2. f.limit = 300 /\ f.title = 0 /\ ~f.titled /\ ~f.titleOnly /\ f.tags = 2 /\ f.linked /\ f.mentions /\ f.longestTag = 40
    BY <1>2, <2>1
  <2> QED
    BY <1>4, <2>2
<1>5. CASE p = "mastodon"
  <2>1. f = [Plain EXCEPT !.limit = 500, !.tags = 2, !.tagSep = 2]
    BY <1>5 DEF Profile
  <2>2. f.limit = 500 /\ f.title = 0 /\ ~f.titled /\ ~f.titleOnly /\ f.tags = 2 /\ f.linked /\ f.mentions /\ f.longestTag = 40
    BY <1>2, <2>1
  <2> QED
    BY <1>5, <2>2
<1>6. CASE p = "reddit"
  <2>1. f = [Plain EXCEPT !.limit = 40000, !.title = 300, !.titled = TRUE, !.emoji = FALSE,
                 !.cta = FALSE, !.linked = FALSE]
    BY <1>6 DEF Profile
  <2>2. f.limit = 40000 /\ f.title = 300 /\ f.titled /\ ~f.titleOnly /\ f.tags = 0 /\ ~f.linked /\ f.mentions /\ f.longestTag = 40
    BY <1>2, <2>1
  <2> QED
    BY <1>6, <2>2
<1>7. CASE p = "twitch"
  <2>1. f = [Plain EXCEPT !.limit = 140, !.title = 140, !.titled = TRUE, !.titleOnly = TRUE,
                 !.tags = 10, !.longestTag = 25, !.mentions = FALSE, !.emoji = FALSE,
                 !.cta = FALSE, !.linked = FALSE]
    BY <1>7 DEF Profile
  <2>2. f.limit = 140 /\ f.title = 140 /\ f.titled /\ f.titleOnly /\ f.tags = 10 /\ ~f.linked /\ ~f.mentions /\ f.longestTag = 25
    BY <1>2, <2>1
  <2> QED
    BY <1>7, <2>2
<1> QED
  BY <1>1, <1>3, <1>4, <1>5, <1>6, <1>7

(***************************************************************************)
(* What generation makes of a draft, stage by stage                        *)
(***************************************************************************)
\* The stages before there is a draft, and those after which it is finished
Unwritten == {"absent", "media", "link", "drawn", "tags"}
Ended == {"validate", "enqueued", "rejected"}

LongestTitle(f) == IF f.title > 0 THEN f.title ELSE f.limit

\* The tags and the mentions of a draft, of which there may be n
Sane(d, f, n) ==
  /\ d.tags \in Seq(Nat) /\ Len(d.tags) <= f.tags /\ \A i \in DOMAIN d.tags : d.tags[i] <= f.longestTag
  /\ d.mentions \in Seq(Nat) /\ Len(d.mentions) <= n /\ (~f.mentions => d.mentions = <<>>)

Titled(d, f, c) ==
  d.title \in Nat /\ d.title <= LongestTitle(f) /\ (f.titled /\ c.provider = "template" => d.title > 0)

Fitting(d, f, c) ==
  ~f.titleOnly => /\ Size(d.text) <= f.limit
                  /\ Len(c.brief.mentions) <= 62 => Fits(d, f)

\* What a draft d of campaign c is at stage s, for a platform with the voice f
Made(s, d, f, c) ==
  /\ s \in Unwritten => d.text = <<>>
  /\ s \in {"body", "emoji"} => ~f.titleOnly
  /\ s \in {"body", "emoji", "title", "cta"} \cup Ended => Sane(d, f, Len(c.brief.mentions))
  /\ s \in {"title", "cta"} \cup Ended /\ f.titleOnly => d.text = <<>>
  /\ s \in {"emoji", "title", "cta"} \cup Ended /\ ~f.titleOnly /\ c.provider = "template" => d.text # <<>>
  /\ s \in {"cta"} \cup Ended => Titled(d, f, c)
  /\ s \in Ended => Fitting(d, f, c)

DraftsAreMade ==
  \A t \in Targets : Made(stage[t], draft[t], Voice(t), campaign)

\* Each draft is as it was, or is made.
LEMMA MadeOneByOne ==
  ASSUME DraftsAreMade, UNCHANGED campaign,
         \A t \in Targets :
           \/ draft'[t] = draft[t] /\ stage'[t] = stage[t]
           \/ Made(stage'[t], draft'[t], Voice(t), campaign)
  PROVE  DraftsAreMade'
<1> SUFFICES ASSUME NEW t \in Targets
             PROVE  Made(stage'[t], draft'[t], Voice(t)', campaign')
  BY DEF DraftsAreMade
<1>1. Voice(t)' = Voice(t)
  BY DEF Voice, Platform
<1>2. Made(stage[t], draft[t], Voice(t), campaign)
  BY DEF DraftsAreMade
<1> QED
  BY <1>1, <1>2

\* One draft goes on.
LEMMA MadeGoesOn ==
  ASSUME TextInv, DraftsAreMade, UNCHANGED campaign, NEW t \in Targets, NEW to, NEW d, Drafted(t, to, d),
         Made(to, d, Voice(t), campaign)
  PROVE  DraftsAreMade'
<1>1. DOMAIN draft = Targets /\ DOMAIN stage = Targets
  BY DEF TextInv, DraftsAreTexts
<1>2. /\ draft'[t] = d /\ stage'[t] = to
      /\ \A u \in Targets \ {t} : draft'[u] = draft[u] /\ stage'[u] = stage[u]
  BY <1>1 DEF Drafted
<1> QED
  BY <1>2, MadeOneByOne

\* What is known of a target that takes part
LEMMA Speaking ==
  ASSUME TextInv, DraftsAreMade, NEW t \in Targets, stage[t] # "absent"
  PROVE  /\ Made(stage[t], draft[t], Voice(t), campaign) /\ IsDraft(draft[t]) /\ draft[t].text \in Text
         /\ campaign \in Campaigns /\ campaign.brief.word \in Nat \ {0} /\ Brief(t).word = campaign.brief.word
         /\ campaign.brief.mentions \in Seq(Nat) /\ Brief(t).mentions = campaign.brief.mentions
         /\ Brief(t).link \in Nat
         /\ Platform(t) \in DOMAIN Profile /\ Voice(t) = Profile[Platform(t)] /\ IsVoice(Voice(t))
         /\ IsBrief(Brief(t)) /\ Room(t) \in Nat \ {0}
<1>1. /\ IsBrief(Brief(t)) /\ IsVoice(Voice(t)) /\ campaign \in Campaigns /\ IsDraft(draft[t])
      /\ draft[t].text \in Text /\ Brief(t).word = campaign.brief.word
  BY Generating
<1>2. Room(t) \in Nat \ {0}
  BY <1>1, Limits DEF Room
<1> QED
  BY <1>1, <1>2, CampaignIsOne DEF TextInv, DraftsAreTexts, Voice, Brief, IsBrief, DraftsAreMade

\* The tags
LEMMA TagsAreMade ==
  ASSUME TextInv, DraftsAreMade, NEW t \in Targets, GenerateTags(t)
  PROVE  DraftsAreMade'
<1> DEFINE f == Voice(t)
           offered == TemplateTags(campaign.brief, f.tags)
<1>1. stage[t] = "tags" /\ UNCHANGED campaign
  BY DEF GenerateTags
<1>2. /\ Made("tags", draft[t], f, campaign) /\ IsDraft(draft[t]) /\ campaign \in Campaigns
      /\ IsVoice(f) /\ campaign.brief.word \in Nat \ {0} /\ Brief(t).word = campaign.brief.word
      /\ campaign.brief.mentions \in Seq(Nat) /\ Brief(t).mentions = campaign.brief.mentions
  BY <1>1, Speaking
<1>3. PICK answer \in IF f.tags = 0 THEN {<<>>}
                      ELSE TagReplies(campaign.provider, offered, TagLists, Brief(t).word) :
      \E sanitized \in {Sanitized(answer, f.tags, f.longestTag)} :
        Drafted(t, IF f.titleOnly THEN "title" ELSE "body",
                [draft[t] EXCEPT !.tags = sanitized, !.inline = InlineTags(sanitized, f),
                                 !.mentions = Mentions(Brief(t), f)])
  BY DEF GenerateTags
<1> HIDE DEF f
<1>4. f.tags \in Nat /\ f.longestTag \in Nat /\ offered \in Seq(Nat \ {0})
  BY <1>2, CampaignIsOne DEF IsVoice
<1> HIDE DEF offered
<1>5. answer \in Seq(Nat)
  <2>1. f.tags = 0 => answer = <<>>
    BY <1>3
  <2>2. f.tags # 0 => answer \in TagReplies(campaign.provider, offered, TagLists, Brief(t).word)
    BY <1>3
  <2>3. Brief(t).word \in Nat \ {0} /\ campaign.provider \in Providers /\ TagLists \in SUBSET Seq(Nat \ {0})
    BY <1>2, CampaignIsOne
  <2>4. f.tags # 0 => answer \in Seq(Nat \ {0})
    BY <2>2, <2>3, <1>4, TagRepliesAre
  <2>5. <<>> \in Seq(Nat) /\ \A s \in Seq(Nat \ {0}) : s \in Seq(Nat)
    OBVIOUS
  <2> QED
    BY <2>1, <2>4, <2>5
<1>6. PICK sanitized, mentions, d, to :
        /\ sanitized = Sanitized(answer, f.tags, f.longestTag) /\ mentions = Mentions(Brief(t), f)
        /\ d = [draft[t] EXCEPT !.tags = sanitized, !.inline = InlineTags(sanitized, f),
                                !.mentions = mentions]
        /\ to = IF f.titleOnly THEN "title" ELSE "body"
        /\ Drafted(t, to, d)
  BY <1>3
<1>7. d.tags = sanitized /\ d.mentions = mentions /\ d.text = draft[t].text
  BY <1>2, <1>6 DEF IsDraft, Fields
<1>8. Sane(d, f, Len(campaign.brief.mentions))
  <2>1. sanitized \in Seq(Nat) /\ Len(sanitized) <= f.tags /\ \A i \in DOMAIN sanitized : sanitized[i] <= f.longestTag
    BY <1>4, <1>5, <1>6, SanitizedIs
  <2>2. mentions = IF f.mentions THEN campaign.brief.mentions ELSE <<>>
    BY <1>2, <1>6 DEF Mentions
  <2>3. PICK all \in Seq(Nat) : all = campaign.brief.mentions
    BY <1>2
  <2>4. mentions \in Seq(Nat) /\ Len(mentions) <= Len(all) /\ (~f.mentions => mentions = <<>>)
    BY <2>2, <2>3
  <2> QED
    BY <1>7, <2>1, <2>3, <2>4 DEF Sane
<1>9. Made(to, d, f, campaign)
  <2>1. draft[t].text = <<>>
    BY <1>2 DEF Made, Unwritten
  <2>2. to \in {"title", "body"} /\ (to = "title" <=> f.titleOnly)
    BY <1>6
  <2> QED
    BY <1>7, <1>8, <2>1, <2>2 DEF Made, Unwritten, Ended
<1> QED
  BY <1>1, <1>6, <1>9, MadeGoesOn DEF f

\* The body
LEMMA BodyIsMade ==
  ASSUME TextInv, DraftsAreMade, NEW t \in Targets, GenerateBody(t)
  PROVE  DraftsAreMade'
<1>1. stage[t] = "body" /\ UNCHANGED campaign
  BY DEF GenerateBody
<1>2. PICK body \in Texts(TemplateBody(campaign.brief), Room(t)) :
        Drafted(t, "emoji", [draft[t] EXCEPT !.text = body])
  BY DEF GenerateBody
<1>3. PICK d, f : d = [draft[t] EXCEPT !.text = body] /\ Drafted(t, "emoji", d) /\ f = Voice(t)
  BY <1>2
<1>4. /\ Made("body", draft[t], f, campaign) /\ IsDraft(draft[t]) /\ campaign \in Campaigns
      /\ Room(t) \in Nat \ {0}
  BY <1>1, <1>3, Speaking
<1>5. campaign.provider = "template" => body # <<>>
  BY <1>2, <1>4, TemplatesSay, TemplateAnswers
<1>6. /\ d.text = body /\ d.tags = draft[t].tags /\ d.mentions = draft[t].mentions
  BY <1>3, <1>4 DEF IsDraft, Fields
<1>7. ~f.titleOnly /\ Sane(d, f, Len(campaign.brief.mentions))
  BY <1>4, <1>6 DEF Made, Sane
<1>8. Made("emoji", d, f, campaign)
  BY <1>5, <1>6, <1>7 DEF Made, Unwritten, Ended
<1> QED
  BY <1>1, <1>3, <1>8, MadeGoesOn

\* Emoji and the link
LEMMA LinkIsInText ==
  ASSUME TextInv, DraftsAreMade, NEW t \in Targets, GenerateEmoji(t)
  PROVE  DraftsAreMade'
<1> DEFINE b == Brief(t)
           end(text) == IF b.link = 0 THEN text
                        ELSE AppendWithin(text, <<Piece("link", 0, b.link)>>, Room(t), b.word, 1)
<1>1. stage[t] = "emoji" /\ UNCHANGED campaign
  BY DEF GenerateEmoji
<1>2. PICK text \in IF Voice(t).emoji THEN Texts(TemplateEmoji(draft[t].text), Room(t)) ELSE {draft[t].text} :
        Drafted(t, "title", [draft[t] EXCEPT !.text = end(text)])
  BY DEF GenerateEmoji
<1>3. PICK whole, d, f :
        whole = end(text) /\ d = [draft[t] EXCEPT !.text = whole] /\ Drafted(t, "title", d) /\ f = Voice(t)
  BY <1>2
<1>4. /\ Made("emoji", draft[t], f, campaign) /\ IsDraft(draft[t]) /\ draft[t].text \in Text
      /\ campaign \in Campaigns /\ Room(t) \in Nat \ {0} /\ b.link \in Nat /\ b.word \in Nat \ {0}
  BY <1>1, <1>3, Speaking
<1>5. ~f.titleOnly /\ (campaign.provider = "template" => draft[t].text # <<>>)
  BY <1>4 DEF Made
<1>6. campaign.provider = "template" => text \in Text /\ text # <<>>
  <2> SUFFICES ASSUME campaign.provider = "template"
               PROVE  text \in Text /\ text # <<>>
    OBVIOUS
  <2>1. CASE f.emoji
    <3>1. TemplateEmoji(draft[t].text) \in Text /\ TemplateEmoji(draft[t].text) # <<>>
      BY <1>4, <1>5, TemplatesSay
    <3>2. text \in Texts(TemplateEmoji(draft[t].text), Room(t))
      BY <1>2, <1>3, <2>1
    <3> QED
      BY <1>4, <3>1, <3>2, TemplateAnswers, TextsFit
  <2>2. CASE ~f.emoji
    BY <1>2, <1>3, <1>4, <1>5, <2>2
  <2> QED
    BY <2>1, <2>2
<1>7. campaign.provider = "template" => whole # <<>>
  <2> SUFFICES ASSUME campaign.provider = "template", b.link # 0
               PROVE  whole # <<>>
    BY <1>3, <1>6
  <2>1. PICK piece \in Pieces, max \in Nat \ {0}, word \in Nat \ {0}, sep \in Nat :
          piece = Piece("link", 0, b.link) /\ max = Room(t) /\ word = b.word /\ sep = 1
    BY <1>4 DEF Piece, Pieces
  <2>2. <<piece>> \in Text
    BY SizeOfPiece
  <2>3. whole = AppendWithin(text, <<piece>>, max, word, sep)
    BY <1>3, <2>1
  <2> QED
    BY <1>6, <2>2, <2>3, AppendedStays
<1> HIDE DEF end
<1>8. /\ d.text = whole /\ d.tags = draft[t].tags /\ d.mentions = draft[t].mentions
  BY <1>3, <1>4 DEF IsDraft, Fields
<1>9. Sane(d, f, Len(campaign.brief.mentions))
  BY <1>4, <1>8 DEF Made, Sane
<1>10. Made("title", d, f, campaign)
  BY <1>5, <1>7, <1>8, <1>9 DEF Made, Unwritten, Ended
<1> QED
  BY <1>1, <1>3, <1>10, MadeGoesOn

\* The title
LEMMA TitleIsMade ==
  ASSUME TextInv, DraftsAreMade, NEW t \in Targets, GenerateTitle(t)
  PROVE  DraftsAreMade'
<1> DEFINE f == Voice(t)
           max == LongestTitle(f)
           own == Truncate(Prose(campaign.brief.title), max, Brief(t).word)
<1>1. stage[t] = "title" /\ UNCHANGED campaign
  BY DEF GenerateTitle
<1>2. PICK title \in IF f.titled THEN Texts(TemplateTitle(campaign.brief), max) ELSE {own} :
        Drafted(t, "cta", [draft[t] EXCEPT !.title = Size(title)])
  BY DEF GenerateTitle, LongestTitle
<1>3. PICK d, n : n = Size(title) /\ d = [draft[t] EXCEPT !.title = n] /\ Drafted(t, "cta", d)
  BY <1>2
<1>4. /\ Made("title", draft[t], f, campaign) /\ IsDraft(draft[t]) /\ campaign \in Campaigns
      /\ campaign.brief.word \in Nat \ {0} /\ Brief(t).word = campaign.brief.word /\ IsVoice(f)
      /\ Platform(t) \in DOMAIN Profile /\ f = Profile[Platform(t)]
  BY <1>1, Speaking
<1> HIDE DEF f
<1>5. max \in Nat \ {0}
  <2>1. f.limit \in Nat \ {0} /\ f.title \in Nat
    BY <1>4, Voices
  <2> QED
    BY <2>1 DEF LongestTitle
<1>6. title \in Text /\ n <= max /\ (f.titled /\ campaign.provider = "template" => title # <<>>)
  <2>1. max \in Int /\ max >= 0
    BY <1>5
  <2> HIDE DEF max
  <2>2. CASE f.titled
    <3>1. TemplateTitle(campaign.brief) \in Text /\ TemplateTitle(campaign.brief) # <<>>
      BY <1>4, TemplatesSay
    <3>2. title \in Texts(TemplateTitle(campaign.brief), max)
      BY <1>2, <2>2
    <3>3. title \in Text /\ Size(title) <= max
      BY <3>1, <3>2, <2>1, <1>4, TextsFit
    <3>4. campaign.provider = "template" => title # <<>>
      BY <3>1, <3>2, <1>4, <1>5, TemplateAnswers
    <3> QED
      BY <3>3, <3>4, <1>3
  <2>3. CASE ~f.titled
    <3>1. title = own
      BY <1>2, <2>3
    <3>2. campaign.brief.title \in Nat
      BY <1>4, CompositionAssumption
    <3>3. Prose(campaign.brief.title) \in Text /\ Brief(t).word \in Nat \ {0}
      BY <1>4, <3>2, ProseIsText
    <3>4. title \in Text /\ Size(title) <= max
      BY <2>1, <3>1, <3>3, TruncateFits
    <3> QED
      BY <2>3, <3>4, <1>3
  <2> QED
    BY <2>2, <2>3
<1>7. n \in Nat /\ (title # <<>> => n > 0)
  BY <1>3, <1>6, SizeIsNatural, TextTakesRoom
<1> HIDE DEF own
<1>8. /\ d.title = n /\ d.text = draft[t].text /\ d.tags = draft[t].tags /\ d.mentions = draft[t].mentions
  BY <1>3, <1>4 DEF IsDraft, Fields
<1>9. Sane(d, f, Len(campaign.brief.mentions)) /\ Titled(d, f, campaign)
  BY <1>4, <1>6, <1>7, <1>8 DEF Made, Sane, Titled
<1>10. Made("cta", d, f, campaign)
  BY <1>4, <1>8, <1>9 DEF Made, Unwritten, Ended
<1> QED
  BY <1>1, <1>3, <1>10, MadeGoesOn DEF f

\* A target's post is made of its draft d.
Completed(t, d) ==
  /\ Drafted(t, "validate", d)
  /\ post' = [post EXCEPT ![t] = Attach(t, Payload(d, Brief(t), Voice(t)))]
  /\ UNCHANGED <<campaign, rendered, candidate, draws, link, short, visits, verdict>>

\* The finished text keeps to the limit of its platform.
LEMMA FinishIsMade ==
  ASSUME TextInv, DraftsAreMade, NEW t \in Targets, Finish(t)
  PROVE  \E d : Completed(t, d) /\ Made("validate", d, Voice(t), campaign)
<1> DEFINE b == Brief(t)
           f == Voice(t)
           max == PostHashtagLimit(b, f)
           text == draft[t].text
           n == Len(campaign.brief.mentions)
<1>1. stage[t] = "cta" /\ stage[t] # "absent"
  BY DEF Finish
<1>2. /\ Made("cta", draft[t], f, campaign) /\ IsDraft(draft[t]) /\ text \in Text
      /\ campaign \in Campaigns /\ b.word \in Nat \ {0} /\ IsVoice(f) /\ IsBrief(b) /\ Room(t) \in Nat \ {0}
      /\ Platform(t) \in DOMAIN Profile /\ f = Profile[Platform(t)] /\ draft[t].inline \in Text
      /\ campaign.brief.mentions \in Seq(Nat)
  BY <1>1, Speaking DEF IsDraft, Tagged, IsBrief
<1>3. PICK cta \in CallsToAction(t) :
      \E called \in {AppendWithin(draft[t].text, cta, Room(t), Brief(t).word, 1)} :
      \E tagged \in {AppendWithin(called, draft[t].inline, PostHashtagLimit(Brief(t), Voice(t)), Brief(t).word,
                                  Voice(t).tagSep)} :
      \E whole \in {Truncate(tagged, PostHashtagLimit(Brief(t), Voice(t)), Brief(t).word)} :
      \E d \in {[draft[t] EXCEPT !.text = whole,
                                 !.full = cta # <<>> /\ Size(draft[t].text) + Size(cta) = Room(t)]} :
      \E settled \in {IF Voice(t).titleOnly THEN draft[t] ELSE Settled(d, Voice(t))} :
        Completed(t, settled)
  BY DEF Finish, Completed
<1> DEFINE called == AppendWithin(text, cta, Room(t), b.word, 1)
           tagged == AppendWithin(called, draft[t].inline, max, b.word, f.tagSep)
<1>4. PICK whole, d, settled :
        /\ whole = Truncate(tagged, max, b.word)
        /\ d = [draft[t] EXCEPT !.text = whole, !.full = FillsUp(text, cta, Room(t))]
        /\ settled = IF f.titleOnly THEN draft[t] ELSE Settled(d, f)
        /\ Completed(t, settled)
  BY <1>3 DEF FillsUp
<1>5. cta \in Text
  BY <1>1, CallsFit
<1> HIDE DEF b, f, max, text
<1>6. f.limit \in Nat /\ f.limit >= 10 /\ f.tagSep \in Nat /\ (~f.titleOnly => f.tags <= 2)
  BY <1>2, Voices DEF IsVoice
<1>7. max \in Nat \ {0} /\ max <= f.limit
  BY <1>2, <1>6, Limits, LimitIsKept DEF max
<1>8. /\ whole \in Text /\ Size(whole) <= f.limit
      /\ text # <<>> => whole # <<>>
  <2>1. PICK room \in Nat \ {0}, limit \in Nat \ {0}, word \in Nat \ {0}, one \in Nat, sep \in Nat, inline \in Text :
          /\ room = Room(t) /\ limit = max /\ word = b.word /\ one = 1 /\ sep = f.tagSep
          /\ inline = draft[t].inline
    BY <1>2, <1>6, <1>7
  <2>2. room \in Int /\ limit \in Int /\ limit >= 0
    OBVIOUS
  <2>3. called = AppendWithin(text, cta, room, word, one)
    BY <2>1
  <2>4. called \in Text /\ (text # <<>> => called # <<>>)
    BY <2>2, <2>3, <1>2, <1>5, AppendedIsText, AppendedStays
  <2>5. tagged = AppendWithin(called, inline, limit, word, sep)
    BY <2>1
  <2>6. tagged \in Text /\ (called # <<>> => tagged # <<>>)
    BY <2>2, <2>4, <2>5, AppendedIsText, AppendedStays
  <2>7. whole = Truncate(tagged, limit, word)
    BY <2>1, <1>4
  <2>8. whole \in Text /\ Size(whole) <= limit /\ (tagged # <<>> => whole # <<>>)
    BY <2>2, <2>6, <2>7, TruncateFits, TruncateStays
  <2>9. Size(whole) \in Nat
    BY <2>8, SizeIsNatural
  <2> QED
    BY <2>1, <2>4, <2>6, <2>8, <2>9, <1>6, <1>7
<1>9. CASE f.titleOnly
  <2>1. settled = draft[t]
    BY <1>4, <1>9
  <2>2. Made("validate", settled, f, campaign)
    BY <2>1, <1>2, <1>9 DEF Made, Unwritten, Ended, Fitting, text
  <2> QED
    BY <1>4, <2>2 DEF b, f
<1>10. CASE ~f.titleOnly
  <2>1. settled = Settled(d, f)
    BY <1>4, <1>10
  <2>2. /\ d.text = whole /\ d.tags = draft[t].tags /\ d.mentions = draft[t].mentions /\ d.title = draft[t].title
        /\ IsDraft(d)
    BY <1>2, <1>4, <1>8 DEF IsDraft, Fields
  <2>3. Sane(draft[t], f, n) /\ Titled(draft[t], f, campaign)
        /\ (campaign.provider = "template" => draft[t].text # <<>>)
    BY <1>2, <1>10 DEF Made
  <2>4. d.tags \in Seq(Nat) /\ d.mentions \in Seq(Nat)
    BY <2>2, <2>3 DEF Sane
  <2>5. Fewer(settled, d) /\ (Len(d.tags) + Len(d.mentions) <= 64 => Fits(settled, f))
    BY <1>6, <1>8, <2>1, <2>2, <2>4, SettledFits
  <2>6. settled.text = whole /\ settled.title = draft[t].title
    BY <2>2, <2>5 DEF Fewer
  <2>7. n \in Nat
    BY <1>2
  <2>8. Sane(settled, f, n)
    <3>1. PICK tags \in Seq(Nat), mentions \in Seq(Nat), fewer \in Seq(Nat), less \in Seq(Nat), k \in Nat :
            /\ tags = d.tags /\ mentions = d.mentions /\ fewer = settled.tags /\ less = settled.mentions
            /\ Len(fewer) <= Len(tags) /\ (\A i \in DOMAIN fewer : fewer[i] = tags[i]) /\ Len(less) <= Len(mentions)
            /\ k = n
      BY <2>4, <2>5, <2>7 DEF Fewer
    <3> HIDE DEF n
    <3>2. /\ Len(tags) <= f.tags /\ (\A i \in DOMAIN tags : tags[i] <= f.longestTag)
          /\ Len(mentions) <= k /\ (~f.mentions => mentions = <<>>)
      BY <2>2, <2>3, <3>1 DEF Sane
    <3>3. f.tags \in Nat
      BY <1>2 DEF IsVoice
    <3>4. Len(fewer) <= f.tags /\ (\A i \in DOMAIN fewer : i \in DOMAIN tags)
      BY <3>1, <3>2, <3>3
    <3>5. \A i \in DOMAIN fewer : fewer[i] <= f.longestTag
      BY <3>1, <3>2, <3>4
    <3>6. Len(less) <= k /\ (~f.mentions => less = <<>>)
      BY <3>1, <3>2
    <3> QED
      BY <3>1, <3>4, <3>5, <3>6 DEF Sane
  <2>9. Fitting(settled, f, campaign)
    <3>1. n <= 62 => Len(d.tags) + Len(d.mentions) <= 64
      <4>1. Len(d.tags) \in Nat /\ Len(d.mentions) \in Nat
        BY <2>4
      <4>2. Len(d.tags) <= f.tags /\ Len(d.mentions) <= n /\ f.tags <= 2 /\ f.tags \in Nat
        BY <1>2, <1>6, <1>10, <2>2, <2>3 DEF Sane, IsVoice
      <4>3. PICK i \in Nat, j \in Nat, k \in Nat, g \in Nat : i = Len(d.tags) /\ j = Len(d.mentions) /\ k = n /\ g = f.tags
        BY <2>7, <4>1, <4>2
      <4>4. i <= g /\ j <= k /\ g <= 2
        BY <4>2, <4>3
      <4>5. k <= 62 => i + j <= 64
        BY <4>4
      <4> QED
        BY <4>3, <4>5
    <3> QED
      BY <1>8, <2>5, <2>6, <3>1 DEF Fitting
  <2>10. Titled(settled, f, campaign)
    BY <2>3, <2>6 DEF Titled
  <2> HIDE DEF n
  <2>11. Made("validate", settled, f, campaign)
    BY <1>8, <1>10, <2>3, <2>6, <2>8, <2>9, <2>10 DEF Made, Unwritten, Ended, text, n
  <2> QED
    BY <1>4, <2>11 DEF b, f
<1> QED
  BY <1>9, <1>10

\* A stage at which there is nothing yet, or at which nothing matters any more
LEMMA NothingMade ==
  ASSUME NEW s, NEW d, NEW f, NEW c, (s \in Unwritten /\ d.text = <<>>) \/ s \in {"previewed", "error"}
  PROVE  Made(s, d, f, c)
BY DEF Made, Unwritten, Ended

\* No target starts with a draft.
LEMMA StagesAtFirst ==
  ASSUME NEW c, NEW t \in Targets
  PROVE  /\ Begun(c)[t] \in Unwritten /\ Started(c)[t] \in Unwritten /\ Everywhere(c, "tags")[t] \in Unwritten
BY DEF Begun, Started, Everywhere, Unwritten

\* At first there are no drafts.
LEMMA MadeAtFirst == Init => DraftsAreMade
<1> SUFFICES ASSUME Init, NEW t \in Targets
             PROVE  Made(stage[t], draft[t], Voice(t), campaign)
  BY DEF DraftsAreMade
<1>1. draft[t].text = <<>> /\ stage[t] \in Unwritten
  BY StagesAtFirst DEF Init, NoDraft
<1> QED
  BY <1>1, NothingMade

\* Where the link of a target is made, and its post is asked for, its draft stays.
LEMMA MadeMovesOn ==
  ASSUME TextInv, DraftsAreMade, UNCHANGED <<campaign, draft>>, NEW t \in Targets, NEW to,
         stage' = [stage EXCEPT ![t] = to],
         \/ stage[t] \in Unwritten /\ to \in Unwritten
         \/ to \in {"previewed", "error"}
         \/ stage[t] \in Ended /\ to \in Ended
  PROVE  DraftsAreMade'
<1>1. /\ stage'[t] = to /\ draft'[t] = draft[t]
      /\ \A u \in Targets \ {t} : stage'[u] = stage[u] /\ draft'[u] = draft[u]
  BY DEF TextInv, DraftsAreTexts
<1>2. Made(stage[t], draft[t], Voice(t), campaign)
  BY DEF DraftsAreMade
<1>3. CASE stage[t] \in Unwritten /\ to \in Unwritten
  BY <1>1, <1>2, <1>3, NothingMade, MadeOneByOne DEF Made
<1>4. CASE to \in {"previewed", "error"}
  BY <1>1, <1>4, NothingMade, MadeOneByOne
<1>5. CASE stage[t] \in Ended /\ to \in Ended
  <2>1. Made(to, draft[t], Voice(t), campaign)
    BY <1>2, <1>5 DEF Made, Ended, Unwritten
  <2> QED
    BY <1>1, <2>1, MadeOneByOne
<1> QED
  BY <1>3, <1>4, <1>5

\* Every step leaves the drafts as they are made.
LEMMA MadeStays == TextInv /\ MediaFirst /\ DraftsAreMade /\ [Next]_vars => DraftsAreMade'
<1> SUFFICES ASSUME TextInv, MediaFirst, DraftsAreMade, [Next]_vars
             PROVE  DraftsAreMade'
  OBVIOUS
<1>0. DOMAIN draft = Targets /\ DOMAIN stage = Targets
  BY DEF TextInv, DraftsAreTexts
<1>1. CASE ComposeAndSubmit
  <2>1. /\ UNCHANGED campaign /\ stage' = Begun(campaign) /\ draft' = [t \in Targets |-> NoDraft]
    BY <1>1 DEF ComposeAndSubmit
  <2>2. \A t \in Targets : stage'[t] \in Unwritten /\ draft'[t].text = <<>>
    BY <2>1, StagesAtFirst DEF NoDraft
  <2> QED
    BY <2>1, <2>2, NothingMade, MadeOneByOne
<1>2. CASE Execute
  <2>1. UNCHANGED <<campaign, draft>> /\ (stage' = Started(campaign) \/ stage' = stage)
    BY <1>2 DEF Execute
  <2>2. \A t \in Targets : stage[t] \in {"absent", "media"}
    BY <1>2 DEF Execute, MediaFirst
  <2>3. \A t \in Targets : stage'[t] \in Unwritten /\ draft'[t].text = <<>>
    BY <2>1, <2>2, StagesAtFirst DEF DraftsAreMade, Made, Unwritten
  <2> QED
    BY <2>1, <2>3, NothingMade, MadeOneByOne
<1>3. CASE ExecuteFails
  <2>1. /\ UNCHANGED <<campaign, draft>>
        /\ \A t \in Targets : stage'[t] = stage[t] \/ stage'[t] = "error"
    BY <1>3 DEF ExecuteFails
  <2> QED
    BY <2>1, NothingMade, MadeOneByOne
<1>4. ASSUME NEW t \in Targets, Tag(t) \/ CreateShortUrl(t)
      PROVE  DraftsAreMade'
  <2>1. /\ UNCHANGED <<campaign, draft>> /\ stage[t] \in {"link", "drawn"}
        /\ stage' = [stage EXCEPT ![t] = "tags"]
    BY <1>4 DEF Tag, CreateShortUrl, Rewritten
  <2>2. stage[t] \in Unwritten /\ "tags" \in Unwritten
    BY <2>1 DEF Unwritten
  <2> QED
    BY <2>1, <2>2, MadeMovesOn
<1>5. ASSUME NEW t \in Targets, NEW s \in Slugs, PickFreeSlug(t, s)
      PROVE  DraftsAreMade'
  <2>1. /\ UNCHANGED <<campaign, draft>> /\ stage[t] = "link"
        /\ \E to \in {"drawn", "tags", stage[t]} : stage' = [stage EXCEPT ![t] = to]
    BY <1>5 DEF PickFreeSlug
  <2>2. stage[t] \in Unwritten /\ {"drawn", "tags", stage[t]} \subseteq Unwritten
    BY <2>1 DEF Unwritten
  <2> QED
    BY <2>1, <2>2, MadeMovesOn
<1>6. ASSUME NEW t \in Targets, GenerationFails(t) \/ Preview(t)
      PROVE  DraftsAreMade'
  <2>1. /\ UNCHANGED <<campaign, draft>>
        /\ \E to \in {"previewed", "error"} : stage' = [stage EXCEPT ![t] = to]
    BY <1>6 DEF GenerationFails, Preview, Told
  <2> QED
    BY <2>1, MadeMovesOn
<1>7. ASSUME NEW t \in Targets, Submit(t)
      PROVE  DraftsAreMade'
  <2>1. /\ UNCHANGED <<campaign, draft>> /\ stage[t] = "validate"
        /\ \E to \in {"enqueued", "rejected"} : stage' = [stage EXCEPT ![t] = to]
    BY <1>7 DEF Submit
  <2>2. stage[t] \in Ended /\ {"enqueued", "rejected"} \subseteq Ended
    BY <2>1 DEF Ended
  <2> QED
    BY <2>1, <2>2, MadeMovesOn
<1>8. CASE UNCHANGED <<campaign, stage, draft>>
  BY <1>8, MadeOneByOne
<1>9. ASSUME NEW t \in Targets, Finish(t)
      PROVE  DraftsAreMade'
  <2>1. PICK d : Completed(t, d) /\ Made("validate", d, Voice(t), campaign)
    BY <1>9, FinishIsMade
  <2> QED
    BY <2>1, MadeGoesOn DEF Completed
<1>10. ASSUME NEW t \in Targets,
              GenerateTags(t) \/ GenerateBody(t) \/ GenerateEmoji(t) \/ GenerateTitle(t)
       PROVE  DraftsAreMade'
  BY <1>10, TagsAreMade, BodyIsMade, LinkIsInText, TitleIsMade
<1>11. ASSUME NEW t \in Targets, Resolve(t)
       PROVE  DraftsAreMade'
  BY <1>8, <1>11 DEF Resolve
<1>12. CASE UNCHANGED vars
  BY <1>8, <1>12 DEF vars
<1> QED
  BY <1>1, <1>2, <1>3, <1>4, <1>5, <1>6, <1>7, <1>9, <1>10, <1>11, <1>12 DEF Next

(***************************************************************************)
(* Renditions and posts are what was made of sources and drafts            *)
(***************************************************************************)
TakingPart(platforms) == SelectSeq(platforms, LAMBDA platform : platform # None)

\* The platforms that take part, as a function of the campaign.
LEMMA TakePart == PlatformIds = TakingPart(campaign.platforms)
  BY DEF PlatformIds, TakingPart

\* What is attached depends on the campaign and the renditions alone.
LEMMA AttachesTheSame ==
  ASSUME UNCHANGED campaign
  PROVE  /\ PlatformIds' = PlatformIds
         /\ \A s : Renditions(s)' = Renditions(s)
         /\ UNCHANGED rendered => \A t, p : Attach(t, p)' = Attach(t, p)
<1>1. PlatformIds = TakingPart(campaign.platforms)
  BY TakePart
<1>2. (PlatformIds = TakingPart(campaign.platforms))'
  BY TakePart, PTL
<1>3. PlatformIds' = PlatformIds
  BY <1>1, <1>2
<1>4. ASSUME NEW s PROVE Renditions(s)' = Renditions(s)
  BY <1>3 DEF Renditions, Picked
<1>5. ASSUME UNCHANGED rendered, NEW t, NEW p PROVE Attach(t, p)' = Attach(t, p)
  BY <1>3, <1>5 DEF Attach, Rendition, Platform
<1> QED
  BY <1>3, <1>4, <1>5

\* Of each source that was executed there are renditions of it.
RenditionsAreMade ==
  /\ \E S : rendered \in Seq(S)
  /\ Len(rendered) <= Len(campaign.sources)
  /\ \A i \in DOMAIN rendered : rendered[i] \in Renditions(campaign.sources[i])

\* The campaign is the same from beginning to end.
LEMMA CampaignStays == [Next]_vars => UNCHANGED campaign
<1> SUFFICES ASSUME [Next]_vars
             PROVE  UNCHANGED campaign
  OBVIOUS
<1>1. CASE ComposeAndSubmit \/ Execute \/ ExecuteFails
  BY <1>1 DEF ComposeAndSubmit, Execute, ExecuteFails
<1>2. ASSUME NEW t \in Targets, Tag(t) \/ (\E s \in Slugs : PickFreeSlug(t, s)) \/ CreateShortUrl(t)
      PROVE  UNCHANGED campaign
  BY <1>2 DEF Tag, PickFreeSlug, CreateShortUrl
<1>3. ASSUME NEW t \in Targets, GenerateTags(t) \/ GenerateBody(t) \/ GenerateEmoji(t) \/ GenerateTitle(t)
      PROVE  UNCHANGED campaign
  BY <1>3 DEF GenerateTags, GenerateBody, GenerateEmoji, GenerateTitle
<1>4. ASSUME NEW t \in Targets, Finish(t)
      PROVE  UNCHANGED campaign
  BY <1>4 DEF Finish
<1>5. ASSUME NEW t \in Targets, GenerationFails(t) \/ Preview(t) \/ Submit(t) \/ Resolve(t)
      PROVE  UNCHANGED campaign
  BY <1>5 DEF GenerationFails, Preview, Submit, Resolve
<1> QED
  BY <1>1, <1>2, <1>3, <1>4, <1>5 DEF Next, vars

\* Renditions are made by Execute and never again.
LEMMA RenditionsAreKept == [Next]_vars => UNCHANGED rendered \/ Execute
<1> SUFFICES ASSUME [Next]_vars
             PROVE  UNCHANGED rendered \/ Execute
  OBVIOUS
<1>1. CASE ComposeAndSubmit \/ Execute \/ ExecuteFails
  BY <1>1 DEF ComposeAndSubmit, ExecuteFails
<1>2. ASSUME NEW t \in Targets, Tag(t) \/ (\E s \in Slugs : PickFreeSlug(t, s)) \/ CreateShortUrl(t)
      PROVE  UNCHANGED rendered
  BY <1>2 DEF Tag, PickFreeSlug, CreateShortUrl
<1>3. ASSUME NEW t \in Targets, GenerateTags(t) \/ GenerateBody(t) \/ GenerateEmoji(t) \/ GenerateTitle(t)
      PROVE  UNCHANGED rendered
  BY <1>3 DEF GenerateTags, GenerateBody, GenerateEmoji, GenerateTitle
<1>4. ASSUME NEW t \in Targets, Finish(t)
      PROVE  UNCHANGED rendered
  BY <1>4 DEF Finish
<1>5. ASSUME NEW t \in Targets, GenerationFails(t) \/ Preview(t) \/ Submit(t) \/ Resolve(t)
      PROVE  UNCHANGED rendered
  BY <1>5 DEF GenerationFails, Preview, Submit, Resolve
<1> QED
  BY <1>1, <1>2, <1>3, <1>4, <1>5 DEF Next, vars

\* The renditions are those of the sources, in their order.
LEMMA RenditionsStay == TextInv /\ RenditionsAreMade /\ [Next]_vars => RenditionsAreMade'
<1> SUFFICES ASSUME TextInv, RenditionsAreMade, [Next]_vars
             PROVE  RenditionsAreMade'
  OBVIOUS
<1>1. UNCHANGED campaign /\ (UNCHANGED rendered \/ Execute)
  BY CampaignStays, RenditionsAreKept
<1>2. \A s : Renditions(s)' = Renditions(s)
  BY <1>1, AttachesTheSame
<1>3. CASE UNCHANGED rendered
  BY <1>1, <1>2, <1>3 DEF RenditionsAreMade
<1>4. CASE Execute
  <2>1. PICK r \in Renditions(campaign.sources[Len(rendered) + 1]) : rendered' = Append(rendered, r)
    BY <1>4 DEF Execute
  <2>2. Len(rendered) < Len(campaign.sources)
    BY <1>4 DEF Execute
  <2>3. PICK S : rendered \in Seq(S)
    BY DEF RenditionsAreMade
  <2>4. rendered \in Seq(S \cup {r})
    BY <2>3
  <2>5. /\ rendered' \in Seq(S \cup {r}) /\ Len(rendered) \in Nat /\ Len(rendered') = Len(rendered) + 1
        /\ DOMAIN rendered' = 1 .. Len(rendered) + 1 /\ DOMAIN rendered = 1 .. Len(rendered)
        /\ rendered'[Len(rendered) + 1] = r /\ \A i \in DOMAIN rendered : rendered'[i] = rendered[i]
    BY <2>1, <2>4
  <2>6. Len(campaign.sources) \in Nat
    BY CompositionAssumption DEF TextInv, DraftsAreTexts
  <2>7. Len(rendered') <= Len(campaign'.sources)
    BY <1>1, <2>2, <2>5, <2>6
  <2>8. ASSUME NEW i \in DOMAIN rendered'
        PROVE  rendered'[i] \in Renditions(campaign.sources[i])'
    <3>1. CASE i = Len(rendered) + 1
      BY <3>1, <1>1, <1>2, <2>1, <2>5
    <3>2. CASE i # Len(rendered) + 1
      <4>1. i \in DOMAIN rendered
        BY <3>2, <2>5
      <4>2. rendered[i] \in Renditions(campaign.sources[i])
        BY <4>1 DEF RenditionsAreMade
      <4> QED
        BY <4>1, <4>2, <1>1, <1>2, <2>5
    <3> QED
      BY <3>1, <3>2
  <2> QED
    BY <2>5, <2>7, <2>8 DEF RenditionsAreMade
<1> QED
  BY <1>1, <1>3, <1>4

\* A finished post, and what its connector says of it
Judged(s, platform, p) ==
  /\ s = "enqueued" => Accepts(platform, p)
  /\ s = "rejected" => ~Accepts(platform, p)

Posted(t) ==
  stage[t] \in Ended =>
    /\ post[t] = Attach(t, Payload(draft[t], Brief(t), Voice(t)))
    /\ Judged(stage[t], Platform(t), post[t])

PostsAreMade == DOMAIN post = Targets /\ \A t \in Targets : Posted(t)

\* Of the brief, a payload takes the link.
LEMMA PayloadTakesLink ==
  ASSUME NEW b, NEW c, b.link = c.link, NEW d, NEW f
  PROVE  Payload(d, b, f) = Payload(d, c, f)
BY DEF Payload

\* Nothing happens to a target.
LEMMA PostStays ==
  ASSUME NEW t, Posted(t), UNCHANGED <<campaign, rendered>>,
         draft'[t] = draft[t], post'[t] = post[t], link'[t].len = link[t].len, stage'[t] = stage[t]
  PROVE  Posted(t)'
<1>1. Platform(t)' = Platform(t) /\ Voice(t)' = Voice(t) /\ Brief(t)' = Brief(t)
  BY DEF Platform, Voice, Brief
<1>2. \A u, p : Attach(u, p)' = Attach(u, p)
  BY AttachesTheSame
<1>3. (Attach(t, Payload(draft[t], Brief(t), Voice(t))))' = Attach(t, Payload(draft[t], Brief(t), Voice(t)))
  <2>1. PICK p : p = Payload(draft[t], Brief(t), Voice(t))
    OBVIOUS
  <2>2. Payload(draft[t], Brief(t), Voice(t))' = p
    BY <1>1, <2>1
  <2> QED
    BY <1>2, <2>1, <2>2
<1> QED
  BY <1>1, <1>3 DEF Posted

\* Another target goes on.
Elsewhere(t) ==
  \A u \in Targets \ {t} :
    draft'[u] = draft[u] /\ post'[u] = post[u] /\ link'[u].len = link[u].len /\ stage'[u] = stage[u]

\* One target goes on and its post is as it should be.
LEMMA PostsGoOn ==
  ASSUME PostsAreMade, UNCHANGED <<campaign, rendered>>, NEW t \in Targets, DOMAIN post' = Targets,
         Elsewhere(t), Posted(t)'
  PROVE  PostsAreMade'
<1> SUFFICES ASSUME NEW u \in Targets
             PROVE  Posted(u)'
  BY DEF PostsAreMade
<1>1. CASE u # t
  BY <1>1, PostStays DEF PostsAreMade, Elsewhere
<1> QED
  BY <1>1

\* A target whose post is not finished
LEMMA PostsMoveOn ==
  ASSUME TextInv, PostsAreMade, UNCHANGED <<campaign, rendered, post>>, NEW t \in Targets, NEW to, to \notin Ended,
         stage' = [stage EXCEPT ![t] = to],
         \/ UNCHANGED draft
         \/ \E d : draft' = [draft EXCEPT ![t] = d],
         \/ UNCHANGED link
         \/ \E l : link' = [link EXCEPT ![t] = l]
  PROVE  PostsAreMade'
<1>1. DOMAIN draft = Targets /\ DOMAIN stage = Targets /\ DOMAIN link = Targets /\ DOMAIN post' = Targets
  BY DEF TextInv, DraftsAreTexts, PostsAreMade
<1>2. Elsewhere(t)
  BY <1>1 DEF Elsewhere
<1>3. Posted(t)'
  BY <1>1 DEF Posted
<1> QED
  BY <1>1, <1>2, <1>3, PostsGoOn

\* A draft is finished: its post is what the payload says.
LEMMA PostIsFinished ==
  ASSUME TextInv, PostsAreMade, NEW t \in Targets, NEW d, Completed(t, d)
  PROVE  PostsAreMade'
<1>1. DOMAIN draft = Targets /\ DOMAIN stage = Targets /\ DOMAIN link = Targets /\ DOMAIN post = Targets
  BY DEF TextInv, DraftsAreTexts, PostsAreMade
<1>2. /\ UNCHANGED <<campaign, rendered, link>> /\ DOMAIN post' = Targets
      /\ stage'[t] = "validate" /\ draft'[t] = d /\ post'[t] = Attach(t, Payload(d, Brief(t), Voice(t)))
  BY <1>1 DEF Completed, Drafted
<1>3. Elsewhere(t)
  BY <1>1, <1>2 DEF Elsewhere, Completed, Drafted
<1>4. Platform(t)' = Platform(t) /\ Voice(t)' = Voice(t) /\ Brief(t)'.link = Brief(t).link
  BY <1>2 DEF Platform, Voice, Brief
<1>5. PICK p : p = Payload(d, Brief(t), Voice(t))
  OBVIOUS
<1>6. Payload(draft[t], Brief(t), Voice(t))' = p
  <2>1. PICK b, c, f : b = Brief(t) /\ c = Brief(t)' /\ f = Voice(t)
    OBVIOUS
  <2>2. Payload(d, b, f) = Payload(d, c, f)
    BY <1>4, <2>1, PayloadTakesLink
  <2> QED
    BY <1>2, <1>4, <1>5, <2>1, <2>2
<1>7. \A u, q : Attach(u, q)' = Attach(u, q)
  BY <1>2, AttachesTheSame
<1>8. (Attach(t, Payload(draft[t], Brief(t), Voice(t))))' = post'[t]
  BY <1>2, <1>5, <1>6, <1>7
<1>9. Posted(t)'
  BY <1>2, <1>8 DEF Posted, Judged
<1> QED
  BY <1>2, <1>3, <1>9, PostsGoOn

\* A post is submitted: it is enqueued if its connector accepts it.
LEMMA PostIsJudged ==
  ASSUME TextInv, PostsAreMade, NEW t \in Targets, Submit(t)
  PROVE  PostsAreMade'
<1>1. DOMAIN draft = Targets /\ DOMAIN stage = Targets /\ DOMAIN link = Targets /\ DOMAIN post = Targets
  BY DEF TextInv, DraftsAreTexts, PostsAreMade
<1>2. /\ UNCHANGED <<campaign, rendered, link, draft, post>> /\ stage[t] = "validate"
      /\ stage' = [stage EXCEPT ![t] = IF Accepts(Platform(t), post[t]) THEN "enqueued" ELSE "rejected"]
  BY DEF Submit
<1>3. Elsewhere(t)
  BY <1>1, <1>2 DEF Elsewhere
<1>4. Platform(t)' = Platform(t) /\ Voice(t)' = Voice(t) /\ Brief(t)' = Brief(t)
  BY <1>2 DEF Platform, Voice, Brief
<1>5. \A u, q : Attach(u, q)' = Attach(u, q)
  BY <1>2, AttachesTheSame
<1>6. post[t] = Attach(t, Payload(draft[t], Brief(t), Voice(t)))
  BY <1>2 DEF PostsAreMade, Posted, Ended
<1>7. (Attach(t, Payload(draft[t], Brief(t), Voice(t))))' = post'[t]
  <2>1. PICK p : p = Payload(draft[t], Brief(t), Voice(t))
    OBVIOUS
  <2>2. Payload(draft[t], Brief(t), Voice(t))' = p
    BY <1>2, <1>4, <2>1
  <2> QED
    BY <1>2, <1>5, <1>6, <2>1, <2>2
<1>8. Judged(stage'[t], Platform(t), post[t])
  <2>1. PICK platform, p : platform = Platform(t) /\ p = post[t]
    OBVIOUS
  <2>2. stage'[t] = IF Accepts(platform, p) THEN "enqueued" ELSE "rejected"
    BY <1>1, <1>2, <2>1
  <2>3. Judged(stage'[t], platform, p)
    BY <2>2 DEF Judged
  <2> QED
    BY <2>1, <2>3
<1>9. Posted(t)'
  BY <1>2, <1>4, <1>7, <1>8 DEF Posted
<1> QED
  BY <1>1, <1>2, <1>3, <1>9, PostsGoOn

\* Every step leaves the posts what was made of the drafts.
LEMMA PostsStay == TextInv /\ MediaFirst /\ DraftsAreMade /\ PostsAreMade /\ [Next]_vars => PostsAreMade'
<1> SUFFICES ASSUME TextInv, MediaFirst, DraftsAreMade, PostsAreMade, [Next]_vars
             PROVE  PostsAreMade'
  OBVIOUS
<1>0. DOMAIN draft = Targets /\ DOMAIN stage = Targets /\ DOMAIN link = Targets /\ DOMAIN post = Targets
  BY DEF TextInv, DraftsAreTexts, PostsAreMade
<1>a. ASSUME DOMAIN post' = Targets, \A t \in Targets : stage'[t] \in Unwritten
      PROVE  PostsAreMade'
  BY <1>a DEF PostsAreMade, Posted, Unwritten, Ended
<1>1. CASE ComposeAndSubmit
  <2>1. /\ UNCHANGED campaign /\ stage' = Begun(campaign) /\ post' = [t \in Targets |-> Blank]
    BY <1>1 DEF ComposeAndSubmit
  <2>2. DOMAIN post' = Targets /\ \A t \in Targets : stage'[t] \in Unwritten
    BY <2>1, StagesAtFirst
  <2> QED
    BY <2>2, <1>a
<1>2. CASE Execute
  <2>1. UNCHANGED <<campaign, post>> /\ (stage' = Started(campaign) \/ stage' = stage)
    BY <1>2 DEF Execute
  <2>2. \A t \in Targets : stage[t] \in {"absent", "media"}
    BY <1>2 DEF Execute, MediaFirst
  <2>3. DOMAIN post' = Targets /\ \A t \in Targets : stage'[t] \in Unwritten
    BY <1>0, <2>1, <2>2, StagesAtFirst DEF Unwritten
  <2> QED
    BY <2>3, <1>a
<1>3. CASE ExecuteFails
  <2>1. UNCHANGED <<campaign, rendered, draft, post, link>>
    BY <1>3 DEF ExecuteFails
  <2>2. ASSUME NEW t \in Targets
        PROVE  Posted(t)'
    <3>1. stage'[t] = stage[t] \/ stage'[t] = "error"
      BY <1>3 DEF ExecuteFails
    <3>2. CASE stage'[t] = "error"
      BY <3>2 DEF Posted, Ended
    <3>3. CASE stage'[t] = stage[t]
      BY <2>1, <3>3, PostStays DEF PostsAreMade
    <3> QED
      BY <3>1, <3>2, <3>3
  <2> QED
    BY <1>0, <2>1, <2>2 DEF PostsAreMade
<1>4. ASSUME NEW t \in Targets, Tag(t) \/ CreateShortUrl(t)
      PROVE  PostsAreMade'
  <2>1. /\ UNCHANGED <<campaign, rendered, draft, post>>
        /\ stage' = [stage EXCEPT ![t] = "tags"] /\ \E l : link' = [link EXCEPT ![t] = l]
    BY <1>4 DEF Tag, CreateShortUrl, Rewritten
  <2> QED
    BY <2>1, PostsMoveOn DEF Ended
<1>5. ASSUME NEW t \in Targets, NEW s \in Slugs, PickFreeSlug(t, s)
      PROVE  PostsAreMade'
  <2>1. /\ UNCHANGED <<campaign, rendered, draft, post, link>> /\ stage[t] = "link"
        /\ \E to \in {"drawn", "tags", stage[t]} : stage' = [stage EXCEPT ![t] = to]
    BY <1>5 DEF PickFreeSlug
  <2> QED
    BY <2>1, PostsMoveOn DEF Ended
<1>6. ASSUME NEW t \in Targets, GenerationFails(t) \/ Preview(t)
      PROVE  PostsAreMade'
  <2>1. /\ UNCHANGED <<campaign, rendered, draft, post, link>>
        /\ \E to \in {"previewed", "error"} : stage' = [stage EXCEPT ![t] = to]
    BY <1>6 DEF GenerationFails, Preview, Told
  <2> QED
    BY <2>1, PostsMoveOn DEF Ended
<1>7. ASSUME NEW t \in Targets, GenerateTags(t) \/ GenerateBody(t) \/ GenerateEmoji(t) \/ GenerateTitle(t)
      PROVE  PostsAreMade'
  <2>1. /\ UNCHANGED <<campaign, rendered, post, link>>
        /\ \E to \in {"title", "body", "emoji", "cta"} : \E d : Drafted(t, to, d)
    <3>1. CASE GenerateTags(t)
      BY <3>1 DEF GenerateTags
    <3>2. CASE GenerateBody(t)
      BY <3>2 DEF GenerateBody
    <3>3. CASE GenerateEmoji(t)
      BY <3>3 DEF GenerateEmoji
    <3>4. CASE GenerateTitle(t)
      BY <3>4 DEF GenerateTitle
    <3> QED
      BY <1>7, <3>1, <3>2, <3>3, <3>4
  <2> QED
    BY <2>1, PostsMoveOn DEF Ended, Drafted
<1>8. ASSUME NEW t \in Targets, Finish(t) \/ Submit(t)
      PROVE  PostsAreMade'
  BY <1>8, FinishIsMade, PostIsFinished, PostIsJudged
<1>9. CASE UNCHANGED <<campaign, stage, rendered, draft, link, post>>
  BY <1>9, <1>0, PostStays DEF PostsAreMade
<1>10. ASSUME NEW t \in Targets, Resolve(t)
       PROVE  PostsAreMade'
  BY <1>9, <1>10 DEF Resolve
<1>11. CASE UNCHANGED vars
  BY <1>9, <1>11 DEF vars
<1> QED
  BY <1>1, <1>2, <1>3, <1>4, <1>5, <1>6, <1>7, <1>8, <1>10, <1>11 DEF Next

(***************************************************************************)
(* What may become of a file                                               *)
(***************************************************************************)
\* No MIME type is of two kinds.
LEMMA KindsDiffer ==
  /\ \A m \in MimeTypes.image : Kind(m) = "image"
  /\ \A m \in MimeTypes.video : Kind(m) = "video"
<1>1. /\ DOMAIN MimeTypes = {"image", "video", "audio", "document"}
      /\ MimeTypes["image"] = {"image/png", "image/jpeg", "image/webp", "image/gif", "image/heic", "image/tiff"}
      /\ MimeTypes["video"] = {"video/mp4", "video/webm", "video/quicktime", "video/avi"}
      /\ MimeTypes["audio"] = {"audio/mpeg"}
      /\ MimeTypes["document"] = {"application/pdf"}
  BY DEF MimeTypes
<1>2. ASSUME NEW kind \in DOMAIN MimeTypes, NEW m \in MimeTypes[kind], NEW other \in DOMAIN MimeTypes, m \in MimeTypes[other]
      PROVE  kind = other
  BY <1>1, <1>2
<1>3. ASSUME NEW kind \in DOMAIN MimeTypes, NEW m \in MimeTypes[kind]
      PROVE  Kind(m) = kind
  BY <1>2, <1>3 DEF Kind
<1> QED
  BY <1>1, <1>3

\* What became of a source
Became(file, source) ==
  \/ file = P!OriginalRendition(source)
  \/ P!KindOf(source) = "image" /\ \E size \in ImageSizes : file = P!Derived(source, size)
  \/ P!KindOf(source) = "video" /\ \E target : file = P!Transcoded(source, target)

\* What a rendition of a source may have become.
LEMMA FileIs ==
  ASSUME RenditionsAreMade, campaign \in Campaigns, NEW t \in Targets, NEW i \in DOMAIN rendered
  PROVE  /\ campaign.sources[i] \in P!Sources /\ campaign.sources[i].bytes \in {0, campaign.sources[i].size}
         /\ Became(Rendition(t, i), campaign.sources[i])
<1>1. PICK sources, source : sources = campaign.sources /\ source = sources[i]
  OBVIOUS
<1>2. sources \in Seq(P!Sources) /\ \A j \in DOMAIN sources : sources[j].bytes \in {0, sources[j].size}
  BY <1>1, CompositionAssumption
<1>3. i \in DOMAIN sources
  BY <1>1, <1>2 DEF RenditionsAreMade
<1>4. source \in P!Sources /\ source.bytes \in {0, source.size}
  BY <1>1, <1>2, <1>3
<1>5. PICK kind, file :
        /\ kind = P!First(source, PlatformIds, Platform(t)) /\ file = Rendition(t, i)
        /\ file = IF kind \in DOMAIN rendered[i] THEN rendered[i][kind] ELSE P!OriginalRendition(source)
  BY <1>1 DEF Rendition
<1>6. CASE kind \in DOMAIN rendered[i]
  <2>1. PICK made : rendered[i] \in [made -> P!Results(source, PlatformIds, ImageSizes)]
    BY <1>1 DEF RenditionsAreMade, Renditions
  <2>2. file \in P!Results(source, PlatformIds, ImageSizes)
    BY <1>5, <1>6, <2>1
  <2>3. CASE P!KindOf(source) = "image"
    BY <1>1, <1>4, <1>5, <2>2, <2>3 DEF P!Results, Became
  <2>4. CASE P!KindOf(source) # "image"
    <3>1. PICK target \in P!Tightest(source, PlatformIds) : file = P!Transcoded(source, target)
      BY <2>2, <2>4 DEF P!Results
    <3>2. PICK j \in DOMAIN PlatformIds : "compressed" \in P!ToSet(P!Wants(source, PlatformIds[j]))
      BY <3>1 DEF P!Tightest
    <3>3. P!ToSet(<<>>) = {}
      BY DEF P!ToSet, P!Range
    <3>4. P!Wants(source, PlatformIds[j]) # <<>>
      BY <3>2, <3>3
    <3>5. P!KindOf(source) = "video"
      BY <2>4, <3>4 DEF P!Wants, P!Kinds
    <3> QED
      BY <1>1, <1>4, <1>5, <3>1, <3>5 DEF Became
  <2> QED
    BY <2>3, <2>4
<1> QED
  BY <1>1, <1>4, <1>5, <1>6 DEF Became

\* What the platforms of media ask of a file
Fine(platform, m) ==
  CASE platform = "discord"  -> m.bytes <= D!MaxBytes
    [] platform = "bluesky"  -> /\ m.mime \in B!Mimes /\ m.bytes <= B!MaxBytes(B!Kind(m.mime))
                                /\ B!Kind(m.mime) = "video" => m.seconds <= B!MaxSeconds
    [] platform = "mastodon" -> m.mime \in M!Mimes /\ m.bytes <= M!MaxBytes(M!Classify(m.mime))
    [] OTHER                 -> TRUE

\* The connectors tell kinds apart as this module does.
LEMMA KindsAgree ==
  ASSUME NEW m
  PROVE  M!Kind(m) = Kind(m) /\ B!Kind(m) = Kind(m)
BY DEF M!Kind, B!Kind, Kind, M!MimeTypes, B!MimeTypes, MimeTypes

\* What may be an image, and how the connectors see it
LEMMA ImagesAre ==
  ASSUME NEW m \in P!WebImages
  PROVE  /\ m \in B!Mimes /\ B!Kind(m) = "image"
         /\ m \in M!Mimes /\ M!Classify(m) \in {"gif", "image"} /\ M!Classify(m) # "video"
<1>1. m \in MimeTypes.image
  BY DEF P!WebImages, MimeTypes
<1>2. Kind(m) = "image"
  BY <1>1, KindsDiffer
<1>3. m \in B!Mimes
  BY DEF P!WebImages, B!Mimes
<1>4. m \in M!Mimes
  <2>1. M!MimeTypes = MimeTypes
    BY DEF M!MimeTypes, MimeTypes
  <2>2. m # "image/tiff"
    BY DEF P!WebImages
  <2> QED
    BY <1>1, <2>1, <2>2 DEF M!Mimes
<1> QED
  BY <1>2, <1>3, <1>4, KindsAgree DEF M!Classify

\* A transcode is a video that both platforms take.
LEMMA VideosAre ==
  /\ "video/mp4" \in B!Mimes /\ B!Kind("video/mp4") = "video"
  /\ "video/mp4" \in M!Mimes /\ M!Classify("video/mp4") = "video"
<1>1. "video/mp4" \in MimeTypes.video /\ "video/mp4" # "image/gif" /\ "video/mp4" # "video/avi"
  BY DEF MimeTypes
<1>2. Kind("video/mp4") = "video"
  BY <1>1, KindsDiffer
<1>3. M!MimeTypes = MimeTypes
  BY DEF M!MimeTypes, MimeTypes
<1>4. "video/mp4" \in M!Mimes
  BY <1>1, <1>3 DEF M!Mimes
<1> QED
  BY <1>1, <1>2, <1>4, KindsAgree DEF M!Classify, B!Mimes

\* The rules of the platforms
LEMMA RulesAre ==
  ASSUME NEW source, P!KindOf(source) \in P!Kinds
  PROVE  /\ P!KindOf(source) \in {"image", "video"}
         /\ P!Rules(source, "discord").supported /\ P!Rules(source, "discord").maxBytes = D!MaxBytes
         /\ P!Rules(source, "bluesky").supported
         /\ P!KindOf(source) = "image" =>
              /\ P!Rules(source, "bluesky").mimes = P!WebImages /\ P!Rules(source, "bluesky").maxBytes = 1000000
              /\ P!Rules(source, "mastodon").maxBytes = 8 * 1024 * 1024
         /\ P!KindOf(source) = "video" =>
              /\ P!Rules(source, "bluesky").mimes = {"video/mp4"} /\ P!Rules(source, "bluesky").maxBytes = 100000000
              /\ P!Rules(source, "bluesky").maxSeconds = 180
<1>1. P!KindOf(source) \in {"image", "video"}
  BY DEF P!Kinds
<1>2. /\ P!MediaSpec("discord") = P!Discord /\ P!MediaSpec("bluesky") = P!Bluesky
      /\ P!MediaSpec("mastodon") = P!Placeholder
  BY DEF P!MediaSpec
<1>3. CASE P!KindOf(source) = "image"
  <2>1. /\ P!Rules(source, "discord") = P!Discord.image /\ P!Rules(source, "bluesky") = P!Bluesky.image
        /\ P!Rules(source, "mastodon") = P!Placeholder.image
    BY <1>2, <1>3 DEF P!Rules
  <2> QED
    BY <1>3, <2>1 DEF P!Discord, P!Bluesky, P!Placeholder, P!ImageSpec, D!MaxBytes
<1>4. CASE P!KindOf(source) = "video"
  <2>1. /\ P!Rules(source, "discord") = P!Discord.video /\ P!Rules(source, "bluesky") = P!Bluesky.video
    BY <1>2, <1>4 DEF P!Rules
  <2> QED
    BY <1>4, <2>1 DEF P!Discord, P!Bluesky, P!VideoSpec, D!MaxBytes
<1> QED
  BY <1>1, <1>3, <1>4

\* What a source without issues is
LEMMA NoIssues ==
  ASSUME NEW source, P!KindOf(source) \in P!Kinds, NEW platform, P!Rules(source, platform).supported
  PROVE  /\ "unsupported_mime_type" \notin P!Issues(source, platform) => source.mime \in P!Rules(source, platform).mimes
         /\ "file_too_large" \notin P!Issues(source, platform) => ~(source.bytes > P!Rules(source, platform).maxBytes)
         /\ "duration_too_long" \notin P!Issues(source, platform) =>
              ~(P!Rules(source, platform).maxSeconds > 0 /\ source.seconds > P!Rules(source, platform).maxSeconds)
BY DEF P!Issues

\* A file that is not unfit is one the platform accepts.
LEMMA FileIsFine ==
  ASSUME RenditionsAreMade, campaign \in Campaigns, NEW t \in Targets, NEW i \in DOMAIN rendered, ~Unfit(t, i)
  PROVE  Fine(Platform(t), Rendition(t, i))
<1> DEFINE platform == Platform(t)
<1>1. PICK source, file : source = campaign.sources[i] /\ file = Rendition(t, i)
  OBVIOUS
<1>2. source \in P!Sources /\ source.bytes \in {0, source.size} /\ Became(file, source)
  BY <1>1, FileIs
<1>3. source.bytes \in Nat /\ source.seconds \in Nat
  BY <1>2 DEF P!Sources
<1>4. /\ file = P!OriginalRendition(source) =>
           /\ P!Issues(source, platform) = {} /\ P!KindOf(source) \in P!Kinds
           /\ P!MediaSpec(platform) # P!Placeholder
      /\ P!KindOf(source) = "image" => ~(file.bytes > P!Rules(source, platform).maxBytes)
      /\ "duration_too_long" \notin P!Issues(source, platform)
  BY <1>1 DEF Unfit, LeftAsIs
<1>5. P!KindOf(source) \in P!Kinds
  BY <1>2, <1>4 DEF Became, P!Kinds
<1> HIDE DEF platform
<1>a. SUFFICES ASSUME platform \in {"discord", "bluesky", "mastodon"}
               PROVE  Fine(platform, file)
  BY <1>1 DEF platform, Fine
<1>6. CASE file = P!OriginalRendition(source)
  <2>1. file.mime = source.mime /\ file.bytes = source.bytes /\ file.seconds = source.seconds
    BY <1>6 DEF P!OriginalRendition, P!File
  <2>2. platform # "mastodon"
    BY <1>4, <1>6 DEF P!MediaSpec
  <2>3. CASE platform = "discord"
    <3>1. ~(source.bytes > D!MaxBytes)
      BY <1>4, <1>5, <1>6, <2>3, RulesAre, NoIssues
    <3> QED
      BY <1>3, <2>1, <2>3, <3>1 DEF Fine, D!MaxBytes
  <2>4. CASE platform = "bluesky"
    <3>1. /\ source.mime \in P!Rules(source, platform).mimes /\ ~(source.bytes > P!Rules(source, platform).maxBytes)
          /\ ~(P!Rules(source, platform).maxSeconds > 0 /\ source.seconds > P!Rules(source, platform).maxSeconds)
      BY <1>4, <1>5, <1>6, <2>4, RulesAre, NoIssues
    <3>2. CASE P!KindOf(source) = "image"
      <4>1. source.mime \in P!WebImages /\ ~(source.bytes > 1000000)
        BY <1>5, <2>4, <3>1, <3>2, RulesAre
      <4> QED
        BY <1>3, <2>1, <2>4, <4>1, ImagesAre DEF Fine, B!MaxBytes
    <3>3. CASE P!KindOf(source) = "video"
      <4>1. source.mime = "video/mp4" /\ ~(source.bytes > 100000000) /\ ~(source.seconds > 180)
        BY <1>5, <2>4, <3>1, <3>3, RulesAre
      <4> QED
        BY <1>3, <2>1, <2>4, <4>1, VideosAre DEF Fine, B!MaxBytes, B!MaxSeconds
    <3> QED
      BY <1>5, <3>2, <3>3, RulesAre
  <2> QED
    BY <1>a, <2>2, <2>3, <2>4
<1>7. CASE P!KindOf(source) = "image" /\ \E size \in ImageSizes : file = P!Derived(source, size)
  <2>1. PICK size \in ImageSizes : file = P!Derived(source, size)
    BY <1>7
  <2>2. size \in Nat
    BY CompositionAssumption
  <2>3. file.bytes = size /\ file.mime \in P!WebImages
    BY <2>1 DEF P!Derived, P!File, P!OutputFormat, P!WebImages
  <2>4. ~(size > P!Rules(source, platform).maxBytes)
    BY <1>4, <1>7, <2>3
  <2>5. CASE platform = "discord"
    BY <1>5, <2>2, <2>3, <2>4, <2>5, RulesAre DEF Fine, D!MaxBytes
  <2>6. CASE platform = "bluesky"
    <3>1. ~(size > 1000000)
      BY <1>5, <1>7, <2>4, <2>6, RulesAre
    <3> QED
      BY <2>2, <2>3, <2>6, <3>1, ImagesAre DEF Fine, B!MaxBytes
  <2>7. CASE platform = "mastodon"
    <3>1. ~(size > 8 * 1024 * 1024)
      BY <1>5, <1>7, <2>4, <2>7, RulesAre
    <3>2. file.mime \in M!Mimes /\ M!Classify(file.mime) \in {"gif", "image"}
      BY <2>3, ImagesAre
    <3>3. M!MaxBytes(M!Classify(file.mime)) \in {16777216, 103809024}
      BY DEF M!MaxBytes
    <3> QED
      BY <2>2, <2>3, <2>7, <3>1, <3>2, <3>3 DEF Fine
  <2> QED
    BY <1>a, <2>5, <2>6, <2>7
<1>8. CASE P!KindOf(source) = "video" /\ \E target : file = P!Transcoded(source, target)
  <2>1. file.mime = "video/mp4" /\ file.bytes = 0 /\ file.seconds = source.seconds
    BY <1>8 DEF P!Transcoded, P!File
  <2>2. CASE platform = "discord"
    BY <2>1, <2>2 DEF Fine, D!MaxBytes
  <2>3. CASE platform = "bluesky"
    <3>1. ~(source.seconds > 180)
      BY <1>4, <1>5, <1>8, <2>3, RulesAre, NoIssues
    <3> QED
      BY <1>3, <2>1, <2>3, <3>1, VideosAre DEF Fine, B!MaxBytes, B!MaxSeconds
  <2>4. CASE platform = "mastodon"
    BY <2>1, <2>4, VideosAre DEF Fine, M!MaxBytes
  <2> QED
    BY <1>a, <2>2, <2>3, <2>4
<1> QED
  BY <1>2, <1>6, <1>7, <1>8 DEF Became

\* A file that weighs what it is said to weigh, or was made to weigh what its platform takes
Light(platform, m) ==
  \/ m.size = m.bytes
  \/ /\ m.mime = "video/mp4" /\ platform # "mastodon"
     /\ platform = "discord" => m.size <= D!MaxBytes
     /\ platform = "bluesky" => m.size <= 100000000

\* A part of m that is taken s times is within m.
LEMMA QuotientIsWithin ==
  ASSUME NEW m \in Nat, NEW s \in Nat \ {0}
  PROVE  (m \div s) \in Nat /\ (m \div s) * s <= m
OBVIOUS

\* A file of the rate that was chosen is within the limit, unless there was no rate but the least.
LEMMA RateKeepsLimit ==
  ASSUME NEW source, source.seconds \in Nat, NEW rules, rules.rate \in Nat, rules.maxBytes \in Nat,
         P!Rate(source, rules) # P!LeastRate
  PROVE  (P!Rate(source, rules) + P!AudioRate) * source.seconds <= rules.maxBytes
<1>1. PICK rate \in Nat, seconds \in Nat, max \in Nat :
        rate = rules.rate /\ seconds = source.seconds /\ max = rules.maxBytes
  OBVIOUS
<1>2. CASE (rate + 16000) * seconds <= max
  <2>1. P!Rate(source, rules) = rate
    BY <1>1, <1>2 DEF P!Rate, P!AudioRate
  <2> QED
    BY <1>1, <1>2, <2>1 DEF P!AudioRate
<1>3. CASE ~((rate + 16000) * seconds <= max)
  <2>1. seconds \in Nat \ {0}
    <3>1. seconds = 0 => (rate + 16000) * seconds = 0
      OBVIOUS
    <3> QED
      BY <1>3, <3>1
  <2>2. PICK q \in Nat : q = max \div seconds /\ q * seconds <= max
    BY <2>1, QuotientIsWithin
  <2>3. P!Rate(source, rules) = IF q - 16000 > 25000 THEN q - 16000 ELSE 25000
    BY <1>1, <1>3, <2>2 DEF P!Rate, P!AudioRate, P!LeastRate
  <2>4. P!Rate(source, rules) = q - 16000
    BY <2>3 DEF P!LeastRate
  <2>5. P!Rate(source, rules) + P!AudioRate = q
    BY <2>4 DEF P!AudioRate
  <2> QED
    BY <1>1, <2>2, <2>5
<1> QED
  BY <1>2, <1>3

\* What a video is made for.
LEMMA VideoRules ==
  ASSUME NEW source, P!KindOf(source) = "video", NEW platform \in {"discord", "bluesky"}
  PROVE  /\ P!Rules(source, platform).rate \in Nat
         /\ P!Rules(source, platform).maxBytes = IF platform = "discord" THEN D!MaxBytes ELSE 100000000
<1>1. P!Rules(source, platform) = IF platform = "discord" THEN P!Discord.video ELSE P!Bluesky.video
  BY DEF P!Rules, P!MediaSpec
<1> QED
  BY <1>1 DEF P!Discord, P!Bluesky, P!VideoSpec, D!MaxBytes

\* A file that was weighed is no heavier than the platform takes.
LEMMA FileIsLight ==
  ASSUME RenditionsAreMade, campaign \in Campaigns, NEW t \in Targets, NEW i \in DOMAIN rendered, ~Unweighed(t, i)
  PROVE  Light(Platform(t), Rendition(t, i))
<1>1. PICK source, file, platform : source = campaign.sources[i] /\ file = Rendition(t, i) /\ platform = Platform(t)
  OBVIOUS
<1>2. source \in P!Sources /\ source.bytes \in {0, source.size} /\ Became(file, source)
  BY <1>1, FileIs
<1>3. source.bytes \in Nat /\ source.seconds \in Nat
  BY <1>2 DEF P!Sources
<1>4. /\ source.bytes # 0
      /\ P!KindOf(source) = "video" /\ file # P!OriginalRendition(source) =>
           /\ file = P!Transcoded(source, P!Target(source, platform))
           /\ P!Target(source, platform).rate # P!LeastRate
           /\ P!MediaSpec(platform) # P!Placeholder
  BY <1>1 DEF Unweighed, LeftAsIs
<1>5. CASE file = P!OriginalRendition(source)
  BY <1>1, <1>2, <1>4, <1>5 DEF P!OriginalRendition, P!File, Light
<1>6. CASE P!KindOf(source) = "image" /\ \E size \in ImageSizes : file = P!Derived(source, size)
  BY <1>1, <1>6 DEF P!Derived, P!File, Light
<1>7. CASE P!KindOf(source) = "video" /\ file # P!OriginalRendition(source)
  <2>1. PICK rules, rate : rules = P!Rules(source, platform) /\ rate = P!Rate(source, rules)
    OBVIOUS
  <2>2. P!Target(source, platform).rate = rate
    BY <2>1 DEF P!Target
  <2>3. file.mime = "video/mp4" /\ file.size = (rate + P!AudioRate) * source.seconds
    BY <1>4, <1>7, <2>2 DEF P!Transcoded, P!File
  <2>4. platform # "mastodon"
    BY <1>4, <1>7 DEF P!MediaSpec
  <2>5. ASSUME platform \in {"discord", "bluesky"}
        PROVE  file.size <= IF platform = "discord" THEN D!MaxBytes ELSE 100000000
    <3>1. rules.rate \in Nat /\ rules.maxBytes = IF platform = "discord" THEN D!MaxBytes ELSE 100000000
      BY <1>7, <2>1, <2>5, VideoRules
    <3>2. rules.maxBytes \in Nat
      BY <3>1 DEF D!MaxBytes
    <3>3. (rate + P!AudioRate) * source.seconds <= rules.maxBytes
      BY <1>3, <1>4, <1>7, <2>1, <2>2, <3>1, <3>2, RateKeepsLimit
    <3> QED
      BY <2>3, <3>1, <3>3
  <2> QED
    BY <1>1, <2>3, <2>4, <2>5 DEF Light
<1> QED
  BY <1>2, <1>5, <1>6, <1>7 DEF Became

(***************************************************************************)
(* The fields of a post                                                    *)
(***************************************************************************)
\* An attached file
IsFile(m) ==
  DOMAIN m = {"mime", "bytes", "size", "seconds", "alt", "readable"} /\ m.alt = 0

\* What is attached of a file.
LEMMA MediaAre ==
  ASSUME NEW file
  PROVE  /\ IsFile(AsMedia(file)) /\ AsMedia(file).mime = file.mime /\ AsMedia(file).bytes = file.bytes
         /\ AsMedia(file).size = file.size /\ AsMedia(file).seconds = file.seconds
BY SMT DEF AsMedia, Attachment, IsFile

Files(t, n) == [i \in 1 .. n |-> AsMedia(Rendition(t, i))]

\* A post, by its parts
IsPost(p, text, urls, title, reference, tags, mentions, media, options) ==
  /\ DOMAIN p = {"text", "urls", "title", "link", "tags", "mentions", "media", "thread", "options"}
  /\ p.text = text /\ p.urls = urls /\ p.title = title /\ p.link = reference /\ p.tags = tags
  /\ p.mentions = mentions /\ p.media = media /\ p.thread = <<>> /\ p.options = options

\* The fields of a post.
LEMMA AttachIs ==
  ASSUME NEW t, NEW d, NEW b, NEW f
  PROVE  IsPost(Attach(t, Payload(d, b, f)),
                Size(d.text) - Total(Urls(d.text)), Urls(d.text), d.title, IF f.linked THEN b.link ELSE 0,
                IF f.titleOnly THEN d.tags ELSE Missing(d.text, d.tags), d.mentions,
                Files(t, Least(Len(rendered), MaxMediaCount[Platform(t)])), campaign.options)
<1>1. PICK urls, text, title, reference, tags, mentions, media, options :
        /\ urls = Urls(d.text) /\ text = Size(d.text) - Total(urls) /\ reference = IF f.linked THEN b.link ELSE 0
        /\ tags = IF f.titleOnly THEN d.tags ELSE Missing(d.text, d.tags)
        /\ title = d.title /\ mentions = d.mentions
        /\ media = Files(t, Least(Len(rendered), MaxMediaCount[Platform(t)])) /\ options = campaign.options
  OBVIOUS
<1>2. Payload(d, b, f) = [Blank EXCEPT !.text = text, !.urls = urls, !.title = title, !.link = reference,
                                       !.tags = tags, !.mentions = mentions]
  BY <1>1 DEF Payload
<1>3. PICK p : p = Payload(d, b, f)
  OBVIOUS
<1>4. IsPost(p, text, urls, title, reference, tags, mentions, <<>>, {})
  BY <1>2, <1>3 DEF Blank, IsPost
<1>5. Attach(t, p) = [p EXCEPT !.media = media, !.options = options]
  BY <1>1 DEF Attach, Files
<1>6. IsPost(Attach(t, p), text, urls, title, reference, tags, mentions, media, options)
  BY <1>4, <1>5 DEF IsPost
<1> QED
  BY <1>1, <1>3, <1>6

\* n files in a row
Row(media, n) ==
  /\ n \in Nat /\ DOMAIN media = 1 .. n /\ Len(media) = n
  /\ (n = 0 => media = <<>>)
  /\ \A i \in 1 .. n : IsFile(media[i])

\* Files, one after the other.
LEMMA RowIs ==
  ASSUME NEW n \in Nat, NEW media, DOMAIN media = 1 .. n, media = [i \in 1 .. n |-> media[i]],
         \A i \in 1 .. n : IsFile(media[i])
  PROVE  Row(media, n)
<1>1. PICK S : S = {media[i] : i \in 1 .. n}
  OBVIOUS
<1>2. media \in [1 .. n -> S]
  BY <1>1
<1>3. media \in Seq(S) /\ Len(media) = n
  BY <1>2
<1>4. n = 0 => media = <<>>
  BY <1>3
<1> QED
  BY <1>3, <1>4 DEF Row

\* The attached files are some.
LEMMA FilesAreRow ==
  ASSUME NEW t, NEW n \in Nat
  PROVE  Row(Files(t, n), n)
<1>1. PICK media : media = Files(t, n)
  OBVIOUS
<1>2. media = [i \in 1 .. n |-> AsMedia(Rendition(t, i))]
  BY <1>1 DEF Files
<1>3. \A i \in 1 .. n : IsFile(media[i])
  BY <1>2, MediaAre
<1>4. DOMAIN media = 1 .. n /\ media = [i \in 1 .. n |-> media[i]]
  BY <1>2
<1> QED
  BY <1>1, <1>3, <1>4, RowIs

\* A post that is weighed has other files.
LEMMA WeighedIs ==
  ASSUME NEW text, NEW urls, NEW title, NEW reference, NEW tags, NEW mentions, NEW media, NEW options,
         NEW n, Row(media, n), NEW p, IsPost(p, text, urls, title, reference, tags, mentions, media, options)
  PROVE  \E other :
           /\ IsPost(Weighed(p), text, urls, title, reference, tags, mentions, other, options)
           /\ Row(other, n)
           /\ \A i \in 1 .. n : /\ other[i].mime = media[i].mime /\ other[i].bytes = media[i].size
                                /\ other[i].seconds = media[i].seconds
<1> DEFINE other == [i \in DOMAIN media |-> [media[i] EXCEPT !.bytes = media[i].size]]
<1>1. p.media = media
  BY DEF IsPost
<1>2. Weighed(p) = [p EXCEPT !.media = other]
  BY <1>1 DEF Weighed
<1>3. n \in Nat /\ DOMAIN other = 1 .. n
  BY DEF Row
<1>4. ASSUME NEW i \in 1 .. n
      PROVE  /\ IsFile(other[i])
             /\ other[i].mime = media[i].mime /\ other[i].bytes = media[i].size /\ other[i].seconds = media[i].seconds
  <2>1. PICK m, size : m = media[i] /\ size = m.size
    OBVIOUS
  <2>2. other[i] = [m EXCEPT !.bytes = size] /\ IsFile(m)
    BY <2>1 DEF Row
  <2>3. PICK o : o = [m EXCEPT !.bytes = size]
    OBVIOUS
  <2>4. IsFile(o) /\ o.mime = m.mime /\ o.bytes = size /\ o.seconds = m.seconds
    BY <2>2, <2>3 DEF IsFile
  <2> QED
    BY <2>1, <2>2, <2>3, <2>4
<1>5. other = [i \in 1 .. n |-> other[i]]
  BY <1>3
<1> HIDE DEF other
<1>6. Row(other, n)
  BY <1>3, <1>4, <1>5, RowIs
<1>7. PICK q : q = [p EXCEPT !.media = other]
  OBVIOUS
<1>8. IsPost(q, text, urls, title, reference, tags, mentions, other, options)
  BY <1>7 DEF IsPost
<1> QED
  BY <1>2, <1>4, <1>6, <1>7, <1>8

\* Each connector measures a text as this module does.
LEMMA TotalsAgree ==
  ASSUME NEW lengths
  PROVE  /\ D!Total(lengths) = Total(lengths) /\ M!Total(lengths) = Total(lengths) /\ B!Total(lengths) = Total(lengths)
         /\ R!Total(lengths) = Total(lengths) /\ T!Total(lengths) = Total(lengths)
<1>1. D!Total(lengths) = Total(lengths)
  BY Zenon DEF D!Total, Total, D!FoldLeft, FoldLeft, D!MapThenFoldSet, MapThenFoldSet, D!Max, Max
<1>2. M!Total(lengths) = Total(lengths)
  BY Zenon DEF M!Total, Total, M!FoldLeft, FoldLeft, M!MapThenFoldSet, MapThenFoldSet, M!Max, Max
<1>3. B!Total(lengths) = Total(lengths)
  BY Zenon DEF B!Total, Total, B!FoldLeft, FoldLeft, B!MapThenFoldSet, MapThenFoldSet, B!Max, Max
<1>4. R!Total(lengths) = Total(lengths)
  BY Zenon DEF R!Total, Total, R!FoldLeft, FoldLeft, R!MapThenFoldSet, MapThenFoldSet, R!Max, Max
<1>5. T!Total(lengths) = Total(lengths)
  BY Zenon DEF T!Total, Total, T!FoldLeft, FoldLeft, T!MapThenFoldSet, MapThenFoldSet, T!Max, Max
<1> QED
  BY <1>1, <1>2, <1>3, <1>4, <1>5

\* The connectors measure a post alike.
LEMMA MeasuresAgree ==
  ASSUME NEW p
  PROVE  /\ D!TextLength(p) = TextLength(p) /\ B!TextLength(p) = TextLength(p)
         /\ R!TextLength(p) = TextLength(p) /\ T!TextLength(p) = TextLength(p)
         /\ \A base : M!AssembledLength(p, base) = AssembledLength(p, base) /\ B!AssembledLength(p, base) = AssembledLength(p, base)
<1>1. /\ D!TextLength(p) = TextLength(p) /\ B!TextLength(p) = TextLength(p)
      /\ R!TextLength(p) = TextLength(p) /\ T!TextLength(p) = TextLength(p)
  BY TotalsAgree DEF D!TextLength, B!TextLength, R!TextLength, T!TextLength, TextLength
<1>2. \A lengths : M!ListLength(lengths) = ListLength(lengths) /\ B!ListLength(lengths) = ListLength(lengths)
  BY TotalsAgree DEF M!ListLength, B!ListLength, ListLength
<1> QED
  BY <1>1, <1>2 DEF M!AssembledLength, B!AssembledLength, AssembledLength

\* A post that is no thread is the only one.
LEMMA ItemsAre ==
  ASSUME NEW p, p.thread = <<>>
  PROVE  /\ D!Items(p) = <<p>> /\ M!Items(p) = <<p>> /\ B!Items(p) = <<p>>
         /\ Len(<<p>>) = 1 /\ DOMAIN <<p>> = {1} /\ <<p>>[1] = p
<1>1. <<p>> \in Seq({p}) /\ Len(<<p>>) = 1 /\ DOMAIN <<p>> = {1} /\ <<p>>[1] = p
  OBVIOUS
<1>2. <<p>> \o <<>> = <<p>>
  BY <1>1
<1> QED
  BY <1>1, <1>2 DEF D!Items, M!Items, B!Items

(***************************************************************************)
(* What each connector accepts, and what each platform takes               *)
(***************************************************************************)
Plainly(options) == options \subseteq {"subreddit", "ping"}

Unmixed(media) == \A i, j \in DOMAIN media : i # j => Kind(media[i].mime) = "image"

\* What Discord's connector accepts.
LEMMA DiscordAccepts ==
  ASSUME NEW text, NEW urls, NEW title, NEW reference, NEW tags, NEW mentions, NEW media, NEW options,
         NEW n, Row(media, n), NEW p, IsPost(p, text, urls, title, reference, tags, mentions, media, options),
         TextLength(p) \in 1 .. 2000, Plainly(options), n <= 10, \A i \in 1 .. n : Fine("discord", media[i])
  PROVE  Accepts("discord", p)
<1>1. D!TextLength(p) <= D!MaxText /\ D!TextLength(p) > 0
  BY MeasuresAgree DEF D!MaxText
<1>2. "longEmbed" \notin options /\ "quote" \notin options
  BY DEF Plainly
<1>3. Len(media) <= D!MaxMedia
  BY DEF Row, D!MaxMedia
<1>4. ASSUME NEW i \in DOMAIN media
      PROVE  D!ValidMedia(media[i])
  <2>1. i \in 1 .. n /\ media[i].alt = 0
    BY DEF Row, IsFile
  <2> QED
    BY <2>1 DEF Fine, D!ValidMedia, D!MaxAlt
<1>5. D!ValidItem(p)
  BY <1>1, <1>2, <1>3, <1>4 DEF D!ValidItem, D!ValidEmbed, IsPost
<1>6. p.thread = <<>>
  BY DEF IsPost
<1>7. D!Accepts(p)
  BY <1>5, <1>6, ItemsAre DEF D!Accepts
<1> QED
  BY <1>7 DEF Accepts

\* What that of Bluesky accepts.
LEMMA BlueskyAccepts ==
  ASSUME NEW text, NEW urls, NEW title, NEW reference, NEW tags, NEW mentions, NEW media, NEW options,
         NEW n, Row(media, n), NEW p, IsPost(p, text, urls, title, reference, tags, mentions, media, options),
         AssembledLength(p, TextLength(p)) \in 1 .. 300, Plainly(options), n <= 4,
         \A i \in 1 .. n : Fine("bluesky", media[i]), Unmixed(media)
  PROVE  Accepts("bluesky", p)
<1>1. B!SentLength(p) \in 1 .. 300
  BY MeasuresAgree DEF B!SentLength
<1>2. "emoji" \notin options
  BY DEF Plainly
<1>0. PICK m \in Nat : m = B!SentLength(p) /\ m > 0 /\ m <= 300
  BY <1>1
<1>3. B!Takes(p)
  <2>1. B!Bytes(p) = m
    BY <1>0, <1>2 DEF B!Bytes, IsPost
  <2> QED
    BY <1>0, <2>1 DEF B!Takes, B!MaxText, B!MaxBytesOfText
<1>4. Len(media) <= B!MaxMedia
  BY DEF Row, B!MaxMedia
<1>5. ASSUME NEW i \in DOMAIN media
      PROVE  /\ media[i].mime \in B!Mimes
             /\ media[i].bytes <= B!MaxBytes(B!Kind(media[i].mime))
             /\ B!Kind(media[i].mime) = "video" => media[i].seconds <= B!MaxSeconds
             /\ media[i].alt <= B!MaxAlt
  <2>1. i \in 1 .. n /\ media[i].alt = 0
    BY DEF Row, IsFile
  <2> QED
    BY <2>1 DEF Fine, B!MaxAlt
<1>6. ASSUME NEW i \in DOMAIN media, B!Kind(media[i].mime) = "video"
      PROVE  Len(media) = 1
  <2>1. Kind(media[i].mime) # "image"
    BY <1>6, KindsAgree
  <2>2. \A j \in DOMAIN media : j = i
    BY <2>1 DEF Unmixed
  <2>3. n \in Nat /\ i \in 1 .. n /\ \A j \in 1 .. n : j = i
    BY <2>2 DEF Row
  <2>4. 1 \in 1 .. n /\ n \in 1 .. n
    BY <2>3
  <2> QED
    BY <2>3, <2>4 DEF Row
<1>7. B!ValidMedia(media)
  BY <1>4, <1>5, <1>6 DEF B!ValidMedia
<1>8. B!ValidItem(p)
  <2>1. p.media = media
    BY DEF IsPost
  <2> QED
    BY <1>0, <1>3, <1>7, <2>1 DEF B!ValidItem
<1>9. p.thread = <<>>
  BY DEF IsPost
<1>i. PICK items : items = B!Items(p) /\ Len(items) = 1 /\ DOMAIN items = {1} /\ items[1] = p
  BY <1>9, ItemsAre
<1>10. B!Accepts(p)
  BY <1>8, <1>9, <1>i DEF B!Accepts, B!MaxThread
<1> QED
  BY <1>10 DEF Accepts

\* What that of Mastodon accepts.
LEMMA MastodonAccepts ==
  ASSUME NEW text, NEW urls, NEW title, NEW reference, NEW tags, NEW mentions, NEW media, NEW options,
         NEW n, Row(media, n), NEW p, IsPost(p, text, urls, title, reference, tags, mentions, media, options),
         text + 23 * Len(urls) \in 1 .. 500, Plainly(options), n <= 4,
         \A i \in 1 .. n : Fine("mastodon", media[i]), Unmixed(media)
  PROVE  Accepts("mastodon", p)
<1>1. M!CountedLength(p) \in 1 .. 500
  BY DEF M!CountedLength, M!CountedUrl, IsPost
<1>2. "unknownVisibility" \notin options
  BY DEF Plainly
<1>3. Len(media) <= M!MaxMedia
  BY DEF Row, M!MaxMedia
<1>4. ASSUME NEW i \in DOMAIN media
      PROVE  /\ media[i].mime \in M!Mimes
             /\ media[i].bytes <= M!MaxBytes(M!Classify(media[i].mime))
             /\ media[i].alt <= M!MaxAlt
  <2>1. i \in 1 .. n /\ media[i].alt = 0
    BY DEF Row, IsFile
  <2> QED
    BY <2>1 DEF Fine, M!MaxAlt
<1>5. ASSUME NEW i \in DOMAIN media, M!Classify(media[i].mime) \in {"video", "audio"}
      PROVE  Len(media) <= 1
  <2>1. Kind(media[i].mime) # "image"
    BY <1>5, KindsAgree DEF M!Classify
  <2>2. \A j \in DOMAIN media : j = i
    BY <2>1 DEF Unmixed
  <2>3. n \in Nat /\ i \in 1 .. n /\ \A j \in 1 .. n : j = i
    BY <2>2 DEF Row
  <2>4. 1 \in 1 .. n /\ n \in 1 .. n
    BY <2>3
  <2> QED
    BY <2>3, <2>4 DEF Row
<1>6. M!ValidMedia(media)
  BY <1>3, <1>4, <1>5 DEF M!ValidMedia
<1>7. M!ValidItem(p)
  <2>1. p.media = media /\ p.options = options
    BY DEF IsPost
  <2>2. PICK m \in Nat : m = M!CountedLength(p) /\ m > 0 /\ m <= 500
    BY <1>1
  <2> QED
    BY <1>2, <1>6, <2>1, <2>2 DEF M!ValidItem, M!MaxText
<1>8. p.thread = <<>>
  BY DEF IsPost
<1>i. PICK items : items = M!Items(p) /\ Len(items) = 1 /\ DOMAIN items = {1} /\ items[1] = p
  BY <1>8, ItemsAre
<1>9. M!Accepts(p)
  BY <1>7, <1>8, <1>i DEF M!Accepts, M!MaxThread
<1> QED
  BY <1>9 DEF Accepts

\* What that of Reddit accepts.
LEMMA RedditAccepts ==
  ASSUME NEW text, NEW urls, NEW title, NEW reference, NEW tags, NEW mentions, NEW media, NEW options,
         NEW n, Row(media, n), NEW p, IsPost(p, text, urls, title, reference, tags, mentions, media, options),
         TextLength(p) <= 40000, title \in 1 .. 300, Plainly(options), "subreddit" \in options, reference = 0, n = 0
  PROVE  Accepts("reddit", p)
<1>1. R!TextLength(p) <= R!MaxText
  BY MeasuresAgree DEF R!MaxText
<1>2. "invalidLink" \notin options /\ media = <<>>
  BY DEF Plainly, Row
<1>3. R!Accepts(p)
  BY <1>1, <1>2 DEF R!Accepts, R!MaxTitle, IsPost
<1> QED
  BY <1>3 DEF Accepts

\* What that of Twitch accepts.
LEMMA TwitchAccepts ==
  ASSUME NEW text, NEW urls, NEW title, NEW reference, NEW tags, NEW mentions, NEW media, NEW options,
         NEW n, Row(media, n), NEW p, IsPost(p, text, urls, title, reference, tags, mentions, media, options),
         title \in 1 .. 140, Len(tags) <= 10, \A i \in DOMAIN tags : tags[i] <= 25, mentions = <<>>,
         Plainly(options), n = 0
  PROVE  Accepts("twitch", p)
<1>1. T!ChannelTitle(p) = title
  BY DEF T!ChannelTitle, IsPost
<1>2. "invalidTag" \notin options /\ media = <<>>
  BY DEF Plainly, Row
<1>3. T!Takes(p)
  BY <1>1 DEF T!Takes, T!MaxTitle, T!MaxTags, T!MaxTag, IsPost
<1>4. T!Accepts(p)
  BY <1>1, <1>2, <1>3 DEF T!Accepts, IsPost
<1> QED
  BY <1>4 DEF Accepts

\* Other files of the same kind: what they weigh is what the former are said to weigh
Restated(media, other, n) ==
  \A i \in 1 .. n : /\ other[i].mime = media[i].mime /\ other[i].bytes = media[i].size
                    /\ other[i].seconds = media[i].seconds

\* A post with other files has the same text.
LEMMA SameText ==
  ASSUME NEW text, NEW urls, NEW title, NEW reference, NEW tags, NEW mentions, NEW media, NEW options, NEW other,
         NEW p, IsPost(p, text, urls, title, reference, tags, mentions, media, options),
         NEW w, IsPost(w, text, urls, title, reference, tags, mentions, other, options)
  PROVE  /\ TextLength(w) = TextLength(p) /\ \A base : AssembledLength(w, base) = AssembledLength(p, base)
BY DEF IsPost, TextLength, AssembledLength

\* Other files in the same places.
LEMMA Emptiness ==
  ASSUME NEW n, NEW media, Row(media, n), NEW other, Row(other, n)
  PROVE  /\ DOMAIN media = 1 .. n /\ DOMAIN other = 1 .. n /\ Len(media) = n /\ Len(other) = n
         /\ media = <<>> <=> other = <<>>
         /\ \A i \in 1 .. n : media[i].alt = 0 /\ other[i].alt = 0
BY DEF Row, IsFile

\* What Discord takes of what its connector accepts.
LEMMA DiscordTakes ==
  ASSUME NEW text, NEW urls, NEW title, NEW reference, NEW tags, NEW mentions, NEW media, NEW options,
         NEW n, Row(media, n), NEW p, IsPost(p, text, urls, title, reference, tags, mentions, media, options),
         Accepts("discord", p), \A i \in 1 .. n : Light("discord", media[i]),
         TextLength(p) \in Nat, "ping" \notin options, title <= 256
  PROVE  Takes("discord", p)
<1>1. D!Accepts(p)
  BY DEF Accepts
<1>2. PICK w, other :
        /\ w = Weighed(p) /\ IsPost(w, text, urls, title, reference, tags, mentions, other, options)
        /\ Row(other, n) /\ Restated(media, other, n)
  BY WeighedIs DEF Restated
<1>3. p.thread = <<>> /\ w.thread = <<>> /\ p.media = media /\ w.media = other /\ p.options = options /\ w.options = options
      /\ p.title = title
  BY <1>2 DEF IsPost
<1>4. D!ValidItem(p)
  <2>1. PICK items : items = D!Items(p) /\ DOMAIN items = {1} /\ items[1] = p
    BY <1>3, ItemsAre
  <2> QED
    BY <1>1, <2>1 DEF D!Accepts
<1>5. PICK length : D!TextLength(p) = length /\ D!TextLength(w) = length
  BY <1>2, SameText, MeasuresAgree
<1>6. ASSUME NEW i \in 1 .. n
      PROVE  D!ValidMedia(other[i])
  <2>1. D!ValidMedia(media[i])
    BY <1>3, <1>4, <1>6 DEF D!ValidItem, Row
  <2>2. other[i].bytes = media[i].size /\ other[i].alt = 0
    BY <1>2 DEF Restated, Row, IsFile
  <2>3. media[i].size <= D!MaxBytes
    BY <2>1 DEF Light, D!ValidMedia
  <2> QED
    BY <2>2, <2>3 DEF D!ValidMedia, D!MaxAlt
<1>7. D!ValidItem(w)
  <2>1. /\ DOMAIN media = 1 .. n /\ DOMAIN other = 1 .. n /\ Len(media) = n /\ Len(other) = n
        /\ media = <<>> <=> other = <<>>
    BY <1>2, Emptiness
  <2>2. /\ length <= D!MaxText /\ (length > 0 \/ media # <<>> \/ options \cap {"embed", "longEmbed"} # {})
        /\ "longEmbed" \notin options /\ "quote" \notin options /\ n <= D!MaxMedia
    BY <1>3, <1>4, <1>5, <2>1 DEF D!ValidItem, D!ValidEmbed
  <2> QED
    BY <1>3, <1>5, <1>6, <2>1, <2>2 DEF D!ValidItem, D!ValidEmbed
<1>8. D!Accepts(w)
  <2>1. PICK items : items = D!Items(w) /\ DOMAIN items = {1} /\ items[1] = w
    BY <1>3, ItemsAre
  <2> QED
    BY <1>7, <2>1 DEF D!Accepts
<1>9. D!Takes(p)
  <2>1. D!TextLength(p) <= D!MaxText
    BY <1>4 DEF D!ValidItem
  <2>2. D!ContentLength(p) <= D!MaxText
    <3>1. PICK m \in Nat : m = D!TextLength(p) /\ m <= D!MaxText
      BY <2>1, MeasuresAgree
    <3> QED
      BY <1>3, <3>1 DEF D!ContentLength
  <2> QED
    BY <1>3, <2>2 DEF D!Takes, D!MaxTitle
<1> QED
  BY <1>2, <1>8, <1>9 DEF Takes, TakesText, Accepts

\* What Bluesky takes.
LEMMA BlueskyTakes ==
  ASSUME NEW text, NEW urls, NEW title, NEW reference, NEW tags, NEW mentions, NEW media, NEW options,
         NEW n, Row(media, n), NEW p, IsPost(p, text, urls, title, reference, tags, mentions, media, options),
         Accepts("bluesky", p), \A i \in 1 .. n : Light("bluesky", media[i])
  PROVE  Takes("bluesky", p)
<1>1. B!Accepts(p)
  BY DEF Accepts
<1>2. PICK w, other :
        /\ w = Weighed(p) /\ IsPost(w, text, urls, title, reference, tags, mentions, other, options)
        /\ Row(other, n) /\ Restated(media, other, n)
  BY WeighedIs DEF Restated
<1>3. p.thread = <<>> /\ w.thread = <<>> /\ p.media = media /\ w.media = other /\ p.options = options /\ w.options = options
  BY <1>2 DEF IsPost
<1>4. B!ValidItem(p)
  <2>1. PICK items : items = B!Items(p) /\ DOMAIN items = {1} /\ items[1] = p
    BY <1>3, ItemsAre
  <2> QED
    BY <1>1, <2>1 DEF B!Accepts
<1>5. PICK length : B!SentLength(p) = length /\ B!SentLength(w) = length
  <2>1. PICK base : TextLength(p) = base /\ TextLength(w) = base
    BY <1>2, SameText
  <2>2. AssembledLength(w, base) = AssembledLength(p, base)
    BY <1>2, SameText
  <2>3. B!SentLength(p) = AssembledLength(p, base) /\ B!SentLength(w) = AssembledLength(w, base)
    BY <2>1, MeasuresAgree DEF B!SentLength
  <2> QED
    BY <2>2, <2>3
<1>a. /\ DOMAIN media = 1 .. n /\ DOMAIN other = 1 .. n /\ Len(media) = n /\ Len(other) = n
      /\ media = <<>> <=> other = <<>>
      /\ \A i \in 1 .. n : media[i].alt = 0 /\ other[i].alt = 0
  BY <1>2, Emptiness
<1>b. B!ValidMedia(media)
  BY <1>3, <1>4 DEF B!ValidItem
<1>6. ASSUME NEW i \in 1 .. n
      PROVE  /\ other[i].mime \in B!Mimes /\ B!Kind(other[i].mime) = B!Kind(media[i].mime)
             /\ other[i].bytes <= B!MaxBytes(B!Kind(other[i].mime))
             /\ B!Kind(other[i].mime) = "video" => other[i].seconds <= B!MaxSeconds
             /\ other[i].alt <= B!MaxAlt
  <2>1. /\ media[i].mime \in B!Mimes /\ media[i].bytes <= B!MaxBytes(B!Kind(media[i].mime))
        /\ B!Kind(media[i].mime) = "video" => media[i].seconds <= B!MaxSeconds
        /\ media[i].alt <= B!MaxAlt
    BY <1>a, <1>b, <1>6 DEF B!ValidMedia
  <2>2. /\ other[i].mime = media[i].mime /\ other[i].bytes = media[i].size /\ other[i].seconds = media[i].seconds
        /\ other[i].alt = media[i].alt
    BY <1>2, <1>a DEF Restated
  <2>3. media[i].size <= B!MaxBytes(B!Kind(media[i].mime))
    <3>1. CASE media[i].size = media[i].bytes
      BY <2>1, <3>1
    <3>2. CASE media[i].mime = "video/mp4" /\ media[i].size <= 100000000
      BY <3>2, VideosAre DEF B!MaxBytes
    <3> QED
      BY <3>1, <3>2 DEF Light
  <2> QED
    BY <2>1, <2>2, <2>3
<1>7. B!ValidItem(w)
  <2>1. B!ValidMedia(other)
    <3>1. n <= B!MaxMedia /\ ((\E i \in 1 .. n : B!Kind(media[i].mime) = "video") => n = 1)
      BY <1>a, <1>b DEF B!ValidMedia
    <3> QED
      BY <1>a, <1>6, <3>1 DEF B!ValidMedia
  <2>2. B!Takes(w)
    <3>1. B!Takes(p)
      BY <1>4 DEF B!ValidItem
    <3> QED
      BY <1>3, <1>5, <3>1 DEF B!Takes, B!Bytes
  <2>3. length > 0 \/ media # <<>>
    BY <1>3, <1>4, <1>5 DEF B!ValidItem
  <2> QED
    BY <1>3, <1>5, <1>a, <2>1, <2>2, <2>3 DEF B!ValidItem
<1>8. B!Accepts(w)
  <2>1. PICK items : items = B!Items(w) /\ Len(items) = 1 /\ DOMAIN items = {1} /\ items[1] = w
    BY <1>3, ItemsAre
  <2> QED
    BY <1>7, <2>1 DEF B!Accepts, B!MaxThread
<1>9. B!Takes(p)
  BY <1>4 DEF B!ValidItem
<1> QED
  BY <1>2, <1>8, <1>9 DEF Takes, TakesText, Accepts

\* What Mastodon takes: tags and mentions are appended before it counts.
LEMMA MastodonTakes ==
  ASSUME NEW text, NEW urls, NEW title, NEW reference, NEW tags, NEW mentions, NEW media, NEW options,
         NEW n, Row(media, n), NEW p, IsPost(p, text, urls, title, reference, tags, mentions, media, options),
         Accepts("mastodon", p), \A i \in 1 .. n : Light("mastodon", media[i]),
         AssembledLength(p, text + 23 * Len(urls)) <= 500
  PROVE  Takes("mastodon", p)
<1>1. M!Accepts(p)
  BY DEF Accepts
<1>2. PICK w, other :
        /\ w = Weighed(p) /\ IsPost(w, text, urls, title, reference, tags, mentions, other, options)
        /\ Row(other, n) /\ Restated(media, other, n)
  BY WeighedIs DEF Restated
<1>3. p.thread = <<>> /\ w.thread = <<>> /\ p.media = media /\ w.media = other /\ p.options = options /\ w.options = options
  BY <1>2 DEF IsPost
<1>4. M!ValidItem(p)
  <2>1. PICK items : items = M!Items(p) /\ DOMAIN items = {1} /\ items[1] = p
    BY <1>3, ItemsAre
  <2> QED
    BY <1>1, <2>1 DEF M!Accepts
<1>5. PICK length : M!CountedLength(p) = length /\ M!CountedLength(w) = length /\ length = text + 23 * Len(urls)
  BY <1>2 DEF IsPost, M!CountedLength, M!CountedUrl
<1>a. /\ DOMAIN media = 1 .. n /\ DOMAIN other = 1 .. n /\ Len(media) = n /\ Len(other) = n
      /\ media = <<>> <=> other = <<>>
      /\ \A i \in 1 .. n : media[i].alt = 0 /\ other[i].alt = 0
  BY <1>2, Emptiness
<1>b. M!ValidMedia(media)
  BY <1>3, <1>4 DEF M!ValidItem
<1>6. ASSUME NEW i \in 1 .. n
      PROVE  /\ other[i].mime = media[i].mime /\ other[i].bytes = media[i].bytes /\ other[i].alt = media[i].alt
  BY <1>2, <1>a DEF Restated, Light
<1>7. M!ValidItem(w)
  <2>1. M!ValidMedia(other)
    BY <1>a, <1>b, <1>6 DEF M!ValidMedia
  <2>2. length > 0 \/ media # <<>>
    BY <1>3, <1>4, <1>5 DEF M!ValidItem
  <2>3. length <= M!MaxText /\ "unknownVisibility" \notin options
    BY <1>3, <1>4, <1>5 DEF M!ValidItem
  <2> QED
    BY <1>3, <1>5, <1>a, <2>1, <2>2, <2>3 DEF M!ValidItem
<1>8. M!Accepts(w)
  <2>1. PICK items : items = M!Items(w) /\ Len(items) = 1 /\ DOMAIN items = {1} /\ items[1] = w
    BY <1>3, ItemsAre
  <2> QED
    BY <1>7, <2>1 DEF M!Accepts, M!MaxThread
<1>9. M!Takes(p)
  BY <1>5, MeasuresAgree DEF M!Takes, M!MaxText
<1> QED
  BY <1>2, <1>8, <1>9 DEF Takes, TakesText, Accepts

\* What Reddit takes.
LEMMA RedditTakes ==
  ASSUME NEW text, NEW urls, NEW title, NEW reference, NEW tags, NEW mentions, NEW media, NEW options,
         NEW n, Row(media, n), NEW p, IsPost(p, text, urls, title, reference, tags, mentions, media, options),
         Accepts("reddit", p)
  PROVE  Takes("reddit", p)
<1>1. R!Accepts(p)
  BY DEF Accepts
<1>2. PICK w, other :
        /\ w = Weighed(p) /\ IsPost(w, text, urls, title, reference, tags, mentions, other, options) /\ Row(other, n)
  BY WeighedIs
<1>3. /\ p.title = title /\ w.title = title /\ p.options = options /\ w.options = options /\ p.link = reference
      /\ w.link = reference /\ p.media = media /\ w.media = other /\ w.thread = <<>>
  BY <1>2 DEF IsPost
<1>4. PICK length : R!TextLength(p) = length /\ R!TextLength(w) = length
  BY <1>2, SameText, MeasuresAgree
<1>5. media = <<>> <=> other = <<>>
  BY <1>2, Emptiness
<1>6. R!Accepts(w)
  BY <1>1, <1>3, <1>4, <1>5 DEF R!Accepts
<1>7. R!Takes(p)
  <2>1. p.title \in 1 .. 300
    BY <1>1 DEF R!Accepts, R!MaxTitle
  <2>2. R!TextLength(p) <= R!MaxText
    BY <1>1 DEF R!Accepts
  <2> QED
    BY <2>1, <2>2 DEF R!Takes, R!MaxTitle
<1> QED
  BY <1>2, <1>6, <1>7 DEF Takes, TakesText, Accepts

\* What Twitch takes.
LEMMA TwitchTakes ==
  ASSUME NEW text, NEW urls, NEW title, NEW reference, NEW tags, NEW mentions, NEW media, NEW options,
         NEW n, Row(media, n), NEW p, IsPost(p, text, urls, title, reference, tags, mentions, media, options),
         Accepts("twitch", p)
  PROVE  Takes("twitch", p)
<1>1. T!Accepts(p)
  BY DEF Accepts
<1>2. PICK w, other :
        /\ w = Weighed(p) /\ IsPost(w, text, urls, title, reference, tags, mentions, other, options) /\ Row(other, n)
  BY WeighedIs
<1>3. /\ p.title = title /\ w.title = title /\ p.options = options /\ w.options = options /\ p.tags = tags
      /\ w.tags = tags /\ p.mentions = mentions /\ w.mentions = mentions
      /\ p.media = media /\ w.media = other /\ w.thread = <<>>
  BY <1>2 DEF IsPost
<1>4. PICK length : T!ChannelTitle(p) = length /\ T!ChannelTitle(w) = length
  <2>1. PICK base : T!TextLength(p) = base /\ T!TextLength(w) = base
    BY <1>2, SameText, MeasuresAgree
  <2> QED
    BY <1>3, <2>1 DEF T!ChannelTitle
<1>5. media = <<>> <=> other = <<>>
  BY <1>2, Emptiness
<1>6. T!Accepts(w)
  BY <1>1, <1>3, <1>4, <1>5 DEF T!Accepts, T!Takes
<1>7. T!Takes(p)
  BY <1>1 DEF T!Accepts
<1> QED
  BY <1>2, <1>6, <1>7 DEF Takes, TakesText, Accepts

(***************************************************************************)
(* A finished post is accepted, and taken, unless there is a reason        *)
(***************************************************************************)
\* A file of the same type, size and length is as good.
LEMMA FineAs ==
  ASSUME NEW platform, NEW file, NEW m, m.mime = file.mime, m.bytes = file.bytes, m.size = file.size, m.seconds = file.seconds
  PROVE  /\ Fine(platform, file) => Fine(platform, m)
         /\ Light(platform, file) => Light(platform, m)
BY DEF Fine, Light

\* The parts of a post that was submitted
Finished(t, text, urls, title, reference, tags, mentions, media, options, n) ==
  /\ IsPost(post[t], text, urls, title, reference, tags, mentions, media, options)
  /\ Row(media, n) /\ n <= MaxMediaCount[Platform(t)] /\ n <= Len(rendered) /\ media = Files(t, n)
  /\ text \in Nat /\ urls \in Seq(Nat) /\ text + Total(urls) = Size(draft[t].text)
  /\ Total(urls) \in Nat /\ Size(draft[t].text) \in Nat
  /\ TextLength(post[t]) = Size(draft[t].text)
  /\ title = draft[t].title /\ mentions = draft[t].mentions /\ options = campaign.options
  /\ ~Voice(t).linked => reference = 0
  /\ tags = IF Voice(t).titleOnly THEN draft[t].tags ELSE Missing(draft[t].text, draft[t].tags)

\* How many files a platform takes.
LEMMA MediaCounts ==
  ASSUME NEW p \in DOMAIN Profile
  PROVE  /\ MaxMediaCount[p] \in Nat
         /\ p = "discord" => MaxMediaCount[p] = 10
         /\ p = "bluesky" => MaxMediaCount[p] = 4
         /\ p = "mastodon" => MaxMediaCount[p] = 4
         /\ p \in {"reddit", "twitch"} => MaxMediaCount[p] = 0
<1>1. PICK f : f = Profile[p]
  OBVIOUS
<1>2. p \in {"discord", "bluesky", "mastodon", "reddit", "twitch"}
  BY <1>1, Voices
<1> QED
  BY <1>2 DEF MaxMediaCount, D!MaxMedia, M!MaxMedia, B!MaxMedia

\* A finished post has these fields.
LEMMA PostIs ==
  ASSUME TextInv, DraftsAreMade, RenditionsAreMade, PostsAreMade, NEW t \in Targets, stage[t] \in Ended
  PROVE  \E text, urls, title, reference, tags, mentions, media, options, n :
           Finished(t, text, urls, title, reference, tags, mentions, media, options, n)
<1>1. /\ draft[t].text \in Text /\ campaign \in Campaigns /\ Platform(t) \in DOMAIN Profile
  BY Speaking DEF Ended
<1>2. post[t] = Attach(t, Payload(draft[t], Brief(t), Voice(t)))
  BY DEF PostsAreMade, Posted
<1>3. PICK d, f, b, n, urls, text, title, reference, tags, mentions, media, options :
        /\ d = draft[t] /\ f = Voice(t) /\ b = Brief(t)
        /\ n = Least(Len(rendered), MaxMediaCount[Platform(t)])
        /\ urls = Urls(d.text) /\ text = Size(d.text) - Total(urls) /\ reference = IF f.linked THEN b.link ELSE 0
        /\ tags = IF f.titleOnly THEN d.tags ELSE Missing(d.text, d.tags)
        /\ title = d.title /\ mentions = d.mentions /\ media = Files(t, n) /\ options = campaign.options
  OBVIOUS
<1>4. IsPost(post[t], text, urls, title, reference, tags, mentions, media, options)
  BY <1>2, <1>3, AttachIs
<1>5. Len(rendered) \in Nat /\ MaxMediaCount[Platform(t)] \in Nat
  BY <1>1, MediaCounts DEF RenditionsAreMade
<1>6. n \in Nat /\ n <= Len(rendered) /\ n <= MaxMediaCount[Platform(t)]
  BY <1>3, <1>5 DEF Least
<1>7. Row(media, n)
  BY <1>3, <1>6, FilesAreRow
<1>8. PICK size \in Nat : size = Size(d.text)
  BY <1>1, <1>3, SizeIsNatural
<1>9. PICK total \in Nat : total = Total(urls) /\ total <= size /\ urls \in Seq(Nat)
  <2>1. UrlsIn(d.text)
    BY <1>1, <1>3, UrlsAreIn
  <2> QED
    BY <1>3, <1>8, <2>1 DEF UrlsIn
<1>10. text \in Nat /\ text + total = size
  BY <1>3, <1>8, <1>9
<1>11. TextLength(post[t]) = size
  BY <1>4, <1>9, <1>10 DEF TextLength, IsPost
<1>12. ~Voice(t).linked => reference = 0
  BY <1>3
<1>13. Finished(t, text, urls, title, reference, tags, mentions, media, options, n)
  BY <1>3, <1>4, <1>6, <1>7, <1>8, <1>9, <1>10, <1>11, <1>12 DEF Finished
<1> QED
  BY <1>13

\* Its files are fit and light, unless there is a reason.
LEMMA FilesAre ==
  ASSUME RenditionsAreMade, campaign \in Campaigns, NEW t \in Targets,
         NEW text, NEW urls, NEW title, NEW reference, NEW tags, NEW mentions, NEW media, NEW options, NEW n,
         Finished(t, text, urls, title, reference, tags, mentions, media, options, n)
  PROVE  /\ DOMAIN post[t].media = 1 .. n /\ post[t].media = media /\ n \in Nat
         /\ \A i \in 1 .. n : /\ ~Unfit(t, i) => Fine(Platform(t), media[i])
                              /\ ~Unweighed(t, i) => Light(Platform(t), media[i])
<1>1. n \in Nat /\ DOMAIN media = 1 .. n /\ n <= Len(rendered) /\ media = Files(t, n)
  BY DEF Finished, Row
<1>2. post[t].media = media
  BY DEF Finished, IsPost
<1>3. ASSUME NEW i \in 1 .. n
      PROVE  /\ ~Unfit(t, i) => Fine(Platform(t), media[i])
             /\ ~Unweighed(t, i) => Light(Platform(t), media[i])
  <2>1. i \in DOMAIN rendered
    BY <1>1 DEF RenditionsAreMade
  <2>2. PICK file, m, platform : file = Rendition(t, i) /\ m = AsMedia(file) /\ platform = Platform(t)
    OBVIOUS
  <2>3. media[i] = m
    BY <1>1, <2>2 DEF Files
  <2>4. m.mime = file.mime /\ m.bytes = file.bytes /\ m.size = file.size /\ m.seconds = file.seconds
    BY <2>2, MediaAre
  <2>5. (~Unfit(t, i) => Fine(platform, file)) /\ (~Unweighed(t, i) => Light(platform, file))
    BY <2>1, <2>2, FileIsFine, FileIsLight
  <2> QED
    BY <2>2, <2>3, <2>4, <2>5, FineAs
<1> QED
  BY <1>1, <1>2, <1>3

\* What fits with all that is missing in it still does when less of it counts.
LEMMA AssembledFits ==
  ASSUME NEW text, NEW urls, NEW title, NEW reference, NEW tags \in Seq(Nat), NEW mentions \in Seq(Nat), NEW media, NEW options,
         NEW p, IsPost(p, text, urls, title, reference, tags, mentions, media, options),
         NEW d, d.text \in Text, tags = Missing(d.text, d.tags), mentions = d.mentions,
         NEW f, f.limit \in Nat, Fits(d, f), NEW base \in Nat, base <= Size(d.text)
  PROVE  /\ AssembledLength(p, base) \in Nat /\ AssembledLength(p, base) <= f.limit
         /\ base > 0 => AssembledLength(p, base) > 0
<1>1. PICK extras \in Seq(Nat) : extras = tags \o mentions
  <2>1. PICK a \in Seq(Nat), b \in Seq(Nat) : a = tags /\ b = mentions
    OBVIOUS
  <2>2. a \o b \in Seq(Nat)
    OBVIOUS
  <2> QED
    BY <2>1, <2>2
<1>2. PICK size \in Nat, limit \in Nat : size = Size(d.text) /\ limit = f.limit /\ base <= size
  BY SizeIsNatural
<1>3. AssembledLength(p, base) = IF extras = <<>> THEN base
                                 ELSE base + (IF base > 0 THEN 2 ELSE 0) + ListLength(extras)
  BY <1>1 DEF AssembledLength, IsPost
<1>4. size + Footprint(d.text, d.tags, d.mentions) <= limit
  BY <1>2 DEF Fits
<1>5. Footprint(d.text, d.tags, d.mentions) = IF extras = <<>> THEN 0 ELSE ListLength(extras) + IF d.text = <<>> THEN 0 ELSE 2
  BY <1>1 DEF Footprint
<1>6. CASE extras = <<>>
  BY <1>2, <1>3, <1>4, <1>5, <1>6
<1>7. CASE extras # <<>>
  <2>1. PICK m \in Nat : m = ListLength(extras)
    <3>1. PICK total \in Nat, k \in Nat : total = Total(extras) /\ k = Len(extras) /\ k # 0
      <4>1. Total(extras) \in Nat
        BY TotalOfAppended
      <4>2. Len(extras) \in Nat /\ Len(extras) # 0
        BY <1>7
      <4> QED
        BY <4>1, <4>2
    <3>2. total + 2 * k - 1 \in Nat
      BY <3>1
    <3> QED
      BY <3>1, <3>2 DEF ListLength
  <2>2. d.text = <<>> => size = 0
    BY <1>2, SizeOfNothing
  <2>3. AssembledLength(p, base) = base + (IF base > 0 THEN 2 ELSE 0) + m
    BY <1>3, <1>7, <2>1
  <2>4. d.text # <<>> => size + (m + 2) <= limit
    BY <1>4, <1>5, <1>7, <2>1
  <2>5. d.text = <<>> => size + m <= limit
    BY <1>4, <1>5, <1>7, <2>1
  <2> QED
    BY <1>2, <2>2, <2>3, <2>4, <2>5
<1> QED
  BY <1>6, <1>7

\* What is known of a draft that was submitted
LEMMA DraftIs ==
  ASSUME TextInv, DraftsAreMade, NEW t \in Targets, stage[t] \in Ended
  PROVE  /\ campaign \in Campaigns /\ Platform(t) \in DOMAIN Profile /\ Voice(t) = Profile[Platform(t)]
         /\ draft[t].text \in Text
         /\ Sane(draft[t], Voice(t), Len(campaign.brief.mentions)) /\ Titled(draft[t], Voice(t), campaign)
         /\ ~Voice(t).titleOnly => /\ Size(draft[t].text) \in Nat /\ Size(draft[t].text) <= Voice(t).limit
                                   /\ ~Crowded(t) => Fits(draft[t], Voice(t))
                                   /\ campaign.provider = "template" => draft[t].text # <<>>
                                   /\ draft[t].text # <<>> => Size(draft[t].text) > 0
         /\ Voice(t).titleOnly => draft[t].text = <<>>
<1>1. /\ Made(stage[t], draft[t], Voice(t), campaign) /\ draft[t].text \in Text /\ campaign \in Campaigns
      /\ Platform(t) \in DOMAIN Profile /\ Voice(t) = Profile[Platform(t)] /\ campaign.brief.mentions \in Seq(Nat)
  BY Speaking DEF Ended
<1>2. PICK d, f, s : d = draft[t] /\ f = Voice(t) /\ s = stage[t]
  OBVIOUS
<1>3. /\ Sane(d, f, Len(campaign.brief.mentions)) /\ Titled(d, f, campaign) /\ Fitting(d, f, campaign)
      /\ (f.titleOnly => d.text = <<>>)
      /\ (~f.titleOnly /\ campaign.provider = "template" => d.text # <<>>)
  BY <1>1, <1>2 DEF Made
<1>4. PICK n \in Nat : n = Len(campaign.brief.mentions)
  BY <1>1
<1>5. ~Crowded(t) => n <= 62
  BY <1>4 DEF Crowded
<1>6. ~f.titleOnly => Size(d.text) <= f.limit /\ (~Crowded(t) => Fits(d, f))
  BY <1>3, <1>4, <1>5 DEF Fitting
<1>7. Size(d.text) \in Nat /\ (d.text # <<>> => Size(d.text) > 0)
  BY <1>1, <1>2, SizeIsNatural, TextTakesRoom
<1> QED
  BY <1>1, <1>2, <1>3, <1>6, <1>7

\* A finished post is refused for a reason, and taken unless there is one.
Refusable(t) ==
  \/ ~NamesSubreddit(t) \/ ShortLinkOnMastodon(t) \/ Mixed(t) \/ Silent(t) \/ Crowded(t) \/ AsksForMore(t)
  \/ \E i \in DOMAIN post[t].media : Unfit(t, i)

Overtaken(t) ==
  \/ ShortLinkOnMastodon(t) \/ Crowded(t) \/ "ping" \in campaign.options
  \/ \E i \in DOMAIN post[t].media : Unweighed(t, i)

\* All that the platforms have in common
Ready(t, text, urls, title, reference, tags, mentions, media, options, n) ==
  /\ Finished(t, text, urls, title, reference, tags, mentions, media, options, n)
  /\ ~Refusable(t) => /\ \A i \in 1 .. n : Fine(Platform(t), media[i])
                      /\ Unmixed(media) /\ Plainly(options) /\ (Platform(t) = "reddit" => "subreddit" \in options)
  /\ ~Overtaken(t) => (\A i \in 1 .. n : Light(Platform(t), media[i])) /\ "ping" \notin options
  /\ ~Refusable(t) => ~Silent(t) /\ ~ShortLinkOnMastodon(t) /\ ~Crowded(t)
  /\ ~Overtaken(t) => ~ShortLinkOnMastodon(t) /\ ~Crowded(t)

\* A finished post that is not refusable has nothing wrong but, perhaps, its text.
LEMMA PostIsReady ==
  ASSUME TextInv, DraftsAreMade, RenditionsAreMade, PostsAreMade, NEW t \in Targets, stage[t] \in Ended
  PROVE  \E text, urls, title, reference, tags, mentions, media, options, n :
           Ready(t, text, urls, title, reference, tags, mentions, media, options, n)
<1>1. PICK text, urls, title, reference, tags, mentions, media, options, n :
        Finished(t, text, urls, title, reference, tags, mentions, media, options, n)
  BY PostIs
<1>2. campaign \in Campaigns
  BY DraftIs
<1>3. /\ DOMAIN post[t].media = 1 .. n /\ post[t].media = media
      /\ \A i \in 1 .. n : /\ ~Unfit(t, i) => Fine(Platform(t), media[i])
                           /\ ~Unweighed(t, i) => Light(Platform(t), media[i])
  BY <1>1, <1>2, FilesAre
<1>4. options = campaign.options
  BY <1>1 DEF Finished
<1>5. ~Refusable(t) => \A i \in 1 .. n : Fine(Platform(t), media[i])
  BY <1>3 DEF Refusable
<1>6. ~Refusable(t) => Unmixed(media)
  BY <1>3 DEF Refusable, Mixed, Unmixed
<1>7. ~Refusable(t) => Plainly(options) /\ (Platform(t) = "reddit" => "subreddit" \in options)
  BY <1>4 DEF Refusable, AsksForMore, NamesSubreddit, Plainly
<1>8. ~Overtaken(t) => (\A i \in 1 .. n : Light(Platform(t), media[i])) /\ "ping" \notin options
  BY <1>3, <1>4 DEF Overtaken
<1>9. /\ ~Refusable(t) => ~Silent(t) /\ ~ShortLinkOnMastodon(t) /\ ~Crowded(t)
      /\ ~Overtaken(t) => ~ShortLinkOnMastodon(t) /\ ~Crowded(t)
  BY DEF Refusable, Overtaken
<1> QED
  BY <1>1, <1>5, <1>6, <1>7, <1>8, <1>9 DEF Ready

\* The text of a post that is text first
LEMMA TextIsFit ==
  ASSUME TextInv, DraftsAreMade, RenditionsAreMade, PostsAreMade, NEW t \in Targets, stage[t] \in Ended,
         NEW f, f = Voice(t), ~f.titleOnly, f.limit \in Nat,
         NEW text, NEW urls, NEW title, NEW reference, NEW tags, NEW mentions, NEW media, NEW options, NEW n,
         Ready(t, text, urls, title, reference, tags, mentions, media, options, n)
  PROVE  \E size \in Nat :
           /\ TextLength(post[t]) = size /\ size <= f.limit /\ text + Total(urls) = size
           /\ ~f.titled /\ ~Refusable(t) => size > 0
           /\ \A base \in Nat : base <= size /\ ~Crowded(t) =>
                /\ AssembledLength(post[t], base) \in Nat /\ AssembledLength(post[t], base) <= f.limit
                /\ base > 0 => AssembledLength(post[t], base) > 0
<1>1. Finished(t, text, urls, title, reference, tags, mentions, media, options, n)
  BY DEF Ready
<1>2. /\ draft[t].text \in Text /\ Sane(draft[t], f, Len(campaign.brief.mentions))
      /\ Size(draft[t].text) \in Nat /\ Size(draft[t].text) <= f.limit
      /\ ~Crowded(t) => Fits(draft[t], f)
      /\ campaign.provider = "template" => draft[t].text # <<>>
      /\ draft[t].text # <<>> => Size(draft[t].text) > 0
  BY DraftIs
<1>3. PICK size \in Nat : size = Size(draft[t].text)
  BY <1>2
<1>4. TextLength(post[t]) = size /\ text + Total(urls) = size
  BY <1>1, <1>3 DEF Finished
<1>5. ~f.titled /\ ~Refusable(t) => size > 0
  BY <1>2, <1>3 DEF Ready, Silent
<1>6. PICK p, d : p = post[t] /\ d = draft[t]
  OBVIOUS
<1>7. /\ IsPost(p, text, urls, title, reference, tags, mentions, media, options)
      /\ tags = Missing(d.text, d.tags) /\ mentions = d.mentions
  BY <1>1, <1>6 DEF Finished
<1>8. tags \in Seq(Nat) /\ mentions \in Seq(Nat)
  BY <1>2, <1>6, <1>7, MissingAre DEF Sane
<1>9. ASSUME NEW base \in Nat, base <= size, ~Crowded(t)
      PROVE  /\ AssembledLength(p, base) \in Nat /\ AssembledLength(p, base) <= f.limit
             /\ base > 0 => AssembledLength(p, base) > 0
  <2>1. Fits(d, f) /\ d.text \in Text /\ base <= Size(d.text)
    BY <1>2, <1>3, <1>6, <1>9
  <2> QED
    BY <1>7, <1>8, <2>1, AssembledFits
<1> QED
  BY <1>2, <1>3, <1>4, <1>5, <1>6, <1>9

\* A post that is to be submitted is taken, unless there is a reason.
Answered(t) ==
  /\ ~Refusable(t) => Accepts(Platform(t), post[t])
  /\ ~Overtaken(t) /\ Accepts(Platform(t), post[t]) => Takes(Platform(t), post[t])

\* The text of the post fits, so each platform answers as it should.
LEMMA DiscordAnswers ==
  ASSUME TextInv, DraftsAreMade, RenditionsAreMade, PostsAreMade, NEW t \in Targets, stage[t] \in Ended,
         Platform(t) = "discord"
  PROVE  Answered(t)
<1>1. PICK text, urls, title, reference, tags, mentions, media, options, n :
        Ready(t, text, urls, title, reference, tags, mentions, media, options, n)
  BY PostIsReady
<1>2. PICK f : f = Voice(t)
  OBVIOUS
<1>3. Platform(t) \in DOMAIN Profile /\ f = Profile["discord"] /\ Titled(draft[t], f, campaign)
  BY <1>2, DraftIs
<1>4. f.limit = 2000 /\ f.title = 256 /\ ~f.titled /\ ~f.titleOnly
  BY <1>3, Voices
<1>5. Finished(t, text, urls, title, reference, tags, mentions, media, options, n)
  BY <1>1 DEF Ready
<1>6. PICK size \in Nat : TextLength(post[t]) = size /\ size <= 2000 /\ (~Refusable(t) => size > 0)
  BY <1>1, <1>2, <1>4, TextIsFit
<1>7. title \in Nat /\ title <= 256
  BY <1>3, <1>4, <1>5 DEF Finished, Titled, LongestTitle
<1>8. n \in Nat /\ n <= 10
  BY <1>3, <1>5, MediaCounts DEF Finished, Row
<1>9. PICK p : p = post[t] /\ IsPost(p, text, urls, title, reference, tags, mentions, media, options) /\ Row(media, n)
  BY <1>5 DEF Finished
<1>10. ASSUME ~Refusable(t)
       PROVE  Accepts("discord", p)
  <2>1. TextLength(p) \in 1 .. 2000
    BY <1>6, <1>9, <1>10
  <2>2. Plainly(options) /\ \A i \in 1 .. n : Fine("discord", media[i])
    BY <1>1, <1>10 DEF Ready
  <2> QED
    BY <1>8, <1>9, <2>1, <2>2, DiscordAccepts
<1>11. ASSUME ~Overtaken(t), Accepts("discord", p)
       PROVE  Takes("discord", p)
  <2>1. TextLength(p) \in Nat
    BY <1>6, <1>9
  <2>2. "ping" \notin options /\ \A i \in 1 .. n : Light("discord", media[i])
    BY <1>1, <1>11 DEF Ready
  <2> QED
    BY <1>7, <1>9, <1>11, <2>1, <2>2, DiscordTakes
<1> QED
  BY <1>9, <1>10, <1>11 DEF Answered

\* Bluesky appends what is missing in the text.
LEMMA BlueskyAnswers ==
  ASSUME TextInv, DraftsAreMade, RenditionsAreMade, PostsAreMade, NEW t \in Targets, stage[t] \in Ended,
         Platform(t) = "bluesky"
  PROVE  Answered(t)
<1>1. PICK text, urls, title, reference, tags, mentions, media, options, n :
        Ready(t, text, urls, title, reference, tags, mentions, media, options, n)
  BY PostIsReady
<1>2. PICK f : f = Voice(t)
  OBVIOUS
<1>3. Platform(t) \in DOMAIN Profile /\ f = Profile["bluesky"]
  BY <1>2, DraftIs
<1>4. f.limit = 300 /\ ~f.titled /\ ~f.titleOnly
  BY <1>3, Voices
<1>5. Finished(t, text, urls, title, reference, tags, mentions, media, options, n)
  BY <1>1 DEF Ready
<1>6. PICK p : p = post[t] /\ IsPost(p, text, urls, title, reference, tags, mentions, media, options) /\ Row(media, n)
  BY <1>5 DEF Finished
<1>7. PICK size \in Nat : /\ TextLength(post[t]) = size /\ (~Refusable(t) => size > 0)
                          /\ \A base \in Nat : base <= size /\ ~Crowded(t) =>
                               /\ AssembledLength(post[t], base) \in Nat /\ AssembledLength(post[t], base) <= f.limit
                               /\ base > 0 => AssembledLength(post[t], base) > 0
  BY <1>1, <1>2, <1>4, TextIsFit
<1>8. n \in Nat /\ n <= 4
  BY <1>3, <1>5, MediaCounts DEF Finished, Row
<1>9. ASSUME ~Refusable(t)
      PROVE  Accepts("bluesky", p)
  <2>1. ~Crowded(t) /\ Plainly(options) /\ Unmixed(media) /\ \A i \in 1 .. n : Fine("bluesky", media[i])
    BY <1>1, <1>9 DEF Ready
  <2>2. PICK m \in Nat : m = AssembledLength(p, TextLength(p)) /\ m <= 300 /\ m > 0
    BY <1>4, <1>6, <1>7, <1>9, <2>1
  <2>3. AssembledLength(p, TextLength(p)) \in 1 .. 300
    BY <2>2
  <2> QED
    BY <1>6, <1>8, <2>1, <2>3, BlueskyAccepts
<1>10. ASSUME ~Overtaken(t), Accepts("bluesky", p)
       PROVE  Takes("bluesky", p)
  <2>1. \A i \in 1 .. n : Light("bluesky", media[i])
    BY <1>1, <1>10 DEF Ready
  <2> QED
    BY <1>6, <1>10, <2>1, BlueskyTakes
<1> QED
  BY <1>6, <1>9, <1>10 DEF Answered

\* Mastodon does too, and counts each URL as 23 characters.
LEMMA MastodonAnswers ==
  ASSUME TextInv, DraftsAreMade, RenditionsAreMade, PostsAreMade, NEW t \in Targets, stage[t] \in Ended,
         Platform(t) = "mastodon"
  PROVE  Answered(t)
<1>1. PICK text, urls, title, reference, tags, mentions, media, options, n :
        Ready(t, text, urls, title, reference, tags, mentions, media, options, n)
  BY PostIsReady
<1>2. PICK f : f = Voice(t)
  OBVIOUS
<1>3. Platform(t) \in DOMAIN Profile /\ f = Profile["mastodon"]
  BY <1>2, DraftIs
<1>4. f.limit = 500 /\ ~f.titled /\ ~f.titleOnly
  BY <1>3, Voices
<1>5. Finished(t, text, urls, title, reference, tags, mentions, media, options, n)
  BY <1>1 DEF Ready
<1>6. PICK p : p = post[t] /\ IsPost(p, text, urls, title, reference, tags, mentions, media, options) /\ Row(media, n)
  BY <1>5 DEF Finished
<1>7. PICK size \in Nat : /\ text + Total(urls) = size /\ size <= 500 /\ (~Refusable(t) => size > 0)
                          /\ \A base \in Nat : base <= size /\ ~Crowded(t) =>
                               /\ AssembledLength(post[t], base) \in Nat /\ AssembledLength(post[t], base) <= f.limit
  BY <1>1, <1>2, <1>4, TextIsFit
<1>8. n \in Nat /\ n <= 4
  BY <1>3, <1>5, MediaCounts DEF Finished, Row
<1>9. PICK counted \in Nat : /\ counted = text + 23 * Len(urls)
                             /\ ~ShortLinkOnMastodon(t) => counted <= size /\ (size > 0 => counted > 0)
  <2>1. text \in Nat /\ urls \in Seq(Nat) /\ Total(urls) \in Nat
    BY <1>5 DEF Finished
  <2>2. PICK total \in Nat, k \in Nat : total = Total(urls) /\ k = Len(urls)
    BY <2>1
  <2>3. text + 23 * k \in Nat
    BY <2>1, <2>2
  <2>4. ASSUME ~ShortLinkOnMastodon(t)
        PROVE  total >= 23 * k /\ (total > 0 => k > 0)
    <3>1. p.urls = urls
      BY <1>6 DEF IsPost
    <3>2. \A i \in DOMAIN urls : ~(urls[i] < 23)
      BY <1>6, <2>4, <3>1 DEF ShortLinkOnMastodon, M!CountedUrl
    <3>3. \A i \in DOMAIN urls : urls[i] >= 23
      BY <2>1, <3>2
    <3>4. k = 0 => urls = <<>>
      <4>1. PICK u \in Seq(Nat) : u = urls
        BY <2>1
      <4>2. Len(u) = 0 => u = <<>>
        OBVIOUS
      <4> QED
        BY <2>2, <4>1, <4>2
    <3> QED
      BY <2>1, <2>2, <3>3, <3>4, TotalAtLeast, TotalOfNothing
  <2> QED
    BY <1>7, <2>1, <2>2, <2>3, <2>4
<1>10. ASSUME ~Refusable(t)
       PROVE  Accepts("mastodon", p)
  <2>1. /\ ~ShortLinkOnMastodon(t) /\ Plainly(options) /\ Unmixed(media)
        /\ \A i \in 1 .. n : Fine("mastodon", media[i])
    BY <1>1, <1>10 DEF Ready
  <2>2. counted > 0 /\ counted <= 500
    BY <1>7, <1>9, <1>10, <2>1
  <2>3. counted \in 1 .. 500
    BY <2>2
  <2>4. text + 23 * Len(urls) \in 1 .. 500
    BY <1>9, <2>3
  <2> QED
    BY <1>6, <1>8, <2>1, <2>4, MastodonAccepts
<1>11. ASSUME ~Overtaken(t), Accepts("mastodon", p)
       PROVE  Takes("mastodon", p)
  <2>1. ~Crowded(t) /\ ~ShortLinkOnMastodon(t) /\ \A i \in 1 .. n : Light("mastodon", media[i])
    BY <1>1, <1>11 DEF Ready
  <2>2. AssembledLength(p, text + 23 * Len(urls)) <= 500
    BY <1>4, <1>6, <1>7, <1>9, <2>1
  <2> QED
    BY <1>6, <1>11, <2>1, <2>2, MastodonTakes
<1> QED
  BY <1>6, <1>10, <1>11 DEF Answered

\* Reddit wants a title and a subreddit.
LEMMA RedditAnswers ==
  ASSUME TextInv, DraftsAreMade, RenditionsAreMade, PostsAreMade, NEW t \in Targets, stage[t] \in Ended,
         Platform(t) = "reddit"
  PROVE  Answered(t)
<1>1. PICK text, urls, title, reference, tags, mentions, media, options, n :
        Ready(t, text, urls, title, reference, tags, mentions, media, options, n)
  BY PostIsReady
<1>2. PICK f : f = Voice(t)
  OBVIOUS
<1>3. Platform(t) \in DOMAIN Profile /\ f = Profile["reddit"] /\ Titled(draft[t], f, campaign)
  BY <1>2, DraftIs
<1>4. f.limit = 40000 /\ f.title = 300 /\ f.titled /\ ~f.titleOnly /\ ~f.linked
  BY <1>3, Voices
<1>5. Finished(t, text, urls, title, reference, tags, mentions, media, options, n)
  BY <1>1 DEF Ready
<1>6. PICK p : p = post[t] /\ IsPost(p, text, urls, title, reference, tags, mentions, media, options) /\ Row(media, n)
  BY <1>5 DEF Finished
<1>7. TextLength(p) <= 40000
  BY <1>1, <1>2, <1>4, <1>6, TextIsFit
<1>8. n = 0 /\ reference = 0
  <2>1. n \in Nat /\ n <= 0
    BY <1>3, <1>5, MediaCounts DEF Finished, Row
  <2> QED
    BY <1>2, <1>4, <1>5, <2>1 DEF Finished
<1>9. ASSUME ~Refusable(t)
      PROVE  Accepts("reddit", p)
  <2>1. Plainly(options) /\ "subreddit" \in options /\ ~Silent(t)
    BY <1>1, <1>9 DEF Ready
  <2>2. p.title = title
    BY <1>6 DEF IsPost
  <2>3. title \in Nat /\ title <= 300 /\ (campaign.provider = "template" => title > 0)
    BY <1>3, <1>4, <1>5 DEF Finished, Titled, LongestTitle
  <2>4. title # 0
    BY <1>2, <1>4, <1>6, <2>1, <2>2, <2>3 DEF Silent
  <2>5. title \in 1 .. 300
    BY <2>3, <2>4
  <2> QED
    BY <1>6, <1>7, <1>8, <2>1, <2>5, RedditAccepts
<1>10. ASSUME Accepts("reddit", p)
       PROVE  Takes("reddit", p)
  BY <1>6, <1>10, RedditTakes
<1> QED
  BY <1>6, <1>9, <1>10 DEF Answered

\* Twitch takes a title and tags.
LEMMA TwitchAnswers ==
  ASSUME TextInv, DraftsAreMade, RenditionsAreMade, PostsAreMade, NEW t \in Targets, stage[t] \in Ended,
         Platform(t) = "twitch"
  PROVE  Answered(t)
<1>1. PICK text, urls, title, reference, tags, mentions, media, options, n :
        Ready(t, text, urls, title, reference, tags, mentions, media, options, n)
  BY PostIsReady
<1>2. PICK f : f = Voice(t)
  OBVIOUS
<1>3. /\ Platform(t) \in DOMAIN Profile /\ f = Profile["twitch"] /\ Titled(draft[t], f, campaign)
      /\ Sane(draft[t], f, Len(campaign.brief.mentions))
  BY <1>2, DraftIs
<1>4. f.limit = 140 /\ f.title = 140 /\ f.titled /\ f.titleOnly /\ f.tags = 10 /\ ~f.mentions /\ f.longestTag = 25
  BY <1>3, Voices
<1>5. Finished(t, text, urls, title, reference, tags, mentions, media, options, n)
  BY <1>1 DEF Ready
<1>6. PICK p : p = post[t] /\ IsPost(p, text, urls, title, reference, tags, mentions, media, options) /\ Row(media, n)
  BY <1>5 DEF Finished
<1>7. n = 0
  <2>1. n \in Nat /\ n <= 0
    BY <1>3, <1>5, MediaCounts DEF Finished, Row
  <2> QED
    BY <2>1
<1>8. Len(tags) <= 10 /\ (\A i \in DOMAIN tags : tags[i] <= 25) /\ mentions = <<>>
  BY <1>2, <1>3, <1>4, <1>5 DEF Finished, Sane
<1>9. ASSUME ~Refusable(t)
      PROVE  Accepts("twitch", p)
  <2>1. Plainly(options) /\ ~Silent(t)
    BY <1>1, <1>9 DEF Ready
  <2>2. p.title = title
    BY <1>6 DEF IsPost
  <2>3. title \in Nat /\ title <= 140 /\ (campaign.provider = "template" => title > 0)
    BY <1>3, <1>4, <1>5 DEF Finished, Titled, LongestTitle
  <2>4. title # 0
    BY <1>2, <1>4, <1>6, <2>1, <2>2, <2>3 DEF Silent
  <2>5. title \in 1 .. 140
    BY <2>3, <2>4
  <2> QED
    BY <1>6, <1>7, <1>8, <2>1, <2>5, TwitchAccepts
<1>10. ASSUME Accepts("twitch", p)
       PROVE  Takes("twitch", p)
  BY <1>6, <1>10, TwitchTakes
<1> QED
  BY <1>6, <1>9, <1>10 DEF Answered

\* Whatever the platform, a finished post is accepted, and taken, or there is a reason.
LEMMA PostsAnswer ==
  ASSUME TextInv, DraftsAreMade, RenditionsAreMade, PostsAreMade, NEW t \in Targets, stage[t] \in Ended
  PROVE  Answered(t)
<1>1. Platform(t) \in DOMAIN Profile
  BY DraftIs
<1>2. PICK f : f = Profile[Platform(t)]
  OBVIOUS
<1>3. Platform(t) \in {"discord", "bluesky", "mastodon", "reddit", "twitch"}
  BY <1>1, <1>2, Voices
<1> QED
  BY <1>3, DiscordAnswers, BlueskyAnswers, MastodonAnswers, RedditAnswers, TwitchAnswers

(***************************************************************************)
(* What the template makes of a brief whose link stays as it is            *)
(***************************************************************************)
BriefOf(c, d) ==
  [inline |-> d.inline, link |-> c.brief.link, mentions |-> c.brief.mentions, word |-> c.brief.word]

RoomOf(c, f, d) == PreHashtagLimit(BriefOf(c, d), f)

OnlyAnswer(c, f) ==
  IF f.tags = 0 THEN <<>>
  ELSE CHOOSE answer : answer \in TagReplies("template", TemplateTags(c.brief, f.tags), TagLists, c.brief.word)

WithTags(d, tags, inline, mentions) == [d EXCEPT !.tags = tags, !.inline = inline, !.mentions = mentions]
WithText(d, text) == [d EXCEPT !.text = text]
WithTitle(d, title) == [d EXCEPT !.title = title]
WithEnd(d, text, full) == [d EXCEPT !.text = text, !.full = full]

TagStep(c, f, d) ==
  WithTags(d, Sanitized(OnlyAnswer(c, f), f.tags, f.longestTag),
           InlineTags(Sanitized(OnlyAnswer(c, f), f.tags, f.longestTag), f), Mentions(BriefOf(c, d), f))

BodyStep(c, f, d) == WithText(d, Truncate(TemplateBody(c.brief), RoomOf(c, f, d), c.brief.word))

LinkStep(c, f, d, text) ==
  IF c.brief.link = 0 THEN text
  ELSE AppendWithin(text, <<Piece("link", 0, c.brief.link)>>, RoomOf(c, f, d), c.brief.word, 1)

EmojiStep(c, f, d) ==
  WithText(d, LinkStep(c, f, d, IF f.emoji THEN Truncate(TemplateEmoji(d.text), RoomOf(c, f, d), c.brief.word)
                              ELSE d.text))

TitleStep(c, f, d) ==
  WithTitle(d, Size(IF f.titled THEN Truncate(TemplateTitle(c.brief), LongestTitle(f), c.brief.word)
                    ELSE Truncate(Prose(c.brief.title), LongestTitle(f), c.brief.word)))

RemainingOf(c, f, d) == RoomOf(c, f, d) - Size(d.text) - IF d.text = <<>> THEN 0 ELSE d.text[1].sep

CallOf(c, f, d) ==
  IF f.cta /\ RemainingOf(c, f, d) > 6 /\ (c.brief.cta > 0 \/ c.brief.link > 0)
  THEN Truncate(TemplateCta(c.brief), RemainingOf(c, f, d), c.brief.word) ELSE <<>>

TextOf(c, f, d) ==
  Truncate(AppendWithin(AppendWithin(d.text, CallOf(c, f, d), RoomOf(c, f, d), c.brief.word, 1),
                        d.inline, PostHashtagLimit(BriefOf(c, d), f), c.brief.word, f.tagSep),
           PostHashtagLimit(BriefOf(c, d), f), c.brief.word)

FinishStep(c, f, d) ==
  IF f.titleOnly THEN d
  ELSE Settled(WithEnd(d, TextOf(c, f, d), FillsUp(d.text, CallOf(c, f, d), RoomOf(c, f, d))), f)

\* The template has one answer.
LEMMA TemplateWrites ==
  ASSUME campaign.provider = "template", NEW template, NEW max, NEW text \in Texts(template, max)
  PROVE  text = Truncate(template, max, campaign.brief.word)
BY DEF Texts, Replies, Answering

CutTags(tags, word) == Truncate([i \in DOMAIN tags |-> Piece("tag", 1, tags[i])], 200, word)
LengthsOf(text) == [i \in DOMAIN text |-> text[i].len]
OneAnswer(template, word) == LengthsOf(CutTags(template, word))

\* So are its tags.
LEMMA TemplateTagsOnce ==
  ASSUME NEW template, NEW word
  PROVE  TagReplies("template", template, TagLists, word) = {OneAnswer(template, word)}
<1>1. TagReplies("template", template, TagLists, word)
        = {LengthsOf(text) : text \in {CutTags(tags, word) : tags \in Answering("template", template, TagLists)}}
  BY Zenon DEF TagReplies, LengthsOf, CutTags
<1>2. Answering("template", template, TagLists) = {template}
  BY DEF Answering
<1>3. PICK A : A = Answering("template", template, TagLists)
  OBVIOUS
<1>4. {LengthsOf(text) : text \in {CutTags(tags, word) : tags \in A}} = {LengthsOf(CutTags(template, word))}
  BY <1>2, <1>3
<1> QED
  BY <1>1, <1>3, <1>4 DEF OneAnswer

\* Whatever tags the template answers with, they are those.
LEMMA TemplateTagsAre ==
  ASSUME NEW template, NEW word, NEW a \in TagReplies("template", template, TagLists, word)
  PROVE  a = CHOOSE answer : answer \in TagReplies("template", template, TagLists, word)
<1>1. PICK S, o : S = TagReplies("template", template, TagLists, word) /\ o = OneAnswer(template, word)
  OBVIOUS
<1>2. S = {o} /\ a \in S
  BY <1>1, TemplateTagsOnce
<1>3. a = CHOOSE answer : answer \in S
  BY <1>2
<1> QED
  BY <1>1, <1>3

\* Each call of the template, and what follows it up, leaves one draft only: its tags,
LEMMA TagsAreTold ==
  ASSUME campaign.provider = "template", NEW t \in Targets, Brief(t) = BriefOf(campaign, draft[t]), GenerateTags(t)
  PROVE  Drafted(t, IF Voice(t).titleOnly THEN "title" ELSE "body", TagStep(campaign, Voice(t), draft[t]))
<1>1. PICK answer \in IF Voice(t).tags = 0 THEN {<<>>}
                      ELSE TagReplies(campaign.provider, TemplateTags(campaign.brief, Voice(t).tags), TagLists, Brief(t).word) :
      \E sanitized \in {Sanitized(answer, Voice(t).tags, Voice(t).longestTag)} :
        Drafted(t, IF Voice(t).titleOnly THEN "title" ELSE "body",
                WithTags(draft[t], sanitized, InlineTags(sanitized, Voice(t)), Mentions(Brief(t), Voice(t))))
  BY DEF GenerateTags, WithTags
<1>2. Brief(t).word = campaign.brief.word
  BY DEF Brief
<1>3. answer = OnlyAnswer(campaign, Voice(t))
  <2>1. CASE Voice(t).tags = 0
    BY <1>1, <2>1 DEF OnlyAnswer
  <2>2. CASE Voice(t).tags # 0
    <3>1. PICK template : template = TemplateTags(campaign.brief, Voice(t).tags)
      OBVIOUS
    <3>2. answer \in TagReplies("template", template, TagLists, campaign.brief.word)
      BY <1>1, <1>2, <2>2, <3>1
    <3> QED
      BY <2>2, <3>1, <3>2, TemplateTagsAre DEF OnlyAnswer
  <2> QED
    BY <2>1, <2>2
<1> QED
  BY <1>1, <1>3 DEF TagStep

\* its body,
LEMMA BodyIsTold ==
  ASSUME campaign.provider = "template", NEW t \in Targets, Brief(t) = BriefOf(campaign, draft[t]), GenerateBody(t)
  PROVE  Drafted(t, "emoji", BodyStep(campaign, Voice(t), draft[t]))
<1>1. PICK body \in Texts(TemplateBody(campaign.brief), Room(t)) : Drafted(t, "emoji", WithText(draft[t], body))
  BY DEF GenerateBody, WithText
<1>2. Room(t) = RoomOf(campaign, Voice(t), draft[t])
  BY DEF Room, RoomOf
<1>3. body = Truncate(TemplateBody(campaign.brief), Room(t), campaign.brief.word)
  BY TemplateWrites
<1> QED
  BY <1>1, <1>2, <1>3 DEF BodyStep

\* its emoji and the link,
LEMMA EmojiIsTold ==
  ASSUME campaign.provider = "template", NEW t \in Targets, Brief(t) = BriefOf(campaign, draft[t]), GenerateEmoji(t)
  PROVE  Drafted(t, "title", EmojiStep(campaign, Voice(t), draft[t]))
<1>1. PICK text \in IF Voice(t).emoji THEN Texts(TemplateEmoji(draft[t].text), Room(t)) ELSE {draft[t].text} :
        Drafted(t, "title",
                WithText(draft[t], IF Brief(t).link = 0 THEN text
                                   ELSE AppendWithin(text, <<Piece("link", 0, Brief(t).link)>>, Room(t), Brief(t).word, 1)))
  BY DEF GenerateEmoji, WithText
<1>2. /\ Room(t) = RoomOf(campaign, Voice(t), draft[t]) /\ Brief(t).word = campaign.brief.word
      /\ Brief(t).link = campaign.brief.link
  BY DEF Room, RoomOf, BriefOf
<1>3. text = IF Voice(t).emoji THEN Truncate(TemplateEmoji(draft[t].text), Room(t), campaign.brief.word) ELSE draft[t].text
  <2>1. CASE Voice(t).emoji
    <3>1. text \in Texts(TemplateEmoji(draft[t].text), Room(t))
      BY <1>1, <2>1
    <3> QED
      BY <2>1, <3>1, TemplateWrites
  <2>2. CASE ~Voice(t).emoji
    BY <1>1, <2>2
  <2> QED
    BY <2>1, <2>2
<1>4. PICK whole : /\ whole = IF Brief(t).link = 0 THEN text
                              ELSE AppendWithin(text, <<Piece("link", 0, Brief(t).link)>>, Room(t), Brief(t).word, 1)
                   /\ Drafted(t, "title", WithText(draft[t], whole))
  BY <1>1
<1>5. whole = LinkStep(campaign, Voice(t), draft[t], text)
  BY <1>2, <1>4 DEF LinkStep
<1> QED
  BY <1>2, <1>3, <1>4, <1>5 DEF EmojiStep

\* its title,
LEMMA TitleIsTold ==
  ASSUME campaign.provider = "template", NEW t \in Targets, Brief(t) = BriefOf(campaign, draft[t]), GenerateTitle(t)
  PROVE  Drafted(t, "cta", TitleStep(campaign, Voice(t), draft[t]))
<1> DEFINE max == LongestTitle(Voice(t))
<1>1. PICK title \in IF Voice(t).titled THEN Texts(TemplateTitle(campaign.brief), max)
                     ELSE {Truncate(Prose(campaign.brief.title), max, Brief(t).word)} :
        Drafted(t, "cta", WithTitle(draft[t], Size(title)))
  BY DEF GenerateTitle, WithTitle, LongestTitle
<1> HIDE DEF max
<1>2. Brief(t).word = campaign.brief.word
  BY DEF Brief
<1>3. title = IF Voice(t).titled THEN Truncate(TemplateTitle(campaign.brief), max, campaign.brief.word)
              ELSE Truncate(Prose(campaign.brief.title), max, campaign.brief.word)
  <2>1. CASE Voice(t).titled
    <3>1. title \in Texts(TemplateTitle(campaign.brief), max)
      BY <1>1, <2>1
    <3> QED
      BY <2>1, <3>1, TemplateWrites
  <2>2. CASE ~Voice(t).titled
    BY <1>1, <1>2, <2>2
  <2> QED
    BY <2>1, <2>2
<1> QED
  BY <1>1, <1>3 DEF TitleStep, max

\* its call to action, the tags and the last check.
LEMMA FinishIsTold ==
  ASSUME campaign.provider = "template", NEW t \in Targets, Brief(t) = BriefOf(campaign, draft[t]), Finish(t)
  PROVE  Completed(t, FinishStep(campaign, Voice(t), draft[t]))
<1>1. PICK cta \in CallsToAction(t) :
      \E called \in {AppendWithin(draft[t].text, cta, Room(t), Brief(t).word, 1)} :
      \E tagged \in {AppendWithin(called, draft[t].inline, PostHashtagLimit(Brief(t), Voice(t)), Brief(t).word,
                                  Voice(t).tagSep)} :
      \E whole \in {Truncate(tagged, PostHashtagLimit(Brief(t), Voice(t)), Brief(t).word)} :
      \E d \in {WithEnd(draft[t], whole, FillsUp(draft[t].text, cta, Room(t)))} :
      \E settled \in {IF Voice(t).titleOnly THEN draft[t] ELSE Settled(d, Voice(t))} :
        Completed(t, settled)
  BY DEF Finish, Completed, WithEnd, FillsUp
<1>2. PICK b, f, d, c, room, word :
        /\ b = Brief(t) /\ f = Voice(t) /\ d = draft[t] /\ c = campaign /\ room = Room(t) /\ word = b.word
  OBVIOUS
<1>3. room = RoomOf(c, f, d) /\ word = c.brief.word /\ b = BriefOf(c, d) /\ b.link = c.brief.link
  BY <1>2 DEF Room, RoomOf, BriefOf
<1>4. cta = CallOf(c, f, d)
  <2>1. PICK left : left = RemainingOf(c, f, d)
    OBVIOUS
  <2>2. left = Room(t) - Size(draft[t].text) - IF draft[t].text = <<>> THEN 0 ELSE draft[t].text[1].sep
    BY <1>2, <1>3, <2>1 DEF RemainingOf
  <2>3. cta \in IF f.cta /\ left > 6 /\ (campaign.brief.cta > 0 \/ c.brief.link > 0)
                THEN Texts(TemplateCta(campaign.brief), left) ELSE {<<>>}
    BY <1>1, <1>2, <1>3, <2>2 DEF CallsToAction
  <2>4. CASE f.cta /\ left > 6 /\ (c.brief.cta > 0 \/ c.brief.link > 0)
    <3>1. cta \in Texts(TemplateCta(campaign.brief), left)
      BY <1>2, <2>3, <2>4
    <3>2. cta = Truncate(TemplateCta(campaign.brief), left, campaign.brief.word)
      BY <3>1, TemplateWrites
    <3> QED
      BY <1>2, <2>1, <2>4, <3>2 DEF CallOf
  <2>5. CASE ~(f.cta /\ left > 6 /\ (c.brief.cta > 0 \/ c.brief.link > 0))
    BY <1>2, <2>1, <2>3, <2>5 DEF CallOf
  <2> QED
    BY <2>4, <2>5
<1>5. PICK called, tagged, whole, e, settled :
        /\ called = AppendWithin(d.text, cta, room, word, 1)
        /\ tagged = AppendWithin(called, d.inline, PostHashtagLimit(b, f), word, f.tagSep)
        /\ whole = Truncate(tagged, PostHashtagLimit(b, f), word)
        /\ e = WithEnd(d, whole, FillsUp(d.text, cta, room))
        /\ settled = IF f.titleOnly THEN d ELSE Settled(e, f)
        /\ Completed(t, settled)
  BY <1>1, <1>2
<1>6. whole = TextOf(c, f, d)
  BY <1>3, <1>4, <1>5 DEF TextOf
<1>7. settled = FinishStep(c, f, d)
  BY <1>3, <1>4, <1>5, <1>6 DEF FinishStep
<1> QED
  BY <1>2, <1>5, <1>7

(***************************************************************************)
(* A campaign whose outcome a preview can know                             *)
(***************************************************************************)
AfterTags(c, f) == TagStep(c, f, NoDraft)
AfterBody(c, f) == BodyStep(c, f, AfterTags(c, f))
AfterEmoji(c, f) == IF f.titleOnly THEN AfterTags(c, f) ELSE EmojiStep(c, f, AfterBody(c, f))
AfterTitle(c, f) == TitleStep(c, f, AfterEmoji(c, f))
AfterAll(c, f) == FinishStep(c, f, AfterTitle(c, f))

OnScript(s, d, c, f) ==
  /\ s = "tags" => d = NoDraft
  /\ s = "body" => d = AfterTags(c, f)
  /\ s = "emoji" => d = AfterBody(c, f)
  /\ s = "title" => d = AfterEmoji(c, f)
  /\ s = "cta" => d = AfterTitle(c, f)
  /\ s \in Ended => d = AfterAll(c, f)

\* The post there will be, and what is said of it
Expected(t) == Attach(t, Payload(AfterAll(campaign, Voice(t)), BriefOf(campaign, NoDraft), Voice(t)))

Agrees(v, platform, p) ==
  /\ v = "ok" => Accepts(platform, p)
  /\ v = "rejected" => ~Accepts(platform, p)

Following(t) ==
  /\ stage[t] \notin {"media", "link", "drawn"}
  /\ link[t].len = campaign.brief.link
  /\ OnScript(stage[t], draft[t], campaign, Voice(t))
  /\ Agrees(verdict[t], Platform(t), Expected(t))

Scripted == DOMAIN verdict = Targets /\ (Foreseeable => \A t \in Targets : Following(t))

\* There is nothing to follow yet.
LEMMA OffScript == ASSUME NEW d, NEW c, NEW f PROVE OnScript("absent", d, c, f) /\ OnScript("tags", NoDraft, c, f)
BY DEF OnScript, Ended

\* Without media and links, generation comes first.
LEMMA StartsAtTags ==
  ASSUME Foreseeable, NEW t \in Targets
  PROVE  /\ Begun(campaign)[t] \in {"absent", "tags"}
         /\ Everywhere(campaign, "tags")[t] \in {"absent", "tags"}
BY DEF Foreseeable, Begun, Started, Everywhere

\* At first every target follows its script.
LEMMA ScriptedAtFirst == Init => Scripted
<1> SUFFICES ASSUME Init PROVE Scripted
  OBVIOUS
<1>1. DOMAIN verdict = Targets /\ \A t \in Targets : verdict[t] \in {"pending", "none"}
  BY DEF Init
<1>2. ASSUME Foreseeable, NEW t \in Targets
      PROVE  Following(t)
  <2>1. stage[t] \in {"absent", "tags"}
    BY <1>2, StartsAtTags DEF Init
  <2>2. link[t].len = campaign.brief.link /\ draft[t] = NoDraft
    BY DEF Init, Original
  <2>3. OnScript(stage[t], draft[t], campaign, Voice(t))
    BY <2>1, <2>2, OffScript
  <2> QED
    BY <1>1, <2>1, <2>2, <2>3 DEF Following, Agrees
<1> QED
  BY <1>1, <1>2 DEF Scripted

\* What is expected stays expected.
LEMMA ExpectedStays ==
  ASSUME UNCHANGED <<campaign, rendered>>, NEW t
  PROVE  Expected(t)' = Expected(t) /\ Platform(t)' = Platform(t) /\ Voice(t)' = Voice(t)
<1>1. Platform(t)' = Platform(t) /\ Voice(t)' = Voice(t)
  BY DEF Platform, Voice
<1>2. \A u, p : Attach(u, p)' = Attach(u, p)
  BY AttachesTheSame
<1>3. PICK p : p = Payload(AfterAll(campaign, Voice(t)), BriefOf(campaign, NoDraft), Voice(t))
  OBVIOUS
<1>4. Payload(AfterAll(campaign, Voice(t)), BriefOf(campaign, NoDraft), Voice(t))' = p
  BY <1>1, <1>3
<1> QED
  BY <1>1, <1>2, <1>3, <1>4 DEF Expected

\* Nothing happens to a target: it follows its script.
LEMMA FollowStays ==
  ASSUME NEW t, Following(t), UNCHANGED <<campaign, rendered>>,
         draft'[t] = draft[t], link'[t].len = link[t].len, stage'[t] = stage[t], verdict'[t] = verdict[t]
  PROVE  Following(t)'
BY ExpectedStays DEF Following

\* One target goes on as it is written.
LEMMA ScriptGoesOn ==
  ASSUME Scripted, TextInv, UNCHANGED <<campaign, rendered, link, verdict>>, NEW t \in Targets, NEW to, NEW d,
         Drafted(t, to, d), to \notin {"media", "link", "drawn"},
         Foreseeable => OnScript(to, d, campaign, Voice(t))
  PROVE  Scripted'
<1>1. DOMAIN draft = Targets /\ DOMAIN stage = Targets
  BY DEF TextInv, DraftsAreTexts
<1>2. /\ stage'[t] = to /\ draft'[t] = d
      /\ \A u \in Targets \ {t} : stage'[u] = stage[u] /\ draft'[u] = draft[u]
  BY <1>1 DEF Drafted
<1>3. Foreseeable' = Foreseeable
  BY DEF Foreseeable
<1>4. ASSUME Foreseeable, NEW u \in Targets
      PROVE  Following(u)'
  <2>1. CASE u # t
    BY <2>1, <1>2, <1>4, FollowStays DEF Scripted
  <2>2. CASE u = t
    <3>1. Following(t) /\ OnScript(to, d, campaign, Voice(t))
      BY <1>4 DEF Scripted
    <3> QED
      BY <3>1, <2>2, <1>2, ExpectedStays DEF Following
  <2> QED
    BY <2>1, <2>2
<1> QED
  BY <1>3, <1>4 DEF Scripted

\* The link a target is generated with is the author's own.
LEMMA BriefIs ==
  ASSUME Scripted, Foreseeable, NEW t \in Targets
  PROVE  Brief(t) = BriefOf(campaign, draft[t]) /\ campaign.provider = "template" /\ Following(t)
BY DEF Scripted, Following, Brief, BriefOf, Foreseeable

\* The template writes the next draft of the script.
LEMMA WritingIsScripted ==
  ASSUME TextInv, DraftsAreMade, Scripted, NEW t \in Targets,
         GenerateTags(t) \/ GenerateBody(t) \/ GenerateEmoji(t) \/ GenerateTitle(t)
  PROVE  Scripted'
<1> DEFINE f == Voice(t)
           c == campaign
<1>0. Made(stage[t], draft[t], f, c)
  BY DEF DraftsAreMade
<1>1. CASE GenerateTags(t)
  <2> DEFINE to == IF f.titleOnly THEN "title" ELSE "body"
  <2>1. stage[t] = "tags" /\ UNCHANGED <<campaign, rendered, link, verdict>>
    BY <1>1 DEF GenerateTags
  <2>2. PICK d : Drafted(t, to, d)
    BY <1>1 DEF GenerateTags
  <2>3. CASE Foreseeable
    <3>1. draft[t] = NoDraft
      BY <2>1, <2>3, BriefIs DEF Following, OnScript
    <3>2. Drafted(t, to, AfterTags(c, f))
      BY <3>1, <1>1, <2>3, BriefIs, TagsAreTold DEF AfterTags
    <3>3. OnScript(to, AfterTags(c, f), c, f)
      BY DEF OnScript, AfterEmoji, Ended
    <3> HIDE DEF to, f, c
    <3>4. to \notin {"media", "link", "drawn"}
      BY DEF to
    <3> QED
      BY <2>1, <3>2, <3>3, <3>4, ScriptGoesOn DEF f, c
  <2>4. CASE ~Foreseeable
    <3> HIDE DEF to, f, c
    <3>1. to \notin {"media", "link", "drawn"}
      BY DEF to
    <3> QED
      BY <2>1, <2>2, <2>4, <3>1, ScriptGoesOn
  <2> QED
    BY <2>3, <2>4
<1>2. CASE GenerateBody(t)
  <2>1. stage[t] = "body" /\ UNCHANGED <<campaign, rendered, link, verdict>>
    BY <1>2 DEF GenerateBody
  <2>2. PICK d : Drafted(t, "emoji", d)
    BY <1>2 DEF GenerateBody
  <2>3. CASE Foreseeable
    <3>1. draft[t] = AfterTags(c, f)
      BY <2>1, <2>3, BriefIs DEF Following, OnScript
    <3>2. Drafted(t, "emoji", AfterBody(c, f))
      BY <3>1, <1>2, <2>3, BriefIs, BodyIsTold DEF AfterBody
    <3>3. OnScript("emoji", AfterBody(c, f), c, f)
      BY DEF OnScript, Ended
    <3> HIDE DEF f, c
    <3> QED
      BY <2>1, <3>2, <3>3, ScriptGoesOn DEF f, c
  <2> QED
    BY <2>1, <2>2, <2>3, ScriptGoesOn
<1>3. CASE GenerateEmoji(t)
  <2>1. stage[t] = "emoji" /\ UNCHANGED <<campaign, rendered, link, verdict>>
    BY <1>3 DEF GenerateEmoji
  <2>2. PICK d : Drafted(t, "title", d)
    BY <1>3 DEF GenerateEmoji
  <2>3. CASE Foreseeable
    <3>1. draft[t] = AfterBody(c, f) /\ ~f.titleOnly
      BY <1>0, <2>1, <2>3, BriefIs DEF Following, OnScript, Made
    <3>2. Drafted(t, "title", AfterEmoji(c, f))
      BY <3>1, <1>3, <2>3, BriefIs, EmojiIsTold DEF AfterEmoji
    <3>3. OnScript("title", AfterEmoji(c, f), c, f)
      BY DEF OnScript, Ended
    <3> HIDE DEF f, c
    <3> QED
      BY <2>1, <3>2, <3>3, ScriptGoesOn DEF f, c
  <2> QED
    BY <2>1, <2>2, <2>3, ScriptGoesOn
<1>4. CASE GenerateTitle(t)
  <2>1. stage[t] = "title" /\ UNCHANGED <<campaign, rendered, link, verdict>>
    BY <1>4 DEF GenerateTitle
  <2>2. PICK d : Drafted(t, "cta", d)
    BY <1>4 DEF GenerateTitle
  <2>3. CASE Foreseeable
    <3>1. draft[t] = AfterEmoji(c, f)
      BY <2>1, <2>3, BriefIs DEF Following, OnScript
    <3>2. Drafted(t, "cta", AfterTitle(c, f))
      BY <3>1, <1>4, <2>3, BriefIs, TitleIsTold DEF AfterTitle
    <3>3. OnScript("cta", AfterTitle(c, f), c, f)
      BY DEF OnScript, Ended
    <3> HIDE DEF f, c
    <3> QED
      BY <2>1, <3>2, <3>3, ScriptGoesOn DEF f, c
  <2> QED
    BY <2>1, <2>2, <2>3, ScriptGoesOn
<1> QED
  BY <1>1, <1>2, <1>3, <1>4

\* The last draft is the last of the script.
LEMMA FinishIsScripted ==
  ASSUME TextInv, DraftsAreMade, Scripted, NEW t \in Targets, Finish(t)
  PROVE  Scripted'
<1>1. PICK d : Completed(t, d)
  BY FinishIsMade
<1>2. stage[t] = "cta"
  BY DEF Finish
<1>3. CASE Foreseeable
  <2>1. draft[t] = AfterTitle(campaign, Voice(t))
    BY <1>2, <1>3, BriefIs DEF Following, OnScript
  <2>2. Completed(t, AfterAll(campaign, Voice(t)))
    BY <2>1, <1>3, BriefIs, FinishIsTold DEF AfterAll
  <2>3. PICK e : e = AfterAll(campaign, Voice(t))
    OBVIOUS
  <2>4. OnScript("validate", e, campaign, Voice(t))
    BY <2>3 DEF OnScript
  <2>5. Drafted(t, "validate", e) /\ UNCHANGED <<campaign, rendered, link, verdict>>
    BY <2>2, <2>3 DEF Completed
  <2> QED
    BY <2>4, <2>5, ScriptGoesOn
<1>4. CASE ~Foreseeable
  <2>1. Drafted(t, "validate", d) /\ UNCHANGED <<campaign, rendered, link, verdict>>
    BY <1>1 DEF Completed
  <2> QED
    BY <2>1, <1>4, ScriptGoesOn
<1> QED
  BY <1>3, <1>4

\* A finished post of a campaign that can be foreseen is the one expected.
LEMMA PostIsExpected ==
  ASSUME PostsAreMade, Scripted, Foreseeable, NEW t \in Targets, stage[t] \in Ended
  PROVE  post[t] = Expected(t)
<1>1. post[t] = Attach(t, Payload(draft[t], Brief(t), Voice(t)))
  BY DEF PostsAreMade, Posted
<1>2. Brief(t) = BriefOf(campaign, draft[t]) /\ draft[t] = AfterAll(campaign, Voice(t))
  BY BriefIs DEF Following, OnScript
<1>3. PICK b, c, d, f : b = Brief(t) /\ c = BriefOf(campaign, NoDraft) /\ d = draft[t] /\ f = Voice(t)
  OBVIOUS
<1>4. b.link = c.link
  BY <1>2, <1>3 DEF BriefOf
<1>5. Payload(d, b, f) = Payload(d, c, f)
  BY <1>4, PayloadTakesLink
<1> QED
  BY <1>1, <1>2, <1>3, <1>5 DEF Expected

\* The rest of what may happen to a target
LEMMA ScriptIsLeft ==
  ASSUME Scripted, TextInv, UNCHANGED <<campaign, rendered, link, draft>>, NEW t \in Targets, NEW to, NEW v,
         stage' = [stage EXCEPT ![t] = to],
         verdict' = [verdict EXCEPT ![t] = v] \/ (v = verdict[t] /\ UNCHANGED verdict),
         Foreseeable => \/ to = "previewed" /\ Agrees(v, Platform(t), Expected(t))
                        \/ stage[t] \in Ended /\ to \in Ended /\ v = verdict[t]
  PROVE  Scripted'
<1>1. DOMAIN stage = Targets /\ DOMAIN verdict = Targets
  BY DEF TextInv, DraftsAreTexts, Scripted
<1>2. /\ stage'[t] = to /\ verdict'[t] = v
      /\ DOMAIN verdict' = Targets
      /\ \A u \in Targets \ {t} : stage'[u] = stage[u] /\ verdict'[u] = verdict[u]
  BY <1>1
<1>3. Foreseeable' = Foreseeable
  BY DEF Foreseeable
<1>4. ASSUME Foreseeable, NEW u \in Targets
      PROVE  Following(u)'
  <2>1. CASE u # t
    BY <2>1, <1>2, <1>4, FollowStays DEF Scripted
  <2>2. CASE u = t
    <3>1. Following(t)
      BY <1>4 DEF Scripted
    <3>2. OnScript(to, draft[t], campaign, Voice(t)) /\ to \notin {"media", "link", "drawn"}
      BY <1>4, <3>1 DEF Following, OnScript, Ended
    <3>3. Agrees(v, Platform(t), Expected(t))
      BY <1>4, <3>1 DEF Following
    <3> QED
      BY <3>1, <3>2, <3>3, <2>2, <1>2, ExpectedStays DEF Following
  <2> QED
    BY <2>1, <2>2
<1> QED
  BY <1>1, <1>3, <1>4 DEF Scripted

\* The preview says what the connector says of the post expected.
LEMMA PreviewIsScripted ==
  ASSUME PostsAreMade, Scripted, TextInv, NEW t \in Targets, Preview(t)
  PROVE  Scripted'
<1>1. PICK platform, p, v : platform = Platform(t) /\ p = post[t] /\ v = IF Accepts(platform, p) THEN "ok" ELSE "rejected"
  OBVIOUS
<1>2. /\ stage[t] = "validate" /\ UNCHANGED <<campaign, rendered, link, draft>>
      /\ stage' = [stage EXCEPT ![t] = "previewed"] /\ verdict' = [verdict EXCEPT ![t] = v]
  BY <1>1 DEF Preview, Told
<1>3. Agrees(v, platform, p)
  BY <1>1 DEF Agrees
<1>4. Foreseeable => Agrees(v, Platform(t), Expected(t))
  BY <1>1, <1>2, <1>3, PostIsExpected DEF Ended
<1> QED
  BY <1>2, <1>4, ScriptIsLeft

\* A post is submitted, and the draft stays.
LEMMA SubmitIsScripted ==
  ASSUME Scripted, TextInv, NEW t \in Targets, Submit(t)
  PROVE  Scripted'
<1>1. PICK to \in {"enqueued", "rejected"} : stage' = [stage EXCEPT ![t] = to]
  BY DEF Submit
<1>2. stage[t] = "validate" /\ UNCHANGED <<campaign, rendered, link, draft, verdict>>
  BY DEF Submit
<1> QED
  BY <1>1, <1>2, ScriptIsLeft DEF Ended

\* The campaign is submitted: the script begins anew.
LEMMA SubmissionIsScripted ==
  ASSUME Scripted, ComposeAndSubmit
  PROVE  Scripted'
<1>1. /\ UNCHANGED <<campaign, rendered, link, verdict>> /\ stage' = Begun(campaign)
      /\ draft' = [t \in Targets |-> NoDraft]
  BY DEF ComposeAndSubmit
<1>2. Foreseeable' = Foreseeable
  BY <1>1 DEF Foreseeable
<1>3. ASSUME Foreseeable, NEW t \in Targets
      PROVE  Following(t)'
  <2>1. stage'[t] \in {"absent", "tags"} /\ draft'[t] = NoDraft
    BY <1>1, <1>3, StartsAtTags
  <2>2. OnScript(stage'[t], draft'[t], campaign, Voice(t))
    BY <2>1, OffScript
  <2>3. Following(t)
    BY <1>3 DEF Scripted
  <2> QED
    BY <1>1, <2>1, <2>2, <2>3, ExpectedStays DEF Following
<1> QED
  BY <1>1, <1>2, <1>3 DEF Scripted

(***************************************************************************)
(* Generation keeps its promise                                            *)
(***************************************************************************)
\* Every step follows the script.
LEMMA ScriptedStays ==
  TextInv /\ DraftsAreMade /\ RenditionsAreMade /\ PostsAreMade /\ Scripted /\ [Next]_vars => Scripted'
<1> SUFFICES ASSUME TextInv, DraftsAreMade, RenditionsAreMade, PostsAreMade, Scripted, [Next]_vars
             PROVE  Scripted'
  OBVIOUS
<1>0. UNCHANGED campaign /\ Foreseeable' = Foreseeable
  BY CampaignStays DEF Foreseeable
<1>a. ASSUME UNCHANGED verdict, ~Foreseeable
      PROVE  Scripted'
  BY <1>a, <1>0 DEF Scripted
<1>1. CASE ComposeAndSubmit
  BY <1>1, SubmissionIsScripted
<1>2. CASE Execute
  <2>1. UNCHANGED verdict
    BY <1>2 DEF Execute
  <2>2. PICK S : rendered \in Seq(S)
    BY DEF RenditionsAreMade
  <2>3. Len(rendered) \in Nat /\ Len(rendered) < Len(campaign.sources)
    BY <1>2, <2>2 DEF Execute
  <2>4. ~Foreseeable
    BY <2>3 DEF Foreseeable
  <2> QED
    BY <2>1, <2>4, <1>a
<1>3. CASE ExecuteFails
  <2>1. UNCHANGED verdict /\ \E t \in Targets : stage[t] = "media"
    BY <1>3 DEF ExecuteFails
  <2>2. ~Foreseeable
    BY <2>1 DEF Scripted, Following
  <2> QED
    BY <2>1, <2>2, <1>a
<1>4. ASSUME NEW t \in Targets, Tag(t) \/ (\E s \in Slugs : PickFreeSlug(t, s)) \/ CreateShortUrl(t)
      PROVE  Scripted'
  <2>1. UNCHANGED verdict /\ stage[t] \in {"link", "drawn"}
    BY <1>4 DEF Tag, PickFreeSlug, CreateShortUrl
  <2>2. ~Foreseeable
    BY <2>1 DEF Scripted, Following
  <2> QED
    BY <2>1, <2>2, <1>a
<1>5. ASSUME NEW t \in Targets, GenerateTags(t) \/ GenerateBody(t) \/ GenerateEmoji(t) \/ GenerateTitle(t)
      PROVE  Scripted'
  BY <1>5, WritingIsScripted
<1>6. ASSUME NEW t \in Targets, Finish(t) \/ Preview(t) \/ Submit(t)
      PROVE  Scripted'
  BY <1>6, FinishIsScripted, PreviewIsScripted, SubmitIsScripted
<1>7. ASSUME NEW t \in Targets, GenerationFails(t)
      PROVE  Scripted'
  <2>1. ~Foreseeable /\ (UNCHANGED verdict \/ verdict' = [verdict EXCEPT ![t] = "error"])
    BY <1>7 DEF GenerationFails, Told, Foreseeable
  <2> QED
    BY <2>1, <1>0 DEF Scripted
<1>8. CASE UNCHANGED <<campaign, stage, rendered, draft, verdict, link>>
  BY <1>0, <1>8, FollowStays DEF Scripted
<1>9. ASSUME NEW t \in Targets, Resolve(t)
      PROVE  Scripted'
  BY <1>8, <1>9 DEF Resolve
<1>10. CASE UNCHANGED vars
  BY <1>8, <1>10 DEF vars
<1> QED
  BY <1>1, <1>2, <1>3, <1>4, <1>5, <1>6, <1>7, <1>9, <1>10 DEF Next

\* At first there are no renditions.
LEMMA RenditionsAtFirst == Init => RenditionsAreMade
<1> SUFFICES ASSUME Init PROVE RenditionsAreMade
  OBVIOUS
<1>1. campaign \in Campaigns /\ rendered = <<>>
  BY DEF Init
<1>2. Len(campaign.sources) \in Nat
  BY <1>1, CompositionAssumption
<1>3. rendered \in Seq({})
  BY <1>1
<1> QED
  BY <1>1, <1>2, <1>3 DEF RenditionsAreMade

\* At first there are no posts.
LEMMA PostsAtFirst == Init => PostsAreMade
<1> SUFFICES ASSUME Init PROVE PostsAreMade
  OBVIOUS
<1>1. DOMAIN post = Targets /\ \A t \in Targets : stage[t] \in Unwritten
  BY StagesAtFirst DEF Init
<1> QED
  BY <1>1 DEF PostsAreMade, Posted, Unwritten, Ended

\* A target's post does what generation promises.
LEMMA PostsArePromised ==
  ASSUME TextInv, DraftsAreMade, RenditionsAreMade, PostsAreMade, Scripted
  PROVE  GeneratedIsAccepted
<1> SUFFICES ASSUME NEW t \in Targets
             PROVE  /\ stage[t] = "rejected" => Refusable(t)
                    /\ stage[t] = "enqueued" => Takes(Platform(t), post[t]) \/ Overtaken(t)
                    /\ verdict[t] = "ok" /\ Foreseeable => stage[t] # "rejected"
                    /\ verdict[t] = "rejected" /\ Foreseeable => stage[t] # "enqueued"
  BY DEF GeneratedIsAccepted, Refusable, Overtaken
<1>1. CASE stage[t] \in Ended
  <2>1. PICK s, platform, p, v : s = stage[t] /\ platform = Platform(t) /\ p = post[t] /\ v = verdict[t]
    OBVIOUS
  <2>2. Judged(s, platform, p)
    BY <1>1, <2>1 DEF PostsAreMade, Posted
  <2>3. Answered(t)
    BY <1>1, PostsAnswer
  <2>4. Foreseeable => Agrees(v, platform, p)
    BY <1>1, <2>1, PostIsExpected, BriefIs DEF Following
  <2> QED
    BY <2>1, <2>2, <2>3, <2>4 DEF Judged, Answered, Agrees
<1>2. CASE stage[t] \notin Ended
  BY <1>2 DEF Ended
<1> QED
  BY <1>1, <1>2

\* A post that was made of any brief and any sources, whatever a model answers and whichever
\* renditions fail, is rejected by its connector only for a reason that GeneratedIsAccepted
\* names, and an enqueued one is taken by its platform unless there is one (generateVariant in
\* campaignGenerator.ts, processTarget in campaign-service.ts, validatePost of the connectors).
\* A campaign that can be foreseen meets with what its preview said (composePreview in
\* preview.ts).
THEOREM GeneratedIsAcceptedCorrect == Spec => []GeneratedIsAccepted
<1> DEFINE GInv == TextInv /\ DraftsAreMade /\ RenditionsAreMade /\ PostsAreMade /\ Scripted
<1>1. Init => IInv /\ GInv
  BY TextsAtFirst, Initially, MadeAtFirst, RenditionsAtFirst, PostsAtFirst, ScriptedAtFirst
<1>2. IInv /\ GInv /\ [Next]_vars => IInv' /\ GInv'
  BY TextsStay, IInvNext, MadeStays, RenditionsStay, PostsStay, ScriptedStays DEF IInv
<1>3. GInv => GeneratedIsAccepted
  BY PostsArePromised
<1> QED
  BY <1>1, <1>2, <1>3, PTL DEF Spec

(***************************************************************************)
(* Types                                                                   *)
(***************************************************************************)
Stages == {"absent", "media", "link", "drawn", "tags", "body", "emoji", "title", "cta",
           "validate", "enqueued", "rejected", "error", "previewed"}

\* A target that may still draw a slug has drawn less often than it may, and none that has not begun has drawn.
Counted ==
  \A t \in Targets :
    /\ stage[t] \in {"absent", "media", "previewed"} \/ verdict[t] = "pending" => draws[t] = 0
    /\ stage[t] = "link" => draws[t] < MaxRetries

Typed ==
  /\ stage \in [Targets -> Stages] /\ draws \in [Targets -> 0 .. MaxRetries]
  /\ short \in [Slugs -> [target : Targets, clicks : 0 .. MaxVisits] \cup {None}]
  /\ verdict \in [Targets -> {"none", "pending", "ok", "rejected", "error"}]
  /\ Counted

\* At first nothing is drawn and nothing counted.
LEMMA TypesAtFirst == Init => Typed
<1> SUFFICES ASSUME Init
             PROVE  Typed
  OBVIOUS
<1>1. stage \in [Targets -> Stages]
  BY DEF Init, Begun, Started, Everywhere, Stages
<1>2. draws \in [Targets -> 0 .. MaxRetries] /\ \A t \in Targets : draws[t] = 0 /\ 0 < MaxRetries
  BY CompositionAssumption DEF Init
<1>3. short \in [Slugs -> [target : Targets, clicks : 0 .. MaxVisits] \cup {None}]
  BY DEF Init
<1>4. verdict \in [Targets -> {"none", "pending", "ok", "rejected", "error"}]
  BY DEF Init
<1> QED
  BY <1>1, <1>2, <1>3, <1>4 DEF Typed, Counted

\* A target goes on, and draws no slug.
LEMMA TypesGoOn ==
  ASSUME Typed, UNCHANGED <<draws, short, verdict>>, NEW t \in Targets, NEW to,
         to \in Stages \ {"absent", "media", "link", "previewed"}, stage' = [stage EXCEPT ![t] = to]
  PROVE  Typed'
BY DEF Typed, Counted

\* Every step keeps the types.
LEMMA TypesStay == IInv /\ Typed /\ [Next]_vars => Typed'
<1> SUFFICES ASSUME IInv, Typed, [Next]_vars
             PROVE  Typed'
  OBVIOUS
<1>0. stage \in [Targets -> Stages]
  BY DEF Typed
<1>1. CASE ComposeAndSubmit
  <2>1. stage' = Begun(campaign) /\ UNCHANGED <<draws, short, verdict>>
    BY <1>1 DEF ComposeAndSubmit
  <2>2. stage' \in [Targets -> Stages]
    BY <2>1 DEF Begun, Started, Everywhere, Stages
  <2>3. \A t \in Targets : draws[t] = 0 /\ 0 < MaxRetries
    BY <1>1, CompositionAssumption DEF ComposeAndSubmit, Typed, Counted
  <2> QED
    BY <2>1, <2>2, <2>3 DEF Typed, Counted
<1>2. CASE Execute
  <2>1. (stage' = Started(campaign) \/ stage' = stage) /\ UNCHANGED <<draws, short, verdict>>
    BY <1>2 DEF Execute
  <2>2. \A t \in Targets : stage[t] \in {"absent", "media"}
    BY <1>2 DEF Execute, IInv, MediaFirst
  <2>3. stage' \in [Targets -> Stages]
    BY <1>0, <2>1 DEF Started, Stages
  <2>4. \A t \in Targets : draws[t] = 0 /\ 0 < MaxRetries
    BY <2>2, CompositionAssumption DEF Typed, Counted
  <2> QED
    BY <2>1, <2>3, <2>4 DEF Typed, Counted
<1>3. CASE ExecuteFails
  BY <1>3 DEF ExecuteFails, Typed, Counted, Stages
<1>4. ASSUME NEW t \in Targets, Tag(t)
      PROVE  Typed'
  BY <1>4, TypesGoOn DEF Tag, Rewritten, Stages
<1>5. ASSUME NEW t \in Targets, NEW s \in Slugs, PickFreeSlug(t, s)
      PROVE  Typed'
  <2>1. /\ stage[t] = "link" /\ draws' = [draws EXCEPT ![t] = @ + 1] /\ UNCHANGED <<short, verdict>>
        /\ \/ stage' = [stage EXCEPT ![t] = "drawn"]
           \/ stage' = [stage EXCEPT ![t] = IF draws'[t] = MaxRetries THEN "tags" ELSE @]
    BY <1>5 DEF PickFreeSlug
  <2>2. draws \in [Targets -> 0 .. MaxRetries] /\ draws[t] < MaxRetries /\ MaxRetries \in Nat /\ verdict[t] # "pending"
    BY <2>1, CompositionAssumption DEF Typed, Counted, IInv, NotYetShort, Ahead
  <2>3. draws' \in [Targets -> 0 .. MaxRetries] /\ \A u \in Targets : draws'[u] = IF u = t THEN draws[t] + 1 ELSE draws[u]
    BY <2>1, <2>2
  <2>4. stage' \in [Targets -> Stages]
    BY <1>0, <2>1 DEF Stages
  <2>5. ASSUME NEW u \in Targets
        PROVE  /\ stage'[u] \in {"absent", "media", "previewed"} \/ verdict'[u] = "pending" => draws'[u] = 0
               /\ stage'[u] = "link" => draws'[u] < MaxRetries
    <3>1. CASE u # t
      <4>1. stage'[u] = stage[u] /\ draws'[u] = draws[u] /\ verdict'[u] = verdict[u]
        BY <1>0, <2>1, <2>3, <3>1
      <4> QED
        BY <4>1 DEF Typed, Counted
    <3>2. CASE u = t
      <4>1. stage'[t] \in {"drawn", "tags", "link"} /\ (stage'[t] = "link" => draws'[t] # MaxRetries)
        BY <1>0, <2>1
      <4>2. draws'[t] \in 0 .. MaxRetries
        BY <2>3
      <4> QED
        BY <3>2, <4>1, <4>2, <2>1, <2>2
    <3> QED
      BY <3>1, <3>2
  <2> QED
    BY <2>1, <2>3, <2>4, <2>5 DEF Typed, Counted
<1>6. ASSUME NEW t \in Targets, CreateShortUrl(t)
      PROVE  Typed'
  <2>1. /\ stage' = [stage EXCEPT ![t] = "tags"] /\ UNCHANGED <<draws, verdict>>
        /\ UNCHANGED short \/ short' = [short EXCEPT ![candidate[t]] = [target |-> t, clicks |-> 0]]
    BY <1>6 DEF CreateShortUrl, Rewritten, Create
  <2>2. [target |-> t, clicks |-> 0] \in [target : Targets, clicks : 0 .. MaxVisits]
    BY CompositionAssumption
  <2>3. short' \in [Slugs -> [target : Targets, clicks : 0 .. MaxVisits] \cup {None}]
    BY <2>1, <2>2 DEF Typed
  <2>4. stage' \in [Targets -> Stages] /\ \A u \in Targets : stage'[u] \in {stage[u], "tags"}
    BY <1>0, <2>1 DEF Stages
  <2> QED
    BY <2>1, <2>3, <2>4 DEF Typed, Counted
<1>7. ASSUME NEW t \in Targets, GenerateTags(t) \/ GenerateBody(t) \/ GenerateEmoji(t) \/ GenerateTitle(t) \/ Finish(t) \/ Submit(t)
      PROVE  Typed'
  <2>1. UNCHANGED <<draws, short, verdict>>
        /\ \E to \in Stages \ {"absent", "media", "link", "previewed"} : stage' = [stage EXCEPT ![t] = to]
    <3>1. CASE GenerateTags(t)
      BY <3>1 DEF GenerateTags, Drafted, Stages
    <3>2. CASE GenerateBody(t)
      BY <3>2 DEF GenerateBody, Drafted, Stages
    <3>3. CASE GenerateEmoji(t)
      BY <3>3 DEF GenerateEmoji, Drafted, Stages
    <3>4. CASE GenerateTitle(t)
      BY <3>4 DEF GenerateTitle, Drafted, Stages
    <3>5. CASE Finish(t)
      BY <3>5 DEF Finish, Drafted, Stages
    <3>6. CASE Submit(t)
      BY <3>6 DEF Submit, Stages
    <3> QED
      BY <1>7, <3>1, <3>2, <3>3, <3>4, <3>5, <3>6
  <2> QED
    BY <2>1, TypesGoOn
<1>8. ASSUME NEW t \in Targets, GenerationFails(t) \/ Preview(t)
      PROVE  Typed'
  <2>1. /\ UNCHANGED <<draws, short>>
        /\ \/ \E v \in {"ok", "rejected", "error"} :
                /\ verdict[t] = "pending" /\ stage' = [stage EXCEPT ![t] = "previewed"]
                /\ verdict' = [verdict EXCEPT ![t] = v]
           \/ stage' = [stage EXCEPT ![t] = "error"] /\ UNCHANGED verdict
    BY <1>8 DEF GenerationFails, Preview, Told
  <2>2. CASE stage' = [stage EXCEPT ![t] = "error"] /\ UNCHANGED verdict
    BY <2>1, <2>2, TypesGoOn DEF Stages
  <2>3. CASE ~(stage' = [stage EXCEPT ![t] = "error"] /\ UNCHANGED verdict)
    <3>1. PICK v \in {"ok", "rejected", "error"} :
            /\ verdict[t] = "pending" /\ stage' = [stage EXCEPT ![t] = "previewed"]
            /\ verdict' = [verdict EXCEPT ![t] = v]
      BY <2>1, <2>3
    <3>2. draws[t] = 0
      BY <3>1 DEF Typed, Counted
    <3>3. stage' \in [Targets -> Stages] /\ verdict' \in [Targets -> {"none", "pending", "ok", "rejected", "error"}]
      BY <1>0, <3>1 DEF Typed, Stages
    <3>4. \A u \in Targets : u # t => stage'[u] = stage[u] /\ verdict'[u] = verdict[u]
      BY <1>0, <3>1 DEF Typed
    <3>5. stage'[t] = "previewed"
      BY <1>0, <3>1
    <3> QED
      BY <2>1, <3>2, <3>3, <3>4, <3>5 DEF Typed, Counted
  <2> QED
    BY <2>2, <2>3
<1>9. ASSUME NEW t \in Targets, Resolve(t)
      PROVE  Typed'
  <2>1. /\ UNCHANGED <<stage, draws, verdict>> /\ link[t].slug # None /\ visits[t] < MaxVisits
        /\ short' = [short EXCEPT ![link[t].slug].clicks = @ + 1]
    BY <1>9 DEF Resolve, RecordClick
  <2>2. short[link[t].slug] = [target |-> t, clicks |-> visits[t]] /\ link[t].slug \in Slugs /\ visits[t] \in 0 .. MaxVisits
    BY <2>1 DEF IInv, LinksLeadHome, Shapes
  <2>3. PICK s \in Slugs, n \in Nat : s = link[t].slug /\ n = visits[t] /\ n < MaxVisits
    BY <2>1, <2>2
  <2>4. short' = [short EXCEPT ![s] = [short[s] EXCEPT !.clicks = short[s].clicks + 1]]
    BY <2>1, <2>3
  <2>5. [short[s] EXCEPT !.clicks = short[s].clicks + 1] = [target |-> t, clicks |-> n + 1]
    BY <2>2, <2>3
  <2>6. [target |-> t, clicks |-> n + 1] \in [target : Targets, clicks : 0 .. MaxVisits]
    BY <2>3, CompositionAssumption
  <2>7. short' \in [Slugs -> [target : Targets, clicks : 0 .. MaxVisits] \cup {None}]
    BY <2>4, <2>5, <2>6 DEF Typed
  <2> QED
    BY <2>1, <2>7 DEF Typed, Counted
<1>10. CASE UNCHANGED vars
  BY <1>10 DEF vars, Typed, Counted
<1> QED
  BY <1>1, <1>2, <1>3, <1>4, <1>5, <1>6, <1>7, <1>8, <1>9, <1>10 DEF Next

\* Every variable of a campaign keeps its type. In particular a target draws no more slugs than pickFreeSlug
\* allows (short-url-service.ts), a click is counted for a slug that exists, and a draft, a file and a
\* post have the shapes that generation, the planner and the payload builder give them.
THEOREM TypeCorrect == Spec => []TypeOK
<1> DEFINE TInv == IInv /\ TextInv /\ DraftsAreMade /\ RenditionsAreMade /\ PostsAreMade /\ Typed
<1>1. Init => TInv
  BY TextsAtFirst, Initially, MadeAtFirst, RenditionsAtFirst, PostsAtFirst, TypesAtFirst
<1>2. TInv /\ [Next]_vars => TInv'
  BY TextsStay, IInvNext, MadeStays, RenditionsStay, PostsStay, TypesStay DEF IInv
<1>3. TInv => TypeOK
  BY DEF IInv, Shapes, TextInv, DraftsAreTexts, RenditionsAreMade, PostsAreMade, Typed, Stages, TypeOK
<1> QED
  BY <1>1, <1>2, <1>3, PTL DEF Spec
===============================================================================
