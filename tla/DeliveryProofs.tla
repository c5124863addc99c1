---------------------------- MODULE DeliveryProofs ----------------------------
(***************************************************************************)
(* The plans of the five connectors keep what the worker relies on, the    *)
(* contract of PlanContract, for every post: of any length, with any       *)
(* number of children, media and mentions and any options.                 *)
(*                                                                         *)
(* A plan to publish a thread is a section for each post: its files and    *)
(* its post, or an error instead of the post.  By induction over the       *)
(* sections, a plan that has come through n of them has made n posts in    *)
(* their order, each behind its own files; and what a later section        *)
(* refuses for good, the first has refused before it.                      *)
(*                                                                         *)
(* What a delivery promises follows for every number of attempts, tries    *)
(* and faults and for every set of jobs whose plans keep the contract.     *)
(* An attempt works its plan off from the first call, so what it has done  *)
(* is known from where it is: the posts of the thread, the post that was   *)
(* removed, the change that was made.  An attempt that fails has a fault   *)
(* of its own to blame, because a token that has run out is either         *)
(* refreshed before the next attempt or not known to have.                 *)
(***************************************************************************)
EXTENDS Delivery, ConnectorJobs, FiniteSetTheorems, SequenceTheorems, WellFoundedInduction, TLAPS

-------------------------------------------------------------------------------
(* The jobs of the connectors *)

\* Posts as the pipeline hands them to a connector, of any length.
Attachments == [mime : STRING, bytes : Nat, size : Nat, seconds : Nat, alt : Nat, readable : BOOLEAN]

PostsWith(threads) ==
  [text : Nat, urls : Seq(Nat), title : Nat, link : Nat, tags : Seq(Nat), mentions : Seq(Nat),
   media : Seq(Attachments), thread : threads, options : SUBSET STRING]

\* What a post of the thread carries besides is not looked at.
IsPost(p) == \E below : p \in PostsWith(Seq(PostsWith(below)))

\* The jobs of each platform.
DiscordWork(account, p, credential) ==
  {Publishing(account, D!Publish(p, credential), p, D!Takes),
   About(account, "delete", D!Delete, TRUE),
   About(account, "edit", D!Edit(p), TRUE),
   About(account, "collect_analytics", D!GetAnalytics, TRUE)}

MastodonWork(account, p) ==
  {Publishing(account, M!Publish(p), p, M!Takes),
   About(account, "delete", M!Delete, TRUE),
   About(account, "edit", M!Edit(p), TRUE),
   About(account, "collect_analytics", M!GetAnalytics, TRUE)}

BlueskyWork(account, p) ==
  {Publishing(account, B!Publish(p), p, B!Takes),
   About(account, "delete", B!Delete, TRUE),
   About(account, "edit", B!Edit, TRUE),
   About(account, "collect_analytics", B!GetAnalytics, TRUE)}

RedditWork(account, p, agent) ==
  {Publishing(account, R!Publish(p, agent), p, R!Takes),
   About(account, "delete", R!Delete(agent), TRUE),
   About(account, "edit", R!Edit(p, agent), TRUE),
   About(account, "collect_analytics", R!GetAnalytics(agent), TRUE)}

TwitchWork(account, p) ==
  {OfChannel(account, "publish", T!Publish(p), T!Takes(p)),
   OfChannel(account, "edit", T!Edit(p), T!Takes(p)),
   About(account, "delete", T!Delete, TRUE),
   OfChannel(account, "collect_analytics", T!GetAnalytics, TRUE)}

\* A job of an account on one of the platforms, about a post or its channel
OfConnector(work) ==
  \E p, account :
    /\ IsPost(p)
    /\ \/ account.errors = ErrorsOf(D!Failure) /\ \E credential : work \in DiscordWork(account, p, credential)
       \/ account.errors = ErrorsOf(M!Failure) /\ work \in MastodonWork(account, p)
       \/ account.errors = ErrorsOf(B!Failure) /\ work \in BlueskyWork(account, p)
       \/ account.errors = ErrorsOf(R!Failure) /\ \E agent \in BOOLEAN : work \in RedditWork(account, p, agent)
       \/ account.errors = ErrorsOf(T!Failure) /\ work \in TwitchWork(account, p)

-------------------------------------------------------------------------------
(* The plans of threads *)

\* Calls that may stand in the plan of a thread
Files == {"read", "upload"}

Names == Files \cup {"post", "openThread", "resolve", "thread"} \cup Codes

Calls == [call : Names, item : Nat, caught : BOOLEAN]

\* There is no error of the connector's own before call i.
Clean(plan, i) == \A k \in 1 .. i - 1 : plan[k].call \notin Codes

\* Only what is said to be best effort is caught.
Allowed(plan) ==
  \A i \in DOMAIN plan :
    /\ plan[i].call \in Files \cup {"post", "openThread", "resolve", "thread", "plain", "validation_failed"}
    /\ plan[i].call \in Files \cup {"post"} => ~plan[i].caught

FilesBefore(plan, q) == {i \in 1 .. q - 1 : plan[i].call \in Files}

\* Post n of a thread is refused before it is made, or made behind its m files.
Refusing(plan) ==
  /\ \A i \in DOMAIN plan : plan[i].call # "post"
  /\ \E i \in DOMAIN plan : plan[i].call \in Codes

Posting(plan, n, m) ==
  \E q \in DOMAIN plan :
    /\ plan[q] = Do("post", n)
    /\ \A i \in 1 .. q - 1 : plan[i].call # "post"
    /\ \A i \in q + 1 .. Len(plan) : plan[i].call = "openThread"
    /\ Clean(plan, q) => Cardinality(FilesBefore(plan, q)) = m

\* A section, and whether it refuses its post for good
Section(plan, n, m) ==
  /\ plan \in Seq(Calls) /\ Allowed(plan)
  /\ Refusing(plan) \/ Posting(plan, n, m)

Rejects(plan) == \E i \in DOMAIN plan : plan[i].call \in Codes \ {"plain"}

\* There is an error somewhere.
Spoilt(plan) == ~Clean(plan, Len(plan) + 1)

Silent(plan) == \A i \in DOMAIN plan : plan[i].call # "post"

\* What a plan that has come through n posts of a thread has kept to
Through(plan, n, media) ==
  /\ plan \in Seq(Calls) /\ Allowed(plan)
  /\ \A i, k \in DOMAIN plan :
       plan[k].call \in Codes \ {"plain"} /\ Clean(plan, k) /\ i < k => plan[i].call # "post"
  /\ \A i \in DOMAIN plan :
       plan[i].call = "post" /\ Clean(plan, i) =>
         /\ Done(plan, i) < n /\ plan[i].item = Done(plan, i) + 1
         /\ media[plan[i].item] = Carried(plan, i)
  /\ Clean(plan, Len(plan) + 1) =>
       /\ Done(plan, Len(plan) + 1) = n
       /\ Brought(plan, Len(plan) + 1) = {}
  /\ n = 0 => Silent(plan)
  /\ n = 1 => \A i, k \in DOMAIN plan : plan[i].call = "post" /\ i < k => plan[k].call = "openThread"

\* The media are brought one by one, and nothing is caught.
Bringing(call, item, n) ==
  [i \in DOMAIN item.media |-> IF item.media[i].readable THEN Do(call, n) ELSE Throw("plain")]

\* Neither by a webhook nor to a channel
Homeless(p, n, credential) ==
  /\ ~D!ByWebhook(D!Sent(p, n), credential)
  /\ D!Sent(p, n).options \cap {"channelId", "threadId"} = {}

-------------------------------------------------------------------------------
(* What is to be proved of a job *)

\* What there are errors for
Requests == {"refresh", "upload", "post", "openThread", "resolve", "thread", "validate", "channel",
             "update", "remove", "metrics", "followers"}

\* The contract and, for the errors, the names of the calls
Sound(work) ==
  /\ KeepsContract(work)
  /\ \A i \in DOMAIN work.plan : work.plan[i].call \in Codes \cup {"read"} \cup Requests

\* A job to publish p, as far as the contract goes
PublishingJob(work, p, plan) ==
  /\ work.operation = "publish" /\ work.addressed = FALSE
  /\ work.media = [n \in DOMAIN Items(p) |-> Len(Items(p)[n].media)]
  /\ work.plan = plan

-------------------------------------------------------------------------------
(* Induction over the natural numbers, and sequences of sequences *)

\* Induction over the natural numbers for a set: the least number outside of it would have
\* no predecessor.
LEMMA SetInduction ==
  ASSUME NEW S, 0 \in S, \A n \in Nat : n \in S => n + 1 \in S
  PROVE Nat \subseteq S
<1> DEFINE less == {ss \in Nat \X Nat : ss[1] < ss[2]}
           rest == Nat \ S
<1>1. SUFFICES ASSUME rest # {} PROVE FALSE
  OBVIOUS
<1>2. IsWellFoundedOn(less, Nat)
  BY NatLessThanWellFounded DEF OpToRel
<1> HIDE DEF less
<1>3. PICK x \in rest : \A y \in rest : ~(<<y, x>> \in less)
  BY <1>1, <1>2, WFMin
<1>4. x \in Nat /\ x # 0 /\ x - 1 \in Nat
  BY <1>3
<1>5. x - 1 \in S
  <2>1. <<x - 1, x>> \in less
    BY <1>4 DEF less
  <2> QED BY <2>1, <1>3, <1>4
<1>6. x - 1 + 1 = x
  BY <1>4
<1> QED BY <1>3, <1>4, <1>5, <1>6

\* FlattenSeq by its steps
LEMMA FlattenSteps ==
  ASSUME NEW seqs, Len(seqs) \in Nat \ {0}
  PROVE  \E f : /\ FlattenSeq(seqs) = f[Len(seqs)]
                /\ f[1] = seqs[1]
                /\ \A i \in 1 .. Len(seqs) - 1 : f[i + 1] = f[i] \o seqs[i + 1]
<1> DEFINE n == Len(seqs)
           Joined(g, i) == IF i = 1 THEN seqs[i] ELSE g[i - 1] \o seqs[i]
           Is(g, m) == \A i \in 1 .. m : g[i] = Joined(g, i)
           S == {m \in Nat : \E g : Is(g, m)}
<1>1. 0 \in S
  OBVIOUS
<1>2. ASSUME NEW m \in Nat, m \in S PROVE m + 1 \in S
  <2>1. PICK g : Is(g, m)
    BY <1>2
  <2> DEFINE h == [i \in 1 .. m + 1 |-> IF i = m + 1 THEN Joined(g, i) ELSE g[i]]
  <2>2. ASSUME NEW i \in 1 .. m + 1 PROVE h[i] = Joined(h, i)
    <3>1. CASE i = m + 1
      BY <3>1
    <3>2. CASE i # m + 1
      BY <3>2, <2>1
    <3> QED BY <3>1, <3>2
  <2>3. Is(h, m + 1)
    BY <2>2
  <2> HIDE DEF h, Is
  <2> QED BY <2>3
<1>3. n \in S
  <2> HIDE DEF S
  <2> QED BY <1>1, <1>2, SetInduction
<1>4. PICK g : Is(g, n)
  BY <1>3
<1> DEFINE h == [i \in 1 .. n |-> g[i]]
<1>5. h = [i \in 1 .. n |-> Joined(h, i)]
  BY <1>4
<1> DEFINE f == CHOOSE f : f = [i \in 1 .. n |-> Joined(f, i)]
<1>6. f = [i \in 1 .. n |-> Joined(f, i)]
  <2> HIDE DEF h
  <2> QED BY <1>5
<1>7. FlattenSeq(seqs) = f[n]
  BY DEF FlattenSeq
<1> HIDE DEF f
<1>0. n \in Nat \ {0}
  OBVIOUS
<1> HIDE DEF n
<1>8. f[1] = seqs[1] /\ \A i \in 1 .. n - 1 : f[i + 1] = f[i] \o seqs[i + 1]
  <2>1. 1 \in 1 .. n
    BY <1>0
  <2>2. f[1] = seqs[1]
    BY <2>1, <1>6
  <2>3. ASSUME NEW j \in 2 .. n PROVE f[j] = f[j - 1] \o seqs[j]
    <3>1. j \in 1 .. n /\ j # 1
      BY <1>0
    <3> QED BY <3>1, <1>6
  <2>4. ASSUME NEW i \in 1 .. n - 1 PROVE f[i + 1] = f[i] \o seqs[i + 1]
    <3>1. PICK j \in 2 .. n : j = i + 1
      BY <1>0
    <3>2. j - 1 = i
      BY <3>1
    <3>3. f[j] = f[i] \o seqs[j]
      BY <2>3, <3>2
    <3> QED BY <3>1, <3>3
  <2> QED BY <2>2, <2>4
<1>9. \E all : all = f
  OBVIOUS
<1>10. PICK all : all = f
  BY <1>9
<1> QED BY <1>7, <1>8, <1>10 DEF n

\* A function on 1 .. n is a sequence of length n.
LEMMA LenOfFunction ==
  ASSUME NEW n \in Nat, NEW s, DOMAIN s = 1 .. n
  PROVE  Len(s) = n
  OBVIOUS

LEMMA IsSequence ==
  ASSUME NEW n \in Nat, NEW S, NEW s \in [1 .. n -> S]
  PROVE  s \in Seq(S) /\ Len(s) = n
  OBVIOUS

LEMMA FlattenEmpty ==
  ASSUME NEW seqs, Len(seqs) = 0
  PROVE  FlattenSeq(seqs) = seqs
  BY DEF FlattenSeq

\* Sequences of one element each make the sequence of these elements.
LEMMA FlattenSingles ==
  ASSUME NEW k \in Nat, NEW S, NEW c \in [1 .. k -> S]
  PROVE  FlattenSeq([i \in 1 .. k |-> <<c[i]>>]) = c
<1> DEFINE seqs == [i \in 1 .. k |-> <<c[i]>>]
<1>1. Len(seqs) = k
  OBVIOUS
<1>2. CASE k = 0
  <2>1. seqs = c
    BY <1>2
  <2> QED BY <1>1, <1>2, <2>1, FlattenEmpty
<1>3. CASE k # 0
  <2>1. PICK f : /\ FlattenSeq(seqs) = f[k]
                 /\ f[1] = seqs[1]
                 /\ \A i \in 1 .. k - 1 : f[i + 1] = f[i] \o seqs[i + 1]
    <3> HIDE DEF seqs
    <3> QED BY <1>1, <1>3, FlattenSteps
  <2> DEFINE Prefix(m) == [i \in 1 .. m |-> c[i]]
             P == {m \in Nat : m \in 1 .. k => f[m] = Prefix(m)}
  <2>2. 0 \in P
    OBVIOUS
  <2>3. ASSUME NEW m \in Nat, m \in P PROVE m + 1 \in P
    <3> SUFFICES ASSUME m + 1 \in 1 .. k PROVE f[m + 1] = Prefix(m + 1)
      OBVIOUS
    <3>1. CASE m = 0
      <4>1. f[1] = <<c[1]>>
        BY <1>3, <2>1
      <4>2. Prefix(1) = <<c[1]>>
        BY <1>3
      <4> QED BY <3>1, <4>1, <4>2
    <3>2. CASE m # 0
      <4>1. f[m] = Prefix(m)
        BY <2>3, <3>2
      <4>2. f[m + 1] = Prefix(m) \o <<c[m + 1]>>
        <5>1. m \in 1 .. k - 1 /\ seqs[m + 1] = <<c[m + 1]>>
          BY <3>2
        <5>2. f[m + 1] = f[m] \o seqs[m + 1]
          BY <2>1, <5>1
        <5> QED BY <4>1, <5>1, <5>2
      <4>3. Prefix(m) \in Seq(S) /\ Len(Prefix(m)) = m
        BY <3>2
      <4> QED BY <4>2, <4>3
    <3> QED BY <3>1, <3>2
  <2>4. k \in P
    <3> HIDE DEF P
    <3> QED BY <2>2, <2>3, SetInduction
  <2> QED BY <1>3, <2>1, <2>4
<1> QED BY <1>2, <1>3

\* What the first sequence begins and every further one continues holds of the whole.
LEMMA FlattenInduction ==
  ASSUME NEW seqs, Len(seqs) \in Nat \ {0}, NEW Good,
         seqs[1] \in Good[1],
         \A i \in 1 .. Len(seqs) - 1 : \A s \in Good[i] : s \o seqs[i + 1] \in Good[i + 1]
  PROVE  FlattenSeq(seqs) \in Good[Len(seqs)]
<1>1. PICK f : /\ FlattenSeq(seqs) = f[Len(seqs)]
               /\ f[1] = seqs[1]
               /\ \A i \in 1 .. Len(seqs) - 1 : f[i + 1] = f[i] \o seqs[i + 1]
  BY FlattenSteps
<1> DEFINE n == Len(seqs)
           P == {m \in Nat : m \in 1 .. n => f[m] \in Good[m]}
<1>2. 0 \in P
  OBVIOUS
<1>3. ASSUME NEW m \in Nat, m \in P PROVE m + 1 \in P
  <2>1. CASE m + 1 \notin 1 .. n
    BY <2>1
  <2>2. CASE m = 0
    BY <1>1, <2>2
  <2>3. CASE m # 0 /\ m + 1 \in 1 .. n
    <3>1. m \in 1 .. n /\ m \in 1 .. n - 1
      BY <2>3
    <3>2. f[m] \in Good[m]
      BY <1>3, <3>1
    <3>3. f[m + 1] \in Good[m + 1]
      BY <1>1, <3>1, <3>2
    <3> QED BY <3>3
  <2> QED BY <2>1, <2>2, <2>3
<1>4. n \in P
  <2> HIDE DEF P
  <2> QED BY <1>2, <1>3, SetInduction
<1> QED BY <1>1, <1>4

-------------------------------------------------------------------------------
(* Plans of threads, section by section *)

\* The sets of PlanContract, element by element
LEMMA IsBrought ==
  ASSUME NEW plan, NEW i, NEW k
  PROVE  k \in Brought(plan, i) <=>
           /\ k \in 1 .. i - 1 /\ plan[k].call \in Files
           /\ \A l \in k .. i - 1 : plan[l].call # "post"
BY DEF Brought, Files

LEMMA IsBefore ==
  ASSUME NEW plan, NEW i, NEW k
  PROVE  k \in Before(plan, i) <=> k \in 1 .. i - 1 /\ plan[k].call = "post"
BY DEF Before

\* Posts are counted in natural numbers.
LEMMA DoneIsNumber ==
  ASSUME NEW plan, NEW i \in Nat
  PROVE  IsFiniteSet(Before(plan, i)) /\ Done(plan, i) \in Nat
<1>1. IsFiniteSet(1 .. i - 1)
  <2>1. 1 \in Int /\ i - 1 \in Int
    OBVIOUS
  <2> QED
    BY <2>1, FS_Interval
<1>2. Before(plan, i) \subseteq 1 .. i - 1
  BY DEF Before
<1> QED
  BY <1>1, <1>2, FS_Subset, FS_CardinalityType DEF Done

\* Two plans one after the other, call by call
LEMMA Joined ==
  ASSUME NEW s \in Seq(Calls), NEW b \in Seq(Calls)
  PROVE  /\ s \o b \in Seq(Calls) /\ Len(s \o b) = Len(s) + Len(b)
         /\ Len(s) \in Nat /\ Len(b) \in Nat
         /\ DOMAIN (s \o b) = 1 .. Len(s) + Len(b) /\ DOMAIN s = 1 .. Len(s) /\ DOMAIN b = 1 .. Len(b)
         /\ \A i \in 1 .. Len(s) : (s \o b)[i] = s[i]
         /\ \A i \in 1 .. Len(b) : (s \o b)[Len(s) + i] = b[i]
         /\ \A i \in Len(s) + 1 .. Len(s) + Len(b) : i - Len(s) \in 1 .. Len(b) /\ (s \o b)[i] = b[i - Len(s)]
OBVIOUS

\* What lies before a call is not changed by what comes after it.
LEMMA PrefixKeeps ==
  ASSUME NEW s \in Seq(Calls), NEW b \in Seq(Calls), NEW i \in 1 .. Len(s) + 1
  PROVE  /\ Clean(s \o b, i) <=> Clean(s, i)
         /\ Before(s \o b, i) = Before(s, i)
         /\ Brought(s \o b, i) = Brought(s, i)
<1> DEFINE c == s \o b
<1>1. \A k \in 1 .. i - 1 : c[k] = s[k]
  BY Joined
<1>2. i \in Nat
  BY Joined
<1> HIDE DEF c
<1>3. Clean(c, i) <=> Clean(s, i)
  BY <1>1 DEF Clean
<1>4. Before(c, i) = Before(s, i)
  BY <1>1 DEF Before
<1>5. ASSUME NEW k \in 1 .. i - 1
      PROVE  (\A l \in k .. i - 1 : c[l].call # "post") <=> (\A l \in k .. i - 1 : s[l].call # "post")
  <2>1. \A l \in k .. i - 1 : c[l] = s[l]
    BY <1>1, <1>2
  <2> QED
    BY <2>1
<1>6. Brought(c, i) = Brought(s, i)
  BY <1>1, <1>5 DEF Brought
<1> QED
  BY <1>3, <1>4, <1>6 DEF c

\* As many files lie before the post of a section in a plan as in the section.
LEMMA FilesShift ==
  ASSUME NEW s \in Seq(Calls), NEW b \in Seq(Calls), NEW q \in DOMAIN b
  PROVE  Cardinality({k \in Len(s) + 1 .. Len(s) + q - 1 : (s \o b)[k].call \in Files})
           = Cardinality(FilesBefore(b, q))
<1> DEFINE A == FilesBefore(b, q)
           shifted == {k \in Len(s) + 1 .. Len(s) + q - 1 : (s \o b)[k].call \in Files}
           f == [i \in A |-> i + Len(s)]
<1>1. \A i \in 1 .. q - 1 : (s \o b)[Len(s) + i] = b[i]
  BY Joined
<1>2. q \in Nat /\ Len(s) \in Nat
  BY Joined
<1>3. \A i \in A : f[i] \in shifted
  BY <1>1, <1>2 DEF FilesBefore
<1>4. \A k \in shifted : k - Len(s) \in A /\ f[k - Len(s)] = k
  <2> SUFFICES ASSUME NEW k \in shifted PROVE k - Len(s) \in A /\ f[k - Len(s)] = k
    OBVIOUS
  <2>1. PICK i \in 1 .. q - 1 : k = Len(s) + i
    BY <1>2
  <2>2. b[i].call \in Files
    BY <1>1, <2>1
  <2> QED
    BY <1>2, <2>1, <2>2 DEF FilesBefore
<1>5. f \in Bijection(A, shifted)
  <2>1. f \in [A -> shifted]
    BY <1>3
  <2>2. \A i, j \in A : i # j => f[i] # f[j]
    BY <1>2 DEF FilesBefore
  <2>3. \A k \in shifted : \E i \in A : f[i] = k
    BY <1>4
  <2> HIDE DEF f, A, shifted
  <2> QED
    BY <2>1, <2>2, <2>3 DEF Bijection, Injection, Surjection, IsInjective
<1>6. IsFiniteSet(A)
  <2>1. IsFiniteSet(1 .. q - 1)
    BY <1>2, FS_Interval
  <2> QED
    BY <2>1, FS_Subset DEF FilesBefore
<1> QED
  BY <1>5, <1>6, FS_Bijection DEF ExistsBijection

\* A section brings its post, behind its files, or an error before it.
LEMMA SectionEnds ==
  ASSUME NEW s \in Seq(Calls), NEW b \in Seq(Calls), NEW q \in DOMAIN b,
         b[q].call = "post",
         \A i \in 1 .. q - 1 : b[i].call # "post",
         \A i \in q + 1 .. Len(b) : b[i].call = "openThread",
         Clean(s \o b, Len(s) + q),
         Brought(s, Len(s) + 1) = {}
  PROVE  /\ Done(s \o b, Len(s) + q) = Done(s, Len(s) + 1)
         /\ Clean(b, q) /\ Carried(s \o b, Len(s) + q) = Cardinality(FilesBefore(b, q))
         /\ Done(s \o b, Len(s \o b) + 1) = Done(s, Len(s) + 1) + 1
         /\ Brought(s \o b, Len(s \o b) + 1) = {}
<1> DEFINE c == s \o b
           L == Len(s)
<1>1. /\ L \in Nat /\ Len(b) \in Nat /\ Len(c) = L + Len(b) /\ q \in 1 .. Len(b)
      /\ \A i \in 1 .. L : c[i] = s[i]
      /\ \A i \in 1 .. Len(b) : c[L + i] = b[i]
      /\ \A i \in L + 1 .. L + Len(b) : i - L \in 1 .. Len(b) /\ c[i] = b[i - L]
  BY Joined
<1>2. c[L + q].call = "post"
  BY <1>1
<1>3. \A i \in L + 1 .. L + q - 1 : c[i].call # "post"
  <2> SUFFICES ASSUME NEW i \in L + 1 .. L + q - 1 PROVE c[i].call # "post"
    OBVIOUS
  <2>1. i - L \in 1 .. q - 1 /\ c[i] = b[i - L]
    BY <1>1
  <2> QED
    BY <2>1
<1>4. \A i \in L + q + 1 .. Len(c) : c[i].call = "openThread"
  <2> SUFFICES ASSUME NEW i \in L + q + 1 .. Len(c) PROVE c[i].call = "openThread"
    OBVIOUS
  <2>1. i - L \in q + 1 .. Len(b) /\ c[i] = b[i - L]
    BY <1>1
  <2> QED
    BY <2>1
<1>5. Clean(b, q)
  <2>1. \A k \in 1 .. L + q - 1 : c[k].call \notin Codes
    BY DEF Clean
  <2>2. ASSUME NEW i \in 1 .. q - 1
        PROVE  b[i].call \notin Codes
    <3>1. PICK k \in 1 .. L + q - 1 : k = L + i
      BY <1>1
    <3>2. i \in 1 .. Len(b)
      BY <1>1
    <3>3. c[k] = b[i]
      BY <1>1, <3>1, <3>2
    <3> HIDE DEF c, L
    <3> QED
      BY <2>1, <3>3
  <2> QED
    BY <2>2 DEF Clean
<1>6. Cardinality({k \in L + 1 .. L + q - 1 : c[k].call \in Files}) = Cardinality(FilesBefore(b, q))
  BY FilesShift
<1>p. PICK p \in Nat : p = L + q /\ L + 1 <= p /\ p <= Len(c)
  BY <1>1
<1> HIDE DEF c, L
<1>r. L \in Nat /\ p \in Nat /\ Len(c) \in Nat /\ L < p /\ p <= Len(c) /\ p - 1 = L + q - 1
  BY <1>1, <1>p
<1>f. Cardinality(FilesBefore(b, q)) = Cardinality({k \in L + 1 .. p - 1 : c[k].call \in Files})
  BY <1>6, <1>r
<1>n. \A i \in L + 1 .. p - 1 : c[i].call # "post"
  BY <1>3, <1>r
<1>o. \A i \in p + 1 .. Len(c) : c[i].call = "openThread"
  BY <1>4, <1>p
<1>s. \A i \in 1 .. L : c[i] = s[i]
  BY <1>1
<1>u. c[p].call = "post"
  BY <1>2, <1>p
<1>7. Before(c, p) = Before(s, L + 1)
  <2>1. \A k : k \in Before(c, p) <=> k \in 1 .. p - 1 /\ c[k].call = "post"
    BY IsBefore
  <2>2. \A k : k \in Before(s, L + 1) <=> k \in 1 .. L /\ s[k].call = "post"
    <3>1. (L + 1) - 1 = L
      BY <1>1
    <3> QED
      BY <3>1, IsBefore
  <2>3. ASSUME NEW k \in 1 .. p - 1
        PROVE  c[k].call = "post" <=> k \in 1 .. L /\ s[k].call = "post"
    <3>1. CASE k \in 1 .. L
      BY <1>1, <3>1
    <3>2. CASE k \in L + 1 .. p - 1
      BY <1>1, <1>n, <3>2
    <3> QED
      BY <1>1, <3>1, <3>2
  <2>4. \A k \in 1 .. L : k \in 1 .. p - 1
    BY <1>1, <1>p
  <2> QED
    BY <2>1, <2>2, <2>3, <2>4
<1>8. Brought(c, p) = {k \in L + 1 .. p - 1 : c[k].call \in Files}
  <2>2. \A k : k \in Brought(c, p) <=>
          k \in 1 .. p - 1 /\ c[k].call \in Files /\ \A l \in k .. p - 1 : c[l].call # "post"
    BY IsBrought
  <2>3. ASSUME NEW k \in 1 .. L, k \in Brought(c, p)
        PROVE  FALSE
    <3>1. c[k] = s[k] /\ s[k].call \in Files
      BY <1>1, <2>2, <2>3
    <3>2. \A l \in k .. L : l \in k .. p - 1 /\ c[l] = s[l]
      <4> SUFFICES ASSUME NEW l \in k .. L PROVE l \in k .. p - 1 /\ c[l] = s[l]
        OBVIOUS
      <4>1. l \in 1 .. L /\ l \in k .. p - 1
        BY <1>1, <1>p
      <4> QED
        BY <1>1, <4>1
    <3>3. \A l \in k .. L : s[l].call # "post"
      BY <2>2, <2>3, <3>2
    <3>4. k \in 1 .. (L + 1) - 1 /\ (L + 1) - 1 = L
      BY <1>1
    <3>5. k \in Brought(s, L + 1)
      BY <3>1, <3>3, <3>4, IsBrought
    <3> QED
      BY <3>5 DEF L
  <2>4. ASSUME NEW k \in L + 1 .. p - 1, c[k].call \in Files
        PROVE  k \in Brought(c, p)
    <3>1. k \in 1 .. p - 1 /\ \A l \in k .. p - 1 : c[l].call # "post"
      BY <1>1, <1>n, <1>p
    <3> QED
      BY <2>2, <2>4, <3>1
  <2>5. ASSUME NEW k \in Brought(c, p)
        PROVE  k \in L + 1 .. p - 1 /\ c[k].call \in Files
    <3>1. k \in 1 .. p - 1 /\ c[k].call \in Files
      BY <2>2
    <3>2. k \notin 1 .. L
      BY <2>3
    <3> QED
      BY <1>1, <1>p, <3>1, <3>2
  <2> QED
    BY <2>4, <2>5
<1>9. Before(c, Len(c) + 1) = Before(s, L + 1) \cup {p}
  <2>1. \A k \in 1 .. Len(c) : c[k].call = "post" <=> (k \in 1 .. L /\ s[k].call = "post") \/ k = p
    <3> SUFFICES ASSUME NEW k \in 1 .. Len(c)
                 PROVE  c[k].call = "post" <=> (k \in 1 .. L /\ s[k].call = "post") \/ k = p
      OBVIOUS
    <3>1. CASE k \in 1 .. L
      <4>1. k # p /\ c[k] = s[k]
        BY <1>r, <1>s, <3>1
      <4> QED
        BY <3>1, <4>1
    <3>2. CASE k \in L + 1 .. p - 1
      BY <1>r, <1>n, <3>2
    <3>3. CASE k = p
      BY <1>r, <1>u, <3>3
    <3>4. CASE k \in p + 1 .. Len(c)
      <4>1. c[k].call = "openThread"
        BY <1>o, <3>4
      <4>2. k \notin 1 .. L /\ k # p
        BY <1>r, <3>4
      <4> QED
        BY <4>1, <4>2
    <3> QED
      BY <1>r, <3>1, <3>2, <3>3, <3>4
  <2>2. \A k : k \in Before(c, Len(c) + 1) <=> k \in 1 .. Len(c) /\ c[k].call = "post"
    <3>1. (Len(c) + 1) - 1 = Len(c)
      BY <1>1
    <3> QED
      BY <3>1, IsBefore
  <2>3. \A k : k \in Before(s, L + 1) <=> k \in 1 .. L /\ s[k].call = "post"
    <3>1. (L + 1) - 1 = L
      BY <1>1
    <3> QED
      BY <3>1, IsBefore
  <2>4. p \in 1 .. Len(c) /\ \A k \in 1 .. L : k \in 1 .. Len(c)
    BY <1>1, <1>p
  <2> QED
    BY <2>1, <2>2, <2>3, <2>4
<1>10. Brought(c, Len(c) + 1) = {}
  <2> SUFFICES ASSUME NEW k \in Brought(c, Len(c) + 1) PROVE FALSE
    OBVIOUS
  <2>1. k \in 1 .. Len(c) /\ c[k].call \in Files /\ \A l \in k .. Len(c) : c[l].call # "post"
    <3>1. Len(c) + 1 - 1 = Len(c)
      BY <1>1
    <3> QED
      BY <3>1, IsBrought
  <2>2. k > p
    BY <1>1, <1>2, <1>p, <2>1
  <2>3. k \in p + 1 .. Len(c)
    BY <1>1, <1>p, <2>1, <2>2
  <2>4. c[k].call = "openThread"
    BY <1>4, <1>p, <2>3
  <2> QED
    BY <2>1, <2>4 DEF Files
<1>11. p \notin Before(s, L + 1)
  BY <1>1, <1>p DEF Before
<1>12. IsFiniteSet(Before(c, Len(c) + 1)) /\ Cardinality(Before(c, Len(c) + 1)) = Cardinality(Before(s, L + 1)) + 1
  <2>1. IsFiniteSet(Before(s, L + 1))
    BY <1>1, DoneIsNumber
  <2> QED
    BY <1>9, <1>11, <2>1, FS_AddElement
<1>13. /\ Done(c, p) = Done(s, L + 1) /\ Carried(c, p) = Cardinality(FilesBefore(b, q))
       /\ Done(c, Len(c) + 1) = Done(s, L + 1) + 1
  BY <1>f, <1>7, <1>8, <1>12 DEF Done, Carried
<1> QED
  BY <1>p, <1>5, <1>10, <1>13 DEF c, L

\* The next section of a plan that has come through n posts
LEMMA NextSection ==
  ASSUME NEW n \in Nat, NEW media, NEW s, Through(s, n, media),
         NEW b, Section(b, n + 1, media[n + 1]),
         Rejects(b) => Silent(s) \/ ~Clean(s, Len(s) + 1)
  PROVE  Through(s \o b, n + 1, media)
<1> DEFINE c == s \o b
           L == Len(s)
<1>1. s \in Seq(Calls) /\ b \in Seq(Calls) /\ Allowed(s) /\ Allowed(b)
  BY DEF Through, Section
<1>2. /\ c \in Seq(Calls) /\ L \in Nat /\ Len(b) \in Nat /\ Len(c) = L + Len(b)
      /\ DOMAIN c = 1 .. L + Len(b) /\ DOMAIN s = 1 .. L /\ DOMAIN b = 1 .. Len(b)
      /\ \A i \in 1 .. L : c[i] = s[i]
      /\ \A i \in 1 .. Len(b) : c[L + i] = b[i]
      /\ \A i \in L + 1 .. L + Len(b) : i - L \in 1 .. Len(b) /\ c[i] = b[i - L]
  BY <1>1, Joined
<1>3. \A i \in 1 .. L + 1 : /\ Clean(c, i) <=> Clean(s, i)
                            /\ Before(c, i) = Before(s, i) /\ Brought(c, i) = Brought(s, i)
  BY <1>1, PrefixKeeps
<1>4. \A i \in DOMAIN c : i \in 1 .. L \/ (i - L \in 1 .. Len(b) /\ i > L /\ c[i] = b[i - L])
  BY <1>2
<1>5. Allowed(c)
  BY <1>1, <1>2, <1>4 DEF Allowed
<1>6. ASSUME NEW i \in L + 1 .. Len(c) + 1, Clean(c, i)
      PROVE  Clean(s, L + 1) /\ Clean(b, i - L)
  <2>1. \A k \in 1 .. L : k \in 1 .. i - 1 /\ c[k] = s[k]
    BY <1>2
  <2>2. \A k \in 1 .. (i - L) - 1 : L + k \in 1 .. i - 1 /\ c[L + k] = b[k]
    BY <1>2
  <2>3. (L + 1) - 1 = L
    BY <1>2
  <2> QED
    BY <1>6, <2>1, <2>2, <2>3 DEF Clean
<1> HIDE DEF c, L
\* Where the errors are
<1>7. ASSUME NEW i \in DOMAIN c, NEW k \in DOMAIN c,
             c[k].call \in Codes \ {"plain"}, Clean(c, k), i < k, c[i].call = "post"
      PROVE  FALSE
  <2>1. CASE k \in 1 .. L
    <3>1. i \in DOMAIN s /\ k \in DOMAIN s /\ c[k] = s[k] /\ c[i] = s[i] /\ Clean(s, k)
      BY <1>2, <1>3, <1>7, <2>1
    <3>2. s[k].call \in Codes \ {"plain"} /\ s[i].call = "post"
      BY <1>7, <3>1
    <3> QED
      BY <1>7, <3>1, <3>2 DEF Through
  <2>2. CASE k > L
    <3>1. k - L \in 1 .. Len(b) /\ c[k] = b[k - L] /\ k \in L + 1 .. Len(c) + 1
      BY <1>2, <2>2
    <3>2. Clean(s, L + 1)
      BY <1>6, <1>7, <3>1
    <3>3. Rejects(b)
      BY <1>2, <1>7, <3>1 DEF Rejects
    <3>4. Silent(s)
      BY <3>2, <3>3 DEF L
    <3>5. i > L /\ i - L \in 1 .. Len(b) /\ b[i - L].call = "post" /\ i - L < k - L
      BY <1>2, <1>4, <1>7, <3>4 DEF Silent
    <3>6. PICK q \in DOMAIN b : /\ \A j \in 1 .. q - 1 : b[j].call # "post"
                                /\ \A j \in q + 1 .. Len(b) : b[j].call = "openThread"
      BY <1>2, <3>5 DEF Section, Refusing, Posting
    <3>7. k - L \in q + 1 .. Len(b)
      <4>1. i - L \notin 1 .. q - 1
        BY <3>5, <3>6
      <4> QED
        BY <1>2, <3>1, <3>5, <4>1
    <3>8. c[k].call = "openThread"
      BY <3>1, <3>6, <3>7
    <3> QED
      BY <1>7, <3>8 DEF Codes
  <2> QED
    BY <1>2, <2>1, <2>2
\* Where the posts are
<1>8. ASSUME NEW i \in 1 .. L, c[i].call = "post", Clean(c, i)
      PROVE  /\ Done(c, i) < n + 1 /\ c[i].item = Done(c, i) + 1
             /\ media[c[i].item] = Carried(c, i)
  <2>1. s[i] = c[i] /\ Clean(s, i) /\ Done(c, i) = Done(s, i) /\ Carried(c, i) = Carried(s, i)
    BY <1>2, <1>3, <1>8 DEF Done, Carried
  <2>2. Done(s, i) < n /\ s[i].item = Done(s, i) + 1 /\ media[s[i].item] = Carried(s, i)
    BY <1>2, <1>8, <2>1 DEF Through
  <2>3. Done(s, i) \in Nat
    BY <1>2, DoneIsNumber
  <2> QED
    BY <2>1, <2>2, <2>3
<1>9. ASSUME Clean(s, L + 1)
      PROVE  Done(s, L + 1) = n /\ Brought(s, L + 1) = {}
  BY <1>9 DEF Through, L
<1>p. ASSUME NEW q \in DOMAIN b, b[q].call = "post",
             \A j \in 1 .. q - 1 : b[j].call # "post",
             \A j \in q + 1 .. Len(b) : b[j].call = "openThread",
             Clean(c, L + q), Clean(s, L + 1)
      PROVE  /\ Done(c, L + q) = n /\ Carried(c, L + q) = Cardinality(FilesBefore(b, q)) /\ Clean(b, q)
             /\ Done(c, Len(c) + 1) = n + 1 /\ Brought(c, Len(c) + 1) = {}
  <2>1. Brought(s, L + 1) = {} /\ Done(s, L + 1) = n
    BY <1>9, <1>p
  <2> QED
    BY <1>1, <1>p, <2>1, SectionEnds DEF c, L
<1>10. ASSUME NEW i \in L + 1 .. L + Len(b), c[i].call = "post", Clean(c, i)
       PROVE  /\ Done(c, i) < n + 1 /\ c[i].item = Done(c, i) + 1
              /\ media[c[i].item] = Carried(c, i)
  <2>1. i - L \in DOMAIN b /\ b[i - L].call = "post" /\ c[i] = b[i - L] /\ i = L + (i - L)
    BY <1>2, <1>10
  <2>2. PICK q \in DOMAIN b : /\ b[q] = Do("post", n + 1)
                              /\ \A j \in 1 .. q - 1 : b[j].call # "post"
                              /\ \A j \in q + 1 .. Len(b) : b[j].call = "openThread"
                              /\ Clean(b, q) => Cardinality(FilesBefore(b, q)) = media[n + 1]
    BY <2>1 DEF Section, Refusing, Posting
  <2>3. i - L = q
    <3>1. i - L \notin 1 .. q - 1 /\ i - L \notin q + 1 .. Len(b)
      BY <2>1, <2>2
    <3> QED
      BY <1>2, <2>1, <3>1
  <2>4. i = L + q /\ Clean(s, L + 1)
    BY <1>2, <1>6, <1>10, <2>1, <2>3
  <2>5. Done(c, L + q) = n /\ Carried(c, L + q) = media[n + 1]
    <3>1. Clean(c, L + q) /\ b[q].call = "post"
      BY <1>10, <2>2, <2>4 DEF Do
    <3> QED
      BY <1>p, <2>2, <2>4, <3>1
  <2>6. c[i].item = n + 1
    BY <2>1, <2>2, <2>3 DEF Do
  <2> QED
    BY <2>4, <2>5, <2>6
<1>11. ASSUME Clean(c, Len(c) + 1)
       PROVE  /\ Done(c, Len(c) + 1) = n + 1
              /\ Brought(c, Len(c) + 1) = {}
  <2>1. Clean(s, L + 1) /\ Clean(b, Len(c) + 1 - L) /\ Len(c) + 1 - L = Len(b) + 1
    BY <1>2, <1>6, <1>11
  <2>2. ~Refusing(b)
    BY <1>2, <2>1 DEF Refusing, Clean
  <2>3. PICK q \in DOMAIN b : /\ b[q] = Do("post", n + 1)
                              /\ \A j \in 1 .. q - 1 : b[j].call # "post"
                              /\ \A j \in q + 1 .. Len(b) : b[j].call = "openThread"
                              /\ Clean(b, q) => Cardinality(FilesBefore(b, q)) = media[n + 1]
    BY <2>2 DEF Section, Posting
  <2>4. Clean(c, L + q)
    BY <1>2, <1>11 DEF Clean
  <2>5. b[q].call = "post"
    BY <2>3 DEF Do
  <2> QED
    BY <1>p, <2>1, <2>3, <2>4, <2>5
\* The first section
<1>12. ASSUME n + 1 = 1, NEW i \in DOMAIN c, NEW k \in DOMAIN c, c[i].call = "post", i < k
       PROVE  c[k].call = "openThread"
  <2>1. Silent(s)
    BY <1>12 DEF Through
  <2>2. i > L /\ i - L \in 1 .. Len(b) /\ b[i - L].call = "post"
    BY <1>2, <1>4, <1>12, <2>1 DEF Silent
  <2>3. PICK q \in DOMAIN b : /\ \A j \in 1 .. q - 1 : b[j].call # "post"
                              /\ \A j \in q + 1 .. Len(b) : b[j].call = "openThread"
    BY <1>2, <2>2 DEF Section, Refusing, Posting
  <2>4. k - L \in q + 1 .. Len(b) /\ c[k] = b[k - L]
    BY <1>2, <1>12, <2>2, <2>3
  <2> QED
    BY <2>3, <2>4
<1>13. \A i \in DOMAIN c : i \in 1 .. L \/ i \in L + 1 .. L + Len(b)
  BY <1>2
<1>14. \A i \in DOMAIN c :
         c[i].call = "post" /\ Clean(c, i) =>
           /\ Done(c, i) < n + 1 /\ c[i].item = Done(c, i) + 1
           /\ media[c[i].item] = Carried(c, i)
  BY <1>8, <1>10, <1>13
<1>15. n + 1 # 0
  OBVIOUS
<1>16. Through(c, n + 1, media)
  BY <1>2, <1>5, <1>7, <1>11, <1>12, <1>14, <1>15 DEF Through
<1> QED
  BY <1>16 DEF c

\* An error in a part is an error in the whole.
LEMMA SpoiltStays ==
  ASSUME NEW s \in Seq(Calls), NEW b \in Seq(Calls), Spoilt(s) \/ Spoilt(b)
  PROVE  Spoilt(s \o b)
<1> DEFINE c == s \o b
           L == Len(s)
<1>1. /\ L \in Nat /\ Len(b) \in Nat /\ Len(c) = L + Len(b)
      /\ \A i \in 1 .. L : c[i] = s[i]
      /\ \A i \in 1 .. Len(b) : c[L + i] = b[i]
  BY Joined
<1>2. (L + 1) - 1 = L /\ (Len(b) + 1) - 1 = Len(b) /\ (Len(c) + 1) - 1 = Len(c)
  BY <1>1
<1> HIDE DEF c, L
<1>3. CASE Spoilt(s)
  <2>1. PICK k \in 1 .. L : s[k].call \in Codes
    BY <1>2, <1>3 DEF Spoilt, Clean, L
  <2>2. k \in 1 .. Len(c) /\ c[k] = s[k]
    BY <1>1
  <2> QED
    BY <1>2, <2>1, <2>2 DEF Spoilt, Clean, c
<1>4. CASE Spoilt(b)
  <2>1. PICK k \in 1 .. Len(b) : b[k].call \in Codes
    BY <1>2, <1>4 DEF Spoilt, Clean
  <2>2. PICK j \in 1 .. Len(c) : j = L + k
    BY <1>1
  <2>3. c[j] = b[k]
    BY <1>1, <2>2
  <2> QED
    BY <1>2, <2>1, <2>3 DEF Spoilt, Clean, c
<1> QED
  BY <1>3, <1>4

(***************************************************************************)
(* A plan of sections, one for each post, behind a harmless beginning      *)
(***************************************************************************)
LEMMA SectionsThrough ==
  ASSUME NEW N \in Nat \ {0}, NEW media, NEW blocks, Len(blocks) = N,
         NEW pre \in Seq(Calls), \A i \in DOMAIN pre : pre[i].call = "thread",
         \A n \in 1 .. N : Section(blocks[n], n, media[n]),
         \A n \in 2 .. N : Rejects(blocks[n]) => Spoilt(blocks[1])
  PROVE  FlattenSeq(blocks) \in Seq(Calls) /\ Through(pre \o FlattenSeq(blocks), N, media)
<1> DEFINE Good == [n \in 1 .. N |->
                      {s \in Seq(Calls) : /\ Through(pre \o s, n, media)
                                          /\ Spoilt(blocks[1]) => Spoilt(pre \o s)}]
<1>1. \A n \in 1 .. N : blocks[n] \in Seq(Calls)
  BY DEF Section
<1>2. Through(pre, 0, media)
  <2>1. Len(pre) \in Nat /\ DOMAIN pre = 1 .. Len(pre) /\ (Len(pre) + 1) - 1 = Len(pre)
    OBVIOUS
  <2>2. Allowed(pre) /\ Silent(pre)
    BY DEF Allowed, Silent, Files
  <2>3. \A i \in DOMAIN pre : pre[i].call \notin Codes /\ pre[i].call # "post" /\ pre[i].call \notin Files
    BY DEF Codes, Files
  <2>4. Before(pre, Len(pre) + 1) = {}
    BY <2>1, <2>3, IsBefore
  <2>5. Brought(pre, Len(pre) + 1) = {}
    BY <2>1, <2>3, IsBrought
  <2>6. Done(pre, Len(pre) + 1) = 0
    BY <2>4, FS_EmptySet DEF Done
  <2> QED
    BY <2>2, <2>3, <2>5, <2>6 DEF Through
<1>3. blocks[1] \in Good[1]
  <2>1. 1 \in 1 .. N /\ 0 + 1 = 1
    OBVIOUS
  <2>2. Section(blocks[1], 0 + 1, media[0 + 1]) /\ Silent(pre)
    BY <1>2, <2>1 DEF Through
  <2>3. Through(pre \o blocks[1], 0 + 1, media)
    BY <1>2, <2>2, NextSection
  <2>4. Spoilt(blocks[1]) => Spoilt(pre \o blocks[1])
    BY <1>1, <2>1, SpoiltStays
  <2> QED
    BY <1>1, <2>1, <2>3, <2>4
<1>4. ASSUME NEW n \in 1 .. N - 1, NEW s \in Good[n]
      PROVE  s \o blocks[n + 1] \in Good[n + 1]
  <2> DEFINE t == pre \o s
             b == blocks[n + 1]
  <2>1. n \in Nat /\ n \in 1 .. N /\ n + 1 \in 1 .. N /\ n + 1 \in 2 .. N
    OBVIOUS
  <2>2. s \in Seq(Calls) /\ Through(t, n, media) /\ (Spoilt(blocks[1]) => Spoilt(t))
    BY <2>1
  <2>3. Section(b, n + 1, media[n + 1]) /\ (Rejects(b) => Spoilt(blocks[1])) /\ b \in Seq(Calls)
    BY <1>1, <2>1
  <2>4. t \in Seq(Calls) /\ t \o b = pre \o (s \o b) /\ s \o b \in Seq(Calls)
    <3> HIDE DEF b
    <3>1. t \o b = pre \o (s \o b)
      BY <2>2, <2>3, ConcatAssociative
    <3> QED
      BY <2>2, <2>3, <3>1
  <2> HIDE DEF t, b
  <2>5. Rejects(b) => ~Clean(t, Len(t) + 1)
    BY <2>2, <2>3 DEF Spoilt
  <2>6. Through(t \o b, n + 1, media)
    BY <2>1, <2>2, <2>3, <2>5, NextSection
  <2>7. Spoilt(blocks[1]) => Spoilt(t \o b)
    BY <2>2, <2>3, <2>4, SpoiltStays
  <2> QED
    BY <2>1, <2>4, <2>6, <2>7 DEF b
<1> HIDE DEF Good
<1>5. FlattenSeq(blocks) \in Good[N]
  BY <1>3, <1>4, FlattenInduction
<1> QED
  BY <1>5 DEF Good

-------------------------------------------------------------------------------
(* The sections there are, and what keeps the contract *)

\* A section of h handles, m files and a post
LEMMA SectionWithPost ==
  ASSUME NEW plan \in Seq(Calls), NEW n \in Nat, NEW h \in Nat, NEW m \in Nat, h + m + 1 <= Len(plan),
         \A i \in 1 .. h : plan[i] = Try("resolve", n),
         \A i \in h + 1 .. h + m : plan[i].call \in Files \cup {"plain"} /\ plan[i].caught = FALSE,
         plan[h + m + 1] = Do("post", n),
         \A i \in h + m + 2 .. Len(plan) : plan[i] = Do("openThread", n)
  PROVE  Section(plan, n, m) /\ ~Rejects(plan)
<1>1. PICK q \in 1 .. Len(plan) : q = h + m + 1
  OBVIOUS
<1>2. DOMAIN plan = 1 .. Len(plan) /\ Len(plan) \in Nat
  OBVIOUS
<1>3. \A i \in DOMAIN plan : i \in 1 .. h \/ i \in h + 1 .. h + m \/ i = q \/ i \in h + m + 2 .. Len(plan)
  BY <1>1, <1>2
<1>4. \A i \in DOMAIN plan :
        \/ plan[i].call = "resolve"
        \/ plan[i].call \in Files \cup {"plain"} /\ plan[i].caught = FALSE
        \/ plan[i].call = "post" /\ plan[i].caught = FALSE
        \/ plan[i].call = "openThread"
  BY <1>1, <1>3 DEF Try, Do
<1>5. Allowed(plan) /\ ~Rejects(plan)
  BY <1>4 DEF Allowed, Rejects, Files, Codes
<1>6. \A i \in 1 .. q - 1 : plan[i].call # "post"
  <2> SUFFICES ASSUME NEW i \in 1 .. q - 1 PROVE plan[i].call # "post"
    OBVIOUS
  <2>1. i \in 1 .. h \/ i \in h + 1 .. h + m
    BY <1>1
  <2>2. CASE i \in 1 .. h
    <3>1. plan[i] = Try("resolve", n)
      BY <2>2
    <3> QED
      BY <3>1 DEF Try
  <2>3. CASE i \in h + 1 .. h + m
    <3>1. plan[i].call \in Files \cup {"plain"}
      BY <2>3
    <3> QED
      BY <3>1 DEF Files
  <2> QED
    BY <2>1, <2>2, <2>3
<1>7. \A i \in q + 1 .. Len(plan) : plan[i].call = "openThread"
  <2> SUFFICES ASSUME NEW i \in q + 1 .. Len(plan) PROVE plan[i].call = "openThread"
    OBVIOUS
  <2>1. i \in h + m + 2 .. Len(plan)
    BY <1>1
  <2> QED
    BY <2>1 DEF Do
<1>8. ASSUME Clean(plan, q)
      PROVE  Cardinality(FilesBefore(plan, q)) = m
  <2>1. ASSUME NEW i \in 1 .. q - 1
        PROVE  plan[i].call \in Files <=> i \in h + 1 .. h + m
    <3>1. i \in 1 .. h \/ i \in h + 1 .. h + m
      BY <1>1
    <3>2. CASE i \in 1 .. h
      <4>1. plan[i].call = "resolve" /\ i \notin h + 1 .. h + m
        BY <3>2 DEF Try
      <4> QED
        BY <4>1 DEF Files
    <3>3. CASE i \in h + 1 .. h + m
      <4>1. plan[i].call \notin Codes
        BY <1>8 DEF Clean
      <4> QED
        BY <3>3, <4>1 DEF Codes
    <3> QED
      BY <3>1, <3>2, <3>3
  <2>2. \A i \in h + 1 .. h + m : i \in 1 .. q - 1
    BY <1>1
  <2>3. FilesBefore(plan, q) = h + 1 .. h + m
    BY <2>1, <2>2 DEF FilesBefore
  <2>4. Cardinality(h + 1 .. h + m) = m
    <3>1. h + 1 \in Int /\ h + m \in Int
      OBVIOUS
    <3>2. Cardinality((h + 1) .. (h + m)) = IF h + 1 > h + m THEN 0 ELSE (h + m) - (h + 1) + 1
      BY <3>1, FS_Interval
    <3> QED
      BY <3>2
  <2> QED
    BY <2>3, <2>4
<1>9. Posting(plan, n, m)
  BY <1>1, <1>2, <1>6, <1>7, <1>8 DEF Posting
<1> QED
  BY <1>5, <1>9 DEF Section

\* A section of m files and an error
LEMMA SectionRefused ==
  ASSUME NEW plan \in Seq(Calls), NEW n \in Nat, NEW m \in Nat, Len(plan) \in Nat \ {0},
         \A i \in 1 .. Len(plan) : plan[i].call \in Files \cup {"plain", "validation_failed"} /\ plan[i].caught = FALSE,
         plan[Len(plan)].call = "validation_failed"
  PROVE  Section(plan, n, m) /\ Spoilt(plan)
<1>1. DOMAIN plan = 1 .. Len(plan) /\ Len(plan) \in DOMAIN plan
  OBVIOUS
<1>2. Allowed(plan)
  BY <1>1 DEF Allowed
<1>3. Refusing(plan) /\ Spoilt(plan)
  <2>1. (Len(plan) + 1) - 1 = Len(plan)
    OBVIOUS
  <2> QED
    BY <1>1, <2>1 DEF Refusing, Files, Codes, Spoilt, Clean
<1> QED
  BY <1>2, <1>3 DEF Section

(***************************************************************************)
(* A job to publish a thread with such a plan keeps the contract.          *)
(***************************************************************************)
LEMMA ThreadKeepsContract ==
  ASSUME NEW work, work.operation = "publish", work.addressed = FALSE,
         NEW N \in Nat \ {0}, Len(work.media) = N, Through(work.plan, N, work.media)
  PROVE  Sound(work)
<1> DEFINE plan == work.plan
<1>1. plan \in Seq(Calls) /\ DOMAIN plan = 1 .. Len(plan) /\ Len(plan) \in Nat /\ Allowed(plan)
  BY DEF Through
<1>2. \A i : Reached(work, i) <=> Clean(plan, i)
  BY DEF Reached, Clean
<1>3. \A i \in DOMAIN plan : plan[i].call \notin Changes \ {"post"} /\ plan[i].call \notin Retryable
  BY <1>1 DEF Allowed, Changes, Files, Retryable
<1>4. RefusesFirst(work)
  BY <1>2, <1>3 DEF RefusesFirst, Through
<1>5. RefusesForGood(work)
  BY <1>3 DEF RefusesForGood
<1>6. PostsInOrder(work)
  BY <1>1, <1>2 DEF PostsInOrder, Through, Allowed, Files
<1>7. MakesItsChange(work)
  <2>1. ASSUME Reached(work, Len(plan) + 1)
        PROVE  \E i \in DOMAIN plan : plan[i].call = "post"
    <3>1. Done(plan, Len(plan) + 1) = N
      BY <1>2, <2>1 DEF Through
    <3>2. Before(plan, Len(plan) + 1) # {}
      BY <3>1, FS_EmptySet DEF Done
    <3>3. (Len(plan) + 1) - 1 = Len(plan)
      BY <1>1
    <3> QED
      BY <1>1, <3>2, <3>3 DEF Before
  <2>2. \A i \in DOMAIN plan : plan[i].call = "post" => ~plan[i].caught
    BY <1>1 DEF Allowed
  <2> QED
    BY <2>1, <2>2 DEF MakesItsChange, Changes
<1>8. PostsLast(work)
  <2> SUFFICES ASSUME Single(work), NEW i \in DOMAIN plan, plan[i].call = "post", i # Len(plan)
               PROVE  FALSE
    BY DEF PostsLast
  <2>1. N = 1 /\ Len(plan) \in DOMAIN plan /\ i < Len(plan)
    BY <1>1 DEF Single
  <2>2. plan[Len(plan)].call = "openThread"
    BY <2>1 DEF Through
  <2> QED
    BY <2>1, <2>2 DEF Single
<1>9. \A i \in DOMAIN plan : plan[i].call \in Codes \cup {"read"} \cup Requests
  BY <1>1 DEF Allowed, Files, Codes, Requests
<1> QED
  BY <1>4, <1>5, <1>6, <1>7, <1>8, <1>9 DEF KeepsContract, Sound

\* So does one that throws an error for good and does nothing else.
LEMMA RefusalKeepsContract ==
  ASSUME NEW work, NEW code \in Codes \ Retryable, work.plan = <<Throw(code)>>,
         work.operation = "publish" => work.addressed = FALSE,
         \/ work.operation # "collect_analytics"
         \/ work.media = <<>> /\ code # "plain"
  PROVE  Sound(work)
<1> DEFINE plan == work.plan
<1>1. DOMAIN plan = {1} /\ Len(plan) = 1 /\ plan[1].call = code
  BY DEF Throw, Do
<1>2. code \notin Changes \cup {"read", "upload", "post", "remove"}
  BY DEF Codes, Changes
<1>3. ~Reached(work, Len(plan) + 1)
  BY <1>1 DEF Reached
<1>4. RefusesFirst(work) /\ RefusesForGood(work) /\ PostsInOrder(work)
  <2>1. RefusesFirst(work)
    BY <1>1 DEF RefusesFirst
  <2>2. RefusesForGood(work)
    <3>1. work.operation = "collect_analytics" => code # "plain"
      OBVIOUS
    <3> QED
      BY <1>1, <3>1 DEF RefusesForGood
  <2>3. PostsInOrder(work)
    BY <1>1, <1>2, <1>3 DEF PostsInOrder
  <2> QED
    BY <2>1, <2>2, <2>3
<1>5. MakesItsChange(work)
  BY <1>1, <1>2, <1>3 DEF MakesItsChange
<1>6. PostsLast(work)
  <2>1. work.media = <<>> => Len(work.media) = 0
    OBVIOUS
  <2> QED
    BY <1>1, <1>2, <2>1 DEF PostsLast, Single
<1> QED
  BY <1>1, <1>4, <1>5, <1>6 DEF KeepsContract, Sound

\* So does one that changes something other than a post, or collects, and whose errors
\* are those of the media alone.
LEMMA ChangeKeepsContract ==
  ASSUME NEW work, work.media = <<>>, NEW call \in Requests,
         \A i \in DOMAIN work.plan :
           work.plan[i].call \in {"plain"} \cup (Requests \ {"post"}),
         \/ /\ work.operation = "collect_analytics"
            /\ \A i \in DOMAIN work.plan : work.plan[i].call # "plain"
         \/ /\ work.operation # "collect_analytics"
            /\ call \in IF work.operation = "delete" THEN {"remove"} ELSE Changes
            /\ \E i \in DOMAIN work.plan : work.plan[i].call = call /\ ~work.plan[i].caught
  PROVE  Sound(work)
<1> DEFINE plan == work.plan
<1>1. \A i \in DOMAIN plan : plan[i].call \notin (Codes \ {"plain"}) \cup Retryable \cup {"post", "not_supported"}
  BY DEF Requests, Codes, Retryable
<1>2. RefusesFirst(work)
  BY <1>1 DEF RefusesFirst
<1>3. RefusesForGood(work)
  BY <1>1 DEF RefusesForGood
<1>4. PostsInOrder(work)
  BY DEF PostsInOrder
<1>5. MakesItsChange(work)
  BY <1>1 DEF MakesItsChange
<1>6. PostsLast(work)
  <2>1. Len(work.media) = 0
    OBVIOUS
  <2> QED
    BY <2>1 DEF PostsLast, Single
<1>7. \A i \in DOMAIN plan : plan[i].call \in Codes \cup {"read"} \cup Requests
  BY DEF Codes
<1> QED
  BY <1>2, <1>3, <1>4, <1>5, <1>6, <1>7 DEF KeepsContract, Sound

-------------------------------------------------------------------------------
(* The connectors *)

\* The posts of a thread: the first is the one it hangs on.
LEMMA ItemsOfPost ==
  ASSUME NEW p, IsPost(p)
  PROVE  /\ Len(Items(p)) \in Nat \ {0} /\ DOMAIN Items(p) = 1 .. Len(Items(p))
         /\ Items(p)[1] = p
         /\ \A n \in DOMAIN Items(p) : \E below : Items(p)[n] \in PostsWith(below)
<1>1. PICK below : p \in PostsWith(Seq(PostsWith(below)))
  BY DEF IsPost
<1>2. p.thread \in Seq(PostsWith(below))
  BY <1>1 DEF PostsWith
<1> DEFINE its == Items(p)
<1>3. /\ Len(its) \in Nat \ {0} /\ DOMAIN its = 1 .. Len(its) /\ its[1] = p
      /\ \A n \in DOMAIN its : its[n] = p \/ its[n] \in PostsWith(below)
  <2> DEFINE S == PostsWith(below)
  <2>1. p.thread \in Seq(S)
    BY <1>2
  <2> HIDE DEF S
  <2>2. /\ Len(its) = 1 + Len(p.thread) /\ DOMAIN its = 1 .. Len(its) /\ its[1] = p
        /\ Len(p.thread) \in Nat
        /\ \A n \in 2 .. Len(its) : its[n] = (p.thread)[n - 1]
    BY <2>1 DEF Items
  <2>3. \A n \in 2 .. Len(its) : its[n] \in S
    <3> HIDE DEF its
    <3> SUFFICES ASSUME NEW n \in 2 .. Len(its) PROVE its[n] \in S
      OBVIOUS
    <3>1. n - 1 \in 1 .. Len(p.thread)
      BY <2>2
    <3>2. (p.thread)[n - 1] \in S
      BY <2>1, <3>1
    <3> QED
      BY <2>2, <3>2
  <2> HIDE DEF its
  <2> QED
    BY <2>2, <2>3 DEF S
<1> QED
  BY <1>1, <1>3

\* Each of them has its media, its mentions and its options.
LEMMA PartOfPost ==
  ASSUME NEW p, IsPost(p), NEW n \in DOMAIN Items(p)
  PROVE  /\ Len(Items(p)[n].media) \in Nat /\ DOMAIN Items(p)[n].media = 1 .. Len(Items(p)[n].media)
         /\ Len(Items(p)[n].mentions) \in Nat /\ DOMAIN Items(p)[n].mentions = 1 .. Len(Items(p)[n].mentions)
         /\ \A i \in DOMAIN Items(p)[n].media : Items(p)[n].media[i].readable \in BOOLEAN
         /\ Items(p)[n].options \in SUBSET STRING
         /\ {"text", "urls", "title", "media", "options"} \subseteq DOMAIN Items(p)[n]
<1> DEFINE item == Items(p)[n]
<1>1. PICK below : item \in PostsWith(below)
  BY ItemsOfPost
<1> HIDE DEF item
<1>2. item.media \in Seq(Attachments) /\ item.mentions \in Seq(Nat) /\ item.options \in SUBSET STRING
  BY <1>1 DEF PostsWith
<1>3. {"text", "urls", "title", "media", "options"} \subseteq DOMAIN item
  BY <1>1 DEF PostsWith
<1>4. \A f \in Attachments : f.readable \in BOOLEAN
  BY DEF Attachments
<1> HIDE DEF Attachments
<1> QED
  BY <1>2, <1>3, <1>4 DEF item

\* What a connector takes from the community modules is the same there and here.
LEMMA MastodonFlattens ==
  ASSUME NEW seqs
  PROVE  M!FlattenSeq(seqs) = FlattenSeq(seqs)
BY DEF M!FlattenSeq, FlattenSeq

\* Mastodon and Bluesky upload the media one by one; Discord reads them.
LEMMA MastodonUpload ==
  ASSUME NEW p, IsPost(p), NEW n \in DOMAIN Items(p)
  PROVE  M!Upload(p, n) = Bringing("upload", Items(p)[n], n)
<1> DEFINE media == Items(p)[n].media
           c == [i \in 1 .. Len(media) |-> IF media[i].readable THEN Do("upload", n) ELSE Throw("plain")]
           S == {Do("upload", n), Throw("plain")}
           seqs == [i \in 1 .. Len(media) |-> IF media[i].readable THEN <<Do("upload", n)>> ELSE <<Throw("plain")>>]
<1>1. Len(media) \in Nat /\ n \in Nat /\ DOMAIN media = 1 .. Len(media)
  BY PartOfPost, ItemsOfPost
<1>2. M!Upload(p, n) = M!FlattenSeq(seqs)
  BY DEF M!Upload, M!Each, M!Do, M!Throw, Do, Throw, M!Items, Items
<1>3. M!Upload(p, n) = FlattenSeq(seqs)
  BY <1>2, MastodonFlattens
<1>4. c \in [1 .. Len(media) -> S]
  OBVIOUS
<1>5. seqs = [i \in 1 .. Len(media) |-> <<c[i]>>]
  OBVIOUS
<1>6. c = Bringing("upload", Items(p)[n], n)
  BY <1>1 DEF Bringing
<1> HIDE DEF media, c, S, seqs
<1> QED
  BY <1>1, <1>3, <1>4, <1>5, <1>6, FlattenSingles

\* Calls and plans of one or two calls
LEMMA DoIsCall ==
  ASSUME NEW call \in Names, NEW n \in Nat
  PROVE  Do(call, n) \in Calls /\ Try(call, n) \in Calls
BY DEF Do, Try, Calls

LEMMA OneIsPlan ==
  ASSUME NEW S, NEW x \in S
  PROVE  <<x>> \in Seq(S) /\ Len(<<x>>) = 1 /\ <<x>>[1] = x
OBVIOUS

\* That brings as many files as there are media, unless one cannot be read.
LEMMA FilesAreBrought ==
  ASSUME NEW p, IsPost(p), NEW n \in DOMAIN Items(p), NEW call \in Files
  PROVE  /\ Bringing(call, Items(p)[n], n) \in Seq(Calls)
         /\ Len(Bringing(call, Items(p)[n], n)) = Len(Items(p)[n].media)
         /\ \A i \in 1 .. Len(Items(p)[n].media) :
              /\ Bringing(call, Items(p)[n], n)[i].call \in Files \cup {"plain"}
              /\ Bringing(call, Items(p)[n], n)[i].caught = FALSE
<1> DEFINE item == Items(p)[n]
           b == Bringing(call, item, n)
           m == Len(item.media)
<1>1. m \in Nat /\ DOMAIN item.media = 1 .. m /\ n \in Nat
  BY PartOfPost, ItemsOfPost
<1>2. DOMAIN b = 1 .. m /\ \A i \in 1 .. m : b[i] \in {Do(call, n), Throw("plain")}
  BY <1>1 DEF Bringing
<1>3. Do(call, n) \in Calls /\ Throw("plain") \in Calls
  <2>1. call \in Names /\ "plain" \in Names /\ 0 \in Nat
    BY DEF Names, Codes
  <2> QED
    BY <1>1, <2>1, DoIsCall DEF Throw
<1>4. b \in [1 .. m -> Calls]
  BY <1>1, <1>2, <1>3 DEF Bringing
<1>5. b \in Seq(Calls) /\ Len(b) = m
  <2> HIDE DEF b, m
  <2> QED
    BY <1>1, <1>4, IsSequence
<1>6. \A i \in 1 .. m : b[i].call \in Files \cup {"plain"} /\ b[i].caught = FALSE
  BY <1>2 DEF Do, Throw
<1> QED
  BY <1>5, <1>6

\* A section: the handles, the files, the post and what may follow it
LEMMA SectionIsMade ==
  ASSUME NEW p, IsPost(p), NEW n \in DOMAIN Items(p), NEW call \in Files,
         NEW head \in Seq(Calls), \A i \in DOMAIN head : head[i] = Try("resolve", n),
         NEW tail \in Seq(Calls), \A i \in DOMAIN tail : tail[i] = Do("openThread", n)
  PROVE  LET plan == head \o Bringing(call, Items(p)[n], n) \o <<Do("post", n)>> \o tail
         IN  Section(plan, n, Len(Items(p)[n].media)) /\ ~Rejects(plan)
<1> DEFINE m == Len(Items(p)[n].media)
           b == Bringing(call, Items(p)[n], n)
           post == <<Do("post", n)>>
           h == Len(head)
           plan == head \o b \o post \o tail
<1>1. m \in Nat /\ n \in Nat
  BY PartOfPost, ItemsOfPost
<1>2. /\ b \in Seq(Calls) /\ Len(b) = m
      /\ \A i \in 1 .. m : b[i].call \in Files \cup {"plain"} /\ b[i].caught = FALSE
  BY FilesAreBrought
<1>3. post \in Seq(Calls) /\ Len(post) = 1 /\ post[1] = Do("post", n)
  <2>1. "post" \in Names
    BY DEF Names
  <2> HIDE DEF m
  <2>2. Do("post", n) \in Calls
    BY <1>1, <2>1, DoIsCall
  <2> QED
    BY <2>2, OneIsPlan
<1> HIDE DEF m, b, post
<1>4. h \in Nat /\ DOMAIN head = 1 .. h /\ Len(tail) \in Nat /\ DOMAIN tail = 1 .. Len(tail)
  OBVIOUS
<1>5. /\ plan \in Seq(Calls) /\ Len(plan) = h + m + 1 + Len(tail)
      /\ \A i \in 1 .. h : plan[i] = head[i]
      /\ \A i \in 1 .. m : plan[h + i] = b[i]
      /\ plan[h + m + 1] = post[1]
      /\ \A i \in 1 .. Len(tail) : plan[h + m + 1 + i] = tail[i]
  <2> DEFINE x == head \o b
             y == x \o post
  <2>1. /\ x \in Seq(Calls) /\ Len(x) = h + m
        /\ \A i \in 1 .. h : x[i] = head[i]
        /\ \A i \in 1 .. m : x[h + i] = b[i]
    BY <1>1, <1>2, <1>4, Joined
  <2> HIDE DEF x
  <2>2. /\ y \in Seq(Calls) /\ Len(y) = h + m + 1
        /\ \A i \in 1 .. h + m : y[i] = x[i]
        /\ y[h + m + 1] = post[1]
    <3>1. y \in Seq(Calls) /\ Len(y) = Len(x) + Len(post) /\ \A i \in 1 .. Len(x) : y[i] = x[i]
      BY <1>3, <2>1, Joined
    <3>2. y[Len(x) + 1] = post[1]
      <4>1. 1 \in 1 .. Len(post)
        BY <1>3
      <4> QED
        BY <1>3, <2>1, <4>1, Joined
    <3> HIDE DEF y, h
    <3>3. h + m + 1 = Len(x) + 1
      BY <2>1
    <3>4. y[h + m + 1] = post[1]
      BY <3>2, <3>3
    <3>5. Len(y) = h + m + 1
      BY <1>3, <2>1, <3>1
    <3>6. \A i \in 1 .. h + m : y[i] = x[i]
      BY <2>1, <3>1
    <3> QED
      BY <3>1, <3>4, <3>5, <3>6
  <2> HIDE DEF y
  <2>3. /\ y \o tail \in Seq(Calls) /\ Len(y \o tail) = h + m + 1 + Len(tail)
        /\ \A i \in 1 .. h + m + 1 : (y \o tail)[i] = y[i]
        /\ \A i \in 1 .. Len(tail) : (y \o tail)[h + m + 1 + i] = tail[i]
    <3>1. /\ y \o tail \in Seq(Calls) /\ Len(y \o tail) = Len(y) + Len(tail)
          /\ \A i \in 1 .. Len(y) : (y \o tail)[i] = y[i]
          /\ \A i \in 1 .. Len(tail) : (y \o tail)[Len(y) + i] = tail[i]
      BY <2>2, Joined
    <3> QED
      BY <2>2, <3>1
  <2>4. plan = y \o tail
    BY DEF y, x
  <2>5. \A i \in 1 .. h : i \in 1 .. h + m /\ i \in 1 .. h + m + 1
    BY <1>1, <1>4
  <2>6. \A i \in 1 .. m : h + i \in 1 .. h + m /\ h + i \in 1 .. h + m + 1
    BY <1>1, <1>4
  <2>7. h + m + 1 \in 1 .. h + m + 1
    BY <1>1, <1>4
  <2> HIDE DEF plan, h
  <2> QED
    BY <2>1, <2>2, <2>3, <2>4, <2>5, <2>6, <2>7
<1> HIDE DEF plan, h
<1>6. \A i \in 1 .. h : plan[i] = Try("resolve", n)
  BY <1>4, <1>5
<1>7. \A i \in h + 1 .. h + m : plan[i].call \in Files \cup {"plain"} /\ plan[i].caught = FALSE
  <2> SUFFICES ASSUME NEW i \in h + 1 .. h + m
               PROVE  plan[i].call \in Files \cup {"plain"} /\ plan[i].caught = FALSE
    OBVIOUS
  <2>1. PICK j \in 1 .. m : i = h + j
    <3>1. i - h \in 1 .. m /\ i = h + (i - h)
      BY <1>1, <1>4
    <3> QED
      BY <3>1
  <2> QED
    BY <1>2, <1>5, <2>1
<1>8. \A i \in h + m + 2 .. Len(plan) : plan[i] = Do("openThread", n)
  <2> SUFFICES ASSUME NEW i \in h + m + 2 .. Len(plan)
               PROVE  plan[i] = Do("openThread", n)
    OBVIOUS
  <2>1. PICK j \in 1 .. Len(tail) : i = h + m + 1 + j
    <3>1. i - (h + m + 1) \in 1 .. Len(tail) /\ i = h + m + 1 + (i - (h + m + 1))
      BY <1>1, <1>4, <1>5
    <3> QED
      BY <3>1
  <2> QED
    BY <1>4, <1>5, <2>1
<1>9. h + m + 1 <= Len(plan) /\ plan[h + m + 1] = Do("post", n)
  BY <1>1, <1>3, <1>4, <1>5
<1>10. Section(plan, n, m) /\ ~Rejects(plan)
  BY <1>1, <1>4, <1>5, <1>6, <1>7, <1>8, <1>9, SectionWithPost
<1> QED
  BY <1>10 DEF plan, m, b, post

(***************************************************************************)
(* Publishing a thread whose plan is a section for each post               *)
(***************************************************************************)
LEMMA SectionsKeepContract ==
  ASSUME NEW p, IsPost(p),
         NEW work, work.operation = "publish", work.addressed = FALSE,
         work.media = [n \in DOMAIN Items(p) |-> Len(Items(p)[n].media)],
         NEW pre \in Seq(Calls), \A i \in DOMAIN pre : pre[i].call = "thread",
         NEW blocks, DOMAIN blocks = DOMAIN Items(p),
         \A n \in DOMAIN Items(p) : Section(blocks[n], n, Len(Items(p)[n].media)),
         \A n \in DOMAIN Items(p) \ {1} : Rejects(blocks[n]) => Spoilt(blocks[1]),
         work.plan = pre \o FlattenSeq(blocks) \/ (pre = <<>> /\ work.plan = FlattenSeq(blocks))
  PROVE  Sound(work)
<1> DEFINE N == Len(Items(p))
<1>1. N \in Nat \ {0} /\ DOMAIN Items(p) = 1 .. N
  BY ItemsOfPost
<1>2. Len(blocks) = N /\ Len(work.media) = N
  BY <1>1, LenOfFunction
<1>3. \A n \in 1 .. N : Section(blocks[n], n, work.media[n])
  BY <1>1
<1>4. \A n \in 2 .. N : n \in DOMAIN Items(p) \ {1}
  BY <1>1
<1> HIDE DEF N
<1>5. FlattenSeq(blocks) \in Seq(Calls) /\ Through(pre \o FlattenSeq(blocks), N, work.media)
  BY <1>1, <1>2, <1>3, <1>4, SectionsThrough
<1>6. work.plan = pre \o FlattenSeq(blocks)
  BY <1>5
<1> QED
  BY <1>1, <1>2, <1>5, <1>6, ThreadKeepsContract

LEMMA TwoJoined ==
  ASSUME NEW S, NEW a \in S, NEW b \in S
  PROVE  <<a, b>> = <<a>> \o <<b>>
<1>1. <<a>> \in Seq(S) /\ <<b>> \in Seq(S) /\ <<a, b>> \in Seq(S)
  OBVIOUS
<1>2. Len(<<a>> \o <<b>>) = 2 /\ (<<a>> \o <<b>>)[1] = a /\ (<<a>> \o <<b>>)[2] = b
  OBVIOUS
<1>3. <<a>> \o <<b>> \in Seq(S)
  OBVIOUS
<1>4. Len(<<a, b>>) = 2 /\ <<a, b>>[1] = a /\ <<a, b>>[2] = b
  OBVIOUS
<1>5. \A i \in 1 .. 2 : <<a, b>>[i] = (<<a>> \o <<b>>)[i]
  BY <1>2, <1>4
<1> QED
  BY <1>1, <1>2, <1>3, <1>4, <1>5, SeqEqual

LEMMA NothingJoined ==
  ASSUME NEW x \in Seq(Calls)
  PROVE  <<>> \o x = x /\ x \o <<>> = x /\ <<>> \in Seq(Calls)
BY ConcatEmptySeq

LEMMA PostIsPlan ==
  ASSUME NEW n \in Nat
  PROVE  /\ <<Do("post", n)>> \in Seq(Calls)
         /\ <<Do("post", n), Do("openThread", n)>> = <<Do("post", n)>> \o <<Do("openThread", n)>>
         /\ <<Do("openThread", n)>> \in Seq(Calls)
         /\ <<Throw("validation_failed")>> \in Seq(Calls)
<1>1. Do("post", n) \in Calls /\ Do("openThread", n) \in Calls /\ Throw("validation_failed") \in Calls
  <2>1. {"post", "openThread", "validation_failed"} \subseteq Names /\ 0 \in Nat
    BY DEF Names, Codes
  <2> QED
    BY <2>1, DoIsCall DEF Throw
<1>2. <<Do("post", n), Do("openThread", n)>> = <<Do("post", n)>> \o <<Do("openThread", n)>>
  BY <1>1, TwoJoined
<1> QED
  BY <1>1, <1>2, OneIsPlan

\* A post that is refused outright
LEMMA RefusedAtOnce ==
  ASSUME NEW work, NEW p, NEW code \in Codes \ Retryable, PublishingJob(work, p, <<Throw(code)>>)
  PROVE  Sound(work)
BY RefusalKeepsContract DEF PublishingJob

\* The same for blocks behind the look at the post that is answered, if there is one
LEMMA ThreadPublished ==
  ASSUME NEW p, IsPost(p), NEW work, NEW blocks, NEW pre,
         DOMAIN blocks = DOMAIN Items(p),
         pre = <<>> \/ pre = <<Do("thread", 0)>>,
         PublishingJob(work, p, pre \o FlattenSeq(blocks)) \/ (pre = <<>> /\ PublishingJob(work, p, FlattenSeq(blocks))),
         \A n \in DOMAIN Items(p) : Section(blocks[n], n, Len(Items(p)[n].media)),
         \A n \in DOMAIN Items(p) \ {1} : Rejects(blocks[n]) => Spoilt(blocks[1])
  PROVE  Sound(work)
<1>1. pre \in Seq(Calls) /\ \A i \in DOMAIN pre : pre[i].call = "thread"
  <2>1. CASE pre = <<>>
    BY <2>1, NothingJoined
  <2>2. CASE pre = <<Do("thread", 0)>>
    <3>1. Do("thread", 0) \in Calls
      <4>1. "thread" \in Names /\ 0 \in Nat
        BY DEF Names
      <4> QED
        BY <4>1, DoIsCall
    <3>2. Len(pre) = 1 /\ pre[1] = Do("thread", 0) /\ pre \in Seq(Calls)
      BY <2>2, <3>1, OneIsPlan
    <3>3. DOMAIN pre = {1}
      BY <2>2
    <3> QED
      BY <3>2, <3>3 DEF Do
  <2> QED
    BY <2>1, <2>2
<1> QED
  BY <1>1, SectionsKeepContract DEF PublishingJob

\* Mastodon: a section is the media and the status.
LEMMA MastodonPublishes ==
  ASSUME NEW p, IsPost(p), NEW work, PublishingJob(work, p, M!Publish(p))
  PROVE  Sound(work)
<1> DEFINE blocks == [n \in 1 .. Len(Items(p)) |-> M!CreateOneStatus(p, n)]
<1>1. DOMAIN Items(p) = 1 .. Len(Items(p))
  BY ItemsOfPost
<1>2. CASE M!Accepts(p)
  <2>1. M!Publish(p) = M!FlattenSeq(blocks)
    BY <1>2 DEF M!Publish, M!Validated, M!Each, M!Items, Items
  <2>2. M!Publish(p) = FlattenSeq(blocks)
    BY <2>1, MastodonFlattens
  <2>3. ASSUME NEW n \in DOMAIN Items(p)
        PROVE  Section(blocks[n], n, Len(Items(p)[n].media)) /\ ~Rejects(blocks[n])
    <3> DEFINE b == Bringing("upload", Items(p)[n], n)
               post == <<Do("post", n)>>
    <3>1. n \in Nat /\ b \in Seq(Calls) /\ post \in Seq(Calls)
      <4>1. n \in Nat /\ "upload" \in Files
        BY ItemsOfPost DEF Files
      <4> QED
        BY <4>1, FilesAreBrought, PostIsPlan
    <3>2. blocks[n] = b \o post
      BY <1>1, MastodonUpload DEF M!CreateOneStatus, M!Do, Do
    <3>3. Section(<<>> \o b \o post \o <<>>, n, Len(Items(p)[n].media)) /\ ~Rejects(<<>> \o b \o post \o <<>>)
      <4>1. <<>> \in Seq(Calls) /\ DOMAIN <<>> = {} /\ "upload" \in Files
        BY DEF Files
      <4> QED
        BY <4>1, SectionIsMade
    <3>4. b \o post \in Seq(Calls)
      BY <3>1
    <3> HIDE DEF b, post, blocks
    <3>5. <<>> \o b \o post \o <<>> = b \o post
      BY <3>1, <3>4, NothingJoined
    <3> QED
      BY <3>2, <3>3, <3>5
  <2>4. DOMAIN blocks = DOMAIN Items(p)
    BY <1>1
  <2>5. PublishingJob(work, p, FlattenSeq(blocks))
    BY <2>2
  <2> HIDE DEF blocks
  <2> QED
    BY <2>3, <2>4, <2>5, ThreadPublished
<1>3. CASE ~M!Accepts(p)
  <2>1. M!Publish(p) = <<Throw("validation_failed")>> /\ "validation_failed" \in Codes \ Retryable
    BY <1>3 DEF M!Publish, M!Validated, M!Throw, M!Do, Throw, Do, Codes, Retryable
  <2> QED
    BY <2>1, RefusedAtOnce
<1> QED
  BY <1>2, <1>3

\* Bluesky: a section is the handles, the media and the post.
LEMMA BlueskyFlattens ==
  ASSUME NEW seqs
  PROVE  B!FlattenSeq(seqs) = FlattenSeq(seqs)
BY DEF B!FlattenSeq, FlattenSeq

LEMMA BlueskyUpload ==
  ASSUME NEW p, IsPost(p), NEW n \in DOMAIN Items(p)
  PROVE  B!Upload(p, n) = Bringing("upload", Items(p)[n], n)
<1> DEFINE media == Items(p)[n].media
           c == [i \in 1 .. Len(media) |-> IF media[i].readable THEN Do("upload", n) ELSE Throw("plain")]
           S == {Do("upload", n), Throw("plain")}
           seqs == [i \in 1 .. Len(media) |-> IF media[i].readable THEN <<Do("upload", n)>> ELSE <<Throw("plain")>>]
<1>1. Len(media) \in Nat /\ n \in Nat /\ DOMAIN media = 1 .. Len(media)
  BY PartOfPost, ItemsOfPost
<1>2. B!Upload(p, n) = B!FlattenSeq(seqs)
  BY DEF B!Upload, B!Each, B!Do, B!Throw, Do, Throw, B!Items, Items
<1>3. B!Upload(p, n) = FlattenSeq(seqs)
  BY <1>2, BlueskyFlattens
<1>4. c \in [1 .. Len(media) -> S]
  OBVIOUS
<1>5. seqs = [i \in 1 .. Len(media) |-> <<c[i]>>]
  OBVIOUS
<1>6. c = Bringing("upload", Items(p)[n], n)
  BY <1>1 DEF Bringing
<1> HIDE DEF media, c, S, seqs
<1> QED
  BY <1>1, <1>3, <1>4, <1>5, <1>6, FlattenSingles

LEMMA BlueskyPublishes ==
  ASSUME NEW p, IsPost(p), NEW work, PublishingJob(work, p, B!Publish(p))
  PROVE  Sound(work)
<1> DEFINE blocks == [n \in 1 .. Len(Items(p)) |-> B!CreateOnePost(p, n)]
           pre == B!ReplyRefs(p)
<1>1. DOMAIN Items(p) = 1 .. Len(Items(p))
  BY ItemsOfPost
<1>2. CASE B!Accepts(p)
  <2>1. B!Publish(p) = pre \o B!FlattenSeq(blocks)
    BY <1>2 DEF B!Publish, B!Validated, B!Each, B!Items, Items
  <2>2. B!Publish(p) = pre \o FlattenSeq(blocks)
    BY <2>1, BlueskyFlattens
  <2>3. ASSUME NEW n \in DOMAIN Items(p)
        PROVE  Section(blocks[n], n, Len(Items(p)[n].media)) /\ ~Rejects(blocks[n])
    <3> DEFINE head == B!Facets(p, n)
               b == Bringing("upload", Items(p)[n], n)
               post == <<Do("post", n)>>
    <3>1. n \in Nat /\ b \in Seq(Calls) /\ post \in Seq(Calls)
      <4>1. n \in Nat /\ "upload" \in Files
        BY ItemsOfPost DEF Files
      <4> QED
        BY <4>1, FilesAreBrought, PostIsPlan
    <3>2. blocks[n] = head \o b \o post
      BY <1>1, BlueskyUpload DEF B!CreateOnePost, B!Do, Do
    <3>3. head \in Seq(Calls) /\ \A i \in DOMAIN head : head[i] = Try("resolve", n)
      <4> DEFINE k == Len(Items(p)[n].mentions)
      <4>1. k \in Nat /\ DOMAIN Items(p)[n].mentions = 1 .. k
        BY PartOfPost
      <4>2. Try("resolve", n) \in Calls
        <5>1. "resolve" \in Names
          BY DEF Names
        <5> QED
          BY <3>1, <5>1, DoIsCall
      <4> HIDE DEF k
      <4>3. head = [i \in 1 .. k |-> Try("resolve", n)]
        BY <4>1 DEF B!Facets, B!Items, Items, B!Try, Try
      <4>4. head \in [1 .. k -> Calls]
        BY <4>2, <4>3
      <4> QED
        BY <4>1, <4>3, <4>4, IsSequence
    <3> HIDE DEF b, post, blocks, head
    <3>4. Section(head \o b \o post \o <<>>, n, Len(Items(p)[n].media)) /\ ~Rejects(head \o b \o post \o <<>>)
      <4>1. <<>> \in Seq(Calls) /\ DOMAIN <<>> = {} /\ "upload" \in Files
        BY DEF Files
      <4> QED
        BY <3>3, <4>1, SectionIsMade DEF b, post
    <3>5. head \o b \o post \in Seq(Calls)
      BY <3>1, <3>3
    <3>6. head \o b \o post \o <<>> = head \o b \o post
      BY <3>5, NothingJoined
    <3> QED
      BY <3>2, <3>4, <3>6
  <2>4. DOMAIN blocks = DOMAIN Items(p)
    BY <1>1
  <2>5. PublishingJob(work, p, pre \o FlattenSeq(blocks))
    BY <2>2
  <2>6. pre = <<>> \/ pre = <<Do("thread", 0)>>
    BY DEF B!ReplyRefs, B!Do, Do
  <2> HIDE DEF blocks, pre
  <2> QED
    BY <2>3, <2>4, <2>5, <2>6, ThreadPublished
<1>3. CASE ~B!Accepts(p)
  <2>1. B!Publish(p) = <<Throw("validation_failed")>> /\ "validation_failed" \in Codes \ Retryable
    BY <1>3 DEF B!Publish, B!Validated, B!Throw, B!Do, Throw, Do, Codes, Retryable
  <2> QED
    BY <2>1, RefusedAtOnce
<1> QED
  BY <1>2, <1>3

\* Discord: a section is the media and the message, and may open a thread or be refused.
LEMMA DiscordFlattens ==
  ASSUME NEW seqs
  PROVE  D!FlattenSeq(seqs) = FlattenSeq(seqs)
BY DEF D!FlattenSeq, FlattenSeq

\* A child that takes over options of a valid post is as valid as it was.
LEMMA ChildStaysValid ==
  ASSUME NEW p, IsPost(p), D!Accepts(p), NEW n \in DOMAIN Items(p)
  PROVE  D!ValidItem(D!Sent(p, n))
<1> DEFINE item == Items(p)[n]
           sent == D!Sent(p, n)
<1>1. D!ValidItem(item) /\ D!ValidItem(p)
  BY ItemsOfPost DEF D!Accepts, D!Items, Items
<1>2. {"text", "urls", "title", "media", "options"} \subseteq DOMAIN item
  BY PartOfPost
<1>3. /\ sent.text = item.text /\ sent.urls = item.urls /\ sent.media = item.media
      /\ sent.options = item.options \cup p.options
  BY <1>2 DEF D!Sent, D!Items, Items
<1> HIDE DEF sent, item
<1>4. D!TextLength(sent) = D!TextLength(item)
  BY <1>3 DEF D!TextLength
<1>5. D!ValidItem(sent)
  BY <1>1, <1>3, <1>4 DEF D!ValidItem, D!ValidEmbed
<1> QED
  BY <1>5 DEF sent

LEMMA DiscordReads ==
  ASSUME NEW p, NEW n
  PROVE  D!Read(p, n) = Bringing("read", Items(p)[n], n)
BY DEF D!Read, D!Items, Items, D!Do, D!Throw, Do, Throw, Bringing

\* Where a child has nowhere to go, nor has the first post.
LEMMA FirstHasNoPlace ==
  ASSUME NEW p, IsPost(p), NEW n \in DOMAIN Items(p), NEW credential, Homeless(p, n, credential)
  PROVE  Homeless(p, 1, credential)
<1>1. Items(p)[1] = p /\ 1 \in DOMAIN Items(p)
  BY ItemsOfPost
<1>2. "options" \in DOMAIN Items(p)[n] /\ "options" \in DOMAIN p
  BY <1>1, PartOfPost
<1>3. D!Sent(p, n).options = Items(p)[n].options \cup p.options
  BY <1>2 DEF D!Sent, D!Items, Items
<1>4. D!Sent(p, 1).options = p.options
  BY <1>1, <1>2 DEF D!Sent, D!Items, Items
<1> QED
  BY <1>3, <1>4 DEF Homeless, D!ByWebhook

\* A section is refused where the post has nowhere to go, and only there.
LEMMA DiscordSection ==
  ASSUME NEW p, IsPost(p), NEW n \in DOMAIN Items(p), NEW credential
  PROVE  LET plan == D!SendOne(p, n, credential)
         IN  /\ Section(plan, n, Len(Items(p)[n].media))
             /\ Rejects(plan) => Homeless(p, n, credential)
             /\ Homeless(p, n, credential) => Spoilt(plan)
<1> DEFINE plan == D!SendOne(p, n, credential)
           m == Len(Items(p)[n].media)
           b == Bringing("read", Items(p)[n], n)
           post == <<Do("post", n)>>
           opened == <<Do("openThread", n)>>
           refused == <<Throw("validation_failed")>>
           homeless == Homeless(p, n, credential)
<1>1. n \in Nat /\ "read" \in Files /\ m \in Nat
  BY ItemsOfPost, PartOfPost DEF Files
<1>2. /\ b \in Seq(Calls) /\ Len(b) = m
      /\ \A i \in 1 .. m : b[i].call \in Files \cup {"plain"} /\ b[i].caught = FALSE
  BY <1>1, FilesAreBrought
<1>3. /\ post \in Seq(Calls) /\ opened \in Seq(Calls) /\ refused \in Seq(Calls)
      /\ <<Do("post", n), Do("openThread", n)>> = post \o opened
  BY <1>1, PostIsPlan
<1>4. \/ plan = b \o post /\ ~homeless
      \/ plan = b \o <<Do("post", n), Do("openThread", n)>> /\ ~homeless
      \/ plan = b \o refused /\ homeless
  BY DiscordReads DEF Homeless, D!SendOne, D!Do, D!Throw, Do, Throw
<1>5. Len(refused) = 1 /\ refused[1] = Throw("validation_failed")
  OBVIOUS
<1>6. Len(opened) = 1 /\ opened[1] = Do("openThread", n) /\ DOMAIN opened = {1}
  OBVIOUS
<1>7. ASSUME NEW tail \in Seq(Calls), \A i \in DOMAIN tail : tail[i] = Do("openThread", n)
      PROVE  Section(b \o post \o tail, n, m) /\ ~Rejects(b \o post \o tail)
  <2>1. <<>> \in Seq(Calls) /\ DOMAIN <<>> = {}
    OBVIOUS
  <2>2. Section(<<>> \o b \o post \o tail, n, m) /\ ~Rejects(<<>> \o b \o post \o tail)
    BY <1>1, <1>7, <2>1, SectionIsMade
  <2> HIDE DEF b
  <2>3. <<>> \o b = b
    BY <1>2, NothingJoined
  <2> QED
    BY <2>2, <2>3
<1> HIDE DEF plan, b, post, opened, refused, homeless, m
<1>8. CASE plan = b \o post /\ ~homeless
  <2>1. <<>> \in Seq(Calls) /\ DOMAIN <<>> = {}
    OBVIOUS
  <2>2. Section(b \o post \o <<>>, n, m) /\ ~Rejects(b \o post \o <<>>)
    BY <1>7, <2>1
  <2>3. b \o post \in Seq(Calls)
    BY <1>2, <1>3
  <2>4. b \o post \o <<>> = b \o post
    BY <2>3, NothingJoined
  <2> QED
    BY <1>8, <2>2, <2>4 DEF plan, m, homeless
<1>9. CASE plan = b \o <<Do("post", n), Do("openThread", n)>> /\ ~homeless
  <2>1. \A i \in DOMAIN opened : opened[i] = Do("openThread", n)
    BY <1>6
  <2>2. Section(b \o post \o opened, n, m) /\ ~Rejects(b \o post \o opened)
    BY <1>3, <1>7, <2>1
  <2>3. b \o post \o opened = b \o (post \o opened)
    BY <1>2, <1>3, ConcatAssociative
  <2> QED
    BY <1>3, <1>9, <2>2, <2>3 DEF plan, m, homeless
<1>10. CASE plan = b \o refused /\ homeless
  <2>1. /\ plan \in Seq(Calls) /\ Len(plan) = m + 1
        /\ \A i \in 1 .. m : plan[i] = b[i]
        /\ plan[m + 1] = Throw("validation_failed")
    <3>1. /\ plan \in Seq(Calls) /\ Len(plan) = Len(b) + Len(refused)
          /\ \A i \in 1 .. Len(b) : plan[i] = b[i]
          /\ \A i \in 1 .. Len(refused) : plan[Len(b) + i] = refused[i]
      BY <1>2, <1>3, <1>10, Joined
    <3>2. 1 \in 1 .. Len(refused)
      BY <1>5
    <3>3. plan[Len(b) + 1] = refused[1]
      BY <3>1, <3>2
    <3> QED
      BY <1>2, <1>5, <3>1, <3>3
  <2>2. \A i \in 1 .. Len(plan) :
          plan[i].call \in Files \cup {"plain", "validation_failed"} /\ plan[i].caught = FALSE
    <3> SUFFICES ASSUME NEW i \in 1 .. Len(plan)
                 PROVE  plan[i].call \in Files \cup {"plain", "validation_failed"} /\ plan[i].caught = FALSE
      OBVIOUS
    <3>1. CASE i \in 1 .. m
      <4>1. plan[i] = b[i]
        BY <2>1, <3>1
      <4>2. b[i].call \in Files \cup {"plain"} /\ b[i].caught = FALSE
        BY <1>2, <3>1
      <4> QED
        BY <4>1, <4>2
    <3>2. CASE i = m + 1
      <4>1. plan[i] = Throw("validation_failed")
        BY <2>1, <3>2
      <4> QED
        BY <4>1 DEF Throw, Do
    <3>3. m \in Nat /\ Len(plan) = m + 1
      BY <1>1, <2>1
    <3>4. i \in 1 .. m \/ i = m + 1
      BY <3>3
    <3> QED
      BY <3>1, <3>2, <3>4
  <2>3. plan[Len(plan)].call = "validation_failed" /\ Len(plan) \in Nat \ {0}
    BY <1>1, <2>1 DEF Throw, Do
  <2>4. Section(plan, n, m) /\ Spoilt(plan)
    BY <1>1, <2>1, <2>2, <2>3, SectionRefused
  <2> QED
    BY <1>10, <2>4 DEF plan, m, homeless
<1> QED
  BY <1>4, <1>8, <1>9, <1>10

\* What is refused of a child is refused of the first post already.
LEMMA DiscordPublishes ==
  ASSUME NEW p, IsPost(p), NEW credential, NEW work, PublishingJob(work, p, D!Publish(p, credential))
  PROVE  Sound(work)
<1> DEFINE blocks == [n \in 1 .. Len(Items(p)) |-> D!SendOne(p, n, credential)]
           sends == [n \in 1 .. Len(Items(p)) |->
                       D!Validated(n = 1 \/ D!ValidItem(D!Sent(p, n)), D!SendOne(p, n, credential))]
<1>1. DOMAIN Items(p) = 1 .. Len(Items(p)) /\ 1 \in DOMAIN Items(p)
  BY ItemsOfPost
<1>2. CASE D!Accepts(p)
  <2>1. D!Publish(p, credential) = D!FlattenSeq(sends)
    BY <1>2 DEF D!Publish, D!Validated, D!Each, D!Items, Items
  <2>2. sends = blocks
    <3>1. \A n \in 1 .. Len(Items(p)) : D!ValidItem(D!Sent(p, n))
      BY <1>1, <1>2, ChildStaysValid
    <3> QED
      BY <3>1 DEF D!Validated
  <2>3. D!Publish(p, credential) = FlattenSeq(blocks)
    <3> HIDE DEF sends, blocks
    <3> QED
      BY <2>1, <2>2, DiscordFlattens
  <2>4. ASSUME NEW n \in DOMAIN Items(p)
        PROVE  /\ Section(blocks[n], n, Len(Items(p)[n].media))
               /\ Rejects(blocks[n]) => Spoilt(blocks[1])
    <3>1. blocks[n] = D!SendOne(p, n, credential) /\ blocks[1] = D!SendOne(p, 1, credential)
      BY <1>1
    <3> HIDE DEF blocks
    <3>2. Section(blocks[n], n, Len(Items(p)[n].media))
      BY <3>1, DiscordSection
    <3>3. ASSUME Rejects(blocks[n])
          PROVE  Spoilt(blocks[1])
      <4>1. Homeless(p, n, credential)
        BY <3>1, <3>3, DiscordSection
      <4>2. Homeless(p, 1, credential)
        BY <4>1, FirstHasNoPlace
      <4> QED
        BY <1>1, <3>1, <4>2, DiscordSection
    <3> QED
      BY <3>2, <3>3
  <2>5. DOMAIN blocks = DOMAIN Items(p)
    BY <1>1
  <2>6. PublishingJob(work, p, FlattenSeq(blocks))
    BY <2>3
  <2> HIDE DEF blocks
  <2> QED
    BY <2>4, <2>5, <2>6, ThreadPublished
<1>3. CASE ~D!Accepts(p)
  <2>1. D!Publish(p, credential) = <<Throw("validation_failed")>> /\ "validation_failed" \in Codes \ Retryable
    BY <1>3 DEF D!Publish, D!Validated, D!Throw, D!Do, Throw, Do, Codes, Retryable
  <2> QED
    BY <2>1, RefusedAtOnce
<1> QED
  BY <1>2, <1>3

-------------------------------------------------------------------------------
(* The other operations *)

\* A refusal of an operation on a post
LEMMA OperationRefused ==
  ASSUME NEW work, work.media = <<>>, NEW code \in Codes \ (Retryable \cup {"plain"}), work.plan = <<Throw(code)>>,
         work.operation = "publish" => work.addressed = FALSE
  PROVE  Sound(work)
BY RefusalKeepsContract

\* A single request
LEMMA OneRequest ==
  ASSUME NEW work, work.media = <<>>, NEW call, NEW n, work.plan = <<Do(call, n)>>,
         \/ work.operation = "delete" /\ call = "remove"
         \/ work.operation = "edit" /\ call = "update"
         \/ work.operation = "collect_analytics" /\ call = "metrics"
  PROVE  Sound(work)
<1>1. DOMAIN work.plan = {1} /\ work.plan[1].call = call /\ work.plan[1].caught = FALSE
  BY DEF Do
<1>2. call \in Requests \ {"post"} /\ call # "plain"
  BY DEF Requests
<1>3. call = "metrics" \/ call \in Changes
  BY DEF Changes
<1> QED
  BY <1>1, <1>2, <1>3, ChangeKeepsContract

\* Two requests
LEMMA TwoRequests ==
  ASSUME NEW work, work.media = <<>>,
         \/ work.operation = "collect_analytics" /\ work.plan = <<Do("metrics", 1), Try("followers", 0)>>
         \/ work.operation \in {"publish", "edit"} /\ work.plan = <<Do("validate", 0), Do("channel", 1)>>
  PROVE  Sound(work)
<1>1. CASE work.operation = "collect_analytics" /\ work.plan = <<Do("metrics", 1), Try("followers", 0)>>
  <2>1. DOMAIN work.plan = {1, 2} /\ work.plan[1].call = "metrics" /\ work.plan[2].call = "followers"
    BY <1>1 DEF Do, Try
  <2>2. {"metrics", "followers"} \subseteq Requests \ {"post"}
    BY DEF Requests
  <2> QED
    BY <1>1, <2>1, <2>2, ChangeKeepsContract
<1>2. CASE work.operation \in {"publish", "edit"} /\ work.plan = <<Do("validate", 0), Do("channel", 1)>>
  <2>1. /\ DOMAIN work.plan = {1, 2} /\ work.plan[1].call = "validate" /\ work.plan[2].call = "channel"
        /\ work.plan[2].caught = FALSE
    BY <1>2 DEF Do, Try
  <2>2. {"validate", "channel"} \subseteq Requests \ {"post"} /\ "channel" \in Changes
    BY DEF Requests, Changes
  <2> QED
    BY <1>2, <2>1, <2>2, ChangeKeepsContract
<1> QED
  BY <1>1, <1>2

\* An edit on Mastodon brings the media anew.
LEMMA MastodonEdits ==
  ASSUME NEW p, IsPost(p), NEW work, work.operation = "edit", work.media = <<>>, work.plan = M!Edit(p)
  PROVE  Sound(work)
<1>1. CASE M!Accepts(p)
  <2> DEFINE b == Bringing("upload", Items(p)[1], 1)
             last == <<Do("update", 1)>>
  <2>1. 1 \in DOMAIN Items(p)
    BY ItemsOfPost
  <2>2. work.plan = b \o last
    BY <1>1, <2>1, MastodonUpload DEF M!Edit, M!Validated, M!Do, Do
  <2>3. /\ b \in Seq(Calls) /\ DOMAIN b = 1 .. Len(b)
        /\ \A i \in DOMAIN b : b[i].call \in {"upload", "plain"} /\ b[i].caught = FALSE
    <3>1. b \in Seq(Calls)
      <4>1. "upload" \in Files
        BY DEF Files
      <4> QED
        BY <2>1, <4>1, FilesAreBrought
    <3>2. \A i \in DOMAIN b : b[i].call \in {"upload", "plain"} /\ b[i].caught = FALSE
      BY DEF Bringing, Do, Throw
    <3> HIDE DEF b
    <3> QED
      BY <3>1, <3>2
  <2>4. last \in Seq({Do("update", 1)}) /\ Len(last) = 1 /\ last[1] = Do("update", 1)
    OBVIOUS
  <2> DEFINE S == Calls \cup {Do("update", 1)}
  <2>5. b \in Seq(S) /\ last \in Seq(S)
    <3>1. Calls \subseteq S /\ {Do("update", 1)} \subseteq S
      OBVIOUS
    <3> HIDE DEF b, last, S
    <3> QED
      BY <2>3, <2>4, <3>1, SeqMonotonic
  <2> HIDE DEF b, last, S
  <2>6. /\ Len(b) \in Nat /\ DOMAIN (b \o last) = 1 .. Len(b) + 1
        /\ \A i \in 1 .. Len(b) : (b \o last)[i] = b[i]
        /\ (b \o last)[Len(b) + 1] = Do("update", 1)
    <3>0. Len(b \o last) = Len(b) + Len(last) /\ b \o last \in Seq(S)
      BY <2>5, ConcatProperties
    <3>1. Len(b) \in Nat /\ Len(b \o last) = Len(b) + 1 /\ b \o last \in Seq(S)
      BY <2>4, <2>5, <3>0
    <3>2. DOMAIN (b \o last) = 1 .. Len(b) + 1
      BY <3>1, LenProperties
    <3>3. \A i \in 1 .. Len(b) + 1 : (b \o last)[i] = IF i <= Len(b) THEN b[i] ELSE last[i - Len(b)]
      BY <2>4, <2>5, ConcatProperties
    <3>4. \A i \in 1 .. Len(b) : (b \o last)[i] = b[i]
      BY <3>1, <3>3
    <3>5. (b \o last)[Len(b) + 1] = last[1]
      <4>1. Len(b) + 1 \in 1 .. Len(b) + 1 /\ ~(Len(b) + 1 <= Len(b)) /\ (Len(b) + 1) - Len(b) = 1
        BY <3>1
      <4> QED
        BY <3>3, <4>1
    <3> QED
      BY <2>4, <3>1, <3>2, <3>4, <3>5
  <2> DEFINE plan == work.plan
             k == Len(b) + 1
  <2>7. k \in DOMAIN plan /\ plan[k] = Do("update", 1) /\ \A i \in DOMAIN plan : i = k \/ (i \in 1 .. Len(b) /\ plan[i] = b[i])
    BY <2>2, <2>6
  <2> HIDE DEF k, plan
  <2>8. \A i \in DOMAIN plan : plan[i].call \in {"upload", "plain", "update"}
    BY <2>3, <2>7 DEF Do
  <2>9. plan[k].call = "update" /\ plan[k].caught = FALSE
    BY <2>7 DEF Do
  <2>10. {"upload", "update"} \subseteq Requests \ {"post"} /\ "update" \in Changes
    BY DEF Requests, Changes
  <2> QED
    BY <2>7, <2>8, <2>9, <2>10, ChangeKeepsContract DEF plan
<1>2. CASE ~M!Accepts(p)
  <2>1. work.plan = <<Throw("validation_failed")>> /\ "validation_failed" \in Codes \ (Retryable \cup {"plain"})
    BY <1>2 DEF M!Edit, M!Validated, M!Throw, M!Do, Throw, Do, Codes, Retryable
  <2> QED
    BY <2>1, OperationRefused
<1> QED
  BY <1>1, <1>2

\* Reddit: one post without media
LEMMA RedditPublishes ==
  ASSUME NEW p, IsPost(p), NEW agent \in BOOLEAN, NEW work, PublishingJob(work, p, R!Publish(p, agent))
  PROVE  Sound(work)
<1>1. CASE R!Accepts(p) /\ agent
  <2> DEFINE c == [i \in 1 .. 1 |-> Do("post", 1)]
             blocks == [i \in 1 .. 1 |-> <<c[i]>>]
  <2>1. p.thread = <<>> /\ p.media = <<>>
    BY <1>1 DEF R!Accepts
  <2>2. Items(p) = <<p>>
    BY <2>1 DEF Items
  <2>3. work.plan = <<Do("post", 1)>>
    BY <1>1 DEF PublishingJob, R!Publish, R!Validated, R!WithAgent, R!Do, Do
  <2>4. <<Do("post", 1)>> \in Seq(Calls) /\ Len(<<Do("post", 1)>>) = 1 /\ <<Do("post", 1)>>[1] = Do("post", 1)
    BY PostIsPlan
  <2>5. FlattenSeq(blocks) = <<Do("post", 1)>>
    <3>1. c \in [1 .. 1 -> {Do("post", 1)}]
      OBVIOUS
    <3>2. c = <<Do("post", 1)>>
      OBVIOUS
    <3> HIDE DEF c
    <3> QED
      BY <3>1, <3>2, FlattenSingles
  <2>6. DOMAIN Items(p) = {1} /\ Items(p)[1] = p /\ DOMAIN blocks = {1} /\ blocks[1] = <<Do("post", 1)>>
    BY <2>2
  <2>7. Len(Items(p)[1].media) = 0
    BY <2>1, <2>6
  <2>8. Section(<<Do("post", 1)>>, 1, 0)
    <3> DEFINE plan == <<Do("post", 1)>>
    <3>1. plan \in Seq(Calls) /\ Len(plan) = 1 /\ plan[1] = Do("post", 1)
      BY <2>4
    <3> HIDE DEF plan
    <3>2. 0 + 0 + 1 <= Len(plan) /\ plan[0 + 0 + 1] = Do("post", 1)
      BY <3>1
    <3>3. \A i \in 1 .. 0 : FALSE
      OBVIOUS
    <3>4. (\A i \in 0 + 1 .. 0 + 0 : FALSE) /\ (\A i \in 0 + 0 + 2 .. Len(plan) : FALSE)
      BY <3>1
    <3>5. Section(plan, 1, 0)
      BY <3>1, <3>2, <3>3, <3>4, SectionWithPost
    <3> QED
      BY <3>5 DEF plan
  <2> HIDE DEF blocks, c
  <2>9. PublishingJob(work, p, FlattenSeq(blocks))
    BY <2>3, <2>5 DEF PublishingJob
  <2> QED
    BY <2>6, <2>7, <2>8, <2>9, ThreadPublished
<1>2. CASE ~R!Accepts(p)
  <2>1. R!Publish(p, agent) = <<Throw("validation_failed")>> /\ "validation_failed" \in Codes \ Retryable
    BY <1>2 DEF R!Publish, R!Validated, R!Throw, R!Do, Throw, Do, Codes, Retryable
  <2> QED
    BY <2>1, RefusedAtOnce
<1>3. CASE R!Accepts(p) /\ ~agent
  <2>1. R!Publish(p, agent) = <<Throw("auth_failed")>> /\ "auth_failed" \in Codes \ Retryable
    BY <1>3 DEF R!Publish, R!Validated, R!WithAgent, R!Throw, R!Do, Throw, Do, Codes, Retryable
  <2> QED
    BY <2>1, RefusedAtOnce
<1> QED
  BY <1>1, <1>2, <1>3

\* The fields of a job to publish
LEMMA Publishes ==
  ASSUME NEW work, NEW account, NEW p, NEW plan, NEW taken,
         work = Job(account, "publish", plan, [n \in DOMAIN Items(p) |-> Len(Items(p)[n].media)], FALSE, taken)
  PROVE  PublishingJob(work, p, plan) /\ work.errors = account.errors
BY DEF PublishingJob, Job

\* Each connector in turn, operation by operation
LEMMA DiscordIsSound ==
  ASSUME NEW p, IsPost(p), NEW account, NEW credential, NEW work \in DiscordWork(account, p, credential)
  PROVE  Sound(work) /\ work.errors = account.errors
<1>1. {"validation_failed", "not_supported", "auth_failed"} \subseteq Codes \ (Retryable \cup {"plain"})
  BY DEF Codes, Retryable
<1>2. /\ D!Delete = <<Throw("validation_failed")>>
      /\ D!Edit(p) = <<Throw("validation_failed")>>
      /\ D!GetAnalytics = <<Throw("not_supported")>>
  BY DEF D!Delete, D!Edit, D!Validated, D!Unaddressed, D!GetAnalytics, D!Guarded, D!Operations,
     D!Static, D!Throw, D!Do, Throw, Do
<1>3. CASE work = Publishing(account, D!Publish(p, credential), p, D!Takes)
  BY <1>3, Publishes, DiscordPublishes DEF Publishing
<1>4. CASE work = About(account, "delete", D!Delete, TRUE)
  <2>1. /\ work.plan = <<Throw("validation_failed")>>
        /\ work.operation = "delete" /\ work.media = <<>> /\ work.errors = account.errors
    BY <1>2, <1>4 DEF About, OfChannel, Job
  <2> QED
    BY <1>1, <2>1, OperationRefused
<1>5. CASE work = About(account, "edit", D!Edit(p), TRUE)
  <2>1. /\ work.plan = <<Throw("validation_failed")>>
        /\ work.operation = "edit" /\ work.media = <<>> /\ work.errors = account.errors
    BY <1>2, <1>5 DEF About, OfChannel, Job
  <2> QED
    BY <1>1, <2>1, OperationRefused
<1>6. CASE work = About(account, "collect_analytics", D!GetAnalytics, TRUE)
  <2>1. /\ work.plan = <<Throw("not_supported")>>
        /\ work.operation = "collect_analytics" /\ work.media = <<>> /\ work.errors = account.errors
    BY <1>2, <1>6 DEF About, OfChannel, Job
  <2> QED
    BY <1>1, <2>1, OperationRefused
<1> QED
  BY <1>3, <1>4, <1>5, <1>6 DEF DiscordWork

LEMMA MastodonIsSound ==
  ASSUME NEW p, IsPost(p), NEW account, NEW work \in MastodonWork(account, p)
  PROVE  Sound(work) /\ work.errors = account.errors
<1>1. {"validation_failed", "not_supported", "auth_failed"} \subseteq Codes \ (Retryable \cup {"plain"})
  BY DEF Codes, Retryable
<1>2. /\ M!Delete = <<Do("remove", 1)>>
      /\ M!GetAnalytics = <<Do("metrics", 1), Try("followers", 0)>>
  BY DEF M!Delete, M!GetAnalytics, M!Do, M!Try, Do, Try
<1>3. CASE work = Publishing(account, M!Publish(p), p, M!Takes)
  BY <1>3, Publishes, MastodonPublishes DEF Publishing
<1>4. CASE work = About(account, "delete", M!Delete, TRUE)
  <2>1. /\ work.plan = <<Do("remove", 1)>>
        /\ work.operation = "delete" /\ work.media = <<>> /\ work.errors = account.errors
    BY <1>2, <1>4 DEF About, OfChannel, Job
  <2> QED
    BY <1>1, <2>1, OneRequest
<1>5. CASE work = About(account, "edit", M!Edit(p), TRUE)
  <2>1. /\ work.plan = M!Edit(p)
        /\ work.operation = "edit" /\ work.media = <<>> /\ work.errors = account.errors
    BY <1>2, <1>5 DEF About, OfChannel, Job
  <2> QED
    BY <1>1, <2>1, MastodonEdits
<1>6. CASE work = About(account, "collect_analytics", M!GetAnalytics, TRUE)
  <2>1. /\ work.plan = <<Do("metrics", 1), Try("followers", 0)>>
        /\ work.operation = "collect_analytics" /\ work.media = <<>> /\ work.errors = account.errors
    BY <1>2, <1>6 DEF About, OfChannel, Job
  <2> QED
    BY <1>1, <2>1, TwoRequests
<1> QED
  BY <1>3, <1>4, <1>5, <1>6 DEF MastodonWork

LEMMA BlueskyIsSound ==
  ASSUME NEW p, IsPost(p), NEW account, NEW work \in BlueskyWork(account, p)
  PROVE  Sound(work) /\ work.errors = account.errors
<1>1. {"validation_failed", "not_supported", "auth_failed"} \subseteq Codes \ (Retryable \cup {"plain"})
  BY DEF Codes, Retryable
<1>2. /\ B!Delete = <<Do("remove", 1)>>
      /\ B!Edit = <<Throw("not_supported")>>
      /\ B!GetAnalytics = <<Do("metrics", 1)>>
  BY DEF B!Delete, B!Edit, B!GetAnalytics, B!Guarded, B!Operations, B!Throw, B!Do, Throw, Do
<1>3. CASE work = Publishing(account, B!Publish(p), p, B!Takes)
  BY <1>3, Publishes, BlueskyPublishes DEF Publishing
<1>4. CASE work = About(account, "delete", B!Delete, TRUE)
  <2>1. /\ work.plan = <<Do("remove", 1)>>
        /\ work.operation = "delete" /\ work.media = <<>> /\ work.errors = account.errors
    BY <1>2, <1>4 DEF About, OfChannel, Job
  <2> QED
    BY <1>1, <2>1, OneRequest
<1>5. CASE work = About(account, "edit", B!Edit, TRUE)
  <2>1. /\ work.plan = <<Throw("not_supported")>>
        /\ work.operation = "edit" /\ work.media = <<>> /\ work.errors = account.errors
    BY <1>2, <1>5 DEF About, OfChannel, Job
  <2> QED
    BY <1>1, <2>1, OperationRefused
<1>6. CASE work = About(account, "collect_analytics", B!GetAnalytics, TRUE)
  <2>1. /\ work.plan = <<Do("metrics", 1)>>
        /\ work.operation = "collect_analytics" /\ work.media = <<>> /\ work.errors = account.errors
    BY <1>2, <1>6 DEF About, OfChannel, Job
  <2> QED
    BY <1>1, <2>1, OneRequest
<1> QED
  BY <1>3, <1>4, <1>5, <1>6 DEF BlueskyWork

LEMMA RedditIsSound ==
  ASSUME NEW p, IsPost(p), NEW account, NEW agent \in BOOLEAN, NEW work \in RedditWork(account, p, agent)
  PROVE  Sound(work) /\ work.errors = account.errors
<1>1. {"validation_failed", "not_supported", "auth_failed"} \subseteq Codes \ (Retryable \cup {"plain"})
  BY DEF Codes, Retryable
<1>2. /\ R!Delete(agent) \in {<<Do("remove", 1)>>, <<Throw("auth_failed")>>}
      /\ R!Edit(p, agent) \in {<<Do("update", 1)>>, <<Throw("auth_failed")>>, <<Throw("validation_failed")>>}
      /\ R!GetAnalytics(agent) \in {<<Do("metrics", 1)>>, <<Throw("auth_failed")>>}
  BY DEF R!Delete, R!Edit, R!GetAnalytics, R!Validated, R!WithAgent, R!Throw, R!Do, Throw, Do
<1>3. CASE work = Publishing(account, R!Publish(p, agent), p, R!Takes)
  BY <1>3, Publishes, RedditPublishes DEF Publishing
<1>4. CASE work = About(account, "delete", R!Delete(agent), TRUE)
  <2>1. /\ work.plan = <<Do("remove", 1)>> \/ work.plan = <<Throw("auth_failed")>>
        /\ work.operation = "delete" /\ work.media = <<>> /\ work.errors = account.errors
    BY <1>2, <1>4 DEF About, OfChannel, Job
  <2> QED
    BY <1>1, <2>1, OneRequest, OperationRefused
<1>5. CASE work = About(account, "edit", R!Edit(p, agent), TRUE)
  <2>1. /\ work.plan = <<Do("update", 1)>> \/ work.plan = <<Throw("auth_failed")>> \/ work.plan = <<Throw("validation_failed")>>
        /\ work.operation = "edit" /\ work.media = <<>> /\ work.errors = account.errors
    BY <1>2, <1>5 DEF About, OfChannel, Job
  <2> QED
    BY <1>1, <2>1, OneRequest, OperationRefused
<1>6. CASE work = About(account, "collect_analytics", R!GetAnalytics(agent), TRUE)
  <2>1. /\ work.plan = <<Do("metrics", 1)>> \/ work.plan = <<Throw("auth_failed")>>
        /\ work.operation = "collect_analytics" /\ work.media = <<>> /\ work.errors = account.errors
    BY <1>2, <1>6 DEF About, OfChannel, Job
  <2> QED
    BY <1>1, <2>1, OneRequest, OperationRefused
<1> QED
  BY <1>3, <1>4, <1>5, <1>6 DEF RedditWork

LEMMA TwitchIsSound ==
  ASSUME NEW p, IsPost(p), NEW account, NEW work \in TwitchWork(account, p)
  PROVE  Sound(work) /\ work.errors = account.errors
<1>1. {"validation_failed", "not_supported", "auth_failed"} \subseteq Codes \ (Retryable \cup {"plain"})
  BY DEF Codes, Retryable
<1>2. /\ T!Publish(p) \in {<<Do("validate", 0), Do("channel", 1)>>, <<Throw("validation_failed")>>}
      /\ T!Edit(p) \in {<<Do("validate", 0), Do("channel", 1)>>, <<Throw("validation_failed")>>}
      /\ T!Delete = <<Throw("not_supported")>>
      /\ T!GetAnalytics = <<Do("metrics", 1), Try("followers", 0)>>
  BY DEF T!Publish, T!Edit, T!UpdateChannel, T!Validated, T!Delete, T!GetAnalytics, T!Guarded, T!Operations,
     T!Throw, T!Do, T!Try, Throw, Do, Try
<1>3. CASE work = OfChannel(account, "publish", T!Publish(p), T!Takes(p))
  <2>1. /\ work.plan = <<Do("validate", 0), Do("channel", 1)>> \/ work.plan = <<Throw("validation_failed")>>
        /\ work.operation = "publish" /\ work.media = <<>> /\ work.addressed = FALSE /\ work.errors = account.errors
    BY <1>2, <1>3 DEF About, OfChannel, Job
  <2> QED
    BY <1>1, <2>1, TwoRequests, OperationRefused
<1>4. CASE work = OfChannel(account, "edit", T!Edit(p), T!Takes(p))
  <2>1. /\ work.plan = <<Do("validate", 0), Do("channel", 1)>> \/ work.plan = <<Throw("validation_failed")>>
        /\ work.operation = "edit" /\ work.media = <<>> /\ work.errors = account.errors
    BY <1>2, <1>4 DEF About, OfChannel, Job
  <2> QED
    BY <1>1, <2>1, TwoRequests, OperationRefused
<1>5. CASE work = About(account, "delete", T!Delete, TRUE)
  <2>1. /\ work.plan = <<Throw("not_supported")>>
        /\ work.operation = "delete" /\ work.media = <<>> /\ work.errors = account.errors
    BY <1>2, <1>5 DEF About, OfChannel, Job
  <2> QED
    BY <1>1, <2>1, OperationRefused
<1>6. CASE work = OfChannel(account, "collect_analytics", T!GetAnalytics, TRUE)
  <2>1. /\ work.plan = <<Do("metrics", 1), Try("followers", 0)>>
        /\ work.operation = "collect_analytics" /\ work.media = <<>> /\ work.errors = account.errors
    BY <1>2, <1>6 DEF About, OfChannel, Job
  <2> QED
    BY <1>1, <2>1, TwoRequests
<1> QED
  BY <1>3, <1>4, <1>5, <1>6 DEF TwitchWork

\* Whatever a client is answered, it makes one of the errors of errors.ts of it, or the
\* request has no such answer.
LEMMA DiscordErrors ==
  ASSUME NEW call \in Requests, NEW a \in Answers \ {"ok"}
  PROVE  ErrorsOf(D!Failure)[call][a] \in Codes \cup {"none"}
BY DEF ErrorsOf, Requests, Answers, Codes, D!Failure, D!Errors

LEMMA MastodonErrors ==
  ASSUME NEW call \in Requests, NEW a \in Answers \ {"ok"}
  PROVE  ErrorsOf(M!Failure)[call][a] \in Codes \cup {"none"}
BY DEF ErrorsOf, Requests, Answers, Codes, M!Failure, M!Errors

LEMMA BlueskyErrors ==
  ASSUME NEW call \in Requests, NEW a \in Answers \ {"ok"}
  PROVE  ErrorsOf(B!Failure)[call][a] \in Codes \cup {"none"}
BY DEF ErrorsOf, Requests, Answers, Codes, B!Failure, B!Errors

LEMMA RedditErrors ==
  ASSUME NEW call \in Requests, NEW a \in Answers \ {"ok"}
  PROVE  ErrorsOf(R!Failure)[call][a] \in Codes \cup {"none"}
BY DEF ErrorsOf, Requests, Answers, Codes, R!Failure, R!Errors, R!ApiErrors, R!TokenErrors

LEMMA TwitchErrors ==
  ASSUME NEW call \in Requests, NEW a \in Answers \ {"ok"}
  PROVE  ErrorsOf(T!Failure)[call][a] \in Codes \cup {"none"}
BY DEF ErrorsOf, Requests, Answers, Codes, T!Failure, T!Errors, T!TokenErrors, T!RefreshErrors, T!ValidateErrors,
   T!HelixErrors

\* Whatever a connector is given to publish, edit, delete or measure, it makes one change at
\* most, or the posts of a thread one after the other; it refuses for good before anything is
\* sent and never answers a refusal with an error that is retried; the files of a post come
\* right before it; and every failure of a request has a name in errors.ts or cannot happen.
THEOREM ConnectorsKeepContract ==
  ASSUME NEW work, OfConnector(work)
  PROVE  KeepsContract(work) /\ ErrorsAreKnown(work)
<1>1. PICK p, account :
        /\ IsPost(p)
        /\ \/ account.errors = ErrorsOf(D!Failure) /\ \E credential : work \in DiscordWork(account, p, credential)
           \/ account.errors = ErrorsOf(M!Failure) /\ work \in MastodonWork(account, p)
           \/ account.errors = ErrorsOf(B!Failure) /\ work \in BlueskyWork(account, p)
           \/ account.errors = ErrorsOf(R!Failure) /\ \E agent \in BOOLEAN : work \in RedditWork(account, p, agent)
           \/ account.errors = ErrorsOf(T!Failure) /\ work \in TwitchWork(account, p)
  BY DEF OfConnector
<1>2. Sound(work) /\ work.errors = account.errors
  BY <1>1, DiscordIsSound, MastodonIsSound, BlueskyIsSound, RedditIsSound, TwitchIsSound
<1>3. \A call \in Requests, a \in Answers \ {"ok"} : work.errors[call][a] \in Codes \cup {"none"}
  BY <1>1, <1>2, DiscordErrors, MastodonErrors, BlueskyErrors, RedditErrors, TwitchErrors
<1>4. "refresh" \in Requests
  BY DEF Requests
<1>5. ErrorsAreKnown(work)
  BY <1>2, <1>3, <1>4 DEF ErrorsAreKnown, Sound
<1> QED
  BY <1>2, <1>5 DEF Sound

-------------------------------------------------------------------------------
(* Deliveries *)

\* The assumption of all theorems here.
Contract == \A j \in Jobs : KeepsContract(Work[j])

Post == [item : Nat, parent : Nat, media : Nat]

Attempt == [at : Nat, try : Nat, last : Nat, media : Nat]

Typed ==
  /\ job \in Jobs /\ status \in {"pending", "running", "succeeded", "dead"}
  /\ attempts \in Nat /\ spent \in Nat /\ rows \in Nat
  /\ attempt \in Attempt /\ failure.own \in BOOLEAN
  /\ posts \in Seq(Post)
  /\ touched \in BOOLEAN /\ expired \in BOOLEAN /\ granted \in BOOLEAN /\ lost \in BOOLEAN

\* An attempt under way has passed calls only, and no error of the connector's own.
OnItsWay ==
  status = "running" =>
    attempt.at \in 1 .. Len(Plan) + 1 /\ \A k \in 1 .. attempt.at - 1 : Plan[k].call \notin Codes

-------------------------------------------------------------------------------
(* What steps have in common *)

\* The job stays the same, and the plan is one of calls.
LEMMA PlanIsSequence ==
  ASSUME DeliveryAssumption, job \in Jobs
  PROVE  /\ Len(Plan) \in Nat \ {0} /\ DOMAIN Plan = 1 .. Len(Plan)
         /\ \A i \in DOMAIN Plan : Plan[i].item \in Nat /\ Plan[i].caught \in BOOLEAN
<1> DEFINE Recorded == [call : STRING, item : Nat, caught : BOOLEAN]
<1>1. Plan \in Seq(Recorded) /\ Plan # <<>>
  BY DEF DeliveryAssumption, Plan
<1>2. \A c \in Recorded : c.item \in Nat /\ c.caught \in BOOLEAN
  OBVIOUS
<1> HIDE DEF Recorded
<1> QED
  BY <1>1, <1>2

\* An attempt as it begins, and as a new try and a call that is passed change it
LEMMA Beginning ==
  /\ Begin \in Attempt /\ Begin.at = 1 /\ Begin.last = 0 /\ Begin.media = 0
  /\ NoAttempt \in Attempt
<1>1. NoAttempt \in Attempt /\ NoAttempt.last = 0 /\ NoAttempt.media = 0
  BY DEF NoAttempt, Attempt
<1>2. Begin = [f \in DOMAIN NoAttempt |-> IF f = "try" THEN 1 ELSE IF f = "at" THEN 1 ELSE NoAttempt[f]]
  BY <1>1 DEF Begin, Attempt
<1>3. Begin = [at |-> 1, try |-> 1, last |-> 0, media |-> 0]
  BY <1>1, <1>2 DEF Attempt
<1> QED
  BY <1>1, <1>3 DEF Attempt

LEMMA Retrying ==
  ASSUME NEW u \in Attempt, NEW v, v = [u EXCEPT !.at = 1, !.try = @ + 1]
  PROVE  v \in Attempt /\ v.at = 1 /\ v.last = u.last /\ v.media = u.media
<1>1. v = [f \in DOMAIN u |-> IF f = "try" THEN u.try + 1 ELSE IF f = "at" THEN 1 ELSE u[f]]
  BY DEF Attempt
<1>2. v = [at |-> 1, try |-> u.try + 1, last |-> u.last, media |-> u.media]
  BY <1>1 DEF Attempt
<1> QED
  BY <1>2 DEF Attempt

LEMMA Advancing ==
  ASSUME Typed, Advance
  PROVE  /\ attempt' \in Attempt /\ attempt'.at = attempt.at + 1
         /\ attempt'.last = IF Call.call = "post" THEN Len(posts) + 1 ELSE attempt.last
         /\ attempt'.media = IF Call.call = "post" THEN 0
                             ELSE IF Call.call \in {"read", "upload"} THEN attempt.media + 1
                             ELSE attempt.media
<1> DEFINE last == IF Call.call = "post" THEN Len(posts) + 1 ELSE attempt.last
           media == IF Call.call = "post" THEN 0
                    ELSE IF Call.call \in {"read", "upload"} THEN attempt.media + 1
                    ELSE attempt.media
<1>1. attempt \in Attempt /\ last \in Nat /\ media \in Nat
  BY DEF Typed, Attempt
<1>2. attempt' = [attempt EXCEPT !.at = @ + 1, !.last = last, !.media = media]
  BY DEF Advance
<1> HIDE DEF last, media
<1>3. attempt' = [f \in DOMAIN attempt |-> IF f = "media" THEN media ELSE IF f = "last" THEN last
                                          ELSE IF f = "at" THEN attempt.at + 1 ELSE attempt[f]]
  BY <1>1, <1>2 DEF Attempt
<1>4. attempt' = [at |-> attempt.at + 1, try |-> attempt.try, last |-> last, media |-> media]
  BY <1>1, <1>3 DEF Attempt
<1>5. attempt' \in Attempt /\ attempt'.at = attempt.at + 1 /\ attempt'.last = last
      /\ attempt'.media = media
  BY <1>1, <1>4 DEF Attempt
<1> QED
  BY <1>5 DEF last, media

\* What the answer to a call leads to
Passes ==
  /\ Advance
  /\ UNCHANGED <<status, attempts, failure>>

Retries ==
  /\ Collects
  /\ attempt' \in Attempt /\ attempt'.at = 1
  /\ UNCHANGED <<status, attempts, failure>>

EndsAttempt(own) ==
  /\ attempts' = attempts + 1 /\ attempt' = NoAttempt
  /\ status' \in {"pending", "dead"} /\ failure'.own = own

\* A failure leads to another try, to another attempt or to the dead letter queue.
LEMMA Failing ==
  ASSUME Typed, NEW code, NEW own \in BOOLEAN, Fail(code, own)
  PROVE  \/ Retries /\ code \in Retryable
         \/ /\ EndsAttempt(own) /\ failure'.code = code
            /\ code \notin Retryable /\ ~(Collects /\ code = "plain") => status' = "dead"
<1>1. CASE Again(code)
  BY <1>1, Retrying DEF Fail, Again, Typed, Retries
<1>2. CASE ~Again(code)
  <2>1. GiveUp(code, own, code \in Retryable \/ (Collects /\ code = "plain"))
    BY <1>2 DEF Fail
  <2>2. failure' = [code |-> code, own |-> own]
    BY <2>1 DEF GiveUp
  <2>3. failure'.own = own /\ failure'.code = code
    BY <2>2
  <2> QED
    BY <2>1, <2>3 DEF GiveUp, EndsAttempt
<1> QED
  BY <1>1, <1>2

\* Every step but a call leaves the platform alone, or only takes the post away.
LEMMA StepsTyped ==
  ASSUME DeliveryAssumption, Typed, OnItsWay, [Next]_vars
  PROVE  Typed' /\ OnItsWay' /\ job' = job
<1>1. UNCHANGED job
  BY DEF Next, Deliver, Start, StartRefreshing, Request, Refuse, Finish, SnapshotFails, TokenExpires,
     AccessRevoked, PostTakenDown, vars
<1>2. Plan' = Plan /\ Collects' = Collects
  BY <1>1 DEF Plan, Collects
<1>5. Len(Plan) \in Nat /\ DOMAIN Plan = 1 .. Len(Plan)
  BY PlanIsSequence DEF Typed
<1>6. ASSUME NEW code, NEW own \in BOOLEAN, Fail(code, own), status = "running",
             UNCHANGED <<job, rows, expired, granted>>, posts' \in Seq(Post), spent' \in Nat,
             touched' \in BOOLEAN, lost' \in BOOLEAN
      PROVE  Typed' /\ OnItsWay'
  <2>1. CASE EndsAttempt(own)
    BY Beginning, <1>6, <2>1 DEF Typed, OnItsWay, EndsAttempt
  <2>2. CASE Retries
    BY <1>2, <1>5, <1>6, <2>2 DEF Typed, OnItsWay, Retries
  <2> QED
    BY <1>6, <2>1, <2>2, Failing
<1>7. CASE Start
  BY <1>2, Beginning, <1>5, <1>7 DEF Start, Typed, OnItsWay
<1>8. ASSUME NEW a \in Answers, StartRefreshing(a)
      PROVE  Typed' /\ OnItsWay'
  <2>1. spent' \in Nat
    BY <1>8 DEF StartRefreshing, Spend, Typed
  <2>2. CASE a = "ok"
    <3>1. /\ expired' = FALSE /\ status' = "running" /\ attempt' = Begin
          /\ UNCHANGED <<job, attempts, failure, posts, touched, rows, granted, lost>>
      BY <1>8, <2>2 DEF StartRefreshing
    <3>2. Typed'
      BY Beginning, <2>1, <3>1 DEF Typed
    <3> QED
      BY <1>2, <1>5, Beginning, <3>1, <3>2 DEF OnItsWay
  <2>3. CASE a # "ok"
    <3>1. PICK code, retryable : GiveUp(code, FALSE, retryable)
      BY <1>8, <2>3 DEF StartRefreshing
    <3>2. attempts' = attempts + 1 /\ attempt' = NoAttempt /\ status' \in {"pending", "dead"}
          /\ failure' = [code |-> code, own |-> FALSE]
      BY <3>1 DEF GiveUp
    <3>3. UNCHANGED <<job, posts, touched, rows, expired, granted, lost>>
      BY <1>8, <2>3 DEF StartRefreshing
    <3> QED
      BY Beginning, <2>1, <3>2, <3>3 DEF Typed, OnItsWay
  <2> QED
    BY <2>2, <2>3
<1>9. ASSUME NEW a \in Answers, Request(a)
      PROVE  Typed' /\ OnItsWay'
  <2>1. /\ status = "running" /\ attempt.at \in DOMAIN Plan /\ Call.call \notin Codes
        /\ UNCHANGED <<job, rows, expired, granted>>
    BY <1>9 DEF Request, Underway
  <2>2. spent' \in Nat /\ lost' \in BOOLEAN /\ touched' \in BOOLEAN
    <3>1. spent' \in Nat
      BY <1>9 DEF Request, Spend, Typed
    <3>2. lost' \in BOOLEAN
      BY Zenon, <1>9 DEF Request, Typed
    <3>3. touched' \in BOOLEAN
      BY Zenon, <1>9 DEF Request, Happens, Typed
    <3> QED
      BY <3>1, <3>2, <3>3
  <2>3. Call.item \in Nat
    BY <2>1, PlanIsSequence DEF Call, Typed
  <2>4. posts' \in Seq(Post)
    <3> DEFINE p == [item |-> Call.item, parent |-> attempt.last, media |-> attempt.media]
    <3>1. p \in Post
      BY <2>3 DEF Post, Typed, Attempt
    <3>2. posts' \in {Append(posts, p), <<>>, posts}
      BY <1>9 DEF Request, Happens
    <3>3. posts \in Seq(Post)
      BY DEF Typed
    <3> HIDE DEF p
    <3>4. Append(posts, p) \in Seq(Post) /\ <<>> \in Seq(Post)
      BY <3>1, <3>3
    <3> QED
      BY <3>2, <3>3, <3>4
  <2>5. CASE Advance /\ UNCHANGED <<status, attempts, failure>>
    <3>1. attempt' \in Attempt /\ attempt'.at = attempt.at + 1
      BY <2>5, Advancing
    <3>2. attempt'.at \in 1 .. Len(Plan) + 1
          /\ \A k \in 1 .. attempt'.at - 1 : k \in 1 .. attempt.at - 1 \/ k = attempt.at
      BY <1>5, <2>1, <3>1 DEF Typed
    <3>3. \A k \in 1 .. attempt'.at - 1 : Plan[k].call \notin Codes
      BY <2>1, <3>2 DEF OnItsWay, Call
    <3> QED
      BY <1>2, <2>1, <2>2, <2>4, <2>5, <3>1, <3>2, <3>3 DEF Typed, OnItsWay
  <2>6. CASE \E code : Fail(code, FALSE)
    BY <1>6, <2>1, <2>2, <2>4, <2>6
  <2> QED
    BY <1>9, <2>5, <2>6 DEF Request
<1>10. CASE Refuse
  <2>1. CASE Succeed
    BY Beginning, <1>10, <2>1 DEF Refuse, Succeed, Typed, OnItsWay
  <2>2. CASE \E code : Fail(code, TRUE)
    BY <1>6, <1>10, <2>2 DEF Refuse, Underway, Typed
  <2> QED
    BY <1>10, <2>1, <2>2 DEF Refuse
<1>11. CASE Finish
  BY Beginning, <1>11 DEF Finish, Succeed, Typed, OnItsWay
<1>12. CASE SnapshotFails
  <2>1. /\ Fail("plain", FALSE) /\ status = "running" /\ spent' = spent + 1
        /\ UNCHANGED <<job, posts, touched, rows, expired, granted, lost>>
    BY <1>12 DEF SnapshotFails
  <2>2. posts' \in Seq(Post) /\ spent' \in Nat /\ touched' \in BOOLEAN /\ lost' \in BOOLEAN
    BY <2>1 DEF Typed
  <2> QED
    BY <1>6, <2>1, <2>2
<1>13. CASE TokenExpires \/ AccessRevoked \/ PostTakenDown \/ UNCHANGED vars
  <2>1. UNCHANGED <<status, attempts, attempt, failure, touched, rows, lost>>
    BY <1>13 DEF TokenExpires, AccessRevoked, PostTakenDown, vars
  <2>2. /\ (spent' = spent \/ spent' = spent + 1) /\ (expired' = expired \/ expired' = TRUE)
        /\ (granted' = granted \/ granted' = FALSE) /\ (posts' = posts \/ posts' = <<>>)
        /\ UNCHANGED job
    BY <1>13 DEF TokenExpires, AccessRevoked, PostTakenDown, vars
  <2>3. spent' \in Nat
    BY <2>2 DEF Typed
  <2>4. posts' \in Seq(Post)
    <3>1. <<>> \in Seq(Post)
      OBVIOUS
    <3> QED
      BY Zenon, <2>2, <3>1 DEF Typed
  <2>5. expired' \in BOOLEAN /\ granted' \in BOOLEAN
    BY Zenon, <2>2 DEF Typed
  <2> QED
    BY <1>1, <1>2, <2>1, <2>3, <2>4, <2>5 DEF Typed, OnItsWay
<1> QED
  BY <1>1, <1>7, <1>8, <1>9, <1>10, <1>11, <1>12, <1>13 DEF Next, Deliver

LEMMA StartTyped ==
  ASSUME Init
  PROVE  Typed /\ OnItsWay
<1>1. posts \in Seq(Post)
  <2>1. [item |-> 1, parent |-> 0, media |-> 0] \in Post
    BY DEF Post
  <2> QED
    BY <2>1 DEF Init
<1>2. failure.own = FALSE
  BY DEF Init, NoFailure
<1> QED
  BY <1>1, <1>2, Beginning DEF Init, Typed, OnItsWay

\* What is over stays as it is.
LEMMA Over ==
  ASSUME [Next]_vars, status \notin {"pending", "running"}
  PROVE  UNCHANGED vars
BY DEF Next, Deliver, Start, StartRefreshing, Request, Refuse, Finish, SnapshotFails, TokenExpires,
   AccessRevoked, PostTakenDown, Underway, Open

LEMMA Answered ==
  ASSUME DeliveryAssumption, Typed, OnItsWay, NEW a \in Answers, Request(a)
  PROVE  /\ status = "running" /\ attempt.at \in DOMAIN Plan /\ Call.call \notin Codes
         /\ \A k \in 1 .. attempt.at - 1 : Plan[k].call \notin Codes
         /\ UNCHANGED <<job, rows, expired, granted>>
         /\ \/ (a = "ok" \/ Call.caught) /\ Passes
            \/ a # "ok" /\ ~Call.caught /\ (Retries \/ EndsAttempt(FALSE))
<1>1. /\ status = "running" /\ attempt.at \in DOMAIN Plan /\ Call.call \notin Codes
      /\ \A k \in 1 .. attempt.at - 1 : Plan[k].call \notin Codes
      /\ UNCHANGED <<job, rows, expired, granted>>
  BY DEF Request, Underway, OnItsWay
<1>2. CASE a = "ok" \/ Call.caught
  BY <1>1, <1>2 DEF Request, Passes
<1>3. CASE a # "ok" /\ ~Call.caught
  <2>1. PICK code : Fail(code, FALSE)
    BY <1>3 DEF Request
  <2>2. Retries \/ EndsAttempt(FALSE)
    BY <2>1, Failing
  <2> QED
    BY <1>1, <1>3, <2>2
<1> QED
  BY <1>2, <1>3

\* The error of a connector ends the delivery.
LEMMA Refused ==
  ASSUME DeliveryAssumption, Contract, Typed, OnItsWay, Refuse
  PROVE  /\ status = "running" /\ attempt.at \in DOMAIN Plan /\ Call.call \in Codes
         /\ UNCHANGED <<job, posts, touched, rows, expired, granted, lost, spent>>
         /\ \/ Collects /\ attempt.at = 1 /\ Call.call = "not_supported" /\ Succeed
            \/ status' = "dead" /\ failure'.own = TRUE /\ failure'.code = Call.call
<1>1. /\ status = "running" /\ attempt.at \in DOMAIN Plan /\ Call.call \in Codes
      /\ UNCHANGED <<job, posts, touched, rows, expired, granted, lost, spent>>
  BY DEF Refuse, Underway
<1>2. /\ Call.call \notin Retryable
      /\ Collects => Call.call # "plain" /\ (Call.call = "not_supported" => attempt.at = 1)
  BY <1>1 DEF Contract, KeepsContract, RefusesForGood, Call, Plan, Collects, Typed
<1>3. CASE Collects /\ Call.call = "not_supported"
  BY <1>1, <1>2, <1>3 DEF Refuse
<1>4. CASE ~(Collects /\ Call.call = "not_supported")
  <2>1. Fail(Call.call, TRUE)
    BY <1>4 DEF Refuse
  <2>2. failure'.code = Call.call /\ failure'.own = TRUE /\ status' = "dead"
    BY <1>2, <2>1, Failing DEF EndsAttempt
  <2> QED
    BY <1>1, <2>2
<1> QED
  BY <1>3, <1>4

-------------------------------------------------------------------------------
(* Refusals come first *)

Refuses == \E k \in DOMAIN Plan : Plan[k].call \in Codes \ {"plain"} /\ Reached(Work[job], k)

\* A call that is made comes before the error the plan ends in.
RefusalInv ==
  /\ Refuses => ~touched
  /\ failure.own /\ failure.code # "plain" => Refuses

LEMMA RefusalNext ==
  ASSUME DeliveryAssumption, Contract, Typed, OnItsWay, RefusalInv, [Next]_vars
  PROVE  RefusalInv'
<1>1. job' = job /\ Refuses' = Refuses
  BY StepsTyped DEF Refuses, Plan, Reached
<1>2. ASSUME UNCHANGED <<touched, failure>>
      PROVE  RefusalInv'
  BY <1>1, <1>2 DEF RefusalInv
<1>3. ASSUME NEW a \in Answers, StartRefreshing(a)
      PROVE  RefusalInv'
  <2>1. touched' = touched /\ (failure' = failure \/ failure'.own = FALSE)
    BY <1>3 DEF StartRefreshing, GiveUp
  <2> QED
    BY <1>1, <2>1 DEF RefusalInv
<1>4. ASSUME NEW a \in Answers, Request(a)
      PROVE  RefusalInv'
  <2>1. failure' = failure \/ failure'.own = FALSE
    BY <1>4, Answered DEF Passes, Retries, EndsAttempt
  <2>2. ASSUME Refuses
        PROVE  touched' = touched
    <3>1. PICK k \in DOMAIN Plan : Plan[k].call \in Codes \ {"plain"} /\ Reached(Work[job], k)
      BY <2>2 DEF Refuses
    <3>2. /\ attempt.at \in DOMAIN Plan /\ Plan[attempt.at].call \notin Codes
          /\ \A l \in 1 .. attempt.at - 1 : Plan[l].call \notin Codes
      BY <1>4, Answered DEF Call
    <3>3. DOMAIN Plan = 1 .. Len(Plan) /\ Len(Plan) \in Nat
      BY PlanIsSequence DEF Typed
    <3>4. attempt.at < k
      BY <3>1, <3>2, <3>3
    <3>5. Call.call \notin Changes
      BY <3>1, <3>2, <3>4 DEF Contract, KeepsContract, RefusesFirst, Typed, Plan, Call
    <3> QED
      BY <1>4, <3>5 DEF Request, Happens, Changes, Writes, Typed
  <2> QED
    BY <1>1, <2>1, <2>2 DEF RefusalInv
<1>5. CASE Refuse
  <2>1. CASE Succeed
    BY <1>2, <1>5, <2>1, Refused DEF Succeed
  <2>2. CASE failure'.code = Call.call
    <3>1. /\ attempt.at \in DOMAIN Plan /\ Call.call \in Codes /\ touched' = touched
          /\ Reached(Work[job], attempt.at)
      BY <1>5, Refused DEF OnItsWay, Reached, Plan
    <3>2. failure'.code # "plain" => Refuses
      BY <2>2, <3>1 DEF Refuses, Call
    <3> QED
      BY <1>1, <3>1, <3>2 DEF RefusalInv
  <2> QED
    BY <1>5, <2>1, <2>2, Refused
<1>6. CASE SnapshotFails
  <2>1. touched' = touched /\ (failure' = failure \/ failure'.own = FALSE)
    BY <1>6, Failing DEF SnapshotFails, Retries, EndsAttempt
  <2> QED
    BY <1>1, <2>1 DEF RefusalInv
<1> QED
  BY <1>2, <1>3, <1>4, <1>5, <1>6 DEF Next, Deliver, Start, Finish, Succeed, TokenExpires,
     AccessRevoked, PostTakenDown, vars

(***************************************************************************)
(* A connector that refuses a job does so before the job has changed       *)
(* anything on the platform, in this attempt or an earlier one.            *)
(***************************************************************************)
THEOREM RefusalsComeFirstCorrect ==
  ASSUME Contract
  PROVE  Spec => []RefusalsComeFirst
<1> DEFINE Inv == Typed /\ OnItsWay /\ RefusalInv
<1>1. Init => Inv
  <2> SUFFICES ASSUME Init PROVE Inv
    OBVIOUS
  <2>1. touched = FALSE /\ failure.own = FALSE
    BY DEF Init, NoFailure
  <2> QED
    BY <2>1, StartTyped DEF RefusalInv
<1>2. Inv /\ [Next]_vars => Inv'
  BY StepsTyped, RefusalNext, DeliveryAssumption
<1>3. Inv => RefusalsComeFirst
  BY DEF RefusalInv, RefusalsComeFirst
<1> QED
  BY <1>1, <1>2, <1>3, PTL DEF Spec

-------------------------------------------------------------------------------
(* Copies come from lost answers *)

\* The one post is what the attempt ends with.
CopiesInv ==
  Alone /\ ~lost /\ ~Work[job].addressed =>
    /\ Len(posts) <= 1
    /\ posts # <<>> => \/ status = "succeeded"
                       \/ status = "running" /\ attempt.at = Len(Plan) + 1

LEMMA CopiesNext ==
  ASSUME DeliveryAssumption, Contract, Typed, OnItsWay, CopiesInv, [Next]_vars
  PROVE  CopiesInv'
<1> SUFFICES ASSUME Alone', lost' = FALSE, ~Work[job'].addressed
             PROVE  /\ Len(posts') <= 1
                    /\ posts' # <<>> => \/ status' = "succeeded"
                                        \/ status' = "running" /\ attempt'.at = Len(Plan') + 1
  BY StepsTyped DEF CopiesInv, Typed
<1>1. job' = job /\ Plan' = Plan
  BY StepsTyped DEF Plan
<1>2. Alone /\ ~Work[job].addressed
  BY <1>1 DEF Alone
<1>3. ~Collects /\ \A i \in DOMAIN Plan : Plan[i].call = "post" => i = Len(Plan)
  BY <1>2 DEF Contract, KeepsContract, PostsLast, Single, Alone, Collects, Plan, Typed
<1>4. lost = FALSE
  BY DEF Next, Deliver, Start, StartRefreshing, Request, Refuse, Finish, SnapshotFails, TokenExpires,
     AccessRevoked, PostTakenDown, vars, Typed
<1>5. /\ Len(posts) <= 1
      /\ posts # <<>> => status = "succeeded" \/ (status = "running" /\ attempt.at = Len(Plan) + 1)
  BY <1>2, <1>4 DEF CopiesInv
<1>6. CASE UNCHANGED <<status, attempt, posts>>
  BY <1>1, <1>5, <1>6
<1>7. CASE status = "pending" /\ posts' = posts
  BY <1>5, <1>7
<1>8. ASSUME NEW a \in Answers, Request(a)
      PROVE  /\ Len(posts') <= 1
             /\ posts' # <<>> => status' = "running" /\ attempt'.at = Len(Plan) + 1
  <2>1. status = "running" /\ attempt.at \in DOMAIN Plan /\ a # "lost"
    BY <1>8, Answered DEF Request
  <2>2. posts = <<>>
    BY <1>5, <2>1, PlanIsSequence DEF Typed
  <2>3. CASE Call.call = "post" /\ a = "ok"
    <3>1. attempt.at = Len(Plan) /\ Advance /\ status' = status
      BY <1>3, <1>8, <2>1, <2>3, Answered DEF Call, Passes
    <3>2. attempt'.at = Len(Plan) + 1
      BY <3>1, Advancing
    <3>3. \E p : posts' = Append(<<>>, p)
      BY <1>8, <2>2, <2>3 DEF Request, Happens
    <3>4. Len(posts') = 1
      BY <3>3
    <3> QED
      BY <2>1, <3>1, <3>2, <3>4
  <2>4. CASE ~(Call.call = "post" /\ a = "ok")
    <3>1. posts' = <<>>
      BY <1>8, <2>1, <2>2, <2>4 DEF Request, Happens
    <3> QED
      BY <3>1
  <2> QED
    BY <2>3, <2>4
<1>9. CASE Refuse
  <2>1. posts' = posts /\ status = "running" /\ attempt.at \in DOMAIN Plan
    BY <1>9, Refused
  <2>2. posts = <<>>
    BY <1>5, <2>1, PlanIsSequence DEF Typed
  <2> QED
    BY <1>5, <2>1, <2>2
<1>10. CASE Finish
  BY <1>5, <1>10 DEF Finish, Succeed
<1>11. CASE SnapshotFails
  BY <1>3, <1>11 DEF SnapshotFails
<1>12. CASE PostTakenDown
  BY <1>2, <1>12 DEF PostTakenDown
<1> QED
  BY <1>1, <1>6, <1>7, <1>8, <1>9, <1>10, <1>11, <1>12 DEF Next, Deliver, Start, StartRefreshing,
     TokenExpires, AccessRevoked, vars

(***************************************************************************)
(* A single post that opens no thread is there twice only if the answer to *)
(* the call that made it was lost, however many attempts there were.       *)
(***************************************************************************)
THEOREM CopiesComeFromLostAnswersCorrect ==
  ASSUME Contract
  PROVE  Spec => []CopiesComeFromLostAnswers
<1> DEFINE Inv == Typed /\ OnItsWay /\ CopiesInv
<1>1. Init => Inv
  <2> SUFFICES ASSUME Init PROVE Inv
    OBVIOUS
  <2>1. ~Work[job].addressed => posts = <<>>
    BY DEF Init
  <2> QED
    BY <2>1, StartTyped DEF CopiesInv
<1>2. Inv /\ [Next]_vars => Inv'
  BY StepsTyped, CopiesNext, DeliveryAssumption
<1>3. Inv => CopiesComeFromLostAnswers
  BY DEF CopiesInv, CopiesComeFromLostAnswers
<1> QED
  BY <1>1, <1>2, <1>3, PTL DEF Spec

-------------------------------------------------------------------------------
(* Failures have causes *)

\* Every failed attempt has a fault of its own, and a token that has run out under the
\* one that is under way one that no attempt has failed of.
CausesInv ==
  /\ expired => Work[job].life # "endless"
  /\ failure.own => status = "dead"
  /\ \/ Hopeless
     \/ failure.own
     \/ attempts <= spent /\ (status = "running" /\ expired => attempts < spent)

\* What makes a delivery hopeless stays.
LEMMA HopelessStays ==
  ASSUME DeliveryAssumption, Contract, Typed, OnItsWay, [Next]_vars, Hopeless
  PROVE  Hopeless'
<1>1. job' = job
  BY StepsTyped
<1>2. CASE ~granted
  <2>1. granted' = granted \/ granted' = FALSE
    BY DEF Next, Deliver, Start, StartRefreshing, Request, Refuse, Finish, SnapshotFails, TokenExpires,
       AccessRevoked, PostTakenDown, vars
  <2> QED
    BY <1>2, <2>1 DEF Hopeless
<1>3. CASE Work[job].addressed /\ posts = <<>>
  <2>1. \A i \in DOMAIN Plan : Plan[i].call # "post"
    BY <1>3 DEF Contract, KeepsContract, MakesItsChange, Plan, Typed
  <2>2. ASSUME NEW a \in Answers, Request(a)
        PROVE  posts' = <<>>
    <3>1. Call.call # "post"
      BY <2>1, <2>2, Answered DEF Call
    <3> QED
      BY <1>3, <2>2, <3>1 DEF Request, Happens
  <2>3. posts' = <<>>
    BY <1>3, <2>2 DEF Next, Deliver, Start, StartRefreshing, Refuse, Finish, SnapshotFails,
       TokenExpires, AccessRevoked, PostTakenDown, vars
  <2> QED
    BY <1>1, <1>3, <2>3 DEF Hopeless
<1>4. CASE ~Work[job].taken
  BY <1>1, <1>4 DEF Hopeless
<1>5. CASE expired /\ Work[job].life = "unknown"
  <2>1. expired' = expired
    BY <1>5 DEF Next, Deliver, Start, StartRefreshing, Due, Request, Refuse, Finish, SnapshotFails,
       TokenExpires, AccessRevoked, PostTakenDown, vars
  <2> QED
    BY <1>1, <1>5, <2>1 DEF Hopeless
<1> QED
  BY <1>2, <1>3, <1>4, <1>5 DEF Hopeless

LEMMA CausesNext ==
  ASSUME DeliveryAssumption, Contract, Typed, OnItsWay, CausesInv, [Next]_vars
  PROVE  CausesInv'
<1>1. job' = job /\ (Hopeless => Hopeless')
  BY StepsTyped, HopelessStays
<1>2. CASE UNCHANGED <<status, attempts, failure, expired, spent>>
  BY <1>1, <1>2 DEF CausesInv
<1>3. CASE Start
  <2>1. status = "pending" /\ UNCHANGED <<attempts, failure, expired, spent>>
        /\ (expired => Work[job].life = "unknown")
    BY <1>3 DEF Start, Due, CausesInv, DeliveryAssumption, Typed
  <2>2. status' = "running"
    BY <1>3 DEF Start
  <2>3. expired => Hopeless
    BY <2>1 DEF Hopeless
  <2>4. ~failure.own
    BY <2>1 DEF CausesInv
  <2> QED
    BY <1>1, <2>1, <2>2, <2>3, <2>4 DEF CausesInv
<1>4. ASSUME NEW a \in Answers, StartRefreshing(a)
      PROVE  CausesInv'
  <2>1. status = "pending" /\ Due
    BY <1>4 DEF StartRefreshing
  <2>2. ~failure.own /\ (Hopeless \/ attempts <= spent) /\ Work[job].life # "endless"
    BY <2>1 DEF CausesInv, Due
  <2>3. CASE a = "ok"
    <3>1. expired' = FALSE /\ UNCHANGED <<attempts, failure, spent>>
      BY <1>4, <2>3 DEF StartRefreshing, Spend
    <3> QED
      BY <1>1, <2>2, <3>1 DEF CausesInv
  <2>4. CASE a # "ok"
    <3>1. /\ attempts' = attempts + 1 /\ status' \in {"pending", "dead"} /\ failure'.own = FALSE
          /\ expired' = expired
      BY <1>4, <2>4 DEF StartRefreshing, GiveUp
    <3>2. granted => spent' = spent + 1
      BY <1>4, <2>4 DEF StartRefreshing, Spend
    <3>3. ~granted => Hopeless
      BY DEF Hopeless
    <3> QED
      BY <1>1, <2>2, <3>1, <3>2, <3>3 DEF CausesInv, Typed
  <2> QED
    BY <2>3, <2>4
<1>5. ASSUME NEW a \in Answers, Request(a)
      PROVE  CausesInv'
  <2>1. status = "running" /\ expired' = expired
    BY <1>5, Answered
  <2>2. ~failure.own /\ (Hopeless \/ (attempts <= spent /\ (expired => attempts < spent)))
        /\ (expired => Work[job].life # "endless")
    BY <2>1 DEF CausesInv
  <2>3. spent' = spent \/ spent' = spent + 1
    BY <1>5 DEF Request, Spend
  <2>4. CASE UNCHANGED <<status, attempts, failure>>
    BY <1>1, <2>1, <2>2, <2>3, <2>4 DEF CausesInv, Typed
  <2>5. CASE EndsAttempt(FALSE) /\ a # "ok"
    <3>1. attempts' = attempts + 1 /\ status' \in {"pending", "dead"} /\ failure'.own = FALSE
      BY <2>5 DEF EndsAttempt
    <3>2. Forced = {} => spent' = spent + 1
      BY <1>5, <2>5 DEF Request, Spend
    <3>3. Forced # {} => expired \/ Hopeless
      BY DEF Forced, Hopeless
    <3> QED
      BY <1>1, <2>1, <2>2, <2>3, <3>1, <3>2, <3>3 DEF CausesInv, Typed
  <2> QED
    BY <1>5, <2>4, <2>5, Answered DEF Passes, Retries
<1>6. CASE Refuse
  <2>1. status = "running" /\ expired' = expired /\ spent' = spent
    BY <1>6, Refused
  <2>2. CASE Succeed
    BY <1>1, <2>1, <2>2 DEF Succeed, CausesInv
  <2>3. CASE status' = "dead" /\ failure'.own = TRUE
    BY <1>1, <2>1, <2>3 DEF CausesInv
  <2> QED
    BY <1>6, <2>2, <2>3, Refused
<1>7. CASE Finish
  BY <1>1, <1>7 DEF Finish, Succeed, CausesInv
<1>8. CASE SnapshotFails
  <2>1. status = "running" /\ spent' = spent + 1 /\ expired' = expired
    BY <1>8 DEF SnapshotFails
  <2>2. UNCHANGED <<status, attempts, failure>> \/ EndsAttempt(FALSE)
    BY <1>8, Failing DEF SnapshotFails, Retries
  <2> QED
    BY <1>1, <2>1, <2>2 DEF CausesInv, EndsAttempt, Typed
<1>9. CASE TokenExpires \/ AccessRevoked \/ PostTakenDown
  <2>1. /\ UNCHANGED <<status, attempts, failure>> /\ spent' = spent + 1
        /\ (expired' = expired \/ Work[job].life # "endless")
    BY <1>9 DEF TokenExpires, AccessRevoked, PostTakenDown
  <2> QED
    BY <1>1, <2>1 DEF CausesInv, Typed
<1> QED
  BY <1>2, <1>3, <1>4, <1>5, <1>6, <1>7, <1>8, <1>9 DEF Next, Deliver, vars

(***************************************************************************)
(* Unless no attempt can succeed, an attempt fails only of a fault that no *)
(* attempt before it has failed of.                                        *)
(***************************************************************************)
THEOREM FailuresHaveCausesCorrect ==
  ASSUME Contract
  PROVE  Spec => []FailuresHaveCauses
<1> DEFINE Inv == Typed /\ OnItsWay /\ CausesInv
<1>1. Init => Inv
  <2> SUFFICES ASSUME Init PROVE Inv
    OBVIOUS
  <2>1. expired = FALSE /\ failure.own = FALSE /\ attempts = 0 /\ spent = 0
    BY DEF Init, NoFailure
  <2> QED
    BY <2>1, StartTyped DEF CausesInv
<1>2. Inv /\ [Next]_vars => Inv'
  BY StepsTyped, CausesNext, DeliveryAssumption
<1>3. Inv => FailuresHaveCauses
  BY DEF CausesInv, FailuresHaveCauses
<1> QED
  BY <1>1, <1>2, <1>3, PTL DEF Spec

-------------------------------------------------------------------------------
(* Success is true *)

\* One call further, a post more is done or a medium more is carried.
LEMMA Counting ==
  ASSUME NEW plan, NEW i \in Nat \ {0}
  PROVE  /\ Done(plan, i) \in Nat /\ Carried(plan, i) \in Nat
         /\ Done(plan, 1) = 0 /\ Carried(plan, 1) = 0
         /\ Done(plan, i + 1) = IF plan[i].call = "post" THEN Done(plan, i) + 1 ELSE Done(plan, i)
         /\ Carried(plan, i + 1) = IF plan[i].call = "post" THEN 0
                                   ELSE IF plan[i].call \in {"read", "upload"} THEN Carried(plan, i) + 1
                                   ELSE Carried(plan, i)
<1>1. IsFiniteSet(Before(plan, i)) /\ IsFiniteSet(Brought(plan, i))
  <2>1. IsFiniteSet(1 .. i - 1)
    BY FS_Interval
  <2>2. Before(plan, i) \subseteq 1 .. i - 1 /\ Brought(plan, i) \subseteq 1 .. i - 1
    BY DEF Before, Brought
  <2> QED
    BY <2>1, <2>2, FS_Subset
<1>2. Done(plan, i) \in Nat /\ Carried(plan, i) \in Nat
  BY <1>1, FS_CardinalityType DEF Done, Carried
<1>3. Done(plan, 1) = 0 /\ Carried(plan, 1) = 0
  <2>1. Before(plan, 1) = {} /\ Brought(plan, 1) = {}
    BY DEF Before, Brought
  <2> QED
    BY <2>1, FS_EmptySet DEF Done, Carried
<1>4. i \notin Before(plan, i) /\ i \notin Brought(plan, i)
  BY DEF Before, Brought
<1>5. CASE plan[i].call = "post"
  <2>1. Before(plan, i + 1) = Before(plan, i) \cup {i}
    BY <1>5 DEF Before
  <2>2. Brought(plan, i + 1) = {}
    BY <1>5 DEF Brought
  <2> QED
    <3>1. Done(plan, i + 1) = Done(plan, i) + 1
      BY <1>1, <1>4, <2>1, FS_AddElement DEF Done
    <3>2. Carried(plan, i + 1) = 0
      BY <2>2, FS_EmptySet DEF Carried
    <3> QED
      BY <1>2, <1>3, <1>5, <3>1, <3>2
<1>6. CASE plan[i].call # "post"
  <2>1. Before(plan, i + 1) = Before(plan, i)
    BY <1>6 DEF Before
  <2>2. CASE plan[i].call \in {"read", "upload"}
    <3>1. Brought(plan, i + 1) = Brought(plan, i) \cup {i}
      BY <1>6, <2>2 DEF Brought
    <3> QED
      BY <1>1, <1>2, <1>3, <1>4, <1>6, <2>1, <2>2, <3>1, FS_AddElement DEF Done, Carried
  <2>3. CASE plan[i].call \notin {"read", "upload"}
    <3>1. Brought(plan, i + 1) = Brought(plan, i)
      BY <1>6, <2>3 DEF Brought
    <3> QED
      BY <1>2, <1>3, <1>6, <2>1, <2>3, <3>1 DEF Done, Carried
  <2> QED
    BY <2>2, <2>3
<1> QED
  BY <1>5, <1>6

\* The last d of the posts are the first d of the thread.
Chain(s, d, media) ==
  LET m == Len(s) - d
  IN  /\ m >= 0
      /\ \A i \in 1 .. d :
           s[m + i] = [item |-> i, parent |-> IF i = 1 THEN 0 ELSE m + i - 1, media |-> media[i]]

LEMMA ChainGrows ==
  ASSUME NEW s \in Seq(Post), NEW d \in Nat, NEW media, Chain(s, d, media), NEW p \in Post,
         p = [item |-> d + 1, parent |-> IF d = 0 THEN 0 ELSE Len(s), media |-> media[d + 1]]
  PROVE  Chain(Append(s, p), d + 1, media)
<1> DEFINE m == Len(s) - d
           t == Append(s, p)
<1>1. m \in Nat /\ m = Len(s) - d /\ Len(s) \in Nat /\ Len(t) = Len(s) + 1
  BY DEF Chain
<1>2. t[Len(s) + 1] = p /\ \A k \in 1 .. Len(s) : t[k] = s[k]
  OBVIOUS
<1> HIDE DEF m, t
<1>3. ASSUME NEW i \in 1 .. d + 1
      PROVE  t[m + i] = [item |-> i, parent |-> IF i = 1 THEN 0 ELSE m + i - 1, media |-> media[i]]
  <2>1. CASE i = d + 1
    <3>1. m + i = Len(s) + 1 /\ m + i - 1 = Len(s) /\ (i = 1 <=> d = 0)
      BY <1>1, <2>1
    <3> QED
      BY <1>2, <2>1, <3>1
  <2>2. CASE i \in 1 .. d
    <3>1. m + i \in 1 .. Len(s)
      BY <1>1, <2>2
    <3>2. s[m + i] = [item |-> i, parent |-> IF i = 1 THEN 0 ELSE m + i - 1, media |-> media[i]]
      BY <1>1, <2>2 DEF Chain
    <3> QED
      BY <1>2, <3>1, <3>2
  <2> QED
    BY <2>1, <2>2
<1>4. Len(t) - (d + 1) = m
  BY <1>1
<1>5. Chain(t, d + 1, media)
  BY <1>1, <1>3, <1>4 DEF Chain
<1> QED
  BY <1>5 DEF t

InThread == Work[job].operation = "publish" /\ Work[job].media # <<>>

\* What the calls an attempt has passed have come to
ThreadSoFar ==
  InThread =>
    /\ Chain(posts, Done(Plan, attempt.at), Work[job].media)
    /\ attempt.media = Carried(Plan, attempt.at)
    /\ attempt.last = IF Done(Plan, attempt.at) = 0 THEN 0 ELSE Len(posts)

HasPassed(calls) == \E k \in 1 .. attempt.at - 1 : ~Plan[k].caught /\ Plan[k].call \in calls

ChangeSoFar ==
  /\ Work[job].operation = "delete" /\ HasPassed({"remove"}) => posts = <<>>
  /\ Work[job].operation # "delete" /\ HasPassed(Changes) => touched

SuccessInv ==
  /\ status = "running" => ThreadSoFar /\ ChangeSoFar
  /\ SuccessIsTrue

\* At its first call an attempt has done nothing.
LEMMA NothingSoFar ==
  ASSUME Typed', attempt'.at = 1, attempt'.last = 0, attempt'.media = 0
  PROVE  ThreadSoFar' /\ ChangeSoFar'
<1>1. Done(Plan', 1) = 0 /\ Carried(Plan', 1) = 0
  BY Counting
<1>2. Chain(posts', 0, Work[job'].media)
  BY DEF Chain, Typed
<1>3. ThreadSoFar'
  BY <1>1, <1>2 DEF ThreadSoFar
<1>4. ~HasPassed({"remove"})' /\ ~HasPassed(Changes)'
  BY DEF HasPassed
<1> QED
  BY <1>3, <1>4 DEF ChangeSoFar

LEMMA ThreadGoesOn ==
  ASSUME DeliveryAssumption, Contract, Typed, Typed', OnItsWay, ThreadSoFar, NEW a \in Answers,
         Request(a), a = "ok" \/ Call.caught, Passes
  PROVE  ThreadSoFar'
<1> DEFINE d == Done(Plan, attempt.at)
           e == Done(Plan, attempt'.at)
           media == Work[job].media
<1> SUFFICES ASSUME InThread'
             PROVE  /\ Chain(posts', Done(Plan', attempt'.at), Work[job'].media)
                    /\ attempt'.media = Carried(Plan', attempt'.at)
                    /\ attempt'.last = IF Done(Plan', attempt'.at) = 0 THEN 0 ELSE Len(posts')
  BY DEF ThreadSoFar
<1>1. job' = job /\ Plan' = Plan
  BY Answered DEF Plan
<1>2. /\ attempt.at \in DOMAIN Plan /\ attempt.at \in Nat \ {0} /\ attempt'.at = attempt.at + 1
      /\ attempt.last \in Nat /\ posts \in Seq(Post) /\ Len(posts) \in Nat
  <2>1. attempt.at \in DOMAIN Plan /\ DOMAIN Plan = 1 .. Len(Plan) /\ Len(Plan) \in Nat
    BY Answered, PlanIsSequence DEF Typed
  <2>2. attempt'.at = attempt.at + 1
    BY Advancing DEF Passes
  <2>3. attempt.last \in Nat /\ posts \in Seq(Post) /\ Len(posts) \in Nat
    BY DEF Typed, Attempt
  <2> QED
    BY <2>1, <2>2, <2>3
<1>3. InThread /\ Chain(posts, d, media) /\ attempt.media = Carried(Plan, attempt.at)
      /\ attempt.last = IF d = 0 THEN 0 ELSE Len(posts)
  BY <1>1 DEF InThread, ThreadSoFar
<1>4. /\ Call.call \in {"read", "upload", "post", "remove"} => ~Call.caught /\ Call.call # "remove"
      /\ Call.call = "post" => Call.item = d + 1 /\ media[Call.item] = Carried(Plan, attempt.at)
  <2>1. Reached(Work[job], attempt.at)
    BY Answered DEF Reached, Plan
  <2>2. PostsInOrder(Work[job])
    BY DEF Contract, KeepsContract, Typed
  <2> QED
    BY <1>2, <1>3, <2>1, <2>2 DEF PostsInOrder, InThread, Call, Plan
<1>5. d \in Nat
  BY <1>2, Counting
<1>6. CASE Call.call = "post"
  <2> DEFINE p == [item |-> Call.item, parent |-> attempt.last, media |-> attempt.media]
  <2>1. a = "ok"
    BY <1>4, <1>6
  <2>2. posts' = Append(posts, p)
    BY <1>6, <2>1 DEF Request, Happens
  <2>3. p = [item |-> d + 1, parent |-> IF d = 0 THEN 0 ELSE Len(posts), media |-> media[d + 1]]
    BY <1>3, <1>4, <1>6
  <2>4. p \in Post
    <3>1. Call.item \in Nat /\ attempt.media \in Nat
      BY <1>1, PlanIsSequence, Answered DEF Typed, Attempt, Call
    <3> QED
      BY <1>2, <3>1 DEF Post
  <2>5. e = d + 1 /\ Carried(Plan, attempt'.at) = 0
    BY <1>2, <1>6, Counting DEF Call
  <2>6. attempt'.media = 0 /\ attempt'.last = Len(posts) + 1
    BY <1>6, Advancing DEF Passes
  <2> HIDE DEF p, d, e, media
  <2>7. Chain(posts', d + 1, media)
    BY <1>2, <1>3, <1>5, <2>2, <2>3, <2>4, ChainGrows
  <2>8. Len(posts') = Len(posts) + 1 /\ d + 1 # 0
    BY <1>2, <1>5, <2>2, <2>4
  <2> QED
    BY <1>1, <2>5, <2>6, <2>7, <2>8 DEF e, media
<1>7. CASE Call.call # "post"
  <2>1. posts' = posts
    BY <1>4, <1>7 DEF Request, Happens
  <2>2. e = d /\ Carried(Plan, attempt'.at) = IF Call.call \in {"read", "upload"} THEN attempt.media + 1
                                              ELSE attempt.media
    <3>1. /\ Done(Plan, attempt.at + 1) = Done(Plan, attempt.at)
          /\ Carried(Plan, attempt.at + 1) = IF Call.call \in {"read", "upload"}
                                             THEN Carried(Plan, attempt.at) + 1
                                             ELSE Carried(Plan, attempt.at)
      BY <1>2, <1>7, Counting DEF Call
    <3> QED
      BY <1>2, <1>3, <3>1
  <2>3. /\ attempt'.last = attempt.last
        /\ attempt'.media = IF Call.call \in {"read", "upload"} THEN attempt.media + 1
                            ELSE attempt.media
    BY <1>7, Advancing DEF Passes
  <2> HIDE DEF d, e, media
  <2> QED
    BY <1>1, <1>3, <2>1, <2>2, <2>3 DEF e, media
<1> QED
  BY <1>6, <1>7

LEMMA ChangeGoesOn ==
  ASSUME DeliveryAssumption, Contract, Typed, OnItsWay, ChangeSoFar, NEW a \in Answers,
         Request(a), a = "ok" \/ Call.caught, Passes
  PROVE  ChangeSoFar'
<1>1. job' = job /\ Plan' = Plan /\ attempt.at \in DOMAIN Plan
  BY Answered DEF Plan
<1>2. attempt.at \in Nat \ {0} /\ attempt'.at = attempt.at + 1
  BY <1>1, Advancing, PlanIsSequence DEF Typed, Passes
<1>3. ASSUME NEW calls, HasPassed(calls)', ~HasPassed(calls)
      PROVE  ~Call.caught /\ Call.call \in calls
  <2>1. PICK k \in 1 .. attempt'.at - 1 : ~Plan'[k].caught /\ Plan'[k].call \in calls
    BY <1>3 DEF HasPassed
  <2>2. k \notin 1 .. attempt.at - 1
    BY <1>1, <1>3, <2>1 DEF HasPassed
  <2>3. k = attempt.at
    BY <1>2, <2>1, <2>2
  <2> QED
    BY <1>1, <2>1, <2>3 DEF Call
<1>4. ~Call.caught => a = "ok"
  OBVIOUS
<1>5. ASSUME Work[job].operation = "delete", HasPassed({"remove"})'
      PROVE  posts' = <<>>
  <2>1. Call.call # "post"
    BY <1>1, <1>5 DEF Contract, KeepsContract, MakesItsChange, Call, Plan, Typed
  <2>2. CASE HasPassed({"remove"})
    BY <1>5, <2>1, <2>2 DEF Request, Happens, ChangeSoFar
  <2>3. CASE ~HasPassed({"remove"})
    <3>1. Call.call = "remove" /\ a = "ok"
      BY <1>3, <1>4, <1>5, <2>3
    <3> QED
      BY <3>1 DEF Request, Happens
  <2> QED
    BY <2>2, <2>3
<1>6. ASSUME Work[job].operation # "delete", HasPassed(Changes)'
      PROVE  touched'
  <2>1. CASE HasPassed(Changes)
    BY <1>6, <2>1 DEF Request, Happens, ChangeSoFar
  <2>2. CASE ~HasPassed(Changes)
    <3>1. Call.call \in Changes /\ a = "ok"
      BY <1>3, <1>4, <1>6, <2>2
    <3> QED
      BY <3>1 DEF Request, Happens, Changes, Writes
  <2> QED
    BY <2>1, <2>2
<1> QED
  BY <1>1, <1>5, <1>6 DEF ChangeSoFar

LEMMA SuccessNext ==
  ASSUME DeliveryAssumption, Contract, Typed, OnItsWay, SuccessInv, [Next]_vars
  PROVE  SuccessInv'
<1>1. job' = job /\ Plan' = Plan /\ (Collects' <=> Collects) /\ Typed'
  BY StepsTyped DEF Plan, Collects
<1>2. ASSUME rows' = rows, status # "succeeded", status' # "succeeded",
             status' = "running" => ThreadSoFar' /\ ChangeSoFar'
      PROVE  SuccessInv'
  BY <1>2 DEF SuccessInv, SuccessIsTrue
<1>3. ASSUME status' = "running", attempt' = Begin, status = "pending", rows' = rows
      PROVE  SuccessInv'
  BY <1>1, <1>2, <1>3, Beginning, NothingSoFar
<1>4. CASE Start
  BY <1>3, <1>4 DEF Start
<1>5. ASSUME NEW a \in Answers, StartRefreshing(a)
      PROVE  SuccessInv'
  <2>1. CASE a = "ok"
    BY <1>3, <1>5, <2>1 DEF StartRefreshing
  <2>2. CASE a # "ok"
    BY <1>2, <1>5, <2>2 DEF StartRefreshing, GiveUp
  <2> QED
    BY <2>1, <2>2
<1>6. ASSUME EndsAttempt(FALSE) \/ Retries, status = "running", rows' = rows
      PROVE  SuccessInv'
  <2>1. CASE EndsAttempt(FALSE)
    BY <1>2, <1>6, <2>1 DEF EndsAttempt
  <2>2. CASE Retries
    <3>1. ThreadSoFar'
      BY <1>1, <2>2 DEF ThreadSoFar, InThread, Retries, Collects
    <3>2. ChangeSoFar'
      BY <1>1, <2>2 DEF ChangeSoFar, HasPassed, Retries
    <3> QED
      BY <1>2, <1>6, <2>2, <3>1, <3>2 DEF Retries
  <2> QED
    BY <1>6, <2>1, <2>2
<1>7. ASSUME NEW a \in Answers, Request(a)
      PROVE  SuccessInv'
  <2>1. status = "running" /\ rows' = rows
    BY <1>7, Answered
  <2>2. CASE (a = "ok" \/ Call.caught) /\ Passes
    <3>1. ThreadSoFar' /\ ChangeSoFar'
      BY <1>1, <1>7, <2>1, <2>2, ThreadGoesOn, ChangeGoesOn DEF SuccessInv
    <3> QED
      BY <1>2, <2>1, <2>2, <3>1 DEF Passes
  <2> QED
    BY <1>6, <1>7, <2>1, <2>2, Answered
<1>8. CASE Refuse
  <2>1. status = "running" /\ rows' = rows /\ rows = 0
    BY <1>8, Refused DEF SuccessInv, SuccessIsTrue
  <2>2. CASE Collects /\ attempt.at = 1 /\ Call.call = "not_supported" /\ Succeed
    <3>1. Collects' /\ Plan'[1].call = "not_supported" /\ status' = "succeeded" /\ rows' = 0
      BY <1>1, <2>1, <2>2 DEF Call, Succeed
    <3> QED
      BY <3>1 DEF SuccessInv, SuccessIsTrue, Collects
  <2>3. CASE status' = "dead"
    BY <1>2, <2>1, <2>3
  <2> QED
    BY <1>8, <2>2, <2>3, Refused
<1>9. CASE Finish
  <2>1. /\ status = "running" /\ status' = "succeeded" /\ attempt.at = Len(Plan) + 1
        /\ rows' = (IF Collects THEN rows + 1 ELSE rows) /\ rows = 0
        /\ UNCHANGED <<posts, touched>> /\ ThreadSoFar /\ ChangeSoFar
    BY <1>9 DEF Finish, Succeed, SuccessInv, SuccessIsTrue
  <2>2. Len(Plan) \in Nat \ {0} /\ DOMAIN Plan = 1 .. Len(Plan)
    BY PlanIsSequence DEF Typed
  <2>3. \A k \in 1 .. Len(Plan) : Plan[k].call \notin Codes
    BY <2>1, <2>2 DEF OnItsWay
  <2>4. Reached(Work[job], Len(Plan) + 1)
    BY <2>2, <2>3 DEF Reached, Plan
  <2>5. KeepsContract(Work[job])
    BY DEF Contract, Typed
  <2>6. ASSUME ~Collects
        PROVE  HasPassed(IF Work[job].operation = "delete" THEN {"remove"} ELSE Changes)
    BY <2>1, <2>2, <2>4, <2>5, <2>6 DEF KeepsContract, MakesItsChange, HasPassed, Plan, Collects
  <2>7. CASE InThread
    <3>1. Done(Plan, Len(Plan) + 1) = Len(Work[job].media)
      BY <2>4, <2>5, <2>7 DEF KeepsContract, PostsInOrder, InThread, Plan
    <3>2. Chain(posts, Len(Work[job].media), Work[job].media)
      BY <2>1, <2>7, <3>1 DEF ThreadSoFar
    <3>3. Chain(posts', Len(Work[job'].media), Work[job'].media)
      BY <1>1, <2>1, <3>2
    <3>4. Published'
      BY <3>3 DEF Chain, Published
    <3>5. InThread' /\ status' = "succeeded"
      BY <1>1, <2>1, <2>7 DEF InThread
    <3> QED
      BY <3>4, <3>5 DEF SuccessInv, SuccessIsTrue, InThread, Collects
  <2>8. CASE Work[job].operation = "delete"
    <3>1. posts' = <<>>
      BY <2>1, <2>6, <2>8 DEF ChangeSoFar, Collects
    <3>2. Work[job'].operation = "delete" /\ status' = "succeeded"
      BY <1>1, <2>1, <2>8
    <3> QED
      BY <3>1, <3>2 DEF SuccessInv, SuccessIsTrue, Collects
  <2>9. CASE Collects
    <3>1. rows' = 1 /\ Plan'[1].call # "not_supported"
      BY <1>1, <2>1, <2>2, <2>3, <2>9 DEF Codes
    <3> QED
      BY <1>1, <2>1, <2>9, <3>1 DEF SuccessInv, SuccessIsTrue, Collects
  <2>10. CASE ~InThread /\ Work[job].operation # "delete" /\ ~Collects
    <3>1. touched'
      BY <2>1, <2>6, <2>10 DEF ChangeSoFar
    <3> QED
      BY <1>1, <2>1, <2>10, <3>1 DEF SuccessInv, SuccessIsTrue, InThread
  <2> QED
    BY <2>7, <2>8, <2>9, <2>10
<1>10. CASE SnapshotFails
  <2>1. Fail("plain", FALSE) /\ status = "running" /\ rows' = rows
    BY <1>10 DEF SnapshotFails
  <2> QED
    BY <1>6, <2>1, Failing
<1>11. CASE TokenExpires \/ AccessRevoked
  <2>1. UNCHANGED <<job, status, attempt, posts, touched, rows>>
    BY <1>11 DEF TokenExpires, AccessRevoked
  <2> QED
    BY <1>1, <2>1 DEF SuccessInv, SuccessIsTrue, Published, ThreadSoFar, ChangeSoFar, HasPassed, InThread
<1>12. CASE PostTakenDown
  <2>1. /\ status \in {"pending", "running"} /\ posts' = <<>> /\ Work[job].addressed
        /\ UNCHANGED <<job, status, attempt, touched, rows>>
    BY <1>12 DEF PostTakenDown, Open
  <2>2. ~InThread
    BY <2>1 DEF Contract, KeepsContract, PostsInOrder, InThread, Typed
  <2>3. ThreadSoFar' /\ (ChangeSoFar => ChangeSoFar')
    BY <1>1, <2>1, <2>2 DEF ThreadSoFar, ChangeSoFar, HasPassed, InThread
  <2> QED
    BY <1>2, <2>1, <2>3 DEF SuccessInv
<1>13. CASE UNCHANGED vars
  BY <1>1, <1>13 DEF vars, SuccessInv, SuccessIsTrue, Published, ThreadSoFar, ChangeSoFar, HasPassed,
     InThread
<1> QED
  BY <1>4, <1>5, <1>7, <1>8, <1>9, <1>10, <1>11, <1>12, <1>13 DEF Next, Deliver

(***************************************************************************)
(* A delivery that succeeds has done what it was for: the thread is there  *)
(* in one chain with all media, the post is gone, the change is made, the  *)
(* snapshot is stored once, whatever went wrong in attempts before.        *)
(***************************************************************************)
THEOREM SuccessIsTrueCorrect ==
  ASSUME Contract
  PROVE  Spec => []SuccessIsTrue
<1> DEFINE Inv == Typed /\ OnItsWay /\ SuccessInv
<1>1. Init => Inv
  <2> SUFFICES ASSUME Init PROVE Inv
    OBVIOUS
  <2>1. status = "pending" /\ rows = 0
    BY DEF Init
  <2> QED
    BY <2>1, StartTyped DEF SuccessInv, SuccessIsTrue
<1>2. Inv /\ [Next]_vars => Inv'
  BY StepsTyped, SuccessNext, DeliveryAssumption
<1>3. Inv => SuccessIsTrue
  BY DEF SuccessInv
<1> QED
  BY <1>1, <1>2, <1>3, PTL DEF Spec

-------------------------------------------------------------------------------
(* Retries are bounded, and so are the types *)

BoundsInv ==
  /\ attempts \in 0 .. MaxAttempts /\ attempt.try \in 0 .. MaxTries /\ spent \in 0 .. MaxFaults
  /\ status \in {"pending", "running"} => attempts < MaxAttempts

FailureCodes == Codes \cup {"none"}

\* What an error does to the counters, and where its code goes
LEMMA FailingBounded ==
  ASSUME DeliveryAssumption, Typed, BoundsInv, NEW code, NEW own \in BOOLEAN, Fail(code, own),
         status = "running"
  PROVE  /\ attempts' \in 0 .. MaxAttempts /\ attempt'.try \in 0 .. MaxTries
         /\ status' \in {"pending", "running"} => attempts' < MaxAttempts
         /\ failure' \in {failure, [code |-> code, own |-> own]}
<1>1. CASE Again(code)
  <2>1. /\ attempt' = [attempt EXCEPT !.at = 1, !.try = @ + 1] /\ attempt.try < MaxTries
        /\ UNCHANGED <<status, attempts, failure>>
    BY <1>1 DEF Fail, Again
  <2>2. attempt' = [f \in DOMAIN attempt |->
                      IF f = "try" THEN attempt.try + 1 ELSE IF f = "at" THEN 1 ELSE attempt[f]]
    BY <2>1 DEF Typed, Attempt
  <2>3. attempt'.try = attempt.try + 1
    BY <2>2 DEF Typed, Attempt
  <2> QED
    BY <2>1, <2>3 DEF BoundsInv, DeliveryAssumption
<1>2. CASE ~Again(code)
  <2>1. PICK retryable : GiveUp(code, own, retryable)
    BY <1>2 DEF Fail
  <2>2. /\ attempts' = attempts + 1 /\ attempt' = NoAttempt /\ failure' = [code |-> code, own |-> own]
        /\ status' \in {"pending", "running"} => attempts + 1 < MaxAttempts
    BY <2>1 DEF GiveUp
  <2>3. attempt'.try = 0
    BY <2>2 DEF NoAttempt
  <2> QED
    BY <2>2, <2>3 DEF BoundsInv, DeliveryAssumption
<1> QED
  BY <1>1, <1>2

\* An attempt that begins is a first try.
LEMMA FirstTry == Begin.try = 1 /\ NoAttempt.try = 0
<1>1. Begin = [f \in DOMAIN NoAttempt |-> IF f = "try" THEN 1 ELSE IF f = "at" THEN 1 ELSE NoAttempt[f]]
  BY DEF Begin, NoAttempt
<1> QED
  BY <1>1 DEF NoAttempt

\* A call that is passed belongs to the same try.
LEMMA SameTry ==
  ASSUME Typed, Advance
  PROVE  attempt'.try = attempt.try
<1> DEFINE last == IF Call.call = "post" THEN Len(posts) + 1 ELSE attempt.last
           media == IF Call.call = "post" THEN 0
                    ELSE IF Call.call \in {"read", "upload"} THEN attempt.media + 1
                    ELSE attempt.media
<1>1. attempt' = [attempt EXCEPT !.at = @ + 1, !.last = last, !.media = media]
  BY DEF Advance
<1> HIDE DEF last, media
<1>2. attempt' = [f \in DOMAIN attempt |-> IF f = "media" THEN media ELSE IF f = "last" THEN last
                                          ELSE IF f = "at" THEN attempt.at + 1 ELSE attempt[f]]
  BY <1>1 DEF Typed, Attempt
<1> QED
  BY <1>2 DEF Typed, Attempt

\* Only faults are spent, and only as many as there may be.
LEMMA SpentBounded ==
  ASSUME DeliveryAssumption, BoundsInv, [Next]_vars
  PROVE  spent' \in 0 .. MaxFaults
<1>1. spent' = spent \/ (spent' = spent + 1 /\ spent < MaxFaults)
  <2>1. ASSUME NEW a \in Answers, StartRefreshing(a)
        PROVE  spent' = spent \/ (spent' = spent + 1 /\ spent < MaxFaults)
    BY <2>1 DEF StartRefreshing, Spend, RefreshAnswers
  <2>2. ASSUME NEW a \in Answers, Request(a)
        PROVE  spent' = spent \/ (spent' = spent + 1 /\ spent < MaxFaults)
    <3>1. Forced = {} /\ spent >= MaxFaults => a = "ok"
      BY <2>2 DEF Request, Possible, BoundsInv, DeliveryAssumption
    <3>2. spent' = IF a = "ok" \/ Forced # {} THEN spent ELSE spent + 1
      BY <2>2 DEF Request, Spend
    <3> QED
      BY <3>1, <3>2 DEF BoundsInv, DeliveryAssumption
  <2> QED
    BY <2>1, <2>2 DEF Next, Deliver, Start, Refuse, Finish, SnapshotFails, TokenExpires, AccessRevoked,
       PostTakenDown, Open, vars
<1> QED
  BY <1>1 DEF BoundsInv, DeliveryAssumption

\* How a step changes what is counted
LEMMA BoundsNext ==
  ASSUME DeliveryAssumption, Typed, OnItsWay, BoundsInv, [Next]_vars
  PROVE  BoundsInv'
<1>1. spent' \in 0 .. MaxFaults
  BY SpentBounded
<1>2. ASSUME NEW code, NEW own \in BOOLEAN, Fail(code, own), status = "running"
      PROVE  BoundsInv'
  BY <1>1, <1>2, FailingBounded DEF BoundsInv
<1>3. ASSUME UNCHANGED <<attempts, attempt>>, status' = status
      PROVE  BoundsInv'
  BY <1>1, <1>3 DEF BoundsInv
<1>4. ASSUME attempt' \in {Begin, NoAttempt}, attempts' = attempts, status = "pending" \/ status' = "succeeded"
      PROVE  BoundsInv'
  BY <1>1, <1>4, FirstTry DEF BoundsInv, DeliveryAssumption
<1>5. ASSUME NEW a \in Answers, StartRefreshing(a)
      PROVE  BoundsInv'
  <2>1. CASE a = "ok"
    BY <1>4, <1>5, <2>1 DEF StartRefreshing
  <2>2. CASE a # "ok"
    <3>1. PICK code, retryable : GiveUp(code, FALSE, retryable)
      BY <1>5, <2>2 DEF StartRefreshing
    <3>2. /\ status = "pending" /\ attempts' = attempts + 1 /\ attempt' = NoAttempt
          /\ status' \in {"pending", "running"} => attempts + 1 < MaxAttempts
      BY <1>5, <3>1 DEF StartRefreshing, GiveUp
    <3> QED
      BY <1>1, <3>2, FirstTry DEF BoundsInv, DeliveryAssumption
  <2> QED
    BY <2>1, <2>2
<1>6. ASSUME NEW a \in Answers, Request(a)
      PROVE  BoundsInv'
  <2>1. status = "running"
    BY <1>6 DEF Request, Underway
  <2>2. CASE Advance /\ UNCHANGED <<status, attempts, failure>>
    BY <1>1, <2>2, SameTry DEF BoundsInv
  <2>3. CASE \E code : Fail(code, FALSE)
    BY <1>2, <2>1, <2>3
  <2> QED
    BY <1>6, <2>2, <2>3 DEF Request
<1>7. CASE Refuse
  <2>1. CASE Succeed
    BY <1>4, <2>1 DEF Succeed
  <2>2. CASE Fail(Call.call, TRUE)
    BY <1>2, <1>7, <2>2 DEF Refuse, Underway
  <2> QED
    BY <1>7, <2>1, <2>2 DEF Refuse
<1>8. CASE Start \/ Finish
  BY <1>4, <1>8 DEF Start, Finish, Succeed
<1>9. CASE SnapshotFails
  BY <1>2, <1>9 DEF SnapshotFails
<1>10. CASE TokenExpires \/ AccessRevoked \/ PostTakenDown \/ UNCHANGED vars
  BY <1>3, <1>10 DEF TokenExpires, AccessRevoked, PostTakenDown, vars
<1> QED
  BY <1>5, <1>6, <1>7, <1>8, <1>9, <1>10 DEF Next, Deliver

LEMMA BoundsStart ==
  ASSUME DeliveryAssumption, Init
  PROVE  BoundsInv
BY FirstTry DEF Init, BoundsInv, DeliveryAssumption

Bounded ==
  /\ attempts <= MaxAttempts /\ attempt.try <= MaxTries
  /\ status \in {"pending", "running"} => attempts < MaxAttempts

(***************************************************************************)
(* No delivery goes on for ever: a job fails at most as often as the queue *)
(* allows, and is dead when it does, and the collector tries no more often *)
(* than it may, whatever the connectors' plans and errors are.             *)
(***************************************************************************)
THEOREM RetriesAreBounded == Spec => []Bounded
<1> DEFINE Inv == Typed /\ OnItsWay /\ BoundsInv
<1>1. Init => Inv
  BY StartTyped, BoundsStart, DeliveryAssumption
<1>2. Inv /\ [Next]_vars => Inv'
  BY StepsTyped, BoundsNext, DeliveryAssumption
<1>3. Inv => Bounded
  BY DeliveryAssumption DEF BoundsInv, Bounded, DeliveryAssumption
<1> QED
  BY <1>1, <1>2, <1>3, PTL DEF Spec

-------------------------------------------------------------------------------
\* The reason of a failure is one of the codes of errors.ts.
FailureInv == failure \in [code : FailureCodes, own : BOOLEAN]

LEMMA FailureNext ==
  ASSUME DeliveryAssumption, \A j \in Jobs : ErrorsAreKnown(Work[j]),
         Typed, OnItsWay, BoundsInv, FailureInv, [Next]_vars
  PROVE  FailureInv'
<1>1. ASSUME NEW code \in FailureCodes, NEW own \in BOOLEAN, failure' \in {failure, [code |-> code, own |-> own]}
      PROVE  FailureInv'
  BY <1>1 DEF FailureInv
<1>2. "plain" \in FailureCodes
  BY DEF FailureCodes, Codes
<1>3. ASSUME NEW a \in Answers, StartRefreshing(a)
      PROVE  FailureInv'
  <2>1. CASE a = "ok"
    BY <1>3, <2>1 DEF StartRefreshing, FailureInv
  <2>2. CASE a # "ok"
    <3> DEFINE error == Work[job].errors["refresh"][a]
               code == IF error \in {"token_revoked", "auth_failed"} THEN "plain" ELSE error
    <3>1. error \in FailureCodes
      BY <1>3, <2>2 DEF StartRefreshing, Due, ErrorsAreKnown, FailureCodes, Typed
    <3>2. failure' = [code |-> code, own |-> FALSE]
      BY <1>3, <2>2 DEF StartRefreshing, GiveUp
    <3> QED
      BY <1>1, <1>2, <3>1, <3>2
  <2> QED
    BY <2>1, <2>2
<1>4. ASSUME NEW a \in Answers, Request(a)
      PROVE  FailureInv'
  <2>1. CASE a = "ok" \/ Call.caught
    BY <1>4, <2>1 DEF Request, FailureInv
  <2>2. CASE a # "ok" /\ ~Call.caught
    <3>1. /\ attempt.at \in DOMAIN Plan /\ Call.call \notin Codes /\ Call.call # "read"
          /\ Fail(Work[job].errors[Call.call][a], FALSE) /\ status = "running"
      BY <1>4, <2>2 DEF Request, Underway, Possible
    <3>2. Work[job].errors[Call.call][a] \in FailureCodes
      BY <2>2, <3>1 DEF ErrorsAreKnown, FailureCodes, Call, Plan, Typed
    <3> QED
      BY <1>1, <3>1, <3>2, FailingBounded
  <2> QED
    BY <2>1, <2>2
<1>5. CASE Refuse
  <2>1. CASE Succeed
    BY <2>1 DEF Succeed, FailureInv
  <2>2. CASE Fail(Call.call, TRUE)
    BY <1>1, <1>5, <2>2, FailingBounded DEF Refuse, Underway, FailureCodes
  <2> QED
    BY <1>5, <2>1, <2>2 DEF Refuse
<1>6. CASE SnapshotFails
  BY <1>1, <1>2, <1>6, FailingBounded DEF SnapshotFails
<1>7. CASE failure' = failure
  BY <1>7 DEF FailureInv
<1> QED
  BY <1>3, <1>4, <1>5, <1>6, <1>7 DEF Next, Deliver, Start, Finish, Succeed, TokenExpires,
     AccessRevoked, PostTakenDown, vars

\* Every variable of a delivery keeps its type, where the clients' errors are those of errors.ts.
THEOREM TypeCorrect ==
  ASSUME \A j \in Jobs : ErrorsAreKnown(Work[j])
  PROVE  Spec => []TypeOK
<1> DEFINE Inv == Typed /\ OnItsWay /\ BoundsInv /\ FailureInv
<1>1. Init => Inv
  <2>1. Init => FailureInv
    BY DEF Init, NoFailure, FailureInv, FailureCodes
  <2> QED
    BY <2>1, StartTyped, BoundsStart, DeliveryAssumption
<1>2. Inv /\ [Next]_vars => Inv'
  BY StepsTyped, BoundsNext, FailureNext, DeliveryAssumption
<1>3. Inv => TypeOK
  <2> SUFFICES ASSUME Inv PROVE TypeOK
    OBVIOUS
  <2>1. attempt \in [at : Nat, try : 0 .. MaxTries, last : Nat, media : Nat]
    BY DEF Typed, Attempt, BoundsInv
  <2> QED
    BY <2>1 DEF Typed, BoundsInv, FailureInv, FailureCodes, Post, TypeOK
<1> QED
  BY <1>1, <1>2, <1>3, PTL DEF Spec

(***************************************************************************)
(* So deliveries of any jobs of the five connectors keep all that: no      *)
(* assumption on their plans or errors is left.                            *)
(***************************************************************************)
THEOREM ConnectorsDeliver ==
  ASSUME \A j \in Jobs : OfConnector(Work[j])
  PROVE  Spec => [](/\ TypeOK /\ RefusalsComeFirst /\ CopiesComeFromLostAnswers
                    /\ FailuresHaveCauses /\ SuccessIsTrue)
<1>1. Contract /\ \A j \in Jobs : ErrorsAreKnown(Work[j])
  BY ConnectorsKeepContract DEF Contract
<1>2. Spec => []TypeOK
  BY <1>1, TypeCorrect
<1>3. Spec => []RefusalsComeFirst
  BY <1>1, RefusalsComeFirstCorrect
<1>4. Spec => []CopiesComeFromLostAnswers
  BY <1>1, CopiesComeFromLostAnswersCorrect
<1>5. Spec => []FailuresHaveCauses
  BY <1>1, FailuresHaveCausesCorrect
<1>6. Spec => []SuccessIsTrue
  BY <1>1, SuccessIsTrueCorrect
<1> QED
  BY <1>2, <1>3, <1>4, <1>5, <1>6, PTL
===============================================================================
