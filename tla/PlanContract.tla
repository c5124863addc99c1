----------------------------- MODULE PlanContract -----------------------------
(***************************************************************************)
(* What the worker relies on of the plan a connector makes of a job, as    *)
(* far as its attempts can keep their promises: a job is a record of the   *)
(* kind Delivery describes.                                                *)
(***************************************************************************)
EXTENDS Connector

Changes == {"post", "channel", "update", "remove"}

\* A call is reached if the connector throws nothing of its own before it.
Reached(work, i) == \A k \in 1 .. i - 1 : work.plan[k].call \notin Codes

(***************************************************************************)
(* What is wrong with the job itself is found before anything is changed:  *)
(* only the media are read as they are needed.                             *)
(***************************************************************************)
RefusesFirst(work) ==
  \A i, k \in DOMAIN work.plan :
    work.plan[k].call \in Codes \ {"plain"} /\ Reached(work, k) /\ i < k => work.plan[i].call \notin Changes

(***************************************************************************)
(* It is also not worth another attempt; a collection that is not          *)
(* supported says so at once.                                              *)
(***************************************************************************)
RefusesForGood(work) ==
  \A i \in DOMAIN work.plan :
    /\ work.plan[i].call \notin Retryable
    /\ work.operation = "collect_analytics" =>
         work.plan[i].call # "plain" /\ (work.plan[i].call = "not_supported" => i = 1)

(***************************************************************************)
(* The posts of the thread come in their order, each behind its own media, *)
(* and none of these failures is caught.                                   *)
(***************************************************************************)
Before(plan, i) == {k \in 1 .. i - 1 : plan[k].call = "post"}

\* The media brought since the last post before call i
Brought(plan, i) ==
  {k \in 1 .. i - 1 : /\ plan[k].call \in {"read", "upload"}
                      /\ \A l \in k .. i - 1 : plan[l].call # "post"}

Done(plan, i) == Cardinality(Before(plan, i))
Carried(plan, i) == Cardinality(Brought(plan, i))

PostsInOrder(work) ==
  work.operation = "publish" /\ work.media # <<>> =>
    /\ ~work.addressed
    /\ \A i \in DOMAIN work.plan :
         /\ work.plan[i].call \in {"read", "upload", "post", "remove"} =>
              ~work.plan[i].caught /\ work.plan[i].call # "remove"
         /\ work.plan[i].call = "post" /\ Reached(work, i) =>
              /\ Done(work.plan, i) < Len(work.media)
              /\ work.plan[i].item = Done(work.plan, i) + 1
              /\ work.media[work.plan[i].item] = Carried(work.plan, i)
    /\ Reached(work, Len(work.plan) + 1) => Done(work.plan, Len(work.plan) + 1) = Len(work.media)

(***************************************************************************)
(* Every other operation but a collection makes its change, and operations *)
(* on a post make none.                                                    *)
(***************************************************************************)
MakesItsChange(work) ==
  /\ work.operation = "delete" \/ work.addressed =>
       \A i \in DOMAIN work.plan : work.plan[i].call # "post"
  /\ Reached(work, Len(work.plan) + 1) /\ work.operation # "collect_analytics" =>
       \E i \in DOMAIN work.plan :
         /\ ~work.plan[i].caught
         /\ work.plan[i].call \in IF work.operation = "delete" THEN {"remove"} ELSE Changes

\* A single post, unless it opens a thread, is the last thing that is asked for.
Single(work) ==
  /\ Len(work.media) = 1
  /\ \A i \in DOMAIN work.plan : work.plan[i].call # "openThread"

PostsLast(work) ==
  Single(work) /\ ~work.addressed =>
    /\ work.operation # "collect_analytics"
    /\ \A i \in DOMAIN work.plan : work.plan[i].call = "post" => i = Len(work.plan)

KeepsContract(work) ==
  /\ RefusesFirst(work) /\ RefusesForGood(work) /\ PostsInOrder(work) /\ MakesItsChange(work)
  /\ PostsLast(work)

(***************************************************************************)
(* Whatever a request is answered, the client makes one of the errors of   *)
(* errors.ts of it, or takes it for a result.                              *)
(***************************************************************************)
ErrorsAreKnown(work) ==
  \A a \in Answers \ {"ok"} :
    /\ work.life = "known" => work.errors["refresh"][a] \in Codes \cup {"none"}
    /\ \A i \in DOMAIN work.plan :
         work.plan[i].call \notin Codes \cup {"read"} =>
           work.errors[work.plan[i].call][a] \in Codes \cup {"none"}
===============================================================================
