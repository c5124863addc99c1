----------------------------- MODULE JobQueueMC -----------------------------
(***************************************************************************)
(* Instances of JobQueue for TLC.                                          *)
(***************************************************************************)
EXTENDS JobQueueInv, TLC

CONSTANTS j1, j2, v1, v2

\* Two posts, one to each of two accounts.
TwoPosts == [j \in Jobs |-> "publish"]
OwnVariant == [j \in Jobs |-> IF j = j1 THEN v1 ELSE v2]

\* A post, and a collection of its metrics.
PostAndCollect == [j \in Jobs |-> IF j = j1 THEN "publish" ELSE "collect_analytics"]
SameVariant == [j \in Jobs |-> v1]

TwoTries == [j \in Jobs |-> 2]

WorkerSymmetry == Permutations(Workers)
=============================================================================
