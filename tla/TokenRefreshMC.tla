--------------------------- MODULE TokenRefreshMC ---------------------------
(***************************************************************************)
(* Instances of TokenRefresh for TLC.                                      *)
(***************************************************************************)
EXTENDS TokenRefreshInv, TLC

CONSTANTS p1, p2, request, other, scan

\* A request of its own in each process, and a pass of the scheduler in one.
TwoHomes == [c \in Callers |-> IF c = other THEN p2 ELSE p1]

\* Processes are alike, and change places together with their requests.
Moves == { f \in Permutations(Processes \cup Callers) :
             /\ \A p \in Processes : f[p] \in Processes
             /\ \A c \in Callers : Home[f[c]] = f[Home[c]] /\ (f[c] \in Scanners <=> c \in Scanners) }
=============================================================================
