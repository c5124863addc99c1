--------------------------- MODULE MaterializerMC ---------------------------
(***************************************************************************)
(* Instances of Materializer for TLC.                                      *)
(***************************************************************************)
EXTENDS MaterializerInv, TLC

CONSTANTS daily, single

\* A recurring schedule and a one-shot.
MixedModes == [s \in Schedules |-> IF s = daily THEN "recurring" ELSE "once"]
AllImmediate == [s \in Schedules |-> "immediate"]

MixedAnchors == [s \in Schedules |-> IF s = daily THEN 0 ELSE 1]

EveryInstant == [s \in Schedules |-> IF s = daily THEN 0 .. 2 ELSE {}]

SweepSymmetry == Permutations(Sweeps) \cup Permutations(Targets)
=============================================================================
