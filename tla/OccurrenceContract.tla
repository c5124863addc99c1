------------------------- MODULE OccurrenceContract -------------------------
(***************************************************************************)
(* What scheduling promises about the occurrences of a schedule, without   *)
(* sweeps, claims or a clock: a schedule's occurrences are taken one after *)
(* the other, each at most once; the one who takes an occurrence submits   *)
(* at most one job per target for it, and nothing after reporting on it.   *)
(***************************************************************************)
EXTENDS Naturals

CONSTANTS Occurrences,  \* records with the fields sched and at
          Targets

VARIABLES stage,        \* [Occurrences -> {"none", "taken", "reported"}]
          submitted     \* [Occurrences -> [Targets -> Nat]]: jobs

contractVars == <<stage, submitted>>

Take(o) ==
  /\ \A p \in Occurrences :
       p.sched = o.sched /\ p.at >= o.at => stage[p] = "none"
  /\ stage' = [stage EXCEPT ![o] = "taken"]
  /\ UNCHANGED submitted

Submit(o, x) ==
  /\ stage[o] = "taken"
  /\ submitted[o][x] = 0
  /\ submitted' = [submitted EXCEPT ![o][x] = 1]
  /\ UNCHANGED stage

Report(o) ==
  /\ stage[o] = "taken"
  /\ stage' = [stage EXCEPT ![o] = "reported"]
  /\ UNCHANGED submitted

Init ==
  /\ stage = [o \in Occurrences |-> "none"]
  /\ submitted = [o \in Occurrences |-> [x \in Targets |-> 0]]

Next == \E o \in Occurrences : Take(o) \/ Report(o) \/ \E x \in Targets : Submit(o, x)

Spec == Init /\ [][Next]_contractVars
=============================================================================
