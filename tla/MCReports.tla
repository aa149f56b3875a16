----------------------------- MODULE MCReports -----------------------------
(***************************************************************************)
(* Instances of Reports: the scheduled report of a user and a manual one,  *)
(* two processes that are workers or requests of Ops.                      *)
(***************************************************************************)
EXTENDS Reports, TLC

CONSTANTS scheduled, manual, j1, n1, home, other, w1, w2

MCPublished == [n \in News |-> 0]

\* Windows that move on; faults; what Ops and the user do meanwhile.
MCBudgets ==
    {[ticks |-> 3, tasks |-> 2, requests |-> 0, moves |-> 0, faults |-> 0],
     [ticks |-> 0, tasks |-> 2, requests |-> 0, moves |-> 0, faults |-> 1],
     [ticks |-> 0, tasks |-> 1, requests |-> 2, moves |-> 0, faults |-> 0],
     [ticks |-> 0, tasks |-> 1, requests |-> 1, moves |-> 1, faults |-> 0],
     [ticks |-> 0, tasks |-> 1, requests |-> 0, moves |-> 1, faults |-> 1]}

\* No property of this run is a liveness property.
Symmetry == Permutations({w1, w2})

=============================================================================
