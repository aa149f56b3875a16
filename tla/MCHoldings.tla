----------------------------- MODULE MCHoldings -----------------------------
(***************************************************************************)
(* An instance of HoldingsPage: a book of two rows, three at most, with an *)
(* agent, the browser, Ops and the retention task; or one upload with two  *)
(* workers, a sweep beside a hook, and two faults.                         *)
(***************************************************************************)
EXTENDS HoldingsPage, TLC

CONSTANTS a, b

MCFirstBook == 1 :> [val |-> a, pos |-> 0] @@ 2 :> [val |-> b, pos |-> 1]
MCCap(p) == IF p = "jade" THEN 3 ELSE 1
MCFiles == {<<>>, <<a, b>>}

Allow(write, ask, repeat, look, ill) ==
    [writes |-> write, asks |-> ask, repeats |-> repeat, previews |-> look, trouble |-> ill]

\* Writes with a preview of them and a disturbance; longer histories; rollbacks
\* of rollbacks; an agent beside the browser, twice in a row, with lost answers.
MCAllowed == {Allow(2, 0, 0, 1, 1), Allow(3, 0, 0, 1, 0), Allow(2, 0, 0, 2, 0),
              Allow(1, 1, 1, 0, 1), Allow(0, 2, 1, 0, 0), Allow(0, 2, 0, 0, 1),
              Allow(1, 1, 0, 1, 0)}

=============================================================================
