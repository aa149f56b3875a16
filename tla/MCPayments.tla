----------------------------- MODULE MCPayments -----------------------------
(* Payments on a small instance: a buyer `u`, the referrer `r` who invited   *)
(* `u`, and one purchase of 7 credits that earns `r` a bonus of 4.           *)
EXTENDS Payments, TLC

CONSTANTS r, u, t1, k1, k2, k3, w1, w2, a1, a2, a3, m1

MCUsers == {r, u}
MCTxns == {t1}
MCBuyer == t1 :> u
MCCredits == t1 :> 7
MCTotal == t1 :> 10
MCInviter == u :> r @@ r :> None
MCOpening == u :> 5 @@ r :> 0
MCNoOpening == u :> 0 @@ r :> 0
MCRequestKeys == {k1, k2, k3}
MCAdjustAmounts == {-4}
MCWorkers == {w1, w2}
MCAdjustments == {a1, a2, a3}
MCIds == {r, u, t1, k1, k2, k3, a1, a2, a3, m1, None}

Symmetry == Permutations(MCWorkers) \cup Permutations(MCRequestKeys)
                \cup Permutations(MCAdjustments)
=============================================================================
