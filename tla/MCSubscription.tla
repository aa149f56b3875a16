--------------------------- MODULE MCSubscription ---------------------------
(* Subscription on a small instance: `r` invited `u`, months of two days    *)
(* and of one, two briefing plans and Jade, fees that divide unevenly.       *)
EXTENDS Subscription, TLC

CONSTANTS r, u, weekly, daily, jade, account, delivery, m1

MCUsers == {r, u}
MCSubscribers == {u}
MCInviter == u :> r @@ r :> None
MCBriefing == {weekly, daily}
MCFee == weekly :> 2 @@ daily :> 3 @@ jade :> 5
MCMonths == <<2, 1, 2, 2, 2>>
MCNoLegacy == u :> None
MCLegacy == u :> weekly
MCIds == {r, u, weekly, daily, jade, m1, None} \cup (MCUsers \X (1..LastDay))
=============================================================================
