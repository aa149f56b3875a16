---------------------------- MODULE MCDataTasks ----------------------------
(***************************************************************************)
(* Instances of DataTasks.                                                 *)
(***************************************************************************)
EXTENDS DataTasks, TLC

\* Snapshots: one user, a holding in the base currency and one in another.
CONSTANTS u1, home, abroad

\* Deepening: two movers, one to search and one with three links; another
\* instrument with one link and a theme without; two threads.
CONSTANTS m1, m2, o1, theme, t1, t2

MCMovers == <<m1, m2>>
MCOthers == <<o1, theme>>
MCThemes == {theme}
MCLinks == (m1 :> 0) @@ (m2 :> 3) @@ (o1 :> 1) @@ (theme :> 0)
MCTitles == (m1 :> 2) @@ (m2 :> 0) @@ (o1 :> 0) @@ (theme :> 0)

Amount(tavily, parallel, exa) ==
    [p \in Providers |-> CASE p = "tavily" -> tavily [] p = "parallel" -> parallel [] OTHER -> exa]

\* The month's limit of Tavily binds first, and the run's of the others.
MCRunCap == Amount(3, 6, 4)
MCMonthLimit == Amount(5, 9, 4)
MCBefore == Amount(3, 0, 0)
MCSearchPrice == [p \in Searchers |-> IF p = "tavily" THEN 1 ELSE 5]

\* Triggered twice, or once with one trouble.
MCAllowed == {<<0, 0>>, <<2, 0>>, <<1, 1>>}

\* Two workers: the mover with links, and three triggers, of which the first may
\* fail and the others meet.
MCSlotMovers == <<m2>>
MCSlotAllowed == {<<0, 0>>, <<3, 0>>}

\* Capture: an instrument held in yuan, and one that is not.
CONSTANTS x, y

MCAttempts == [c \in Chains |-> IF c = "daily" THEN 3 ELSE 2]

\* What is stored for the first two days of each instrument, if anything.
Stored(first, second) ==
    [k \in Instruments |->
        [d \in Sessions |-> CASE d = 1 -> first [] d = 2 -> second [] OTHER -> "none"]]
Nothing == Stored("none", "none")

Case(what, known, from, who, chains, closes) ==
    [kind |-> what, calendar |-> known, since |-> from, held |-> who, tasks |-> chains,
     row |-> closes]

MCCases == {
    Case("fund", "ok", 1, {}, Chains, Nothing),
    Case("etf", "ok", 1, {x}, Chains, Stored("primary", "odd")),
    Case("etf", "ok", 2, {x}, Chains, Stored("primary", "none")),
    Case("etf", "ok", 2, {x}, Chains, Stored("none", "blank")),
    Case("etf", "ok", 3, {x}, Chains, Stored("primary", "none")),
    Case("etf", "unknown", 2, {x}, Chains, Stored("primary", "none")),
    Case("fund", "ok", 1, {x}, Chains, Nothing),
    Case("fund", "ok", 1, {x, y}, {"daily"}, Nothing),
    Case("fund", "unknown", 1, {x, y}, {"daily"}, Nothing)}

=============================================================================
