----------------------------- MODULE MCAccounts -----------------------------
(***************************************************************************)
(* An instance of Access: two addresses, three invites, two sessions,    *)
(* and two processes at the links of one account.                          *)
(***************************************************************************)
EXTENDS Access, TLC

CONSTANTS alice, bob, post, p1, p2, c1, c2

\* Two of each for a session, its tokens, the heavy tasks and the mails.
CONSTANTS d1, d2, t1, t2, r1, r2, h1, h2, s1, s2

Budget(signup, op, run, deletion, other, fault) ==
    [signups |-> signup, ops |-> op, runs |-> run, deletions |-> deletion,
     others |-> other, faults |-> fault]

Allowance(ask, click, age, break) ==
    [asks |-> ask, clicks |-> click, ages |-> age, breaks |-> break]

\* Signups against Ops and deletions, letters and automatic runs, each with
\* what can cross it; and an account, that may be deleted, with its links.
MCBounds ==
    {Budget(2, 0, 0, 2, 0, 0), Budget(2, 0, 0, 1, 0, 1), Budget(2, 1, 0, 1, 0, 0),
     Budget(1, 2, 0, 1, 0, 0), Budget(1, 2, 0, 0, 1, 0), Budget(1, 1, 0, 1, 1, 0),
     Budget(1, 1, 1, 0, 1, 0), Budget(1, 1, 1, 0, 0, 1), Budget(0, 1, 2, 0, 2, 1),
     Budget(2, 2, 0, 0, 0, 0)}
        \X {Allowance(0, 0, 0, 0)}
    \cup {Budget(1, 0, 0, 1, 0, 0)}
        \X {Allowance(2, 1, 1, 0), Allowance(1, 2, 1, 0), Allowance(1, 1, 0, 1)}

MCBudgets == {b[1] : b \in MCBounds}
MCAllowances == {b[2] : b \in MCBounds}

\* No property of this run is a liveness property.
Symmetry == Permutations({p1, p2}) \cup Permutations({c1, c2})

=============================================================================
