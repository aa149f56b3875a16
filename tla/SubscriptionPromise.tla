------------------------ MODULE SubscriptionPromise ------------------------
(***************************************************************************)
(* What subscribers are promised, with no plan, fee or calendar in it:     *)
(* paid service is not withdrawn before its end, and the scheduler extends *)
(* it on its own only by charging, never for a user who has left.          *)
(*                                                                         *)
(* service: never (not yet subscribed), running, ending (to stop at its    *)
(* end), lapsed (the fee could not be charged), ended.                     *)
(***************************************************************************)
EXTENDS Integers

CONSTANTS Subscribers

VARIABLES
    day,        \* the date
    service,    \* the state of each subscriber's service
    until,      \* the last day that is paid for
    credits,    \* the balance it is paid from
    acted       \* the day of the user's last adjustment

vars == <<day, service, until, credits, acted>>

Over(u) == service[u] \in {"running", "ending"} /\ day > until[u]

Init ==
    /\ day = 1
    /\ service = [u \in Subscribers |-> "never"]
    /\ until \in [Subscribers -> Nat]
    /\ credits \in [Subscribers -> Nat]
    /\ acted = [u \in Subscribers |-> 0]

\* Nothing else changes for the others.
Only(u) ==
    \A v \in Subscribers \ {u} :
        /\ service'[v] = service[v] /\ until'[v] = until[v] /\ acted'[v] = acted[v]
        /\ credits'[v] >= credits[v]

DayPasses == day' = day + 1 /\ UNCHANGED <<service, until, credits, acted>>

CreditsArrive(u) ==
    /\ credits'[u] > credits[u]
    /\ Only(u)
    /\ UNCHANGED <<day, service, until, acted>>

\* The user asks for something, once a day: what is running stays, and its end
\* moves only later, past today.
UserAdjusts(u) ==
    /\ acted[u] # day /\ acted'[u] = day
    /\ service'[u] \in {"running", "ending"}
    /\ \/ until'[u] = until[u]
       \/ until'[u] > until[u] /\ until'[u] >= day
    /\ Only(u)
    /\ UNCHANGED day

\* Losing the last verified address ends the service, at its end; a click that
\* comes late finds it over.
Leaves(u) ==
    /\ service[u] = "running" /\ service' = [service EXCEPT ![u] = "ending"]
    /\ UNCHANGED <<day, until, credits, acted>>

\* The scheduler takes the service away, after its end.
Withdraws(u) ==
    /\ Over(u)
    /\ \E s \in {"lapsed", "ended"} :
          /\ s = "lapsed" => service[u] = "running"
          /\ service' = [service EXCEPT ![u] = s]
    /\ UNCHANGED <<day, until, credits, acted>>

\* The scheduler extends the service, after its end, for credits.
Charges(u) ==
    /\ \/ service[u] \in {"never", "lapsed"}
       \/ Over(u) /\ service[u] = "running"
    /\ service'[u] = "running"
    /\ until'[u] >= day /\ until'[u] > until[u]
    /\ credits'[u] < credits[u]
    /\ acted'[u] = acted[u]
    /\ Only(u)
    /\ UNCHANGED day

Next ==
    \/ DayPasses
    \/ \E u \in Subscribers :
        CreditsArrive(u) \/ UserAdjusts(u) \/ Leaves(u) \/ Withdraws(u) \/ Charges(u)

Spec == Init /\ [][Next]_vars
=============================================================================
