------------------------------ MODULE Sessions ------------------------------
(***************************************************************************)
(* One session of the browser at core/idle_activity.py: how long it may    *)
(* rest and how long it may last, enforced by two keys in Redis that       *)
(* core/deps.py reads and writes around every request.                     *)
(*                                                                         *)
(* The keys are forgotten after a day of rest, and a day after the last    *)
(* hour of the session.  What is refused must stay refused for as long.    *)
(* Requests of one session run beside each other; every call to the store  *)
(* is a step, and may fail, in which case the request goes on.             *)
(***************************************************************************)
EXTENDS Integers

CONSTANTS
    Calls,       \* requests that may run at once
    IdleLimit,   \* IDLE_TIMEOUT_SECONDS
    Lifetime,    \* ABSOLUTE_SESSION_LIFETIME_SECONDS
    IdleKept,    \* _GC_TTL_SECONDS
    LastTime,    \* bound on the clock
    MaxOutages   \* bound on failing calls to the store

ASSUME SessionsAssumption ==
    /\ {IdleLimit, Lifetime, IdleKept, LastTime, MaxOutages} \subseteq Nat
    /\ Lifetime < IdleKept

VARIABLES
    time,
    active,      \* session:active, the last activity
    start,       \* session:lifetime_start
    call,        \* how far each request is
    outages,     \* calls to the store that have failed
    first,       \* history: when the start was first recorded, or -1
    refused,     \* history: a request has been refused
    crossed      \* history: it was refused while another had passed its check

sessionVars == <<time, active, start, call, outages, first, refused, crossed>>

\* A key holds a moment until it is forgotten; -1 is no moment.
Key == [at : Int, until : Int]
NoKey == [at |-> -1, until |-> -1]
IsKept(key) == time < key.until

\* _LIFETIME_GC_TTL_SECONDS
StartKept == Lifetime + IdleKept

\* late: its first check came after a refusal.
Call == [at : {"out", "fresh", "unset", "young"}, moment : Int, late : BOOLEAN]
NoCall == [at |-> "out", moment |-> -1, late |-> FALSE]

SessionsInit ==
    /\ time = 0
    /\ active = NoKey /\ start = NoKey
    /\ call = [c \in Calls |-> NoCall]
    /\ outages = 0
    /\ first = -1 /\ refused = FALSE /\ crossed = FALSE

Goes(c, at) == call' = [call EXCEPT ![c].at = at]
StoreFails == outages < MaxOutages /\ outages' = outages + 1

Refuse(c) ==
    /\ call' = [call EXCEPT ![c] = NoCall]
    /\ refused' = TRUE
    /\ crossed' = (crossed \/ \E d \in Calls \ {c} : call[d].at # "out")

-----------------------------------------------------------------------------
(* current_principal, for a token that is valid.                           *)

IsIdle == IsKept(active) /\ time - active.at > IdleLimit

CheckIdle(c) ==
    /\ call[c].at = "out"
    /\ \/ IsIdle /\ Refuse(c) /\ UNCHANGED outages
       \/ /\ \/ ~IsIdle /\ UNCHANGED outages
             \/ StoreFails
          /\ call' = [call EXCEPT ![c] = [at |-> "fresh", moment |-> -1, late |-> refused]]
          /\ UNCHANGED <<refused, crossed>>
    /\ UNCHANGED <<time, active, start, first>>

\* session_lifetime_expired, its read.
ReadStart(c) ==
    /\ call[c].at = "fresh"
    /\ \/ /\ IsKept(start) /\ time - start.at > Lifetime
          /\ Refuse(c) /\ UNCHANGED outages
       \/ /\ IsKept(start) /\ time - start.at <= Lifetime
          /\ Goes(c, "young") /\ UNCHANGED <<outages, refused, crossed>>
       \/ /\ ~IsKept(start)
          /\ call' = [call EXCEPT ![c].at = "unset", ![c].moment = time]
          /\ UNCHANGED <<outages, refused, crossed>>
       \/ StoreFails /\ Goes(c, "young") /\ UNCHANGED <<refused, crossed>>
    /\ UNCHANGED <<time, active, start, first>>

\* A mutant: the start is kept for as long as the last activity.
WriteStartForADay(c) ==
    /\ call[c].at = "unset"
    /\ Goes(c, "young")
    /\ IF IsKept(start)
          THEN UNCHANGED <<start, first>>
          ELSE /\ start' = [at |-> call[c].moment, until |-> time + IdleKept]
               /\ first' = IF first = -1 THEN time ELSE first
    /\ UNCHANGED <<time, active, outages, refused, crossed>>

\* set_timestamp_if_absent
WriteStart(c) ==
    /\ call[c].at = "unset"
    /\ Goes(c, "young")
    /\ \/ /\ IF IsKept(start)
                THEN UNCHANGED <<start, first>>
                ELSE /\ start' = [at |-> call[c].moment, until |-> time + StartKept]
                     /\ first' = IF first = -1 THEN time ELSE first
          /\ UNCHANGED outages
       \/ StoreFails /\ UNCHANGED <<start, first>>
    /\ UNCHANGED <<time, active, refused, crossed>>

\* touch_activity; the request is served.
Touch(c) ==
    /\ call[c].at = "young"
    /\ call' = [call EXCEPT ![c] = NoCall]
    /\ \/ active' = [at |-> time, until |-> time + IdleKept] /\ UNCHANGED outages
       \/ StoreFails /\ UNCHANGED active
    /\ UNCHANGED <<time, start, first, refused, crossed>>

PassTime ==
    /\ time < LastTime
    /\ time' = time + 1
    /\ UNCHANGED <<active, start, call, outages, first, refused, crossed>>

SessionsNext ==
    \/ \E c \in Calls : CheckIdle(c) \/ ReadStart(c) \/ WriteStart(c) \/ Touch(c)
    \/ PassTime

SessionsSpec == SessionsInit /\ [][SessionsNext]_sessionVars

-----------------------------------------------------------------------------
SessionsTypeOK ==
    /\ time \in 0 .. LastTime
    /\ active \in Key /\ start \in Key
    /\ call \in [Calls -> Call]
    /\ outages \in 0 .. MaxOutages
    /\ first \in -1 .. LastTime
    /\ refused \in BOOLEAN /\ crossed \in BOOLEAN

\* core/idle_activity.py:38-45, 205-211: a session that was refused once, for
\* its rest or for its age, is not served again before both its keys may have
\* been forgotten, StartKept after it began; whatever was refused is not
\* revived by a key that expires.  Excepted are a request that had passed its
\* check when another was refused, and a store that failed.
EndedStaysEnded ==
    /\ SessionsTypeOK
    /\ \A c \in Calls :
        /\ call[c].at = "young" /\ call[c].late
        /\ outages = 0 /\ ~crossed
        => time >= first + StartKept

=============================================================================
