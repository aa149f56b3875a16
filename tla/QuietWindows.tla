---------------------------- MODULE QuietWindows ----------------------------
(***************************************************************************)
(* While reports are written, agents are turned away: quiet_retry_after of *)
(* core/agent_limits.py asks Redis for a marker of each heavy task, which  *)
(* tasks/__init__.py sets when the task is published and deletes when it   *)
(* has run, for a cooldown after that, and the schedule for a task that is *)
(* about to start.                                                         *)
(*                                                                         *)
(* A task is retried under its id; its message is delivered again when a   *)
(* worker dies or takes too long; a worker that is killed sends no signal; *)
(* and the store may fail at any of its calls, which is logged only.       *)
(***************************************************************************)
EXTENDS Integers

CONSTANTS
    HeavyTasks,  \* ids of published tasks
    MarkKept,    \* four hours
    Cooldown,    \* five minutes
    Margin,      \* five minutes before and after a scheduled start
    Fires,       \* the scheduled starts
    LastMoment,  \* bound on the clock
    MaxFlaws     \* bound on failing calls, dead workers and repeated deliveries

ASSUME QuietAssumption ==
    /\ {MarkKept, Cooldown, Margin, LastMoment, MaxFlaws} \subseteq Nat
    /\ Fires \subseteq Int

VARIABLES
    clock,
    heavy,       \* each task in the broker and in its workers
    mark,        \* agent:quiet:active of each task, until when
    cool,        \* agent:quiet:cooldown, until when
    flaws,       \* what has gone wrong
    since,       \* history: when each task was published last
    ended,       \* history: when a task last ended, or -1
    blamed       \* history: the tasks something went wrong with

quietVars == <<clock, heavy, mark, cool, flaws, since, ended, blamed>>

\* known: published once; sent: messages; runs: workers at it; ending: between
\* the two calls of task_postrun.
Heavy == [known : BOOLEAN, sent : Nat, runs : Nat, ending : BOOLEAN]
NoHeavy == [known |-> FALSE, sent |-> 0, runs |-> 0, ending |-> FALSE]
InFlight(h) == heavy[h].sent > 0 \/ heavy[h].runs > 0

QuietInit ==
    /\ clock = 0
    /\ heavy = [h \in HeavyTasks |-> NoHeavy]
    /\ mark = [h \in HeavyTasks |-> 0]
    /\ cool = 0
    /\ flaws = 0
    /\ since = [h \in HeavyTasks |-> 0]
    /\ ended = -1
    /\ blamed = {}

Flaw(h) == flaws < MaxFlaws /\ flaws' = flaws + 1 /\ blamed' = blamed \cup {h}
Fine == UNCHANGED <<flaws, blamed>>

-----------------------------------------------------------------------------
(* The signals of Celery.                                                  *)

\* before_task_publish
Published(h) ==
    /\ since' = [since EXCEPT ![h] = clock]
    /\ \/ mark' = [mark EXCEPT ![h] = clock + MarkKept] /\ Fine
       \/ UNCHANGED mark /\ Flaw(h)

\* Celery Beat or Ops.
Publish(h) ==
    /\ ~heavy[h].known
    /\ heavy' = [heavy EXCEPT ![h] = [NoHeavy EXCEPT !.known = TRUE, !.sent = 1]]
    /\ Published(h)
    /\ UNCHANGED <<clock, cool, ended>>

StartHeavy(h) ==
    /\ heavy[h].sent > 0
    /\ heavy' = [heavy EXCEPT ![h].sent = @ - 1, ![h].runs = @ + 1]
    /\ Fine
    /\ UNCHANGED <<clock, mark, cool, since, ended>>

\* A mutant: task_postrun takes a retry for an end.
RetryUnmarks(h) ==
    /\ heavy[h].runs > 0
    /\ heavy' = [heavy EXCEPT ![h].runs = @ - 1, ![h].sent = @ + 1]
    /\ mark' = [mark EXCEPT ![h] = 0]
    /\ since' = [since EXCEPT ![h] = clock]
    /\ Fine
    /\ UNCHANGED <<clock, cool, ended>>

\* self.retry publishes the message again; task_postrun sees the state RETRY.
Retry(h) ==
    /\ heavy[h].runs > 0
    /\ heavy' = [heavy EXCEPT ![h].runs = @ - 1, ![h].sent = @ + 1]
    /\ Published(h)
    /\ UNCHANGED <<clock, cool, ended>>

\* task_postrun, in any other state: delete, then the cooldown.
EndHeavy(h) ==
    /\ heavy[h].runs > 0
    /\ \/ /\ mark' = [mark EXCEPT ![h] = 0]
          /\ heavy' = [heavy EXCEPT ![h].runs = @ - 1, ![h].ending = TRUE]
          /\ Fine
       \/ /\ heavy' = [heavy EXCEPT ![h].runs = @ - 1]
          /\ UNCHANGED mark /\ Flaw(h)
    /\ ended' = clock
    /\ UNCHANGED <<clock, cool, since>>

SetCooldown(h) ==
    /\ heavy[h].ending
    /\ heavy' = [heavy EXCEPT ![h].ending = FALSE]
    /\ \/ cool' = clock + Cooldown /\ Fine
       \/ UNCHANGED cool /\ Flaw(h)
    /\ UNCHANGED <<clock, mark, since, ended>>

\* Its message is delivered again, or the main process saw the child die and
\* acknowledged it.
HeavyDies(h) ==
    /\ heavy[h].runs > 0
    /\ \/ heavy' = [heavy EXCEPT ![h].runs = @ - 1, ![h].sent = @ + 1]
       \/ heavy' = [heavy EXCEPT ![h].runs = @ - 1]
    /\ Flaw(h)
    /\ UNCHANGED <<clock, mark, cool, since, ended>>

\* The broker gives up on a worker that is still at it.
DeliverAgain(h) ==
    /\ heavy[h].runs > 0
    /\ heavy' = [heavy EXCEPT ![h].sent = @ + 1]
    /\ Flaw(h)
    /\ UNCHANGED <<clock, mark, cool, since, ended>>

Minute ==
    /\ clock < LastMoment
    /\ clock' = clock + 1
    /\ UNCHANGED <<heavy, mark, cool, flaws, since, ended, blamed>>

QuietNext ==
    \/ \E h \in HeavyTasks :
        \/ Publish(h) \/ StartHeavy(h) \/ Retry(h)
        \/ EndHeavy(h) \/ SetCooldown(h)
        \/ HeavyDies(h) \/ DeliverAgain(h)
    \/ Minute

QuietSpec == QuietInit /\ [][QuietNext]_quietVars

-----------------------------------------------------------------------------
(* quiet_retry_after                                                       *)

IsMarked == \E h \in HeavyTasks : mark[h] > clock
IsCooling == cool > clock
\* Celery looks strictly after the anchor, which is just before the margin.
IsScheduled == \E f \in Fires : clock - Margin <= f /\ f <= clock + Margin
TurnedAway == IsMarked \/ IsCooling \/ IsScheduled

QuietTypeOK ==
    /\ clock \in 0 .. LastMoment
    /\ heavy \in [HeavyTasks -> Heavy]
    /\ mark \in [HeavyTasks -> Nat] /\ cool \in Nat
    /\ flaws \in 0 .. MaxFlaws
    /\ since \in [HeavyTasks -> Nat] /\ ended \in -1 .. LastMoment
    /\ blamed \subseteq HeavyTasks

Recently(moment, length) == moment >= 0 /\ clock < moment + length

\* Agents are turned away exactly when there is a reason (core/agent_limits.py:
\* 19-37 with tasks/__init__.py:57-69, 434-456).  They are let in only if each
\* heavy task that waits, runs or is to be retried was published MarkKept ago
\* and none has just ended; and they are turned away only beside a scheduled
\* start, for such a task, or after one.  Excepted are tasks something went
\* wrong with, and of these the marker goes after MarkKept as well; and the
\* moment between the two calls of task_postrun.
GateMatchesTasks ==
    /\ QuietTypeOK
    /\ ~TurnedAway =>
        /\ \A h \in HeavyTasks \ blamed : InFlight(h) => ~Recently(since[h], MarkKept)
        /\ Recently(ended, Cooldown) =>
            blamed # {} \/ \E h \in HeavyTasks : heavy[h].ending
    /\ TurnedAway =>
        \/ IsScheduled \/ IsCooling
        \/ \E h \in HeavyTasks :
            (InFlight(h) \/ h \in blamed) /\ Recently(since[h], MarkKept)

=============================================================================
