----------------------------- MODULE Snapshots -----------------------------
(***************************************************************************)
(* The daily portfolio snapshot: services/portfolio_history.py freezes a   *)
(* day's rows in an outbox and then publishes them, in two transactions;   *)
(* services/snapshot_recovery.py, which the daily task runs at its end and *)
(* Ops may run at any time, replays what was frozen and not published and  *)
(* rebuilds what was never frozen (tasks/capture_tasks.py).                *)
(*                                                                         *)
(* Each transaction is an action.  The worker may die between two of them. *)
(* A book is what a snapshot shows of a user's holdings: the shares of     *)
(* each holding.  Prices are left out: like the shares, they are frozen.   *)
(***************************************************************************)
EXTENDS Integers

CONSTANTS
    Users,
    Holdings,
    Foreign,        \* the holdings whose currency needs an exchange rate
    Shares,
    Unreadable,     \* a payload whose checksum or encryption is broken
    LastDay,        \* bound: the day a run ends
    Lookback,       \* CATCHUP_LOOKBACK_DAYS
    Retention,      \* OUTBOX_APPLIED_RETENTION_DAYS
    MaxRetries,     \* the retries of the daily task
    MaxEdits,       \* bound: the edits of holdings
    MaxFaults       \* bound: dead tasks and broken payloads, all before LastDay

Days == 1..LastDay
Rows == UNION {[held -> Shares] : held \in SUBSET Holdings}
NoRows == [h \in {} |-> 0]

ASSUME SnapshotsAssumption ==
    /\ Foreign \subseteq Holdings /\ Unreadable \notin Rows
    /\ LastDay \in Nat \ {0} /\ Lookback \in Nat /\ Retention \in Nat
    /\ MaxRetries \in Nat /\ MaxEdits \in Nat /\ MaxFaults \in Nat

VARIABLES
    book,       \* the holdings of each user
    rates,      \* the days for which every exchange rate is found
    today,      \* the ET date
    slot,       \* what is stored for each user and day
    left,       \* how often today's task may still be started
    task,       \* how far the daily task is
    faults,     \* how many faults there were
    edits       \* how many edits there were

vars == <<book, rates, today, slot, left, task, faults, edits>>

\* batch: portfolio_snapshot_batches.status; outbox, frozen: the status and the
\* payload of portfolio_snapshot_outbox; live: portfolio_value_snapshots.
Slot == [batch : {"none", "pending", "complete", "skipped_deps"},
         outbox : {"none", "computed", "applied", "failed"},
         frozen : Rows \cup {Unreadable},
         live : Rows]
NoSlot == [batch |-> "none", outbox |-> "none", frozen |-> NoRows, live |-> NoRows]

\* Users: those that the recovery read when it began.
Idle == [pc |-> "idle", day |-> 0, users |-> {}]

-----------------------------------------------------------------------------
(* One user and day.                                                       *)

\* snapshot_fanout_user_ids: users with a holding, or ever tracked before.
FanOut == {u \in Users : book[u] # NoRows \/ \E d \in Days : slot[u][d].batch # "none"}

\* Mutant: the rates are not waited for.
ReadyAnyway(u, d) == TRUE

Ready(u, d) == DOMAIN book[u] \cap Foreign = {} \/ d \in rates

\* stage_user_snapshot: freeze the book, or note what is missing.
Staged(s, u, d) ==
    IF Ready(u, d)
    THEN [s EXCEPT !.batch = IF @ = "none" THEN "pending" ELSE @,
                   !.outbox = "computed", !.frozen = book[u]]
    ELSE [s EXCEPT !.batch = "skipped_deps"]

\* Mutant: rows that are not in the payload are left.
AppliedByUpsert(s) ==
    [s EXCEPT !.batch = "complete", !.outbox = "applied",
              !.live = [h \in DOMAIN s.frozen \cup DOMAIN s.live |->
                            IF h \in DOMAIN s.frozen THEN s.frozen[h] ELSE s.live[h]]]

\* apply_outbox_row: the day's rows become the payload's, stale ones deleted.
Applied(s) ==
    [s EXCEPT !.batch = "complete", !.outbox = "applied", !.live = s.frozen]

\* Mutant: the batch is marked instead of the payload.
ReplayedFailsBatch(s) ==
    IF s.frozen = Unreadable THEN [s EXCEPT !.batch = "failed"] ELSE Applied(s)

\* A replay; a payload that cannot be decoded is marked failed.
Replayed(s) ==
    IF s.frozen = Unreadable THEN [s EXCEPT !.outbox = "failed"] ELSE Applied(s)

\* Nothing is frozen: the day is rebuilt from the book as it is now.
Rebuilt(s, u, d) ==
    IF d < today - Lookback THEN s
    ELSE IF Ready(u, d) THEN Applied(Staged(s, u, d))
    ELSE Staged(s, u, d)

\* Mutant: what is frozen counts only while it is not applied.
RecoveredComputed(s, u, d) ==
    IF s.batch = "complete" \/ s.outbox = "failed" THEN s
    ELSE IF s.outbox = "computed" THEN Replayed(s)
    ELSE Rebuilt(s, u, d)

\* Mutant: a pending day is left to the task that began it.
RecoveredNotPending(s, u, d) ==
    IF s.batch \in {"complete", "pending"} \/ s.outbox = "failed" THEN s
    ELSE IF s.outbox # "none" THEN Replayed(s)
    ELSE Rebuilt(s, u, d)

\* _recover_user_day, for a day that is not complete.
Recovered(s, u, d) ==
    IF s.batch = "complete" \/ s.outbox = "failed" THEN s
    ELSE IF s.outbox # "none" THEN Replayed(s)
    ELSE Rebuilt(s, u, d)

\* prune_applied_outbox.
Pruned(s, d) ==
    IF s.outbox = "applied" /\ d < today - Retention
    THEN [s EXCEPT !.outbox = "none", !.frozen = NoRows] ELSE s

\* One date of recover_portfolio_snapshots, for the users it read when it began.
RecoveredOn(d, whom) ==
    [u \in Users |-> IF u \in whom
                     THEN [slot[u] EXCEPT ![d] = Recovered(@, u, d)] ELSE slot[u]]

FirstDay == IF today - Lookback < 1 THEN 1 ELSE today - Lookback

-----------------------------------------------------------------------------
Init ==
    /\ book \in [Users -> Rows]
    /\ rates = {}
    /\ today = 1
    /\ slot = [u \in Users |-> [d \in Days |-> NoSlot]]
    /\ left = MaxRetries + 1
    /\ task = Idle
    /\ faults = 0 /\ edits = 0

\* A day ends after its task did, or was lost.
Midnight ==
    /\ today < LastDay
    /\ left = 0 /\ task = Idle
    /\ today' = today + 1
    /\ left' = MaxRetries + 1
    /\ UNCHANGED <<book, rates, slot, task, faults, edits>>

\* Exchange rates for a day are found, late ones too.
RatesArrive(d) ==
    /\ d <= today /\ d \notin rates
    /\ rates' = rates \cup {d}
    /\ UNCHANGED <<book, today, slot, left, task, faults, edits>>

\* The user edits one holding.
BookChanges(u) ==
    /\ \E h \in Holdings :
        \/ \E n \in Shares : book' = [book EXCEPT ![u] =
                [x \in DOMAIN book[u] \cup {h} |-> IF x = h THEN n ELSE book[u][x]]]
        \/ book' = [book EXCEPT ![u] = [x \in DOMAIN book[u] \ {h} |-> book[u][x]]]
    /\ book' # book
    /\ edits < MaxEdits /\ edits' = edits + 1
    /\ UNCHANGED <<rates, today, slot, left, task, faults>>

\* capture_portfolio_value_snapshot, up to its first commit.
TaskFreezes ==
    /\ task = Idle /\ left > 0
    /\ slot' = [u \in Users |-> [d \in Days |->
                    Pruned(IF d = today /\ u \in FanOut
                           THEN Staged(slot[u][d], u, d) ELSE slot[u][d], d)]]
    /\ task' = [pc |-> "frozen", day |-> today, users |-> {}]
    /\ UNCHANGED <<book, rates, today, left, faults, edits>>

Computed(d) == {u \in FanOut : slot[u][d].outbox = "computed"}

\* ...up to its second: all that is frozen for the day is published at once.
TaskPublishes ==
    /\ task.pc = "frozen"
    /\ \A u \in Computed(task.day) : slot[u][task.day].frozen # Unreadable
    /\ slot' = [u \in Users |->
                    IF u \in Computed(task.day)
                    THEN [slot[u] EXCEPT ![task.day] = Applied(@)] ELSE slot[u]]
    /\ task' = [pc |-> "recovering", day |-> FirstDay, users |-> {}]
    /\ UNCHANGED <<book, rates, today, left, faults, edits>>

\* An unreadable payload raises, nothing is published, and the task is retried.
TaskRaises ==
    /\ task.pc = "frozen"
    /\ \E u \in Computed(task.day) : slot[u][task.day].frozen = Unreadable
    /\ task' = Idle
    /\ left' = left - 1
    /\ UNCHANGED <<book, rates, today, slot, faults, edits>>

\* recover_portfolio_snapshots commits date by date.
TaskRecovers ==
    /\ task.pc = "recovering"
    /\ LET whom == IF task.day = FirstDay THEN FanOut ELSE task.users
       IN  /\ slot' = RecoveredOn(task.day, whom)
           /\ IF task.day = today
              THEN task' = Idle /\ left' = 0
              ELSE /\ task' = [task EXCEPT !.day = @ + 1, !.users = whom]
                   /\ left' = left
    /\ UNCHANGED <<book, rates, today, faults, edits>>

\* The worker dies or the task raises: it is redelivered, retried or lost.
TaskDies ==
    /\ left > 0
    /\ today < LastDay /\ faults < MaxFaults
    /\ faults' = faults + 1
    /\ task' = Idle
    /\ left' \in {left, left - 1, 0}
    /\ UNCHANGED <<book, rates, today, slot, edits>>

\* recover_portfolio_snapshots_endpoint, for one date.
OpsRecovers(d) ==
    /\ d <= today
    /\ slot' = RecoveredOn(d, FanOut)
    /\ UNCHANGED <<book, rates, today, left, task, faults, edits>>

\* A frozen payload is damaged.
PayloadBreaks(u, d) ==
    /\ today < LastDay /\ faults < MaxFaults
    /\ slot[u][d].outbox \in {"computed", "applied"}
    /\ slot[u][d].frozen # Unreadable
    /\ slot' = [slot EXCEPT ![u][d].frozen = Unreadable]
    /\ faults' = faults + 1
    /\ UNCHANGED <<book, rates, today, left, task, edits>>

Next ==
    \/ Midnight
    \/ \E d \in Days : RatesArrive(d) \/ OpsRecovers(d)
    \/ \E u \in Users : BookChanges(u) \/ \E d \in Days : PayloadBreaks(u, d)
    \/ TaskFreezes \/ TaskPublishes \/ TaskRaises \/ TaskRecovers \/ TaskDies

Spec == Init /\ [][Next]_vars

\* Days pass, the task is started on each (Celery beat) and runs to its end.
SnapshotFairness ==
    /\ WF_vars(Midnight) /\ WF_vars(TaskFreezes)
    /\ WF_vars(TaskPublishes \/ TaskRaises) /\ WF_vars(TaskRecovers)

FairSpec == Spec /\ SnapshotFairness

-----------------------------------------------------------------------------
(* Properties.                                                             *)

\* Every variable keeps its type.
TypeOK ==
    /\ book \in [Users -> Rows]
    /\ rates \subseteq Days /\ today \in Days
    /\ slot \in [Users -> [Days -> Slot]]
    /\ left \in 0..(MaxRetries + 1) /\ faults \in 0..MaxFaults /\ edits \in 0..MaxEdits
    /\ task \in [pc : {"idle", "frozen", "recovering"},
                day : 0..LastDay, users : SUBSET Users]

\* A payload marked applied is exactly what the performance pages show of the
\* day: nothing of a larger or older book is left among it, whoever applied it
\* and however often the day was frozen (services/portfolio_history.py,
\* apply_outbox_row).  And what they show was valued with the day's exchange
\* rates, though these may arrive after the day was frozen, set aside, frozen
\* again or rebuilt.
ShownIsFrozen ==
    \A u \in Users, d \in Days :
        /\ slot[u][d].outbox = "applied" /\ slot[u][d].frozen # Unreadable =>
                slot[u][d].live = slot[u][d].frozen
        /\ DOMAIN slot[u][d].live \cap Foreign # {} => d \in rates

\* What a past evening froze is never replaced by a later book: recovery replays
\* it, once or again, and only damage or retention ends it
\* (services/snapshot_recovery.py).
PastIsReplayed ==
    [][\A u \in Users, d \in Days :
        d < today /\ slot[u][d].outbox \in {"computed", "applied"} =>
            \/ slot'[u][d].frozen \in {slot[u][d].frozen, Unreadable}
            \/ /\ slot[u][d].outbox = "applied"
               /\ slot'[u][d].outbox = "none"]_vars

\* However the worker dies, and whoever recovers: when no day is left to freeze,
\* each day that was frozen is shown, for good, unless its payload was damaged;
\* none stays frozen and unshown, and none pending.
RecoverySettles ==
    <>[](\A u \in Users, d \in Days :
            slot[u][d].outbox = "computed" \/ slot[u][d].batch = "pending" =>
                slot[u][d].batch = "complete" \/ slot[u][d].outbox = "failed")

\* What is frozen is published in the end, unless it was damaged: a failure
\* while publishing leaves the day recoverable.
FrozenIsPublished ==
    \A u \in Users, d \in Days :
        slot[u][d].outbox = "computed" ~> slot[u][d].outbox # "computed"
=============================================================================
