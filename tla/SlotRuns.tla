------------------------------ MODULE SlotRuns ------------------------------
(***************************************************************************)
(* Two workers that run the same slot: tasks/intel_tasks.py reads the row  *)
(* of a slot without a lock and writes it later, so two triggers of a slot *)
(* that has failed may both run.  They share the row and the ledger; each  *)
(* has a meter (PaidUsage), a coordinator and a pool of its own, and the   *)
(* lock of the meter is one of its process.                                *)
(*                                                                         *)
(* The slot has its own units, pools and bounds, for two workers have many *)
(* more states than one; what it may spend and what calls cost is as in    *)
(* Deepening.                                                              *)
(***************************************************************************)
EXTENDS Deepening

CONSTANTS
    SlotThreads,    \* the pool of each worker
    SlotMovers,     \* the units of the only wave of this slot
    SlotConfigured, \* the providers with a key
    SlotAllowed     \* bound: Allowed, of this slot

SlotUnits == {SlotMovers[i] : i \in DOMAIN SlotMovers}

ASSUME SlotAssumption ==
    /\ SlotUnits \subseteq Units
    /\ SlotConfigured \subseteq Providers
    /\ SlotAllowed \subseteq Nat \X Nat

VARIABLES
    \* shared by both:
    slotStatus, slotSpent, slotBilled, slotOver, slotLost, slotTriggers, slotTroubles,
    \* of one worker, and of the other:
    taskA, queueA, coordA, groupsA, jobsA, threadA, meterA, searchesA, unseenA,
    taskB, queueB, coordB, groupsB, jobsB, threadB, meterB, searchesB, unseenB,
    latest,             \* which of them has read the clock last
    overlapped          \* history: a run read the ledger while it was incomplete

A == INSTANCE Deepening WITH
    Threads <- SlotThreads, MoverUnits <- SlotMovers, OtherUnits <- <<>>, DualTop <- 0,
    Configured <- SlotConfigured,
    Links <- [u \in SlotUnits |-> Links[u]], Titles <- [u \in SlotUnits |-> Titles[u]],
    Allowed <- SlotAllowed, status <- slotStatus, spent <- slotSpent, billed <- slotBilled,
    over <- slotOver, lost <- slotLost, triggers <- slotTriggers, troubles <- slotTroubles,
    slotTask <- taskA, queue <- queueA, coord <- coordA, groups <- groupsA, jobs <- jobsA,
    thread <- threadA, meter <- meterA, searches <- searchesA, unseen <- unseenA

B == INSTANCE Deepening WITH
    Threads <- SlotThreads, MoverUnits <- SlotMovers, OtherUnits <- <<>>, DualTop <- 0,
    Configured <- SlotConfigured,
    Links <- [u \in SlotUnits |-> Links[u]], Titles <- [u \in SlotUnits |-> Titles[u]],
    Allowed <- SlotAllowed, status <- slotStatus, spent <- slotSpent, billed <- slotBilled,
    over <- slotOver, lost <- slotLost, triggers <- slotTriggers, troubles <- slotTroubles,
    slotTask <- taskB, queue <- queueB, coord <- coordB, groups <- groupsB, jobs <- jobsB,
    thread <- threadB, meter <- meterB, searches <- searchesB, unseen <- unseenB

ownA == <<taskA, queueA, coordA, groupsA, jobsA, threadA, meterA, searchesA>>
ownB == <<taskB, queueB, coordB, groupsB, jobsB, threadB, meterB, searchesB>>
slotVars == <<slotStatus, slotSpent, slotBilled, slotOver, slotLost, slotTriggers, slotTroubles,
              ownA, ownB, unseenA, unseenB, latest, overlapped>>

\* Between its clock and its meter, and with a meter.
AtDoor(task) == task.main \in {"triggered", "checked", "starting"}
Paying(task) == task.main \in {"collecting", "closing", "failing"}

-----------------------------------------------------------------------------
SlotInit ==
    /\ A!DeepenInit /\ B!DeepenInit
    /\ latest = "A" /\ overlapped = FALSE

\* The rows that a run writes carry the clock of its task; who reads the
\* ledger counts in the month no row with a later clock than his own.
NotSeen(missed, task, late) ==
    IF ~AtDoor(task) THEN None3
    ELSE IF late THEN [p \in Providers |-> missed[p] + slotSpent'[p] - slotSpent[p]] ELSE missed

\* The meter that is loaded lacks what the other run has still to pay, or rows
\* with a later clock.
LoadsTooSoon(task, missed, other) ==
    /\ task.main = "starting" /\ task'.main = "collecting"
    /\ Paying(other) \/ missed # None3

RunA ==
    /\ A!RunStep
    /\ latest' = IF A!Trigger THEN "A" ELSE latest
    /\ unseenA' = NotSeen(unseenA, taskA', FALSE)
    /\ unseenB' = NotSeen(unseenB, taskB, latest = "A")
    /\ overlapped' = (overlapped \/ LoadsTooSoon(taskA, unseenA, taskB))
    /\ UNCHANGED ownB

RunB ==
    /\ B!RunStep
    /\ latest' = IF B!Trigger THEN "B" ELSE latest
    /\ unseenB' = NotSeen(unseenB, taskB', FALSE)
    /\ unseenA' = NotSeen(unseenA, taskA, latest = "B")
    /\ overlapped' = (overlapped \/ LoadsTooSoon(taskB, unseenB, taskA))
    /\ UNCHANGED ownA

SlotNext == RunA \/ RunB

-----------------------------------------------------------------------------
\* However many times a slot that has failed is triggered, and wherever the
\* triggers meet: while no run starts to pay beside another, the rows of the slot
\* and the calls under way stay within the caps of one run and of the month, but
\* for what a provider reported above an estimate; once one has, within those of
\* two, since what a worker has paid is read by its own next run.  Each meter
\* holds back exactly its own calls under way (intel_slot_task, PaidUsage).
SpendTogether ==
    LET times == IF overlapped THEN 2 ELSE 1
    IN \A p \in Providers :
        LET a == A!UnderWay(p)
            b == B!UnderWay(p)
        IN /\ slotSpent[p] + a + b <= times * RunCap[p] + slotOver[p]
           /\ slotSpent[p] + a + b <= times * (MonthLimit[p] - Before[p]) + slotOver[p]
           /\ meterA.reserved[p] = a /\ meterB.reserved[p] = b

\* The meters, the ledger and the providers agree on what a slot costs, run by one
\* worker or by two: it stays within its caps, and what is charged is on the ledger
\* (PaidUsage, _call).
SpendAccounted == DeepenTypeOK /\ SpendWithinCaps /\ ChargesRecorded /\ SpendTogether

=============================================================================
