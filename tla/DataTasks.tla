----------------------------- MODULE DataTasks -----------------------------
(***************************************************************************)
(* The background tasks that bring data in, beside each other: snapshots   *)
(* of the portfolios, closing prices and values of funds, and the paid     *)
(* deepening of news, by one worker and by two.  Each has tables of its    *)
(* own; a snapshot takes prices as they are, and freezes them.  No step of *)
(* one can disturb another, so a behaviour here is about one of them, and  *)
(* the others have nothing to do.                                          *)
(***************************************************************************)
EXTENDS Snapshots, SlotRuns, Capture

VARIABLE part   \* which of them this behaviour is about

dataVars == <<vars, deepenVars, slotVars, captureVars, part>>

DataInit ==
    /\ part \in {"snapshots", "deepening", "slot", "capture"}
    /\ Init /\ DeepenInit /\ SlotInit /\ CaptureInit
    /\ part # "snapshots" => book = [u \in Users |-> NoRows]
    /\ part # "deepening" => triggers = 0
    /\ part # "slot" => slotTriggers = 0
    /\ part # "capture" => held = {}

SnapshotStep ==
    part = "snapshots" /\ Next /\ UNCHANGED <<deepenVars, slotVars, captureVars, part>>
DeepenStep == part = "deepening" /\ DeepenNext /\ UNCHANGED <<vars, slotVars, captureVars, part>>
SlotStep == part = "slot" /\ SlotNext /\ UNCHANGED <<vars, deepenVars, captureVars, part>>
CaptureStep == part = "capture" /\ CaptureNext /\ UNCHANGED <<vars, deepenVars, slotVars, part>>

\* Those of Snapshots and Deepening; a slot that is not triggered is at rest.
DataFairness ==
    /\ WF_vars(part = "snapshots" /\ Midnight)
    /\ WF_vars(part = "snapshots" /\ TaskFreezes)
    /\ WF_vars(part = "snapshots" /\ (TaskPublishes \/ TaskRaises))
    /\ WF_vars(part = "snapshots" /\ TaskRecovers)
    /\ DeepenFairness

DataSpec ==
    /\ DataInit
    /\ [][SnapshotStep \/ DeepenStep \/ SlotStep \/ CaptureStep]_dataVars
    /\ DataFairness

=============================================================================
