-------------------------- MODULE DataTasksProofs --------------------------
(***************************************************************************)
(* What is proved about the tasks that bring data in: of Snapshots, for    *)
(* every set of users, holdings and shares, every number of days, window   *)
(* and retention; of Capture, for every set of instruments, every window,  *)
(* lag and number of attempts, every case to begin with and every number   *)
(* of mishaps.                                                             *)
(***************************************************************************)
EXTENDS DataTasks, TLAPS

\* A book that can be valued with the rates of a day.
HasRates(b, d) == DOMAIN b \cap Foreign # {} => d \in rates

\* What an action must keep of one user and day.
Good(s, d) ==
    /\ s \in Slot
    /\ s.outbox = "applied" /\ s.frozen # Unreadable => s.live = s.frozen
    /\ HasRates(s.live, d)
    /\ s.frozen # Unreadable => HasRates(s.frozen, d)

\* A payload is published without another look at the rates, so the rates must
\* have been there when it was frozen.
FrozenHasRates ==
    \A u \in Users, d \in Days :
        slot[u][d].frozen # Unreadable => HasRates(slot[u][d].frozen, d)

\* A task that runs has a start left, and is at a day that has come.
AtWork == task.pc # "idle" => task.day \in 1..today /\ left > 0

\* The inductive invariant.
IInv == TypeOK /\ ShownIsFrozen /\ FrozenHasRates /\ AtWork

\* The empty book is a book.
LEMMA NoRowsType == NoRows \in Rows /\ DOMAIN NoRows = {}
  BY DEF NoRows, Rows

\* A book is a function from some of the holdings.
LEMMA RowsAre ==
    /\ \A D \in SUBSET Holdings : [D -> Shares] \subseteq Rows
    /\ \A b \in Rows : DOMAIN b \subseteq Holdings /\ b \in [DOMAIN b -> Shares]
  BY DEF Rows

\* A frozen day is a good one: the payload is the book, and not applied yet.
LEMMA StagedGood ==
    ASSUME NEW s, NEW d, Good(s, d), NEW u \in Users, book[u] \in Rows
    PROVE  Good(Staged(s, u, d), d)
  BY DEF Good, HasRates, Staged, Ready, Slot

\* What is published is what was frozen (apply_outbox_row), for any payload
\* that can be read.
LEMMA AppliedGood ==
    ASSUME NEW s, NEW d, Good(s, d), s.frozen # Unreadable
    PROVE  Good(Applied(s), d)
  <1>1. s.frozen \in Rows
    BY DEF Good, Slot
  <1> QED
    BY <1>1 DEF Good, Applied, Slot

\* A replay keeps a good day good, a damaged payload included.
LEMMA ReplayedGood ==
    ASSUME NEW s, NEW d, Good(s, d)
    PROVE  Good(Replayed(s), d)
  <1>1. CASE s.frozen = Unreadable
    BY <1>1 DEF Good, Replayed, Slot
  <1>2. CASE s.frozen # Unreadable
    BY <1>2, AppliedGood DEF Replayed
  <1> QED
    BY <1>1, <1>2

\* So does a rebuilt day.
LEMMA RebuiltGood ==
    ASSUME NEW s, NEW d, Good(s, d), NEW u \in Users, book[u] \in Rows
    PROVE  Good(Rebuilt(s, u, d), d)
  <1>1. Good(Staged(s, u, d), d)
    BY StagedGood
  <1>2. Ready(u, d) => Staged(s, u, d).frozen # Unreadable
    BY SnapshotsAssumption DEF Staged, Good, Slot
  <1>3. Ready(u, d) => Good(Applied(Staged(s, u, d)), d)
    BY <1>1, <1>2, AppliedGood
  <1> QED
    BY <1>1, <1>3 DEF Rebuilt

\* And so does recovery, whichever way it takes (_recover_user_day).
LEMMA RecoveredGood ==
    ASSUME NEW s, NEW d, Good(s, d), NEW u \in Users, book[u] \in Rows
    PROVE  Good(Recovered(s, u, d), d)
  BY ReplayedGood, RebuiltGood DEF Recovered

\* Pruning forgets the payload, and with it the claim that it is shown.
LEMMA PrunedGood ==
    ASSUME NEW s, NEW d, Good(s, d)
    PROVE  Good(Pruned(s, d), d)
  BY NoRowsType DEF Good, HasRates, Pruned, Slot

\* The parts of the invariant that the actions on slots have to show.
LEMMA GoodSlots ==
    ASSUME IInv, NEW u \in Users, NEW d \in Days
    PROVE  Good(slot[u][d], d) /\ book[u] \in Rows
  BY DEF IInv, TypeOK, ShownIsFrozen, FrozenHasRates, HasRates, Good

LEMMA SlotsAreGood ==
    ASSUME slot' \in [Users -> [Days -> Slot]], rates' = rates,
           \A u \in Users, d \in Days : Good(slot'[u][d], d)
    PROVE  ShownIsFrozen' /\ FrozenHasRates'
  BY DEF ShownIsFrozen, FrozenHasRates, HasRates, Good

-----------------------------------------------------------------------------
\* A row of days with one day replaced.
LEMMA OneDay ==
    ASSUME NEW r \in [Days -> Slot], \A d \in Days : Good(r[d], d),
           NEW e \in Days, NEW s, Good(s, e)
    PROVE  /\ [r EXCEPT ![e] = s] \in [Days -> Slot]
           /\ \A d \in Days : Good([r EXCEPT ![e] = s][d], d)
  BY DEF Good

\* What is true of one date of a recovery.
LEMMA RecoveredOnGood ==
    ASSUME IInv, NEW d \in Days, NEW whom, slot' = RecoveredOn(d, whom), rates' = rates
    PROVE  slot' \in [Users -> [Days -> Slot]] /\ ShownIsFrozen' /\ FrozenHasRates'
  <1>1. ASSUME NEW u \in Users
        PROVE  slot'[u] \in [Days -> Slot] /\ \A e \in Days : Good(slot'[u][e], e)
    <2>1. slot[u] \in [Days -> Slot] /\ \A e \in Days : Good(slot[u][e], e)
      BY GoodSlots DEF IInv, TypeOK
    <2>2. Good(Recovered(slot[u][d], u, d), d)
      BY GoodSlots, RecoveredGood
    <2>3. /\ [slot[u] EXCEPT ![d] = Recovered(slot[u][d], u, d)] \in [Days -> Slot]
          /\ \A e \in Days : Good([slot[u] EXCEPT ![d] = Recovered(slot[u][d], u, d)][e], e)
      BY <2>1, <2>2, OneDay
    <2>4. slot'[u] = IF u \in whom
                     THEN [slot[u] EXCEPT ![d] = Recovered(slot[u][d], u, d)] ELSE slot[u]
      BY DEF RecoveredOn
    <2> QED
      BY <2>1, <2>3, <2>4
  <1>2. slot' \in [Users -> [Days -> Slot]]
    <2>1. slot' = [u \in Users |-> slot'[u]]
      BY DEF RecoveredOn
    <2> QED
      BY <1>1, <2>1
  <1> QED
    BY <1>1, <1>2, SlotsAreGood

\* A row of days with some days published.
LEMMA PublishedGood ==
    ASSUME IInv, TaskPublishes
    PROVE  slot' \in [Users -> [Days -> Slot]] /\ ShownIsFrozen' /\ FrozenHasRates'
  <1>0. task.day \in Days
    BY SnapshotsAssumption DEF TaskPublishes, IInv, AtWork, TypeOK, Days
  <1>1. ASSUME NEW u \in Users
        PROVE  slot'[u] \in [Days -> Slot] /\ \A d \in Days : Good(slot'[u][d], d)
    <2>1. slot[u] \in [Days -> Slot] /\ \A d \in Days : Good(slot[u][d], d)
      BY GoodSlots DEF IInv, TypeOK
    <2>2. CASE u \in Computed(task.day)
      <3>1. Good(Applied(slot[u][task.day]), task.day)
        BY <1>0, <2>1, <2>2, AppliedGood DEF TaskPublishes
      <3>2. slot'[u] = [slot[u] EXCEPT ![task.day] = Applied(slot[u][task.day])]
        BY <2>2 DEF TaskPublishes
      <3> QED
        BY <1>0, <2>1, <3>1, <3>2, OneDay
    <2>3. CASE u \notin Computed(task.day)
      BY <2>1, <2>3 DEF TaskPublishes
    <2> QED
      BY <2>2, <2>3
  <1>2. slot' \in [Users -> [Days -> Slot]]
    <2>1. slot' = [u \in Users |-> slot'[u]]
      BY DEF TaskPublishes
    <2> QED
      BY <1>1, <2>1
  <1> QED
    BY <1>1, <1>2, SlotsAreGood DEF TaskPublishes

\* Freezing and pruning touch every user and day.
LEMMA FrozenGood ==
    ASSUME IInv, TaskFreezes
    PROVE  slot' \in [Users -> [Days -> Slot]] /\ ShownIsFrozen' /\ FrozenHasRates'
  <1>1. ASSUME NEW u \in Users, NEW d \in Days
        PROVE  Good(slot'[u][d], d)
    <2>1. Good(IF d = today /\ u \in FanOut THEN Staged(slot[u][d], u, d) ELSE slot[u][d], d)
      BY GoodSlots, StagedGood
    <2>2. slot'[u][d] = Pruned(IF d = today /\ u \in FanOut
                               THEN Staged(slot[u][d], u, d) ELSE slot[u][d], d)
      BY DEF TaskFreezes
    <2> QED
      BY <2>1, <2>2, PrunedGood
  <1>2. slot' \in [Users -> [Days -> Slot]]
    <2>1. slot' = [u \in Users |-> [d \in Days |-> slot'[u][d]]]
      BY DEF TaskFreezes
    <2> QED
      BY <1>1, <2>1 DEF Good
  <1> QED
    BY <1>1, <1>2, SlotsAreGood DEF TaskFreezes

\* The daily task: freezing, publishing, raising, recovering, dying.
LEMMA TaskKeeps ==
    ASSUME IInv, TaskFreezes \/ TaskPublishes \/ TaskRaises \/ TaskRecovers \/ TaskDies
    PROVE  IInv'
  <1> USE SnapshotsAssumption
  <1>0. /\ today \in 1..LastDay /\ FirstDay \in 1..today /\ FanOut \in SUBSET Users
        /\ left \in 0..(MaxRetries + 1) /\ faults \in 0..MaxFaults
        /\ task \in [pc : {"idle", "frozen", "recovering"},
                     day : 0..LastDay, users : SUBSET Users]
    BY DEF FirstDay, FanOut, Days, IInv, TypeOK
  <1>1. CASE TaskFreezes
    BY <1>0, <1>1, FrozenGood DEF TaskFreezes, IInv, TypeOK, AtWork
  <1>2. CASE TaskPublishes
    BY <1>0, <1>2, PublishedGood DEF TaskPublishes, IInv, TypeOK, AtWork
  <1>3. CASE TaskRaises
    <2>1. left' \in 0..(MaxRetries + 1)
      BY <1>0, <1>3 DEF TaskRaises, IInv, AtWork
    <2>2. task' = Idle /\ UNCHANGED <<book, rates, today, slot, faults, edits>>
      BY <1>3 DEF TaskRaises
    <2>3. TypeOK'
      BY <2>1, <2>2 DEF IInv, TypeOK, Idle
    <2> QED
      BY <2>2, <2>3 DEF IInv, AtWork, ShownIsFrozen, FrozenHasRates, HasRates, Idle
  <1>4. CASE TaskRecovers
    <2>1. task.day \in 1..today
      BY <1>4 DEF TaskRecovers, IInv, AtWork
    <2>2. slot' \in [Users -> [Days -> Slot]] /\ ShownIsFrozen' /\ FrozenHasRates'
      BY <1>0, <1>4, <2>1, RecoveredOnGood DEF TaskRecovers, Days
    <2>3. CASE task.day = today
      BY <1>0, <1>4, <2>2, <2>3 DEF TaskRecovers, IInv, TypeOK, AtWork, Idle
    <2>4. CASE task.day # today
      <3>1. PICK whom \in SUBSET Users :
              task' = [task EXCEPT !.day = @ + 1, !.users = whom] /\ left' = left
        BY <1>0, <1>4, <2>4 DEF TaskRecovers
      <3>2. task.day + 1 \in 1..today /\ task.day + 1 \in 0..LastDay
        BY <1>0, <2>1, <2>4
      <3>3. /\ task' \in [pc : {"idle", "frozen", "recovering"},
                          day : 0..LastDay, users : SUBSET Users]
            /\ AtWork'
        BY <1>0, <1>4, <3>1, <3>2 DEF TaskRecovers, IInv, AtWork
      <3> QED
        BY <1>0, <1>4, <2>2, <3>1, <3>3 DEF TaskRecovers, IInv, TypeOK
    <2> QED
      BY <2>3, <2>4
  <1>5. CASE TaskDies
    <2>1. left' \in 0..(MaxRetries + 1) /\ faults' \in 0..MaxFaults
      BY <1>0, <1>5 DEF TaskDies
    <2>2. task' = Idle /\ UNCHANGED <<book, rates, today, slot, edits>>
      BY <1>5 DEF TaskDies
    <2>3. TypeOK'
      BY <2>1, <2>2 DEF IInv, TypeOK, Idle
    <2> QED
      BY <2>2, <2>3 DEF IInv, AtWork, ShownIsFrozen, FrozenHasRates, HasRates, Idle
  <1> QED
    BY <1>1, <1>2, <1>3, <1>4, <1>5

\* The world: time, rates, edits, damage; and Ops.
LEMMA WorldStep ==
    ASSUME IInv,
           \/ Midnight
           \/ \E d \in Days : RatesArrive(d) \/ OpsRecovers(d)
           \/ \E u \in Users : BookChanges(u) \/ \E d \in Days : PayloadBreaks(u, d)
    PROVE  IInv'
  <1> USE SnapshotsAssumption
  <1>1. CASE Midnight
    BY <1>1
    DEF Midnight, IInv, TypeOK, AtWork, ShownIsFrozen, FrozenHasRates, HasRates, Idle, Days
  <1>2. ASSUME NEW d \in Days, RatesArrive(d)
        PROVE  IInv'
    BY <1>2 DEF RatesArrive, IInv, TypeOK, AtWork, ShownIsFrozen, FrozenHasRates, HasRates
  <1>3. ASSUME NEW d \in Days, OpsRecovers(d)
        PROVE  IInv'
    BY <1>3, RecoveredOnGood DEF OpsRecovers, IInv, TypeOK, AtWork
  <1>4. ASSUME NEW u \in Users, BookChanges(u)
        PROVE  IInv'
    <2>1. book[u] \in Rows
      BY DEF IInv, TypeOK
    <2>2. ASSUME NEW h \in Holdings, NEW n \in Shares
          PROVE  [x \in DOMAIN book[u] \cup {h} |-> IF x = h THEN n ELSE book[u][x]] \in Rows
      <3> DEFINE D == DOMAIN book[u] \cup {h}
      <3>1. D \in SUBSET Holdings /\ \A x \in DOMAIN book[u] : book[u][x] \in Shares
        BY <2>1, RowsAre
      <3>2. [x \in D |-> IF x = h THEN n ELSE book[u][x]] \in [D -> Shares]
        BY <3>1
      <3> QED
        BY <3>1, <3>2, RowsAre
    <2>3. ASSUME NEW h \in Holdings
          PROVE  [x \in DOMAIN book[u] \ {h} |-> book[u][x]] \in Rows
      <3> DEFINE D == DOMAIN book[u] \ {h}
      <3>1. D \in SUBSET Holdings /\ \A x \in DOMAIN book[u] : book[u][x] \in Shares
        BY <2>1, RowsAre
      <3>2. [x \in D |-> book[u][x]] \in [D -> Shares]
        BY <3>1
      <3> QED
        BY <3>1, <3>2, RowsAre
    <2>4. PICK b \in Rows : book' = [book EXCEPT ![u] = b]
      BY <1>4, <2>2, <2>3 DEF BookChanges
    <2>5. book' \in [Users -> Rows]
      BY <2>4 DEF IInv, TypeOK
    <2> QED
      BY <1>4, <2>5
      DEF BookChanges, IInv, TypeOK, AtWork, ShownIsFrozen, FrozenHasRates, HasRates
  <1>5. ASSUME NEW u \in Users, NEW d \in Days, PayloadBreaks(u, d)
        PROVE  IInv'
    <2>1. /\ slot \in [Users -> [Days -> Slot]]
          /\ slot' = [slot EXCEPT ![u][d].frozen = Unreadable]
      BY <1>5 DEF PayloadBreaks, IInv, TypeOK
    <2>2. slot' \in [Users -> [Days -> Slot]]
      <3>1. [slot[u][d] EXCEPT !.frozen = Unreadable] \in Slot
        <4>1. ASSUME NEW s \in Slot
              PROVE  [s EXCEPT !.frozen = Unreadable] \in Slot
          BY DEF Slot
        <4>2. slot[u][d] \in Slot
          BY <2>1
        <4> QED
          BY <4>1, <4>2
      <3>2. [slot[u] EXCEPT ![d] = [slot[u][d] EXCEPT !.frozen = Unreadable]]
              \in [Days -> Slot]
        BY <2>1, <3>1
      <3> QED
        BY <2>1, <3>2
    <2>3. \A v \in Users, e \in Days :
             slot'[v][e] = IF v = u /\ e = d
                           THEN [slot[u][d] EXCEPT !.frozen = Unreadable] ELSE slot[v][e]
      BY <2>1
    <2>4. ShownIsFrozen' /\ FrozenHasRates'
      BY <1>5, <2>1, <2>3
      DEF PayloadBreaks, ShownIsFrozen, FrozenHasRates, HasRates, IInv, Slot
    <2> QED
      BY <1>5, <2>2, <2>4 DEF PayloadBreaks, IInv, TypeOK, AtWork
  <1> QED
    BY <1>1, <1>2, <1>3, <1>4, <1>5

\* The inductive invariant holds initially...
LEMMA InitIInv == Init => IInv
  <1> USE SnapshotsAssumption
  <1>1. NoSlot \in Slot
    BY NoRowsType DEF NoSlot, Slot
  <1> QED
    BY <1>1, NoRowsType
    DEF Init, IInv, TypeOK, ShownIsFrozen, FrozenHasRates, HasRates, AtWork, Idle, Days, NoSlot

\* ...and is kept by every step.
LEMMA NextIInv == IInv /\ [Next]_vars => IInv'
  <1> SUFFICES ASSUME IInv, [Next]_vars
               PROVE  IInv'
    OBVIOUS
  <1>1. CASE UNCHANGED vars
    BY <1>1 DEF vars, IInv, TypeOK, ShownIsFrozen, FrozenHasRates, HasRates, AtWork, Days
  <1>2. CASE Next
    BY <1>2, TaskKeeps, WorldStep DEF Next
  <1> QED
    BY <1>1, <1>2

\* Every reachable state of the snapshots is well typed.
THEOREM TypeCorrect == Spec => []TypeOK
  <1>1. IInv => TypeOK
    BY DEF IInv
  <1> QED
    BY <1>1, InitIInv, NextIInv, PTL DEF Spec

\* A payload marked applied is what the performance pages show, and what they
\* show was valued with the day's rates, whatever was frozen, edited, replayed
\* and lost before (apply_outbox_row).
THEOREM AppliedIsShown == Spec => []ShownIsFrozen
  <1>1. IInv => ShownIsFrozen
    BY DEF IInv
  <1> QED
    BY <1>1, InitIInv, NextIInv, PTL DEF Spec

-----------------------------------------------------------------------------
\* A day that is frozen and readable is replayed by recovery, never rebuilt.
LEMMA RecoveredKeeps ==
    ASSUME NEW s, NEW d, Good(s, d), s.outbox \in {"computed", "applied"}, NEW u
    PROVE  Recovered(s, u, d).frozen = s.frozen
  BY DEF Recovered, Replayed, Applied, Good, Slot

\* What a past evening froze is never replaced (snapshot_recovery.py): the only
\* steps that end it are damage and, once it is applied, pruning.
THEOREM PastIsKept == Spec => PastIsReplayed
  <1> DEFINE Kept(u, d) ==
        \/ slot'[u][d].frozen \in {slot[u][d].frozen, Unreadable}
        \/ slot[u][d].outbox = "applied" /\ slot'[u][d].outbox = "none"
  <1>1. ASSUME IInv, [Next]_vars, NEW u \in Users, NEW d \in Days, d < today,
               slot[u][d].outbox \in {"computed", "applied"}
        PROVE  Kept(u, d)
    <2>0. slot \in [Users -> [Days -> Slot]] /\ Good(slot[u][d], d)
      BY <1>1, GoodSlots DEF IInv, TypeOK
    <2>1. CASE slot' = slot
      BY <2>1
    <2>2. ASSUME NEW e \in Days, NEW whom, slot' = RecoveredOn(e, whom)
          PROVE  Kept(u, d)
      <3>1. slot'[u][d] \in {slot[u][d], Recovered(slot[u][d], u, d)}
        BY <2>0, <2>2 DEF RecoveredOn
      <3> QED
        BY <1>1, <2>0, <3>1, RecoveredKeeps
    <2>3. CASE TaskFreezes
      <3>1. d # today
        BY <1>1 DEF IInv, TypeOK, Days
      <3>2. slot'[u][d] = Pruned(slot[u][d], d)
        BY <2>3, <3>1 DEF TaskFreezes
      <3> QED
        BY <2>0, <3>2 DEF Pruned, Good, Slot
    <2>4. CASE TaskPublishes
      <3>1. slot'[u][d] \in {slot[u][d], Applied(slot[u][d])}
        BY <2>0, <2>4 DEF TaskPublishes
      <3> QED
        BY <2>0, <3>1 DEF Applied, Good, Slot
    <2>5. ASSUME NEW v \in Users, NEW e \in Days, PayloadBreaks(v, e)
          PROVE  Kept(u, d)
      BY <2>0, <2>5 DEF PayloadBreaks, Good, Slot
    <2>6. CASE TaskRecovers
      <3>1. task.day \in Days
        BY <1>1, <2>6, SnapshotsAssumption DEF TaskRecovers, IInv, AtWork, TypeOK, Days
      <3> QED
        BY <2>2, <2>6, <3>1 DEF TaskRecovers
    <2>7. ASSUME NEW e \in Days, OpsRecovers(e)
          PROVE  Kept(u, d)
      BY <2>2, <2>7 DEF OpsRecovers
    <2>8. CASE UNCHANGED vars
      BY <2>1, <2>8 DEF vars
    <2> HIDE DEF Kept
    <2>9. CASE Next
      BY <2>1, <2>3, <2>4, <2>5, <2>6, <2>7, <2>9
      DEF Next, Midnight, RatesArrive, BookChanges, TaskRaises, TaskDies
    <2> QED
      BY <1>1, <2>8, <2>9
  <1>2. IInv /\ [Next]_vars =>
          [\A u \in Users, d \in Days :
              d < today /\ slot[u][d].outbox \in {"computed", "applied"} =>
                  \/ slot'[u][d].frozen \in {slot[u][d].frozen, Unreadable}
                  \/ /\ slot[u][d].outbox = "applied"
                     /\ slot'[u][d].outbox = "none"]_vars
    BY <1>1
  <1> QED
    BY <1>2, InitIInv, NextIInv, PTL DEF Spec, PastIsReplayed

-----------------------------------------------------------------------------
(* Capture.                                                                *)

\* The days that have a usable close keep one.
Grows == \A k \in Instruments : DaysOf(row[k]) \subseteq DaysOf(row'[k])

\* Where an attempt is at a fund that its source was asked about.
Asking == {"check", "verify", "sina"}

\* What an attempt does, and what it knows of the fund it is at.
Placed(c) ==
    LET w == chain[c].work
    IN /\ chain[c].pc \in {"judge", "fill"} => c = "daily" /\ kind = "etf"
       /\ chain[c].pc \in {"nav"} \cup Asking => kind = "fund"
       /\ chain[c].pc \in Asking => w.key \in Instruments /\ w.known \subseteq DaysOf(row[w.key])
       /\ chain[c].pc = "verify" => calendar = "unknown" /\ w.known # {}

\* A bar that was seen was stored, and so is what was stored at the start.
Seen(c) ==
    \A k \in Instruments :
        /\ chain[c].anchors[k] \subseteq DaysOf(row[k])
        /\ chain[c].work.retained[k] \subseteq DaysOf(row[k])
        /\ chain[c].span[k] \subseteq DaysOf(row[k])

\* The days that are missing are among those asked of the fallback, and with
\* them nothing is missing.
Gaps(c) ==
    LET w == chain[c].work
    IN chain[c].pc \in {"judge", "fill"} =>
        /\ \A k \in Instruments : w.missing[k] # {} =>
            /\ DaysOf(row[k]) # {}
            /\ calendar # "ok" => w.missing[k] \subseteq Dates(w.series[k])
            /\ calendar = "ok" => Since(chain[c].span[k]) \subseteq DaysOf(row[k]) \cup w.missing[k]
        /\ chain[c].pc = "fill" => \A k \in w.todo : k \in w.open /\ w.missing[k] # {}

\* The instruments that the chain has still to do with.
Pending(c) ==
    LET w == chain[c].work
    IN IF chain[c].pc \in {"ready", "alert"} THEN chain[c].only
       ELSE IF chain[c].pc \in Asking THEN w.todo \cup w.open \cup {w.key}
       ELSE w.todo \cup w.open

\* Complete, of the state itself.
Done(c, k) ==
    /\ DaysOf(row[k]) # {}
    /\ kind = "fund" => Fresh(DaysOf(row[k]))
    /\ kind = "etf" /\ calendar = "ok" => Since(chain[c].span[k]) \subseteq DaysOf(row[k])

\* What NoSilentMiss is about, of what the chain was fired for.
Watched(c) == IF kind = "fund" THEN held \cap chain[c].fired
              ELSE IF c = "daily" THEN held \cap chain[c].fired \cap Yuan ELSE {}

\* What the chain was fired for and has nothing more to do with is complete,
\* and the message that comes again after a mishap names all the others.
Accounted(c) ==
    Running(c) => /\ Pending(c) \subseteq chain[c].only
                  /\ \A k \in Watched(c) \ Pending(c) : Done(c, k)

\* All that is known of a chain.
ChainOK(c) == Placed(c) /\ Seen(c) /\ Gaps(c) /\ Accounted(c)

\* The inductive invariant.
CIInv == CaptureTypeOK /\ marked \subseteq mailed /\ \A c \in Chains : ChainOK(c)

-----------------------------------------------------------------------------
(* Records and rows.                                                       *)

\* The records that a chain starts with are well typed.
LEMMA NoAttemptType == NoAttempt \in Work
  BY DEF NoAttempt, Work, NoDays, Series

\* The same of a task that nobody has sent.
LEMMA NotSentType == NotSent \in Chain
  BY NoAttemptType DEF NotSent, Chain, Places, NoDays

\* A chain that moves on changes its place and its work, and nothing else.
LEMMA GoesIs ==
    ASSUME chain \in [Chains -> Chain], NEW c \in Chains, NEW pc \in Places, NEW w \in Work,
           Goes(c, pc, w)
    PROVE  /\ chain' \in [Chains -> Chain]
           /\ chain'[c].pc = pc /\ chain'[c].work = w
           /\ chain'[c].only = chain[c].only /\ chain'[c].anchors = chain[c].anchors
           /\ chain'[c].fired = chain[c].fired /\ chain'[c].span = chain[c].span
           /\ \A b \in Chains \ {c} : chain'[b] = chain[b]
  <1>1. chain[c] \in Chain
    OBVIOUS
  <1> DEFINE s == [chain[c] EXCEPT !.pc = pc, !.work = w]
  <1>2. /\ s \in Chain /\ s.pc = pc /\ s.work = w
        /\ s.only = chain[c].only /\ s.anchors = chain[c].anchors
        /\ s.fired = chain[c].fired /\ s.span = chain[c].span
    BY <1>1 DEF Chain
  <1>3. chain' = [chain EXCEPT ![c] = s]
    BY DEF Goes
  <1> HIDE DEF s
  <1> QED
    BY <1>2, <1>3

\* The primary source overwrites, and leaves no day without a close.
LEMMA UpsertedGrows ==
    ASSUME row \in [Instruments -> [Sessions -> Closes]],
           NEW got \in [Instruments -> SUBSET Sessions], row' = Upserted(got)
    PROVE  /\ row' \in [Instruments -> [Sessions -> Closes]]
           /\ Grows
           /\ \A k \in Instruments : got[k] \subseteq DaysOf(row'[k])
           /\ \A k \in Instruments, d \in Sessions : row'[k][d] \in {row[k][d], "primary"}
  BY DEF Upserted, Grows, DaysOf, Usable, Closes

\* The guarded upsert fills, and only what had no usable close.
LEMMA GuardedGrows ==
    ASSUME row \in [Instruments -> [Sessions -> Closes]], NEW k \in Instruments,
           NEW days \in SUBSET Sessions, GuardedUpsert(k, days)
    PROVE  /\ row' \in [Instruments -> [Sessions -> Closes]]
           /\ Grows
           /\ \A j \in Instruments, d \in Sessions :
                row'[j][d] = "fallback" /\ row[j][d] # "fallback" =>
                    j = k /\ d \in days /\ ~Usable(row[j][d])
  <1> DEFINE r == [d \in Sessions |-> IF d \in days THEN Filled(row[k][d]) ELSE row[k][d]]
  <1>1. row' = [row EXCEPT ![k] = r]
    BY DEF GuardedUpsert
  <1>2. r \in [Sessions -> Closes]
    BY DEF Filled, Closes
  <1>3. \A d \in Sessions :
          /\ Usable(row[k][d]) => Usable(r[d])
          /\ r[d] = "fallback" /\ row[k][d] # "fallback" => d \in days /\ ~Usable(row[k][d])
    BY DEF Filled, Closes, Usable
  <1> HIDE DEF r
  <1>4. \A j \in Instruments : row'[j] = IF j = k THEN r ELSE row[j]
    BY <1>1
  <1> QED
    BY <1>1, <1>2, <1>3, <1>4 DEF Grows, DaysOf

\* What is left alone keeps its days.
LEMMA SameGrows ==
    ASSUME UNCHANGED row
    PROVE  Grows
  BY DEF Grows

\* More known values are no less fresh.
LEMMA FreshGrows ==
    ASSUME NEW a, NEW b, a \subseteq b, Fresh(a)
    PROVE  Fresh(b)
  BY DEF Fresh

\* What is complete stays so.
LEMMA DoneGrows ==
    ASSUME NEW c \in Chains, NEW k \in Instruments, Done(c, k), Grows, UNCHANGED given,
           chain'[c].span = chain[c].span
    PROVE  Done(c, k)'
  <1>1. DaysOf(row[k]) \subseteq DaysOf(row'[k])
    BY DEF Grows
  <1>2. Fresh(DaysOf(row[k])) => Fresh(DaysOf(row'[k]))
    BY <1>1, FreshGrows
  <1> QED
    BY <1>1, <1>2 DEF Done, Fresh, given

\* A chain that a step does not move keeps its invariant: closes stay usable, and
\* what was sold needs none.
LEMMA Frame ==
    ASSUME NEW c \in Chains, ChainOK(c), chain'[c] = chain[c], UNCHANGED given,
           CaptureTypeOK, Grows, held' \subseteq held
    PROVE  ChainOK(c)'
  <1> USE DEF given
  <1>0. chain[c] \in Chain /\ chain[c].work \in Work
    BY DEF CaptureTypeOK, Chain
  <1>1. Placed(c)'
    BY <1>0 DEF ChainOK, Placed, Grows, Asking
  <1>2. Seen(c)'
    BY DEF ChainOK, Seen, Grows
  <1>3. Gaps(c)'
    BY <1>0 DEF ChainOK, Gaps, Grows
  <1>4. Accounted(c)'
    <2>1. ASSUME NEW k \in Instruments, Done(c, k)
          PROVE  Done(c, k)'
      BY <2>1, DoneGrows
    <2>2. Pending(c)' = Pending(c) /\ Running(c)' = Running(c)
      BY DEF Pending, Running, Asking
    <2>3. Watched(c)' \subseteq Watched(c) /\ Watched(c) \subseteq Instruments
      BY <1>0 DEF Watched, CaptureTypeOK
    <2> QED
      BY <2>1, <2>2, <2>3 DEF ChainOK, Accounted
  <1> QED
    BY <1>1, <1>2, <1>3, <1>4 DEF ChainOK

-----------------------------------------------------------------------------
(* One chain moves.                                                        *)

\* What is to be shown of a step of a chain.
Moved(c) ==
    /\ CaptureTypeOK' /\ ChainOK(c)' /\ marked' \subseteq mailed'
    /\ Grows /\ UNCHANGED given /\ held' \subseteq held
    /\ \A b \in Chains \ {c} : chain'[b] = chain[b]

\* Then the other chain is as it was.
LEMMA MovedKeeps ==
    ASSUME CIInv, NEW c \in Chains, Moved(c)
    PROVE  CIInv'
  <1>1. ASSUME NEW b \in Chains
        PROVE  ChainOK(b)'
    BY Frame DEF CIInv, Moved
  <1> QED
    BY <1>1 DEF CIInv, Moved

\* A task that has ended, or whose message waits, has no attempt: its chain is as
\* it must be if the message names what is not complete.
LEMMA Resting ==
    ASSUME CIInv, NEW c \in Chains, UNCHANGED given, Grows, held' \subseteq held,
           chain'[c].work = NoAttempt, chain'[c].span = chain[c].span,
           chain'[c].fired = chain[c].fired, chain'[c].pc \in Ended \cup {"ready"},
           chain'[c].anchors \in {chain[c].anchors, chain[c].work.retained},
           \A k \in Watched(c) \ chain'[c].only : chain'[c].pc = "ready" => Done(c, k)
    PROVE  ChainOK(c)'
  <1>0. chain[c] \in Chain /\ chain[c].work \in Work /\ ChainOK(c)
    BY DEF CIInv, CaptureTypeOK, Chain
  <1>1. Placed(c)' /\ Gaps(c)'
    BY DEF Placed, Gaps, Ended, Asking
  <1>2. Seen(c)'
    <2>1. \A k \in Instruments : NoAttempt.retained[k] = {}
      BY DEF NoAttempt, NoDays
    <2> QED
      BY <1>0, <2>1 DEF ChainOK, Seen, Grows
  <1>3. Accounted(c)'
    <2>1. Watched(c)' \subseteq Watched(c) /\ Watched(c) \subseteq Instruments
      BY <1>0 DEF Watched, CIInv, CaptureTypeOK, given
    <2>2. CASE chain'[c].pc = "ready"
      <3>1. Pending(c)' = chain'[c].only
        BY <2>2 DEF Pending
      <3> QED
        BY <2>1, <2>2, <3>1, DoneGrows DEF Accounted
    <2>3. CASE chain'[c].pc \in Ended
      BY <2>3 DEF Accounted, Running
    <2> QED
      BY <2>2, <2>3
  <1> QED
    BY <1>1, <1>2, <1>3 DEF ChainOK

\* A task that ends, or starts again from the same message.
LEMMA EndsMoved ==
    ASSUME CIInv, NEW c \in Chains, NEW pc \in Ended \cup {"ready"}, EndsAs(c, pc),
           Running(c), UNCHANGED given, Grows, row' \in [Instruments -> [Sessions -> Closes]],
           held' \subseteq held, UNCHANGED <<marked, mailed>>, mishaps' \in Nat
    PROVE  Moved(c)
  <1>0. chain \in [Chains -> Chain] /\ pc \in Places
    BY DEF CIInv, CaptureTypeOK, Places, Ended
  <1>1. /\ chain' \in [Chains -> Chain]
        /\ chain'[c].pc = pc /\ chain'[c].work = NoAttempt
        /\ chain'[c].only = chain[c].only /\ chain'[c].anchors = chain[c].anchors
        /\ chain'[c].fired = chain[c].fired /\ chain'[c].span = chain[c].span
        /\ \A b \in Chains \ {c} : chain'[b] = chain[b]
    BY <1>0, NoAttemptType, GoesIs DEF EndsAs
  <1>2. \A k \in Watched(c) \ chain'[c].only : Done(c, k)
    BY <1>1 DEF CIInv, ChainOK, Accounted
  <1>3. ChainOK(c)'
    BY <1>1, <1>2, Resting
  <1> QED
    BY <1>1, <1>3 DEF Moved, CIInv, CaptureTypeOK, given

\* The message comes again, for another attempt.
LEMMA AgainIs ==
    ASSUME NEW r \in Chain
    PROVE  LET s == [r EXCEPT !.pc = "ready", !.attempt = @ + 1, !.work = NoAttempt]
           IN /\ s \in Chain /\ s.pc = "ready" /\ s.work = NoAttempt /\ s.only = r.only
              /\ s.anchors = r.anchors /\ s.fired = r.fired /\ s.span = r.span
  <1> DEFINE next == r.attempt + 1
  <1>1. "ready" \in Places /\ next \in Nat
    BY DEF Places, Chain
  <1> HIDE DEF next
  <1>2. LET s == [r EXCEPT !.pc = "ready", !.attempt = next, !.work = NoAttempt]
        IN /\ s \in Chain /\ s.pc = "ready" /\ s.work = NoAttempt /\ s.only = r.only
           /\ s.anchors = r.anchors /\ s.fired = r.fired /\ s.span = r.span
    BY <1>1, NoAttemptType DEF Chain
  <1> QED
    BY <1>2 DEF next

\* Any other exception, and a worker that dies.
LEMMA MishapMoved ==
    ASSUME CIInv, NEW c \in Chains, Raises(c) \/ WorkerDies(c)
    PROVE  Moved(c)
  <1> USE SameGrows
  <1>0. mishaps' \in Nat /\ Running(c) /\ UNCHANGED <<given, held, row, marked, mailed>>
    BY CaptureAssumption DEF Raises, WorkerDies, Mishap, CIInv, CaptureTypeOK
  <1>1. CASE \E pc \in Ended \cup {"ready"} : EndsAs(c, pc)
    BY <1>0, <1>1, EndsMoved DEF CIInv, CaptureTypeOK
  <1>2. CASE chain' = [chain EXCEPT ![c].pc = "ready", ![c].attempt = @ + 1,
                                    ![c].work = NoAttempt]
    <2> DEFINE s == [chain[c] EXCEPT !.pc = "ready", !.attempt = @ + 1, !.work = NoAttempt]
    <2>1. chain \in [Chains -> Chain] /\ chain[c] \in Chain
      BY DEF CIInv, CaptureTypeOK
    <2>2. /\ s \in Chain /\ s.pc = "ready" /\ s.work = NoAttempt /\ s.only = chain[c].only
          /\ s.anchors = chain[c].anchors /\ s.fired = chain[c].fired /\ s.span = chain[c].span
      BY <2>1, AgainIs
    <2>3. chain' = [chain EXCEPT ![c] = s]
      BY <1>2
    <2> HIDE DEF s
    <2>4. chain'[c] = s /\ chain' \in [Chains -> Chain]
      BY <2>1, <2>2, <2>3
    <2>5. \A k \in Watched(c) \ chain'[c].only : Done(c, k)
      BY <1>0, <2>2, <2>4 DEF CIInv, ChainOK, Accounted
    <2>6. ChainOK(c)'
      BY <1>0, <2>2, <2>4, <2>5, Resting
    <2> QED
      BY <1>0, <2>3, <2>4, <2>6 DEF Moved, CIInv, CaptureTypeOK, given
  <1> QED
    BY <1>1, <1>2 DEF Raises, WorkerDies, Ended

\* A task that goes on: what is to be shown of its new place and work.
LEMMA GoesMoved ==
    ASSUME CIInv, NEW c \in Chains, Running(c),
           NEW pc \in {"judge", "fill", "nav", "alert"} \cup Asking, NEW w \in Work,
           Goes(c, pc, w), UNCHANGED <<given, held, mishaps>>,
           row' \in [Instruments -> [Sessions -> Closes]], Grows,
           marked' \subseteq mailed', mailed' \subseteq Instruments,
           \A k \in Instruments : w.retained[k] \subseteq DaysOf(row'[k]),
           Placed(c)', Gaps(c)',
           Pending(c)' \subseteq chain[c].only,
           \A k \in Watched(c) : k \in chain[c].only \ Pending(c)' => Done(c, k)'
    PROVE  Moved(c)
  <1>0. chain \in [Chains -> Chain] /\ pc \in Places /\ pc \notin Ended \cup {"off"}
    BY DEF CIInv, CaptureTypeOK, Places, Ended, Asking
  <1>1. /\ chain' \in [Chains -> Chain]
        /\ chain'[c].pc = pc /\ chain'[c].work = w
        /\ chain'[c].only = chain[c].only /\ chain'[c].anchors = chain[c].anchors
        /\ chain'[c].fired = chain[c].fired /\ chain'[c].span = chain[c].span
        /\ \A b \in Chains \ {c} : chain'[b] = chain[b]
    BY <1>0, GoesIs
  <1>2. Seen(c)'
    BY <1>1 DEF CIInv, ChainOK, Seen, Grows
  <1>3. Accounted(c)'
    <2>1. ASSUME NEW k \in Watched(c), k \notin chain[c].only
          PROVE  Done(c, k)'
      <3>1. k \in Instruments /\ Done(c, k)
        BY <2>1 DEF CIInv, ChainOK, Accounted, Watched, CaptureTypeOK
      <3> QED
        BY <1>1, <3>1, DoneGrows
    <2>2. Watched(c)' = Watched(c)
      BY <1>1 DEF Watched, given
    <2> QED
      BY <1>1, <2>1, <2>2 DEF Accounted
  <1> QED
    BY <1>1, <1>2, <1>3 DEF Moved, ChainOK, CIInv, CaptureTypeOK, given

\* The invariant of the chain that moves, as the steps below use it.
LEMMA AttemptsBefore ==
    ASSUME CIInv, NEW c \in Chains
    PROVE  /\ chain[c] \in Chain /\ chain[c].work \in Work /\ held \subseteq Instruments
           /\ row \in [Instruments -> [Sessions -> Closes]] /\ mailed \subseteq Instruments
           /\ marked \subseteq mailed /\ Watched(c) \subseteq held \cap chain[c].fired
           /\ Watched(c) \subseteq Instruments
           /\ kind \in {"etf", "fund"} /\ calendar \in {"ok", "unknown"}
           /\ Placed(c) /\ Seen(c) /\ Gaps(c) /\ Accounted(c)
  BY DEF CIInv, ChainOK, CaptureTypeOK, Chain, Watched

\* The task reads its message.
LEMMA StartMoved ==
    ASSUME CIInv, NEW c \in Chains, StartAttempt(c)
    PROVE  Moved(c)
  <1>0. /\ chain[c].pc = "ready" /\ UNCHANGED <<given, row, outside>> /\ Running(c)
        /\ kind = "fund" \/ Targets(c) = {}
    BY DEF StartAttempt, Running, Ended
  <1>1. Grows
    BY <1>0, SameGrows
  <1>2. CASE Targets(c) = {}
    BY <1>0, <1>1, <1>2, AttemptsBefore, EndsMoved DEF StartAttempt, outside, Ended, CIInv, CaptureTypeOK
  <1>3. CASE Targets(c) # {}
    <2> DEFINE w == [NoAttempt EXCEPT !.todo = Targets(c)]
    <2>1. Goes(c, "nav", w)
      BY <1>3 DEF StartAttempt
    <2>2. /\ w \in Work /\ w.todo = Targets(c) /\ w.open = {}
          /\ \A k \in Instruments : w.retained[k] = {}
      BY AttemptsBefore, NoAttemptType DEF Work, NoAttempt, NoDays, Targets
    <2> HIDE DEF w
    <2>3. chain'[c].pc = "nav" /\ chain'[c].work = w
      BY <2>1, <2>2, GoesIs DEF CIInv, CaptureTypeOK, Places
    <2>4. Placed(c)' /\ Gaps(c)'
      BY <1>0, <1>3, <2>3 DEF Placed, Gaps, given, Asking
    <2>5. Pending(c)' = Targets(c)
      BY <2>2, <2>3 DEF Pending, Asking
    <2>6. \A k \in Watched(c) : k \notin chain[c].only \ Pending(c)'
      BY <2>5, AttemptsBefore DEF Targets
    <2> QED
      BY <1>0, <1>1, <2>1, <2>2, <2>4, <2>5, <2>6, AttemptsBefore, GoesMoved DEF outside, Targets
  <1> QED
    BY <1>2, <1>3

\* The next message of the chain names what is open.
LEMMA RetryIs ==
    ASSUME NEW c \in Chains, chain[c] \in Chain
    PROVE  /\ Retry(c) \in Chain /\ Retry(c).pc = "ready" /\ Retry(c).work = NoAttempt
           /\ Retry(c).only = chain[c].work.open /\ Retry(c).anchors = chain[c].work.retained
           /\ Retry(c).fired = chain[c].fired /\ Retry(c).span = chain[c].span
  <1> DEFINE next == chain[c].attempt + 1
  <1>1. /\ next \in Nat /\ "ready" \in Places
        /\ chain[c].work.open \in SUBSET Instruments
        /\ chain[c].work.retained \in [Instruments -> SUBSET Sessions]
    BY DEF Places, Chain, Work
  <1>2. Retry(c) = [chain[c] EXCEPT !.pc = "ready", !.attempt = next, !.work = NoAttempt,
                        !.only = chain[c].work.open, !.anchors = chain[c].work.retained]
    BY DEF Retry
  <1> HIDE DEF next
  <1> QED
    BY <1>1, <1>2, NoAttemptType DEF Chain

\* An attempt ends: quietly, with another one, or with alerts.
LEMMA EndAttemptMoved ==
    ASSUME CIInv, NEW c \in Chains, EndAttempt(c)
    PROVE  Moved(c)
  <1>0. /\ chain[c].pc \in {"judge", "fill", "nav"} /\ chain[c].work.todo = {}
        /\ UNCHANGED <<given, row, outside>> /\ Running(c)
    BY DEF EndAttempt, Running, Ended
  <1>1. Grows
    BY <1>0, SameGrows
  <1>2. Pending(c) = chain[c].work.open
    BY <1>0 DEF Pending, Asking
  <1>3. CASE chain[c].work.open = {}
    BY <1>0, <1>1, <1>3, AttemptsBefore, EndsMoved DEF EndAttempt, outside, Ended, CIInv, CaptureTypeOK
  <1>4. CASE chain' = [chain EXCEPT ![c] = Retry(c)]
    <2>1. /\ chain' \in [Chains -> Chain] /\ chain'[c] = Retry(c)
          /\ \A b \in Chains \ {c} : chain'[b] = chain[b]
      BY <1>4, AttemptsBefore, RetryIs DEF CIInv, CaptureTypeOK
    <2>2. ChainOK(c)'
      BY <1>0, <1>1, <1>2, <2>1, AttemptsBefore, RetryIs, Resting DEF Accounted, outside
    <2> QED
      BY <1>0, <1>1, <2>1, <2>2 DEF Moved, CIInv, CaptureTypeOK, given, outside
  <1>5. CASE Goes(c, "alert", [NoAttempt EXCEPT !.todo = chain[c].work.open])
    <2> DEFINE w == [NoAttempt EXCEPT !.todo = chain[c].work.open]
    <2>1. w \in Work /\ \A k \in Instruments : w.retained[k] = {}
      BY AttemptsBefore, NoAttemptType DEF Work, NoAttempt, NoDays
    <2> HIDE DEF w
    <2>2. chain'[c].pc = "alert" /\ chain'[c].only = chain[c].only
      BY <1>5, <2>1, GoesIs DEF CIInv, CaptureTypeOK, Places, w
    <2>3. Placed(c)' /\ Gaps(c)' /\ Pending(c)' = chain[c].only
      BY <2>2 DEF Placed, Gaps, Asking, Pending
    <2> QED
      BY <1>0, <1>1, <1>5, <2>1, <2>3, AttemptsBefore, GoesMoved DEF outside, w
  <1> QED
    BY <1>3, <1>4, <1>5 DEF EndAttempt

\* An alert, and the end of the task after the last: what is marked was mailed.
LEMMA AlertMoved ==
    ASSUME CIInv, NEW c \in Chains, NEW k \in Instruments, Alert(c, k)
    PROVE  Moved(c)
  <1>0. /\ chain[c].pc = "alert" /\ UNCHANGED <<given, held, row, mishaps>> /\ Running(c)
        /\ marked' \subseteq mailed' /\ mailed' \subseteq Instruments
    BY AttemptsBefore DEF Alert, Running, Ended, Marked, given
  <1>1. Grows
    BY <1>0, SameGrows
  <1> DEFINE w == [chain[c].work EXCEPT !.todo = @ \ {k}]
  <1>2. w \in Work /\ w.retained = chain[c].work.retained
    BY AttemptsBefore DEF Work
  <1> HIDE DEF w
  <1>3. CASE Goes(c, "alert", w)
    <2>1. chain'[c].pc = "alert" /\ chain'[c].only = chain[c].only
      BY <1>2, <1>3, GoesIs DEF CIInv, CaptureTypeOK, Places
    <2>2. Placed(c)' /\ Gaps(c)' /\ Pending(c)' = chain[c].only
      BY <2>1 DEF Placed, Gaps, Asking, Pending
    <2>3. \A j \in Instruments : w.retained[j] \subseteq DaysOf(row'[j])
      BY <1>0, <1>2, AttemptsBefore DEF Seen
    <2> QED
      BY <1>0, <1>1, <1>2, <1>3, <2>2, <2>3, AttemptsBefore, GoesMoved
  <1>4. CASE EndsAs(c, "miss")
    <2>1. /\ chain' \in [Chains -> Chain]
          /\ chain'[c].pc = "miss" /\ chain'[c].work = NoAttempt
          /\ chain'[c].anchors = chain[c].anchors
          /\ chain'[c].fired = chain[c].fired /\ chain'[c].span = chain[c].span
          /\ \A b \in Chains \ {c} : chain'[b] = chain[b]
      BY <1>4, NoAttemptType, GoesIs DEF EndsAs, CIInv, CaptureTypeOK, Places, Ended
    <2>2. ChainOK(c)'
      BY <1>0, <1>1, <2>1, Resting DEF Ended
    <2> QED
      BY <1>0, <1>1, <2>1, <2>2 DEF Moved, CIInv, CaptureTypeOK, given
  <1> QED
    BY <1>3, <1>4 DEF Alert, w

-----------------------------------------------------------------------------
(* Funds.                                                                  *)

\* Eastmoney's values are stored before they are judged.
LEMMA NavFetchMoved ==
    ASSUME CIInv, NEW c \in Chains, NEW k \in Instruments, NavFetch(c, k)
    PROVE  Moved(c)
  <1> DEFINE v == chain[c].work
  <1>0. /\ chain[c].pc = "nav" /\ k \in v.todo /\ UNCHANGED <<given, outside>> /\ Running(c)
        /\ kind = "fund" /\ Pending(c) = v.todo \cup v.open
    BY AttemptsBefore DEF NavFetch, Running, Ended, Placed, Pending, Asking
  <1>1. PICK days \in SUBSET Sessions :
          /\ row' = Upserted([NoDays EXCEPT ![k] = days])
          /\ Goes(c, "check", [v EXCEPT !.todo = @ \ {k}, !.key = k, !.known = days,
                                        !.failed = (days = {})])
    BY DEF NavFetch
  <1> DEFINE got == [NoDays EXCEPT ![k] = days]
             failed == (days = {})
  <1>2. got \in [Instruments -> SUBSET Sessions] /\ got[k] = days /\ failed \in BOOLEAN
    BY DEF NoDays
  <1> HIDE DEF got, failed
  <1>3. /\ row' \in [Instruments -> [Sessions -> Closes]] /\ Grows
        /\ days \subseteq DaysOf(row'[k])
    BY <1>1, <1>2, AttemptsBefore, UpsertedGrows DEF got
  <1> DEFINE w == [v EXCEPT !.todo = @ \ {k}, !.key = k, !.known = days, !.failed = failed]
  <1>4. /\ w \in Work /\ w.retained = v.retained /\ w.open = v.open /\ w.todo = v.todo \ {k}
        /\ w.key = k /\ w.known = days
    BY <1>2, AttemptsBefore DEF Work
  <1>5. Goes(c, "check", w)
    BY <1>1 DEF failed
  <1> HIDE DEF w
  <1>6. chain'[c].pc = "check" /\ chain'[c].work = w /\ chain'[c].span = chain[c].span
    <2>1. chain \in [Chains -> Chain] /\ "check" \in Places
      BY DEF CIInv, CaptureTypeOK, Places
    <2> QED
      BY <1>4, <1>5, <2>1, GoesIs
  <1>7. Placed(c)' /\ Gaps(c)'
    BY <1>0, <1>3, <1>4, <1>6 DEF Placed, Gaps, given, Asking
  <1>8. Pending(c)' = Pending(c)
    BY <1>0, <1>4, <1>6 DEF Pending, Asking
  <1>9. \A j \in Watched(c) : j \notin Pending(c) => Done(c, j)'
    BY <1>0, <1>3, <1>6, AttemptsBefore, DoneGrows DEF Accounted
  <1>10. \A j \in Instruments : w.retained[j] \subseteq DaysOf(row'[j])
    BY <1>3, <1>4, AttemptsBefore DEF Seen, Grows
  <1> QED
    BY <1>0, <1>3, <1>4, <1>5, <1>7, <1>8, <1>9, <1>10, AttemptsBefore, GoesMoved
    DEF Accounted, outside, Asking

\* The fund is closed if what is stored of it is fresh, and open otherwise.
LEMMA ResolvesMoved ==
    ASSUME CIInv, NEW c \in Chains, chain[c].pc \in Asking, NEW isOpen \in BOOLEAN,
           Resolves(c, isOpen), UNCHANGED <<given, outside>>,
           row' \in [Instruments -> [Sessions -> Closes]], Grows,
           ~isOpen => Fresh(DaysOf(row'[chain[c].work.key]))
    PROVE  Moved(c)
  <1> DEFINE v == chain[c].work
  <1>0. /\ Running(c) /\ kind = "fund" /\ v.key \in Instruments
        /\ Pending(c) = v.todo \cup v.open \cup {v.key}
    BY AttemptsBefore DEF Running, Ended, Placed, Pending, Asking
  <1> DEFINE open == IF isOpen THEN v.open \cup {v.key} ELSE v.open
             w == [v EXCEPT !.open = open, !.key = "none", !.known = {}, !.failed = FALSE]
  <1>1. open \subseteq Instruments
    BY <1>0, AttemptsBefore DEF Work
  <1>2. w \in Work /\ w.retained = v.retained /\ w.open = open /\ w.todo = v.todo
    BY <1>1, AttemptsBefore DEF Work
  <1>3. Goes(c, "nav", w)
    BY DEF Resolves
  <1> HIDE DEF w
  <1>4. chain'[c].pc = "nav" /\ chain'[c].work = w /\ chain'[c].span = chain[c].span
    BY <1>2, <1>3, GoesIs DEF CIInv, CaptureTypeOK, Places
  <1>5. Placed(c)' /\ Gaps(c)' /\ Pending(c)' = v.todo \cup open
    BY <1>0, <1>2, <1>4 DEF Placed, Gaps, Pending, given, Asking
  <1>6. \A j \in Watched(c) : j \notin Pending(c) => Done(c, j)'
    BY <1>0, <1>4, AttemptsBefore, DoneGrows DEF Accounted
  <1>7. ASSUME NEW j \in Instruments, j = v.key, ~isOpen
        PROVE  Done(c, j)'
    BY <1>0, <1>7 DEF Done, Fresh, given
  <1>8. \A j \in Instruments : w.retained[j] \subseteq DaysOf(row'[j])
    BY <1>2, AttemptsBefore DEF Seen, Grows
  <1>9. /\ Pending(c)' \subseteq chain[c].only
        /\ \A j \in Watched(c) : j \in chain[c].only \ Pending(c)' => Done(c, j)'
    BY <1>0, <1>5, <1>6, <1>7, AttemptsBefore DEF Accounted
  <1> QED
    BY <1>0, <1>2, <1>3, <1>5, <1>8, <1>9, AttemptsBefore, GoesMoved DEF outside

\* A second source is asked: the fund stays pending.
LEMMA AsksMoved ==
    ASSUME CIInv, NEW c \in Chains, chain[c].pc \in Asking, NEW pc \in {"verify", "sina"},
           NEW known \in SUBSET Sessions, known \subseteq DaysOf(row[chain[c].work.key]),
           pc = "verify" => calendar = "unknown" /\ known # {},
           Asks(c, pc, known), UNCHANGED <<given, row, outside>>
    PROVE  Moved(c)
  <1> DEFINE v == chain[c].work
             w == [v EXCEPT !.known = known]
  <1>0. Running(c) /\ kind = "fund" /\ v.key \in Instruments /\ Grows
    BY AttemptsBefore, SameGrows DEF Running, Ended, Placed, Asking
  <1>1. /\ w \in Work /\ w.retained = v.retained /\ w.open = v.open /\ w.todo = v.todo
        /\ w.key = v.key /\ w.known = known
    BY AttemptsBefore DEF Work
  <1>2. Goes(c, pc, w)
    BY DEF Asks
  <1> HIDE DEF w
  <1>3. chain'[c].pc = pc /\ chain'[c].work = w /\ chain'[c].span = chain[c].span
    BY <1>1, <1>2, GoesIs DEF CIInv, CaptureTypeOK, Places
  <1>4. Placed(c)' /\ Gaps(c)' /\ Pending(c)' = Pending(c)
    BY <1>0, <1>1, <1>3 DEF Placed, Gaps, Pending, given, Asking
  <1>5. \A j \in Watched(c) : j \notin Pending(c) => Done(c, j)'
    BY <1>0, <1>3, AttemptsBefore, DoneGrows DEF Accounted
  <1>6. \A j \in Instruments : w.retained[j] \subseteq DaysOf(row'[j])
    BY <1>1, AttemptsBefore DEF Seen
  <1> QED
    BY <1>0, <1>1, <1>2, <1>4, <1>5, <1>6, AttemptsBefore, GoesMoved DEF outside, Accounted, Asking

\* What is known of the fund decides.
LEMMA NavCheckMoved ==
    ASSUME CIInv, NEW c \in Chains, NavCheck(c)
    PROVE  Moved(c)
  <1> DEFINE v == chain[c].work
             known == v.known \cup DaysOf(row[v.key])
  <1>0. /\ chain[c].pc \in Asking /\ UNCHANGED <<given, row, outside>>
        /\ v.key \in Instruments /\ Grows
    BY AttemptsBefore, SameGrows DEF NavCheck, Placed, Asking
  <1>1. known \in SUBSET Sessions /\ known \subseteq DaysOf(row[v.key])
    BY <1>0, AttemptsBefore DEF Placed, DaysOf
  <1>2. known = v.known \cup StoredDays(v.key)
    BY DEF StoredDays
  <1> HIDE DEF known
  <1>3. Fresh(known) => Fresh(DaysOf(row'[v.key]))
    BY <1>0, <1>1, FreshGrows
  <1>4. calendar = "unknown" /\ known # {} => Fresh(known)
    BY DEF Fresh
  <1>5. \/ Resolves(c, TRUE)
        \/ Fresh(known) /\ Resolves(c, FALSE)
        \/ Resolves(c, ~Fresh(known))
        \/ Asks(c, "sina", known)
        \/ calendar = "unknown" /\ known # {} /\ Asks(c, "verify", known)
    BY <1>2, <1>4 DEF NavCheck
  <1>6. (~Fresh(known)) \in BOOLEAN
    BY DEF Fresh
  <1> QED
    BY <1>0, <1>1, <1>3, <1>5, <1>6, AttemptsBefore, AsksMoved, ResolvesMoved

\* Sina's value where there is no calendar.
LEMMA NavVerifyMoved ==
    ASSUME CIInv, NEW c \in Chains, NavVerify(c)
    PROVE  Moved(c)
  <1> DEFINE v == chain[c].work
  <1>0. /\ chain[c].pc \in Asking /\ UNCHANGED <<given, outside>> /\ v.key \in Instruments
        /\ Fresh(v.known) /\ v.known \subseteq DaysOf(row[v.key])
    BY AttemptsBefore DEF NavVerify, Placed, Asking, Fresh
  <1>1. row' \in [Instruments -> [Sessions -> Closes]] /\ Grows
    <2>1. ASSUME NEW d \in Sessions, GuardedUpsert(v.key, {d})
          PROVE  row' \in [Instruments -> [Sessions -> Closes]] /\ Grows
      BY <1>0, <2>1, AttemptsBefore, GuardedGrows
    <2> QED
      BY <2>1, AttemptsBefore, SameGrows DEF NavVerify
  <1>2. Fresh(DaysOf(row'[v.key]))
    BY <1>0, <1>1, FreshGrows DEF Grows
  <1> QED
    BY <1>0, <1>1, <1>2, ResolvesMoved DEF NavVerify

\* Sina's value in the last attempt.
LEMMA NavFallbackMoved ==
    ASSUME CIInv, NEW c \in Chains, NavFallback(c)
    PROVE  Moved(c)
  <1> DEFINE v == chain[c].work
  <1>0. /\ chain[c].pc \in Asking /\ UNCHANGED <<given, outside>> /\ v.key \in Instruments
        /\ v.known \subseteq DaysOf(row[v.key])
    BY AttemptsBefore DEF NavFallback, Placed, Asking
  <1>1. row' \in [Instruments -> [Sessions -> Closes]] /\ Grows
    <2>1. ASSUME NEW d \in Sessions, GuardedUpsert(v.key, {d})
          PROVE  row' \in [Instruments -> [Sessions -> Closes]] /\ Grows
      BY <1>0, <2>1, AttemptsBefore, GuardedGrows
    <2> QED
      BY <2>1, AttemptsBefore, SameGrows DEF NavFallback
  <1>2. Fresh(v.known) => Fresh(DaysOf(row'[v.key]))
    BY <1>0, <1>1, FreshGrows DEF Grows
  <1>3. (~Fresh(v.known)) \in BOOLEAN /\ (~Fresh(DaysOf(row'[v.key]))) \in BOOLEAN
    BY DEF Fresh
  <1> QED
    BY <1>0, <1>1, <1>2, <1>3, ResolvesMoved DEF NavFallback

-----------------------------------------------------------------------------
(* ETFs.                                                                   *)

\* The backfill stores what Yahoo has, and ends.
LEMMA BackfillMoved ==
    ASSUME CIInv, Backfill
    PROVE  Moved("confirm")
  <1>1. PICK got \in [Instruments -> SUBSET Sessions] : row' = Upserted(got)
    BY DEF Backfill, Gets
  <1>2. row' \in [Instruments -> [Sessions -> Closes]] /\ Grows
    BY <1>1, UpsertedGrows DEF CIInv, CaptureTypeOK
  <1>3. /\ Running("confirm") /\ EndsAs("confirm", "quiet") /\ UNCHANGED <<given, outside>>
        /\ "confirm" \in Chains /\ mishaps \in Nat
    BY DEF Backfill, Running, Ended, Chains, CIInv, CaptureTypeOK
  <1> QED
    BY <1>2, <1>3, EndsMoved DEF outside, Ended

\* The daily task stores what Yahoo has, and remembers the bars.
LEMMA FetchMoved ==
    ASSUME CIInv, Fetch
    PROVE  Moved("daily")
  <1> DEFINE c == "daily"
             ks == Targets(c)
  <1>0. /\ c \in Chains /\ chain[c].pc = "ready" /\ kind = "etf" /\ UNCHANGED <<given, outside>>
        /\ Running(c) /\ ks = held \cap chain[c].only /\ ks \subseteq Instruments
    BY DEF Fetch, Chains, Running, Ended, Targets, CIInv, CaptureTypeOK
  <1>1. PICK got \in [Instruments -> SUBSET Sessions] :
          /\ row' = Upserted(got)
          /\ Goes(c, "judge",
                  [NoAttempt EXCEPT !.todo = ks \cap Yuan,
                      !.retained = [k \in Instruments |-> chain[c].anchors[k] \cup got[k]]])
    BY DEF Fetch, Gets
  <1>2. /\ row' \in [Instruments -> [Sessions -> Closes]] /\ Grows
        /\ \A k \in Instruments : got[k] \subseteq DaysOf(row'[k])
    BY <1>0, <1>1, AttemptsBefore, UpsertedGrows
  <1> DEFINE bars == [k \in Instruments |-> chain[c].anchors[k] \cup got[k]]
             w == [NoAttempt EXCEPT !.todo = ks \cap Yuan, !.retained = bars]
  <1>3. /\ bars \in [Instruments -> SUBSET Sessions]
        /\ \A k \in Instruments : bars[k] \subseteq DaysOf(row'[k])
    BY <1>0, <1>2, AttemptsBefore DEF Chain, Seen, Grows
  <1> HIDE DEF bars
  <1>4. /\ w \in Work /\ w.retained = bars /\ w.todo = ks \cap Yuan /\ w.open = {}
        /\ \A k \in Instruments : w.missing[k] = {}
    BY <1>0, <1>3, NoAttemptType DEF Work, NoAttempt, NoDays
  <1>5. Goes(c, "judge", w)
    BY <1>1 DEF bars
  <1> HIDE DEF w
  <1>6. chain'[c].pc = "judge" /\ chain'[c].work = w /\ chain'[c].span = chain[c].span
    <2>1. chain \in [Chains -> Chain] /\ "judge" \in Places
      BY DEF CIInv, CaptureTypeOK, Places
    <2> QED
      BY <1>0, <1>4, <1>5, <2>1, GoesIs
  <1>7. Placed(c)' /\ Gaps(c)' /\ Pending(c)' = ks \cap Yuan
    BY <1>0, <1>4, <1>6 DEF Placed, Gaps, Pending, given, Asking
  <1>8. \A k \in Watched(c) : k \notin chain[c].only \ Pending(c)'
    BY <1>0, <1>7 DEF Watched
  <1> QED
    BY <1>0, <1>2, <1>3, <1>4, <1>5, <1>7, <1>8, AttemptsBefore, GoesMoved DEF outside

\* The days from the earliest close on, from whichever days it is counted.
LEMMA SinceGrows ==
    ASSUME NEW a, NEW b, a \subseteq b
    PROVE  Since(a) \subseteq Since(b)
  BY DEF Since

\* An instrument is judged: what has no gap is complete, and the gap of another
\* is all that it lacks.
LEMMA JudgeMoved ==
    ASSUME CIInv, NEW k \in Instruments, Judge(k)
    PROVE  Moved("daily")
  <1> DEFINE c == "daily"
             v == chain[c].work
             seen == DaysOf(row[k]) \cup v.retained[k]
  <1>0. /\ c \in Chains /\ chain[c].pc = "judge" /\ k \in v.todo
        /\ UNCHANGED <<given, row, outside>>
        /\ Running(c) /\ Grows /\ Pending(c) = v.todo \cup v.open
    BY SameGrows DEF Judge, Chains, Running, Ended, Pending, Asking
  <1>00. kind = "etf" /\ seen = DaysOf(row[k])
    BY <1>0, AttemptsBefore DEF Placed, Seen
  <1>1. PICK s \in Series :
          LET expected == IF calendar = "ok" THEN Sessions ELSE Dates(s)
              gap == Gap(k, expected)
          IN Goes(c, "judge",
                  IF StoredDays(k) \cup v.retained[k] = {} \/ expected = {}
                  THEN Noted(k, TRUE, {}, s)
                  ELSE Noted(k, gap # {}, gap, s))
    BY DEF Judge
  <1> DEFINE expected == IF calendar = "ok" THEN Sessions ELSE Dates(s)
  <1>2. PICK gap \in SUBSET Sessions, isOpen \in BOOLEAN :
          /\ Goes(c, "judge", Noted(k, isOpen, gap, s))
          /\ gap # {} => /\ DaysOf(row[k]) # {} /\ gap \subseteq expected
                         /\ calendar = "ok" => Since(DaysOf(row[k])) \subseteq DaysOf(row[k]) \cup gap
          /\ ~isOpen => /\ DaysOf(row[k]) # {}
                        /\ calendar = "ok" => Since(DaysOf(row[k])) \subseteq DaysOf(row[k])
    <2> DEFINE g == Gap(k, expected)
    <2>1. g = (expected \cap Since(seen)) \ DaysOf(row[k])
      BY DEF Gap, StoredDays
    <2>2. g \in SUBSET Sessions /\ g \subseteq expected
      BY <2>1 DEF Since
    <2>3. calendar = "ok" => Since(DaysOf(row[k])) \subseteq DaysOf(row[k]) \cup g
      BY <1>00, <2>1 DEF Since
    <2> HIDE DEF g, expected
    <2>4. CASE seen = {} \/ expected = {}
      BY <1>1, <2>4 DEF StoredDays, expected
    <2>5. CASE ~(seen = {} \/ expected = {})
      <3>1. Goes(c, "judge", Noted(k, g # {}, g, s))
        BY <1>1, <2>5 DEF StoredDays, expected, g
      <3>2. CASE g = {}
        BY <1>00, <2>2, <2>3, <2>5, <3>1, <3>2
      <3>3. CASE g # {}
        BY <1>00, <2>2, <2>3, <2>5, <3>1, <3>3
      <3> QED
        BY <3>2, <3>3
    <2> QED
      BY <2>4, <2>5
  <1> DEFINE open == IF isOpen THEN v.open \cup {k} ELSE v.open
             series == IF gap = {} THEN v.series[k] ELSE s
             w == Noted(k, isOpen, gap, s)
  <1>3. /\ w \in Work /\ w.retained = v.retained /\ w.open = open /\ w.todo = v.todo \ {k}
        /\ w.missing = [v.missing EXCEPT ![k] = gap] /\ w.series = [v.series EXCEPT ![k] = series]
    <2>1. /\ open \in SUBSET Instruments /\ v.todo \ {k} \in SUBSET Instruments
          /\ v \in Work /\ series \in Series
          /\ [v.missing EXCEPT ![k] = gap] \in [Instruments -> SUBSET Sessions]
          /\ [v.series EXCEPT ![k] = series] \in [Instruments -> Series]
      BY <1>0, AttemptsBefore DEF Work
    <2>2. w = [v EXCEPT !.todo = v.todo \ {k}, !.open = open,
                        !.missing = [v.missing EXCEPT ![k] = gap],
                        !.series = [v.series EXCEPT ![k] = series]]
      BY <2>1 DEF Noted, Work
    <2> HIDE DEF w, open, series
    <2> QED
      BY <2>1, <2>2 DEF Work
  <1> HIDE DEF w
  <1>4. chain'[c].pc = "judge" /\ chain'[c].work = w /\ chain'[c].span = chain[c].span
    <2>1. chain \in [Chains -> Chain] /\ "judge" \in Places
      BY DEF CIInv, CaptureTypeOK, Places
    <2> QED
      BY <1>0, <1>2, <1>3, <2>1, GoesIs DEF w
  <1>5. Placed(c)' /\ Pending(c)' = (v.todo \ {k}) \cup open
    BY <1>0, <1>00, <1>3, <1>4 DEF Placed, Pending, given, Asking
  <1>6. Since(chain[c].span[k]) \subseteq Since(DaysOf(row[k]))
    BY <1>0, AttemptsBefore, SinceGrows DEF Seen
  <1>7. Gaps(c)'
    <2>1. ASSUME NEW j \in Instruments, w.missing[j] # {}
          PROVE  /\ DaysOf(row[j]) # {}
                 /\ calendar # "ok" => w.missing[j] \subseteq Dates(w.series[j])
                 /\ calendar = "ok" =>
                        Since(chain[c].span[j]) \subseteq DaysOf(row[j]) \cup w.missing[j]
      <3>0. v.missing \in [Instruments -> SUBSET Sessions] /\ v.series \in [Instruments -> Series]
        BY <1>0, AttemptsBefore DEF Work
      <3>1. CASE j = k
        <4>1. w.missing[k] = gap /\ w.series[k] = s
          BY <1>3, <2>1, <3>0, <3>1
        <4> QED
          BY <1>2, <1>6, <2>1, <3>1, <4>1
      <3>2. CASE j # k
        <4>1. w.missing[j] = v.missing[j] /\ w.series[j] = v.series[j]
          BY <1>3, <3>0, <3>2
        <4> QED
          BY <1>0, <2>1, <4>1, AttemptsBefore DEF Gaps
      <3> QED
        BY <3>1, <3>2
    <2> QED
      BY <1>0, <1>4, <2>1 DEF Gaps, given
  <1>8. ASSUME NEW j \in Watched(c), j \notin Pending(c)'
        PROVE  Done(c, j)'
    <2>1. CASE j \in Pending(c)
      <3>1. j = k /\ ~isOpen
        BY <1>0, <1>5, <1>8, <2>1
      <3> QED
        BY <1>0, <1>00, <1>2, <1>4, <1>6, <3>1 DEF Done, given
    <2>2. CASE j \notin Pending(c)
      BY <1>0, <1>4, <2>2, AttemptsBefore, DoneGrows DEF Accounted
    <2> QED
      BY <2>1, <2>2
  <1>9. \A j \in Instruments : w.retained[j] \subseteq DaysOf(row'[j])
    BY <1>0, <1>3, AttemptsBefore DEF Seen
  <1>10. Pending(c)' \subseteq chain[c].only
    BY <1>0, <1>5, AttemptsBefore DEF Accounted
  <1> QED
    BY <1>0, <1>2, <1>3, <1>5, <1>7, <1>8, <1>9, <1>10, AttemptsBefore, GoesMoved DEF outside, w

\* The attempt goes on to the fallback, with all that has a gap.
LEMMA StartFillingMoved ==
    ASSUME CIInv, StartFilling
    PROVE  Moved("daily")
  <1> DEFINE c == "daily"
             v == chain[c].work
             todo == {k \in v.open : v.missing[k] # {}}
             w == [v EXCEPT !.todo = todo]
  <1>0. /\ c \in Chains /\ chain[c].pc = "judge" /\ v.todo = {} /\ UNCHANGED <<given, row, outside>>
        /\ Running(c) /\ Grows /\ Pending(c) = v.open /\ Goes(c, "fill", w)
    BY SameGrows DEF StartFilling, Chains, Running, Ended, Pending, Asking
  <1>1. /\ w \in Work /\ w.retained = v.retained /\ w.open = v.open /\ w.todo = todo
        /\ w.missing = v.missing /\ w.series = v.series
    BY <1>0, AttemptsBefore DEF Work
  <1> HIDE DEF w
  <1>2. chain'[c].pc = "fill" /\ chain'[c].work = w /\ chain'[c].span = chain[c].span
    <2>1. chain \in [Chains -> Chain] /\ "fill" \in Places
      BY DEF CIInv, CaptureTypeOK, Places
    <2> QED
      BY <1>0, <1>1, <2>1, GoesIs
  <1>3. Placed(c)' /\ Pending(c)' = v.open
    BY <1>0, <1>1, <1>2, AttemptsBefore DEF Placed, Pending, given, Asking
  <1>4. Gaps(c)'
    BY <1>0, <1>1, <1>2, AttemptsBefore DEF Gaps, given
  <1>5. \A j \in Watched(c) : j \notin Pending(c) => Done(c, j)'
    BY <1>0, <1>2, AttemptsBefore, DoneGrows DEF Accounted
  <1>6. \A j \in Instruments : w.retained[j] \subseteq DaysOf(row'[j])
    BY <1>0, <1>1, AttemptsBefore DEF Seen
  <1> QED
    BY <1>0, <1>1, <1>3, <1>4, <1>5, <1>6, AttemptsBefore, GoesMoved DEF outside, Accounted

\* An instrument is closed if the fallback has left no gap.
LEMMA FillMoved ==
    ASSUME CIInv, NEW k \in Instruments, Fill(k)
    PROVE  Moved("daily")
  <1> DEFINE c == "daily"
             v == chain[c].work
  <1>0. /\ c \in Chains /\ chain[c].pc = "fill" /\ k \in v.todo /\ UNCHANGED <<given, outside>>
        /\ Running(c) /\ Pending(c) = v.todo \cup v.open
    BY DEF Fill, Chains, Running, Ended, Pending, Asking
  <1>00. /\ kind = "etf" /\ v.missing[k] # {} /\ v.missing[k] \in SUBSET Sessions
         /\ DaysOf(row[k]) # {}
         /\ calendar = "ok" => Since(chain[c].span[k]) \subseteq DaysOf(row[k]) \cup v.missing[k]
    BY <1>0, AttemptsBefore DEF Placed, Gaps, Work
  <1>1. PICK isOpen \in BOOLEAN :
          /\ Filed(k, isOpen)
          /\ GuardedUpsert(k, v.missing[k]) \/ UNCHANGED row
          /\ ~isOpen => v.missing[k] \subseteq DaysOf(row'[k])
    <2>1. CASE /\ GuardedUpsert(k, v.missing[k])
               /\ Filed(k, Leftover(k) # {})
      <3>1. CASE Leftover(k) = {}
        <4>1. v.missing[k] \subseteq DaysOf(row'[k])
          BY <1>00, <3>1 DEF Leftover, DaysOf
        <4> QED
          BY <2>1, <3>1, <4>1
      <3>2. CASE Leftover(k) # {}
        BY <2>1, <3>2
      <3> QED
        BY <3>1, <3>2
    <2>2. CASE UNCHANGED row /\ Filed(k, TRUE)
      BY <2>2
    <2> QED
      BY <2>1, <2>2 DEF Fill
  <1>2. row' \in [Instruments -> [Sessions -> Closes]] /\ Grows
    BY <1>00, <1>1, <1>0, AttemptsBefore, SameGrows, GuardedGrows
  <1> DEFINE open == IF isOpen THEN v.open ELSE v.open \ {k}
             missing == [v.missing EXCEPT ![k] = {}]
             series == [v.series EXCEPT ![k] = NoAttempt.series[k]]
             w == [v EXCEPT !.todo = v.todo \ {k}, !.open = open,
                            !.missing = missing, !.series = series]
  <1>3. /\ w \in Work /\ w.retained = v.retained /\ w.open = open /\ w.todo = v.todo \ {k}
        /\ w.missing = missing /\ w.series = series
    <2>1. /\ open \in SUBSET Instruments /\ v.todo \ {k} \in SUBSET Instruments
          /\ v \in Work /\ NoAttempt.series[k] \in Series
          /\ missing \in [Instruments -> SUBSET Sessions] /\ series \in [Instruments -> Series]
      BY <1>0, AttemptsBefore DEF Work, NoAttempt, Series
    <2> HIDE DEF open, missing, series
    <2> QED
      BY <2>1 DEF Work
  <1>4. Goes(c, "fill", w)
    BY <1>1 DEF Filed
  <1> HIDE DEF w
  <1>5. chain'[c].pc = "fill" /\ chain'[c].work = w /\ chain'[c].span = chain[c].span
    <2>1. chain \in [Chains -> Chain] /\ "fill" \in Places
      BY DEF CIInv, CaptureTypeOK, Places
    <2> QED
      BY <1>0, <1>3, <1>4, <2>1, GoesIs
  <1>6. Placed(c)' /\ Pending(c)' = (v.todo \ {k}) \cup open
    BY <1>0, <1>00, <1>3, <1>5 DEF Placed, Pending, given, Asking
  <1>7. Gaps(c)'
    <2>0. v.missing \in [Instruments -> SUBSET Sessions] /\ v.series \in [Instruments -> Series]
      BY <1>0, AttemptsBefore DEF Work
    <2>1. ASSUME NEW j \in Instruments, w.missing[j] # {}
          PROVE  /\ DaysOf(row'[j]) # {}
                 /\ calendar # "ok" => w.missing[j] \subseteq Dates(w.series[j])
                 /\ calendar = "ok" =>
                        Since(chain[c].span[j]) \subseteq DaysOf(row'[j]) \cup w.missing[j]
      <3>0. w.missing = [v.missing EXCEPT ![k] = {}]
        BY <1>3
      <3>1. j # k /\ w.missing[j] = v.missing[j]
        <4>1. CASE j = k
          <5>1. w.missing[k] = {}
            BY <2>0, <3>0
          <5> QED
            BY <2>1, <4>1, <5>1
        <4>2. CASE j # k
          BY <2>0, <3>0, <4>2
        <4> QED
          BY <4>1, <4>2
      <3>2. w.series[j] = v.series[j]
        BY <1>3, <2>0, <3>1
      <3>3. DaysOf(row[j]) \subseteq DaysOf(row'[j])
        BY <1>2 DEF Grows
      <3> QED
        BY <1>0, <2>1, <3>1, <3>2, <3>3, AttemptsBefore DEF Gaps
    <2>2. ASSUME NEW j \in w.todo
          PROVE  j \in w.open /\ w.missing[j] # {}
      <3>1. j \in v.todo /\ j # k /\ j \in Instruments
        BY <1>0, <1>3, <2>2, AttemptsBefore DEF Work
      <3>2. j \in v.open /\ v.missing[j] # {}
        BY <1>0, <3>1, AttemptsBefore DEF Gaps
      <3>3. w.missing[j] = v.missing[j]
        BY <1>3, <2>0, <3>1
      <3> QED
        BY <1>3, <3>1, <3>2, <3>3
    <2> QED
      BY <1>0, <1>5, <2>1, <2>2 DEF Gaps, given
  <1>8. ASSUME NEW j \in Watched(c), j \notin Pending(c)'
        PROVE  Done(c, j)'
    <2>1. CASE j \in Pending(c)
      <3>0. k \in v.open
        BY <1>0, AttemptsBefore DEF Gaps
      <3>1. j = k /\ ~isOpen
        BY <1>0, <1>6, <1>8, <2>1, <3>0
      <3>2. DaysOf(row[k]) \subseteq DaysOf(row'[k])
        BY <1>2 DEF Grows
      <3> QED
        BY <1>0, <1>00, <1>1, <1>5, <3>1, <3>2 DEF Done, given
    <2>2. CASE j \notin Pending(c)
      BY <1>0, <1>2, <1>5, <2>2, AttemptsBefore, DoneGrows DEF Accounted
    <2> QED
      BY <2>1, <2>2
  <1>9. \A j \in Instruments : w.retained[j] \subseteq DaysOf(row'[j])
    BY <1>2, <1>3, <1>0, AttemptsBefore DEF Seen, Grows
  <1>10. Pending(c)' \subseteq chain[c].only
    BY <1>0, <1>6, AttemptsBefore DEF Accounted
  <1> QED
    BY <1>0, <1>2, <1>3, <1>4, <1>6, <1>7, <1>8, <1>9, <1>10, AttemptsBefore, GoesMoved DEF outside

-----------------------------------------------------------------------------
(* All steps.                                                              *)

\* A task is fired: its message names all that it is about.
LEMMA FireMoved ==
    ASSUME CIInv, NEW c \in Chains, Fire(c)
    PROVE  Moved(c)
  <1>1. PICK ks \in SUBSET held :
          chain' = [chain EXCEPT ![c].pc = "ready", ![c].only = ks, ![c].fired = ks,
                                 ![c].span = [k \in Instruments |-> StoredDays(k)]]
    BY DEF Fire
  <1> DEFINE span == [k \in Instruments |-> StoredDays(k)]
             r == [chain[c] EXCEPT !.pc = "ready", !.only = ks, !.fired = ks, !.span = span]
  <1>0. /\ chain \in [Chains -> Chain] /\ chain[c] \in Chain /\ ks \in SUBSET Instruments
        /\ "ready" \in Places /\ span \in [Instruments -> SUBSET Sessions] /\ Grows
        /\ \A k \in Instruments : span[k] = DaysOf(row[k])
        /\ UNCHANGED <<given, row, outside>>
    BY AttemptsBefore, SameGrows DEF Fire, CIInv, CaptureTypeOK, Places, StoredDays, DaysOf
  <1> HIDE DEF span
  <1>2. /\ r \in Chain /\ r.pc = "ready" /\ r.only = ks /\ r.fired = ks /\ r.span = span
        /\ r.work = chain[c].work /\ r.anchors = chain[c].anchors
    BY <1>0 DEF Chain
  <1>3. chain' = [chain EXCEPT ![c] = r]
    BY <1>1 DEF span
  <1> HIDE DEF r
  <1>4. /\ chain' \in [Chains -> Chain] /\ chain'[c] = r
        /\ \A b \in Chains \ {c} : chain'[b] = chain[b]
    BY <1>0, <1>2, <1>3
  <1>5. Placed(c)' /\ Gaps(c)' /\ Seen(c)'
    BY <1>0, <1>2, <1>4, AttemptsBefore DEF Placed, Gaps, Seen, Asking
  <1>6. Accounted(c)'
    BY <1>0, <1>2, <1>4 DEF Accounted, Pending, Watched, outside
  <1> QED
    BY <1>0, <1>4, <1>5, <1>6 DEF Moved, ChainOK, CIInv, CaptureTypeOK, given, outside

\* A step of one of the two tasks.
LEMMA ChainStep ==
    ASSUME CIInv, NEW c \in Chains,
           \/ Fire(c) \/ StartAttempt(c) \/ EndAttempt(c) \/ NavCheck(c) \/ NavVerify(c)
           \/ NavFallback(c) \/ Raises(c) \/ WorkerDies(c)
           \/ \E k \in Instruments : Alert(c, k) \/ NavFetch(c, k)
    PROVE  Moved(c)
  BY FireMoved, StartMoved, EndAttemptMoved, NavCheckMoved, NavVerifyMoved, NavFallbackMoved,
     MishapMoved, AlertMoved, NavFetchMoved

\* ...and of one that only it takes.
LEMMA EtfStep ==
    ASSUME CIInv, Backfill \/ Fetch \/ StartFilling \/ \E k \in Instruments : Judge(k) \/ Fill(k)
    PROVE  \E c \in Chains : Moved(c)
  <1>1. "daily" \in Chains /\ "confirm" \in Chains
    BY DEF Chains
  <1> QED
    BY <1>1, BackfillMoved, FetchMoved, StartFillingMoved, JudgeMoved, FillMoved

\* What is sold needs nothing.
LEMMA SoldKeeps ==
    ASSUME CIInv, NEW k \in Instruments, Sold(k)
    PROVE  CIInv' /\ Grows
  <1>1. /\ UNCHANGED <<given, row, chain, marked, mailed>> /\ held' \subseteq held
        /\ mishaps' \in Nat /\ Grows
    BY SameGrows, CaptureAssumption DEF Sold, Mishap, CIInv, CaptureTypeOK
  <1>2. ASSUME NEW c \in Chains
        PROVE  ChainOK(c)'
    BY <1>1, Frame DEF CIInv
  <1> QED
    BY <1>1, <1>2 DEF CIInv, CaptureTypeOK, given

\* Every step keeps the invariant, and every usable close.
LEMMA NextKeeps ==
    ASSUME CIInv, CaptureNext
    PROVE  CIInv' /\ Grows
  <1>1. CASE \E k \in Instruments : Sold(k)
    BY <1>1, SoldKeeps
  <1>2. CASE \E c \in Chains : Moved(c)
    BY <1>2, MovedKeeps DEF Moved
  <1> QED
    BY <1>1, <1>2, ChainStep, EtfStep DEF CaptureNext

\* The invariant holds initially...
LEMMA InitKeeps == CaptureInit => CIInv
  <1> SUFFICES ASSUME CaptureInit
               PROVE  CIInv
    OBVIOUS
  <1>1. PICK z \in Cases :
          /\ kind = z.kind /\ calendar = z.calendar /\ since = z.since
          /\ held = z.held /\ row = z.row
          /\ chain = [c \in Chains |-> IF c \in z.tasks THEN NotSent
                                      ELSE [NotSent EXCEPT !.pc = "gone"]]
    BY DEF CaptureInit
  <1>2. /\ kind \in {"etf", "fund"} /\ calendar \in {"ok", "unknown"} /\ since \in Sessions
        /\ held \subseteq Instruments /\ row \in [Instruments -> [Sessions -> Closes]]
    BY <1>1, CaptureAssumption
  <1>3. [NotSent EXCEPT !.pc = "gone"] \in Chain
    BY NotSentType DEF Chain, Places, Ended
  <1>4. ASSUME NEW c \in Chains
        PROVE  /\ chain[c] \in Chain /\ chain[c].pc \in {"off", "gone"}
               /\ \A k \in Instruments : /\ chain[c].anchors[k] = {} /\ chain[c].span[k] = {}
                                        /\ chain[c].work.retained[k] = {}
    BY <1>1, <1>3, NotSentType DEF NotSent, NoDays, NoAttempt
  <1>5. \A c \in Chains : ChainOK(c)
    BY <1>4 DEF ChainOK, Placed, Seen, Gaps, Accounted, Running, Ended, Asking
  <1>6. chain \in [Chains -> Chain]
    BY <1>1, <1>4
  <1> QED
    BY <1>2, <1>5, <1>6 DEF CaptureInit, CIInv, CaptureTypeOK

\* ...and in every state.
LEMMA StepKeeps == CIInv /\ [CaptureNext]_captureVars => CIInv'
  <1>1. ASSUME CIInv, UNCHANGED captureVars
        PROVE  CIInv'
    <2>1. UNCHANGED <<given, held, row, chain, marked, mailed, mishaps>> /\ Grows
      BY <1>1, SameGrows DEF captureVars, given
    <2>2. ASSUME NEW c \in Chains
          PROVE  ChainOK(c)'
      BY <1>1, <2>1, Frame DEF CIInv
    <2> QED
      BY <1>1, <2>1, <2>2 DEF CIInv, CaptureTypeOK, given
  <1> QED
    BY <1>1, NextKeeps

\* Every reachable state of the captures is well typed.
THEOREM CaptureTypes == CaptureSpec => []CaptureTypeOK
  <1>1. CIInv => CaptureTypeOK
    BY DEF CIInv
  <1> QED
    BY <1>1, InitKeeps, StepKeeps, PTL DEF CaptureSpec

-----------------------------------------------------------------------------
\* The days that Tencent is let fill are days that no later dividend or split
\* adjusts: a day that is asked for lies in its own interval.
LEMMA AdmitsAgreed ==
    ASSUME CIInv, NEW k \in Instruments, chain["daily"].pc = "fill", NEW s,
           calendar # "ok" => s = chain["daily"].work.series[k],
           Admits(k, s, IF calendar = "ok" THEN Sessions ELSE Dates(s)),
           NEW d \in chain["daily"].work.missing[k]
    PROVE  Agree(d)
  <1> DEFINE v == chain["daily"].work
             expected == IF calendar = "ok" THEN Sessions ELSE Dates(s)
  <1>1. "daily" \in Chains /\ v \in Work
    BY AttemptsBefore DEF Chains
  <1>2. d \in Sessions /\ d \in expected
    BY <1>1, AttemptsBefore DEF Work, Gaps
  <1>3. PICK a \in v.retained[k] : IntervalOk(a, d, s, expected)
    BY DEF Admits
  <1>4. a \in Sessions
    BY <1>1, <1>3 DEF Work
  <1>5. d \in Between(a, d, expected)
    BY <1>2, <1>4 DEF Between, Sessions
  <1> QED
    BY <1>3, <1>5 DEF IntervalOk

\* Whatever the fallback writes, it fills what had no usable close, and for an ETF
\* only with prices that mean the same adjusted or not (FallbackAdmitted).
LEMMA StepAdmits ==
    ASSUME CIInv, CaptureNext, NEW k \in Instruments, NEW d \in Sessions,
           row'[k][d] = "fallback", row[k][d] # "fallback"
    PROVE  ~Usable(row[k][d]) /\ (kind = "etf" => Agree(d))
  <1>0. row \in [Instruments -> [Sessions -> Closes]] /\ CaptureTypeOK
    BY DEF CIInv, CaptureTypeOK
  <1>1. ASSUME NEW got \in [Instruments -> SUBSET Sessions], row' = Upserted(got)
        PROVE  FALSE
    BY <1>0, <1>1 DEF Upserted
  <1>2. ASSUME NEW j \in Instruments, Fill(j)
        PROVE  ~Usable(row[k][d]) /\ (kind = "etf" => Agree(d))
    <2> DEFINE v == chain["daily"].work
    <2>1. PICK s :
            /\ calendar # "ok" => s = v.series[j]
            /\ Admits(j, s, IF calendar = "ok" THEN Sessions ELSE Dates(s))
            /\ GuardedUpsert(j, v.missing[j])
      BY <1>2 DEF Fill
    <2>2. v.missing[j] \in SUBSET Sessions
      BY AttemptsBefore DEF Chains, Work
    <2>3. j = k /\ d \in v.missing[j] /\ ~Usable(row[k][d])
      BY <1>0, <2>1, <2>2, GuardedGrows
    <2> QED
      BY <1>2, <2>1, <2>3, AdmitsAgreed DEF Fill
  <1>3. ASSUME NEW c \in Chains, NavVerify(c) \/ NavFallback(c)
        PROVE  ~Usable(row[k][d]) /\ (kind = "etf" => Agree(d))
    <2>1. kind = "fund" /\ chain[c].work.key \in Instruments
      BY <1>3, AttemptsBefore DEF NavVerify, NavFallback, Placed, Asking
    <2>2. ASSUME NEW e \in Sessions, GuardedUpsert(chain[c].work.key, {e})
          PROVE  ~Usable(row[k][d])
      BY <1>0, <2>1, <2>2, GuardedGrows
    <2> QED
      BY <1>3, <2>1, <2>2 DEF NavVerify, NavFallback
  <1>4. ASSUME NEW c \in Chains, NEW j \in Instruments, NavFetch(c, j)
        PROVE  FALSE
    <2>1. PICK days \in SUBSET Sessions : row' = Upserted([NoDays EXCEPT ![j] = days])
      BY <1>4 DEF NavFetch
    <2>2. [NoDays EXCEPT ![j] = days] \in [Instruments -> SUBSET Sessions]
      BY DEF NoDays
    <2> QED
      BY <1>1, <2>1, <2>2
  <1>5. CASE Backfill \/ Fetch
    BY <1>1, <1>5 DEF Backfill, Fetch, Gets
  <1>6. CASE UNCHANGED row
    BY <1>6
  <1> QED
    BY <1>2, <1>3, <1>4, <1>5, <1>6
    DEF CaptureNext, Fire, StartAttempt, EndAttempt, NavCheck, Raises, WorkerDies, Alert,
        StartFilling, Judge, Sold

\* A fallback never overwrites a usable close, and never mixes adjusted with raw
\* prices (_guarded_fallback_upsert, admit_tencent_missing_dates).
THEOREM FallbackIsAdmitted == CaptureSpec => FallbackAdmitted
  <1>1. CIInv /\ [CaptureNext]_captureVars =>
          [\A k \in Instruments, d \in Sessions :
              row'[k][d] = "fallback" /\ row[k][d] # "fallback" =>
                  ~Usable(row[k][d]) /\ (kind = "etf" => Agree(d))]_captureVars
    BY StepAdmits
  <1> QED
    BY <1>1, InitKeeps, StepKeeps, PTL DEF CaptureSpec, FallbackAdmitted

-----------------------------------------------------------------------------
\* Where a chain goes, whatever it takes with it.
LEMMA GoesTo ==
    ASSUME chain \in [Chains -> Chain], NEW c \in Chains, NEW pc, NEW w, Goes(c, pc, w)
    PROVE  chain'[c].pc = pc /\ \A b \in Chains \ {c} : chain'[b] = chain[b]
  <1> DEFINE s == [chain[c] EXCEPT !.pc = pc, !.work = w]
  <1>1. chain[c] \in Chain
    OBVIOUS
  <1>2. s.pc = pc
    BY <1>1 DEF Chain
  <1>3. chain' = [chain EXCEPT ![c] = s]
    BY DEF Goes
  <1> HIDE DEF s
  <1> QED
    BY <1>2, <1>3

\* A task ends quietly in three ways only.
LEMMA QuietWays ==
    ASSUME CIInv, CaptureNext, NEW c \in Chains, chain[c].pc # "quiet", chain'[c].pc = "quiet"
    PROVE  \/ StartAttempt(c) /\ Targets(c) = {}
           \/ EndAttempt(c) /\ chain[c].work.open = {}
           \/ Backfill /\ c = "confirm"
  <1>0. chain \in [Chains -> Chain]
    BY DEF CIInv, CaptureTypeOK
  <1>1. ASSUME NEW b \in Chains, NEW pc, NEW w, Goes(b, pc, w)
        PROVE  b = c /\ pc = "quiet"
    BY <1>0, <1>1, GoesTo
  <1>2. ASSUME NEW b \in Chains, NEW r, r.pc = "ready", chain' = [chain EXCEPT ![b] = r]
        PROVE  FALSE
    BY <1>0, <1>2
  <1>3. ASSUME NEW b \in Chains, Fire(b)
        PROVE  FALSE
    <2>1. PICK ks \in SUBSET held :
            chain' = [chain EXCEPT ![b].pc = "ready", ![b].only = ks, ![b].fired = ks,
                                   ![b].span = [k \in Instruments |-> StoredDays(k)]]
      BY <1>3 DEF Fire
    <2> DEFINE r == [chain[b] EXCEPT !.pc = "ready", !.only = ks, !.fired = ks,
                                    !.span = [k \in Instruments |-> StoredDays(k)]]
    <2>2. r.pc = "ready" /\ chain' = [chain EXCEPT ![b] = r]
      BY <1>0, <2>1 DEF Chain
    <2> QED
      BY <1>2, <2>2
  <1>4. ASSUME NEW b \in Chains, StartAttempt(b)
        PROVE  b = c /\ Targets(c) = {}
    BY <1>1, <1>4 DEF StartAttempt, EndsAs
  <1>5. ASSUME NEW b \in Chains, EndAttempt(b)
        PROVE  b = c /\ chain[c].work.open = {}
    <2>1. chain' # [chain EXCEPT ![b] = Retry(b)]
      BY <1>0, <1>2, RetryIs
    <2> QED
      BY <1>1, <1>5, <2>1 DEF EndAttempt, EndsAs
  <1>6. ASSUME NEW b \in Chains, NEW k \in Instruments, Alert(b, k) \/ NavFetch(b, k)
        PROVE  FALSE
    <2>1. CASE Alert(b, k)
      <3>1. ASSUME NEW w, Goes(b, "alert", w)
            PROVE  FALSE
        BY <1>1, <3>1
      <3>2. ~EndsAs(b, "miss")
        BY <1>1 DEF EndsAs
      <3> QED
        BY <2>1, <3>1, <3>2 DEF Alert
    <2>2. CASE NavFetch(b, k)
      <3>1. ASSUME NEW w, Goes(b, "check", w)
            PROVE  FALSE
        BY <1>1, <3>1
      <3> QED
        BY <2>2, <3>1 DEF NavFetch
    <2> QED
      BY <1>6, <2>1, <2>2
  <1>7. ASSUME NEW b \in Chains, NavCheck(b) \/ NavVerify(b) \/ NavFallback(b)
        PROVE  FALSE
    <2>1. ASSUME NEW isOpen, Resolves(b, isOpen)
          PROVE  FALSE
      BY <1>1, <2>1 DEF Resolves
    <2>2. ASSUME NEW pc \in {"verify", "sina"}, NEW known, Asks(b, pc, known)
          PROVE  FALSE
      BY <1>1, <2>2 DEF Asks
    <2> QED
      BY <1>7, <2>1, <2>2 DEF NavCheck, NavVerify, NavFallback
  <1>8. ASSUME NEW b \in Chains, Raises(b) \/ WorkerDies(b)
        PROVE  FALSE
    <2> DEFINE r == [chain[b] EXCEPT !.pc = "ready", !.attempt = @ + 1, !.work = NoAttempt]
    <2>1. r.pc = "ready"
      BY <1>0 DEF Chain
    <2>2. chain' = [chain EXCEPT ![b].pc = "ready", ![b].attempt = @ + 1, ![b].work = NoAttempt]
            => chain' = [chain EXCEPT ![b] = r]
      OBVIOUS
    <2>3. ASSUME NEW pc \in {"failed", "ready", "gone"}, EndsAs(b, pc)
          PROVE  FALSE
      BY <1>1, <2>3 DEF EndsAs
    <2> HIDE DEF r
    <2> QED
      BY <1>2, <1>8, <2>1, <2>2, <2>3 DEF Raises, WorkerDies
  <1>9. Backfill => c = "confirm"
    BY <1>1 DEF Backfill, EndsAs, Chains
  <1>10. ASSUME Fetch \/ StartFilling \/ \E k \in Instruments : Judge(k) \/ Fill(k) \/ Sold(k)
         PROVE  FALSE
    <2>1. ASSUME NEW pc \in {"judge", "fill"}, NEW w, Goes("daily", pc, w)
          PROVE  FALSE
      BY <1>1, <2>1 DEF Chains
    <2> QED
      BY <1>10, <2>1 DEF Fetch, StartFilling, Judge, Fill, Filed, Sold
  <1> QED
    BY <1>3, <1>4, <1>5, <1>6, <1>7, <1>8, <1>9, <1>10 DEF CaptureNext

\* And it leaves what it was fired for complete.
LEMMA QuietIsComplete ==
    ASSUME CIInv, CaptureNext, NEW c \in Chains, chain[c].pc # "quiet", chain'[c].pc = "quiet",
           ~(c = "confirm" /\ kind = "etf"), NEW k \in held' \cap chain[c].fired,
           kind = "fund" \/ k \in Yuan
    PROVE  Complete(c, k)
  <1>1. \/ StartAttempt(c) /\ Targets(c) = {}
        \/ EndAttempt(c) /\ chain[c].work.open = {}
    BY QuietWays DEF Backfill
  <1>2. Running(c) /\ UNCHANGED <<row, held>>
    BY <1>1 DEF StartAttempt, EndAttempt, Running, Ended, outside
  <1>3. k \in Watched(c)
    BY <1>2, AttemptsBefore DEF Watched, Chains
  <1>4. k \notin Pending(c)
    <2>1. CASE StartAttempt(c) /\ Targets(c) = {}
      BY <1>2, <2>1 DEF StartAttempt, Pending, Targets
    <2>2. CASE EndAttempt(c) /\ chain[c].work.open = {}
      BY <2>2 DEF EndAttempt, Pending, Asking
    <2> QED
      BY <1>1, <2>1, <2>2
  <1>5. Done(c, k)
    BY <1>2, <1>3, <1>4, AttemptsBefore DEF Accounted
  <1> QED
    BY <1>2, <1>5 DEF Done, Complete

\* No gap is passed over in silence: a task that ends without alerts has left what
\* it was fired for complete, and an alert that is held back was mailed once.
THEOREM NoMissIsSilent == CaptureSpec => NoSilentMiss
  <1>1. CIInv /\ [CaptureNext]_captureVars =>
          [/\ \A c \in Chains :
                chain[c].pc # "quiet" /\ chain'[c].pc = "quiet" /\ ~(c = "confirm" /\ kind = "etf")
                    => \A k \in held' \cap chain[c].fired :
                            kind = "fund" \/ k \in Yuan => Complete(c, k)
           /\ marked' \subseteq mailed']_captureVars
    BY QuietIsComplete, StepKeeps DEF CIInv
  <1> QED
    BY <1>1, InitKeeps, StepKeeps, PTL DEF CaptureSpec, NoSilentMiss

-----------------------------------------------------------------------------
(* The tasks together: a step of one leaves the others as they are.        *)

LEMMA DataSpecs == DataSpec => Spec /\ CaptureSpec
  <1>1. DataInit => Init /\ CaptureInit
    BY DEF DataInit
  <1>2. [SnapshotStep \/ DeepenStep \/ SlotStep \/ CaptureStep]_dataVars
        => [Next]_vars /\ [CaptureNext]_captureVars
    BY DEF SnapshotStep, DeepenStep, SlotStep, CaptureStep, dataVars, vars, captureVars
  <1> QED
    BY <1>1, <1>2, PTL DEF DataSpec, Spec, CaptureSpec

\* Whatever is proved of snapshots and of the capture holds of the tasks
\* together, which is what the run checks.
THEOREM DataTasksKeepTheirWord ==
    DataSpec => []ShownIsFrozen /\ PastIsReplayed /\ FallbackAdmitted /\ NoSilentMiss
BY DataSpecs, AppliedIsShown, PastIsKept, FallbackIsAdmitted, NoMissIsSilent, PTL

=============================================================================
