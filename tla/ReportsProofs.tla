--------------------------- MODULE ReportsProofs ---------------------------
(***************************************************************************)
(* Proofs about the reports of a user (Reports), for any number of rows,   *)
(* news, jobs, workers and addresses: news captured in time is not lost    *)
(* and is shown once, and no text is mailed that was held or replaced.     *)
(*                                                                         *)
(* The argument follows a news item.  A report that is written leaves      *)
(* behind only what is provided for: marked, shown, or to be taken in when *)
(* the report is tried again.  A window starts where a report ended, or so *)
(* far back that the rest is backfilled, so it leaves nothing else behind. *)
(* What is provided for stays so whatever the workers do, because each of  *)
(* them has read all that its row may show, or has overlapped with another *)
(* attempt at the row.                                                     *)
(***************************************************************************)
EXTENDS Reports, TLAPS, WellFoundedInduction

Attempts == Jobs \cup Scheduled
AtWork == {"wait", "write", "load"}
Settled == {"success", "skipped"}

\* A news item of the pool that the window of a report takes in.
Covers(n, x) == n \in pool /\ Selectable(n, x.start, x.end)

-----------------------------------------------------------------------------
(* What a worker holds.                                                    *)

\* Where a worker is, and what it may hold there.  Who waits for another
\* session at its row has overlapped with it.
Placed(p) ==
    /\ p.pc # "idle" => p.row \in Rows
    /\ p.pc = "wait" => p.task \in Attempts /\ p.row \in overlapped
    /\ p.pc = "write" => p.task \in Attempts \cup Repeats
    /\ p.unmark # {} => p.pc = "write" /\ p.task \in Attempts
    /\ p.hide # {} => p.pc \in {"wait", "write"}
    /\ p.pc = "post" => p.mail.to \in Addresses
    /\ p.pc \in {"load", "post", "record"} \/ (p.pc = "end" /\ p.mail # NoSend) =>
           row[p.row].status # "none"

\* What an attempt has read is of its row, or there was none and there still is
\* none; the window of a report is set once.
Opening(p) ==
    p.pc \in {"wait", "write"} =>
        IF p.old.status = "none"
        THEN /\ p.old = NoRow /\ p.new.start <= now /\ p.new.end <= now
             /\ p.pc = "write" => row[p.row] = NoRow
        ELSE /\ row[p.row].status # "none" /\ p.hide = {}
             /\ p.new.start = row[p.row].start /\ p.new.end = row[p.row].end
             /\ p.old.start = row[p.row].start /\ p.old.end = row[p.row].end

\* A row on which one attempt is at work is as that attempt has read it.
Unchanged(p) ==
    p.pc = "write" /\ p.row \notin overlapped =>
        /\ row[p.row].status = p.old.status /\ row[p.row].inputs = p.old.inputs
        /\ row[p.row].text = p.old.text

\* The news of an attempt is in its window.  The marks that it has deleted are
\* its row's, all of them, and it has the news again; while no other attempt
\* runs, its news is nobody else's.
Reading(p) ==
    p.pc = "write" =>
        /\ \A n \in p.new.inputs.news : Covers(n, p.new)
        /\ \A n \in p.unmark : marks[n] = p.row /\ n \in p.new.inputs.news
        /\ p.task \in Attempts /\ p.row \notin overlapped => MarksOf(p.row) \subseteq p.unmark
        /\ p.task \in Attempts /\ p.row \notin stale =>
               \A n \in p.new.inputs.news : (marks[n] = None \/ n \in p.unmark) /\ n \notin p.hide
        /\ p.task \in Repeats =>
               p.new.inputs = p.old.inputs /\ (p.row \notin stale => p.old.status \in Done)

\* Two that are at work have noted it; only one of them inserts a row, and no
\* two delete one mark.
Apart(p, q) ==
    /\ p.pc \in AtWork /\ q.pc \in AtWork =>
           /\ {p.row, q.row} \subseteq stale
           /\ p.row = q.row => p.row \in overlapped
    /\ p.pc = "write" /\ q.pc = "write" /\ p.row = q.row =>
           p.old.status # "none" \/ q.old.status # "none"
    /\ p.unmark \cap q.unmark = {}

-----------------------------------------------------------------------------
(* What a row and a mark say.                                              *)

\* A window is past when it is written, and the news shown is in it.
Shaped(r) ==
    /\ row[r].status = "none" => row[r] = NoRow
    /\ row[r].start <= now /\ row[r].end <= now
    /\ \A n \in row[r].inputs.news : Covers(n, row[r])
    /\ row[r].status \in Done => written[r] > 0

\* A mark is of a report that was written and could take the news in.
Marked(n) ==
    marks[n] \in Rows =>
        /\ Covers(n, row[marks[n]]) /\ row[marks[n]].status # "none" /\ written[marks[n]] > 0
        /\ marks[n] \notin overlapped => row[marks[n]].status \in Done

\* What a report shows is marked for it.
ShowsMarked(r) ==
    r \notin stale /\ row[r].status \in Done => \A n \in row[r].inputs.news : marks[n] = r

-----------------------------------------------------------------------------
(* What is mailed.                                                         *)

\* Only a report that passed the compliance filter is about to be mailed.
Passed(r) == r \notin overlapped /\ row[r].status = "success" => ~row[r].text.blocked
MailsPassed(p) ==
    p.row \notin overlapped =>
        /\ p.pc = "load" => ~row[p.row].text.blocked
        /\ p.pc \in {"post", "record"} => ~p.mail.text.blocked

\* What is mailed, or was, is the text of a report that is settled.
Stays(r, text) == row[r].status \in Settled /\ row[r].text = text
MailsOne(p) ==
    p.row \notin overlapped \cup rerun =>
        /\ p.pc = "write" => p.old.status \notin Settled
        /\ p.pc = "load" => row[p.row].status \in Settled
        /\ p.pc \in {"post", "record"} => Stays(p.row, p.mail.text)
MailedOne == \A m \in inbox : m.row \notin overlapped \cup rerun => Stays(m.row, m.text)

-----------------------------------------------------------------------------
(* What becomes of a news item.                                            *)

\* A report shows it, or failed after it had been written and will take it in
\* when it is tried again.
Holds(r, n) ==
    \/ row[r].status \in Done /\ n \in row[r].inputs.news
    \/ /\ row[r].status = "failed" /\ written[r] > 0
       /\ Selectable(n, row[r].start, row[r].end)
       /\ row[r].inputs.body => n \in row[r].inputs.news

\* Nobody is about to write the report without it.
Stands(r, n) ==
    \A w \in Workers :
        worker[w].pc = "write" /\ worker[w].row = r => n \in worker[w].new.inputs.news

\* Its place was in a report that two attempts wrote at once.
Blurred(r, n) ==
    r \in overlapped /\ row[r].status # "none" /\ Selectable(n, row[r].start, row[r].end)

\* It is provided for, and will be whatever happens.
Provided(n) ==
    \/ marks[n] # None
    \/ \E r \in Rows : Blurred(r, n) \/ (Holds(r, n) /\ Stands(r, n))

\* A window that starts, or ends, at t leaves it behind.
Past(n, t) == n \in pool /\ Published[n] <= t - Late

\* No report has left anything behind that is not provided for.
LeavesNone(r) ==
    \A n \in News :
        /\ row[r].status # "none" /\ Past(n, row[r].start) => Provided(n)
        /\ row[r].status \in Done /\ Past(n, row[r].end) => Provided(n)
        /\ row[r].inputs.body /\ n \notin row[r].inputs.news /\ Past(n, row[r].end) => Provided(n)

\* Nor will an attempt: what it backfills is marked when it commits.
WillLeaveNone(p) ==
    \A n \in News :
        /\ p.pc \in {"wait", "write"} /\ Past(n, p.new.start) => Provided(n) \/ n \in p.hide
        /\ p.pc = "write" /\ n \notin p.new.inputs.news /\ Past(n, p.new.end) =>
               Provided(n) \/ n \in p.hide

-----------------------------------------------------------------------------
Known ==
    /\ pool # {} => Late > 0
    /\ bounced \in Bad \cup {None}
    /\ overlapped \subseteq stale
    /\ \A j \in Jobs : job[j].status = "pending" => job[j].row \in Rows
    /\ MailedOne /\ BlockedNeverMailed

WorkerInv(p) ==
    /\ Placed(p) /\ Opening(p) /\ Unchanged(p) /\ Reading(p)
    /\ MailsPassed(p) /\ MailsOne(p) /\ WillLeaveNone(p)

RowInv(r) == Shaped(r) /\ ShowsMarked(r) /\ Passed(r) /\ LeavesNone(r)

\* The inductive invariant.
RInv ==
    /\ TypeOK /\ Known
    /\ \A w \in Workers : WorkerInv(worker[w])
    /\ \A v, w \in Workers : v # w => Apart(worker[v], worker[w])
    /\ \A r \in Rows : RowInv(r)
    /\ \A n \in News : Marked(n)

-----------------------------------------------------------------------------
(* Values and their types.                                                 *)

\* The values that mean nothing have their types.
LEMMA Blanks ==
    /\ NoText \in Texts /\ NoSend \in Sends /\ NoInputs \in Inputs
    /\ NoRow \in Row /\ Idle \in Proc
    BY DEF NoText, Texts, NoSend, Sends, NoInputs, Inputs, NoRow, Row, Done, Idle, Proc, Tasks

\* Jobs and scheduled keys are not what a request of Ops is called.
LEMMA TaskNames ==
    /\ Attempts \cap (Repeats \cup {"send", "idle"}) = {}
    /\ Attempts \cup Repeats \cup {"send", "idle"} = Tasks
    BY ReportsAssumption DEF Attempts, Repeats, Tasks

\* A mail is sent to an address, if there is one (recipient_email_with_purpose).
LEMMA RecipientType ==
    ASSUME verified \subseteq Addresses
    PROVE  Recipient \in Addresses \cup {None} /\ (Recipient # None => Recipient \in Addresses)
<1>1. CASE verified = {}
    BY <1>1 DEF Recipient
<1>2. CASE verified # {} /\ verified = {Account}
    BY <1>2, ReportsAssumption DEF Recipient
<1>3. CASE verified # {} /\ verified # {Account}
    <2>1. \E a \in verified \ {Account} : TRUE
        BY <1>3
    <2>2. (CHOOSE a \in verified \ {Account} : TRUE) \in verified \ {Account}
        BY <2>1
    <2> QED
        BY <1>3, <2>2, ReportsAssumption DEF Recipient
<1> QED
    BY <1>1, <1>2, <1>3

\* What send_report_email does to a worker: it ends, or posts what it has read.
LEMMA SendingIs ==
    ASSUME NEW p \in Proc, NEW r \in Row, verified \subseteq Addresses, NEW q, q = Sending(p, r)
    PROVE  /\ q \in Proc /\ q.pc \in {"end", "post"} /\ q.row = p.row /\ q.task = p.task
           /\ q.unmark = p.unmark /\ q.hide = p.hide
           /\ q.pc = "end" => q.mail = p.mail
           /\ q.pc = "post" => /\ q.mail.text = r.text /\ q.mail.to \in Addresses
                               /\ r.text # NoText
<1>1. CASE q = [p EXCEPT !.pc = "end"]
    BY <1>1 DEF Proc
<1>2. CASE /\ q = [p EXCEPT !.pc = "post", !.mail = [text |-> r.text, to |-> Recipient]]
           /\ r.text # NoText /\ Recipient # None
    <2>1. [text |-> r.text, to |-> Recipient] \in Sends
        BY RecipientType DEF Sends, Row
    <2>2. q \in Proc /\ q.row = p.row /\ q.task = p.task /\ q.unmark = p.unmark
        BY <1>2, <2>1 DEF Proc
    <2>3. q.pc = "post" /\ q.hide = p.hide /\ q.mail.text = r.text /\ q.mail.to = Recipient
        BY <1>2 DEF Proc
    <2> QED
        BY <1>2, <2>2, <2>3, RecipientType
<1> QED
    BY <1>1, <1>2 DEF Sending

\* What is left of an attempt has the type of a worker.
LEMMA EndedIs ==
    ASSUME NEW p \in Proc, NEW ok \in BOOLEAN
    PROVE  /\ Ended(p, ok) \in Proc /\ Ended(p, ok).pc = "end" /\ Ended(p, ok).row = p.row
           /\ Ended(p, ok).unmark = {} /\ Ended(p, ok).hide = {} /\ Ended(p, ok).mail = NoSend
           /\ Ended(p, ok).task = p.task
    BY Blanks, ZenonT(60) DEF Ended, Idle, Proc

\* What is left of one that has committed and is to mail.
LEMMA CommittedIs ==
    ASSUME NEW p \in Proc
    PROVE  /\ Committed(p) \in Proc /\ Committed(p).pc = "load" /\ Committed(p).row = p.row
           /\ Committed(p).unmark = {} /\ Committed(p).hide = {} /\ Committed(p).mail = NoSend
           /\ Committed(p).task = p.task
    BY Blanks DEF Committed, Idle, Proc

\* A budget stays one.
LEMMA SpendType ==
    ASSUME TypeOK, NEW kind \in {"ticks", "tasks", "requests", "moves", "faults"}, Spend(kind)
    PROVE  left' \in [ticks : Nat, tasks : Nat, requests : Nat, moves : Nat, faults : Nat]
    BY DEF TypeOK, Spend

\* A set of integers that does not go on for ever upwards has a last one.
LEMMA LastExists ==
    ASSUME NEW S \in SUBSET Int, S # {}, NEW b \in Int, \A x \in S : x <= b
    PROVE  \E m \in S : \A x \in S : x <= m
<1> DEFINE T == {n \in Nat : b - n \in S}
<1>1. ASSUME NEW x \in S PROVE b - x \in T
    <2>1. x \in Int /\ x <= b
        OBVIOUS
    <2>2. b - x \in Nat /\ b - (b - x) = x
        BY <2>1
    <2> QED
        BY <2>2
<1>2. T \in SUBSET Nat /\ T # {}
    BY <1>1
<1>3. PICK t \in T : \A s \in T : ~(<<s, t>> \in OpToRel(<, Nat))
    <2>1. IsWellFoundedOn(OpToRel(<, Nat), Nat)
        BY NatLessThanWellFounded
    <2> HIDE DEF T
    <2> QED
        BY <1>2, <2>1, WFMin, Zenon
<1>4. ASSUME NEW x \in S PROVE x <= b - t
    <2>1. b - x \in T /\ t \in Nat /\ b - x \in Nat /\ x \in Int
        BY <1>1
    <2>2. ~(<<b - x, t>> \in OpToRel(<, Nat))
        BY <1>3, <2>1
    <2>3. ~(b - x < t)
        BY <2>1, <2>2 DEF OpToRel
    <2> QED
        BY <2>1, <2>3
<1> QED
    BY <1>4

\* user_watermark: no report that counts ends after it, and it is the end of one,
\* or as far back as a window may reach.
LEMMA WatermarkIs ==
    ASSUME TypeOK, \A q \in Rows : row[q].end <= now, NEW r \in Rows
    PROVE  /\ Watermark(r) \in Int /\ Watermark(r) <= now /\ Floor \in Int
           /\ Watermark(r) = Floor \/ \E q \in Counted(r) : Watermark(r) = row[q].end
           /\ Counted(r) \subseteq Rows /\ \A q \in Counted(r) : row[q].status \in Done
<1> DEFINE ends == {Floor} \cup {row[q].end : q \in Counted(r)}
<1>1. Floor \in Int /\ Floor <= now /\ now \in Int
    BY ReportsAssumption DEF TypeOK, Floor
<1>2. Counted(r) \subseteq Rows /\ \A q \in Counted(r) : row[q].status \in Done
    BY DEF Counted
<1>3. \A q \in Rows : row[q].end \in Int
    BY DEF TypeOK, Row
<1>4. ends \in SUBSET Int /\ ends # {} /\ \A x \in ends : x <= now
    BY <1>1, <1>2, <1>3
<1>5. \E m \in ends : \A x \in ends : x <= m
    <2> HIDE DEF ends
    <2> QED
        BY <1>1, <1>4, LastExists
<1>6. Watermark(r) = CHOOSE e \in ends : \A f \in ends : f <= e
    BY DEF Watermark
<1>7. Watermark(r) \in ends
    <2> HIDE DEF ends
    <2> QED
        BY <1>5, <1>6
<1> QED
    BY <1>1, <1>2, <1>4, <1>7

\* What a session writes over a row that has changed meanwhile, column by column.
LEMMA MergedIs ==
    ASSUME NEW cur \in Row, NEW p, NEW new \in Row, NEW m, m = Merged(p, cur, new)
    PROVE  /\ m \in Row
           /\ m.status = IF new.status = p.old.status THEN cur.status ELSE new.status
           /\ m.start = IF new.start = p.old.start THEN cur.start ELSE new.start
           /\ m.end = IF new.end = p.old.end THEN cur.end ELSE new.end
           /\ m.inputs = new.inputs \/ (m.inputs = cur.inputs /\ new.inputs = p.old.inputs)
           /\ m.text = IF new.text = p.old.text THEN cur.text ELSE new.text
<1> DEFINE fields == {"status", "start", "end", "inputs", "text", "sent"}
           old == p.old
           again == p.task \in Repeats
<1>1. DOMAIN cur = fields
    BY DEF Row
<1>2. m = [f \in fields |-> IF new[f] = old[f] /\ ~(f = "inputs" /\ again)
                            THEN cur[f] ELSE new[f]]
    BY <1>1 DEF Merged
<1> HIDE DEF old, again
<1>3. m = [status |-> m.status, start |-> m.start, end |-> m.end, inputs |-> m.inputs,
           text |-> m.text, sent |-> m.sent]
    BY <1>2
<1>4. /\ m.status = IF new.status = old.status THEN cur.status ELSE new.status
      /\ m.start = IF new.start = old.start THEN cur.start ELSE new.start
      /\ m.end = IF new.end = old.end THEN cur.end ELSE new.end
      /\ m.inputs = IF new.inputs = old.inputs /\ ~again THEN cur.inputs ELSE new.inputs
      /\ m.text = IF new.text = old.text THEN cur.text ELSE new.text
      /\ m.sent = IF new.sent = old.sent THEN cur.sent ELSE new.sent
    BY <1>2
<1>5. m \in Row
    BY <1>3, <1>4 DEF Row
<1> QED
    BY <1>4, <1>5 DEF old

-----------------------------------------------------------------------------
(* Steps that write no report.                                             *)

\* No more than the mail columns of a report change, and the news that comes in
\* is later than every window that was opened.
Still ==
    /\ now <= now' /\ pool \subseteq pool'
    /\ \A n \in pool' : n \in pool \/ now < Published[n] + Late
    /\ marks' = marks /\ written' = written
    /\ overlapped' = overlapped /\ stale' = stale /\ rerun' = rerun
    /\ \A r \in Rows :
          /\ row'[r].status = row[r].status /\ row'[r].inputs = row[r].inputs
          /\ row'[r].start = row[r].start /\ row'[r].end = row[r].end
          /\ row'[r].text = row[r].text
          /\ row[r].status = "none" => row'[r] = row[r]

Rests(p) == p.pc \notin AtWork /\ p.unmark = {} /\ p.hide = {}

\* No worker begins an attempt.
NoneBegins == \A w \in Workers : worker'[w] = worker[w] \/ Rests(worker'[w])

\* What the types say of what the invariants compare.
LEMMA Numbers ==
    ASSUME TypeOK
    PROVE  /\ now \in Nat /\ Late \in Nat /\ Cap \in Nat /\ pool \in SUBSET News
           /\ \A n \in News : Published[n] \in Nat
           /\ \A r \in Rows : /\ row[r] \in Row /\ row[r].start \in Int /\ row[r].end \in Int
                              /\ written[r] \in Nat /\ row[r].inputs.news \in SUBSET News
           /\ \A w \in Workers :
                 /\ worker[w] \in Proc /\ worker[w].new \in Row /\ worker[w].old \in Row
                 /\ worker[w].new.start \in Int /\ worker[w].new.end \in Int
                 /\ worker[w].new.inputs.news \in SUBSET News
    BY ReportsAssumption DEF TypeOK, Row, Inputs, Proc

\* What a window takes in stays there, and what is past a time has been.
LEMMA StillCovers ==
    ASSUME Still, NEW n, NEW start, NEW end, n \in pool, Selectable(n, start, end)
    PROVE  n \in pool' /\ Selectable(n, start, end)
    BY DEF Still

\* What is past a time that has been was past it before.
LEMMA StillPast ==
    ASSUME TypeOK, TypeOK', Still, NEW n \in News, NEW t \in Int, t <= now, Past(n, t)'
    PROVE  Past(n, t)
<1>1. n \in pool' /\ Published[n] <= t - Late
    BY DEF Past
<1>2. n \in pool \/ now < Published[n] + Late
    BY <1>1 DEF Still
<1>3. now \in Nat /\ Late \in Nat /\ Published[n] \in Nat
    BY Numbers
<1> QED
    BY <1>1, <1>2, <1>3 DEF Past

\* Rows and marks say the same.
LEMMA StillShaped ==
    ASSUME RInv, Still, TypeOK', NEW r \in Rows
    PROVE  Shaped(r)' /\ ShowsMarked(r)' /\ Passed(r)'
<1>1. Shaped(r) /\ ShowsMarked(r) /\ Passed(r)
    BY DEF RInv, RowInv
<1>2. /\ row'[r].status = row[r].status /\ row'[r].inputs = row[r].inputs
      /\ row'[r].start = row[r].start /\ row'[r].end = row[r].end
      /\ row'[r].text = row[r].text /\ (row[r].status = "none" => row'[r] = row[r])
    BY DEF Still
<1>3. now \in Nat /\ now' \in Nat /\ now <= now' /\ row[r].start \in Int /\ row[r].end \in Int
    BY Numbers DEF RInv, TypeOK, Still
<1>4. Shaped(r)'
    BY <1>1, <1>2, <1>3 DEF Shaped, Still, Covers, Selectable
<1>5. ShowsMarked(r)'
    BY <1>1, <1>2 DEF ShowsMarked, Still
<1>6. Passed(r)'
    BY <1>1, <1>2 DEF Passed, Still
<1> QED
    BY <1>4, <1>5, <1>6

\* A mark says what it said.
LEMMA StillMarked ==
    ASSUME RInv, Still, NEW n \in News
    PROVE  Marked(n)'
<1>1. Marked(n)
    BY DEF RInv
<1>2. CASE marks[n] \in Rows
    <2> DEFINE r == marks[n]
    <2>1. /\ row'[r].status = row[r].status /\ row'[r].start = row[r].start
          /\ row'[r].end = row[r].end
        BY <1>2 DEF Still
    <2> QED
        BY <1>1, <2>1 DEF Marked, Still, Covers, Selectable
<1>3. CASE marks[n] \notin Rows
    BY <1>3 DEF Marked, Still
<1> QED
    BY <1>2, <1>3

\* What is provided for stays so.
LEMMA StillProvided ==
    ASSUME Still, NoneBegins, NEW n \in News, Provided(n)
    PROVE  Provided(n)'
<1>1. CASE marks[n] # None
    BY <1>1 DEF Provided, Still
<1>2. ASSUME NEW r \in Rows, Blurred(r, n) PROVE Provided(n)'
    <2>1. Blurred(r, n)'
        BY <1>2 DEF Blurred, Still, Selectable
    <2> QED
        BY <2>1 DEF Provided
<1>3. ASSUME NEW r \in Rows, Holds(r, n), Stands(r, n) PROVE Provided(n)'
    <2>1. Holds(r, n)'
        BY <1>3 DEF Holds, Still, Selectable
    <2>2. Stands(r, n)'
        BY <1>3 DEF Stands, NoneBegins, Rests, AtWork
    <2> QED
        BY <2>1, <2>2 DEF Provided
<1> QED
    BY <1>1, <1>2, <1>3 DEF Provided

\* A report leaves behind no more than it did.
LEMMA StillLeaves ==
    ASSUME RInv, Still, NoneBegins, TypeOK', NEW r \in Rows
    PROVE  LeavesNone(r)'
<1>1. /\ row'[r].status = row[r].status /\ row'[r].inputs = row[r].inputs
      /\ row'[r].start = row[r].start /\ row'[r].end = row[r].end
    BY DEF Still
<1>2. row[r].start \in Int /\ row[r].end \in Int /\ row[r].start <= now /\ row[r].end <= now
    BY Numbers DEF RInv, RowInv, Shaped
<1> SUFFICES ASSUME NEW n \in News
             PROVE  /\ row'[r].status # "none" /\ Past(n, row[r].start)' => Provided(n)'
                    /\ row'[r].status \in Done /\ Past(n, row[r].end)' => Provided(n)'
                    /\ row'[r].inputs.body /\ n \notin row'[r].inputs.news /\ Past(n, row[r].end)'
                          => Provided(n)'
    BY DEF LeavesNone
<1>3. /\ Past(n, row[r].start)' => Past(n, row[r].start)
      /\ Past(n, row[r].end)' => Past(n, row[r].end)
    <2>1. TypeOK
        BY DEF RInv
    <2>2. ASSUME NEW t \in Int, t <= now PROVE Past(n, t)' => Past(n, t)
        BY <2>1, <2>2, StillPast
    <2>3. /\ Past(n, row[r].start)' = (n \in pool' /\ Published[n] <= row[r].start - Late)
          /\ Past(n, row[r].end)' = (n \in pool' /\ Published[n] <= row[r].end - Late)
        BY <1>1 DEF Past
    <2> QED
        BY <1>2, <2>2, <2>3 DEF Past
<1>4. LeavesNone(r)
    BY DEF RInv, RowInv
<1>5. Provided(n) => Provided(n)'
    BY StillProvided
<1> QED
    BY <1>1, <1>3, <1>4, <1>5 DEF LeavesNone

\* A worker that does nothing knows what it knew.
LEMMA StillWorker ==
    ASSUME RInv, Still, NoneBegins, TypeOK', NEW w \in Workers, worker'[w] = worker[w]
    PROVE  WorkerInv(worker[w])'
<1> DEFINE p == worker[w]
<1>1. /\ Placed(p) /\ Opening(p) /\ Unchanged(p) /\ Reading(p)
      /\ MailsPassed(p) /\ MailsOne(p) /\ WillLeaveNone(p)
    BY DEF RInv, WorkerInv
<1>2. p.pc # "idle" => p.row \in Rows
    BY <1>1 DEF Placed
<1>3. p.pc # "idle" =>
        /\ row'[p.row].status = row[p.row].status /\ row'[p.row].inputs = row[p.row].inputs
        /\ row'[p.row].start = row[p.row].start /\ row'[p.row].end = row[p.row].end
        /\ row'[p.row].text = row[p.row].text
        /\ row[p.row].status = "none" => row'[p.row] = row[p.row]
    BY <1>2 DEF Still
<1>4. now \in Nat /\ now' \in Nat /\ now <= now' /\ p.new.start \in Int /\ p.new.end \in Int
    BY Numbers DEF RInv, TypeOK, Still
<1>5. Placed(worker[w])'
    BY <1>1, <1>3 DEF Placed, Still
<1>6. Opening(worker[w])'
    BY <1>1, <1>3, <1>4, Blanks DEF Opening, NoRow
<1>7. Unchanged(worker[w])'
    BY <1>1, <1>3 DEF Unchanged, Still
<1>8. Reading(worker[w])'
    BY <1>1 DEF Reading, Still, Covers, Selectable, MarksOf
<1>9. MailsPassed(worker[w])'
    BY <1>1, <1>3 DEF MailsPassed, Still
<1>10. MailsOne(worker[w])'
    BY <1>1, <1>3 DEF MailsOne, Stays, Still
<1>11. WillLeaveNone(worker[w])'
    <2>1. p.pc \in {"wait", "write"} => p.new.start <= now /\ p.new.end <= now
        <3>1. \A r \in Rows : row[r].start <= now /\ row[r].end <= now
            BY DEF RInv, RowInv, Shaped
        <3> QED
            BY <1>1, <1>2, <3>1 DEF Opening
    <2>2. TypeOK
        BY DEF RInv
    <2>3. ASSUME NEW n \in News, NEW t \in Int, t <= now PROVE Past(n, t)' => Past(n, t)
        BY <2>2, <2>3, StillPast
    <2>4. \A n \in News : Provided(n) => Provided(n)'
        BY StillProvided
    <2> QED
        BY <1>1, <1>4, <2>1, <2>3, <2>4 DEF WillLeaveNone, Past
<1> QED
    BY <1>5, <1>6, <1>7, <1>8, <1>9, <1>10, <1>11 DEF WorkerInv

\* A worker that rests has little to know.
LEMMA RestingWorker ==
    ASSUME NEW w \in Workers, Rests(worker'[w]), Placed(worker[w])', MailsPassed(worker[w])',
           MailsOne(worker[w])'
    PROVE  WorkerInv(worker[w])'
<1>1. Opening(worker[w])' /\ Unchanged(worker[w])' /\ Reading(worker[w])'
    BY DEF Rests, AtWork, Opening, Unchanged, Reading
<1>2. WillLeaveNone(worker[w])'
    BY DEF Rests, AtWork, WillLeaveNone
<1> QED
    BY <1>1, <1>2 DEF WorkerInv

\* Workers that are apart stay so.
LEMMA StillApart ==
    ASSUME RInv, Still, NoneBegins, NEW v \in Workers, NEW w \in Workers, v # w
    PROVE  Apart(worker[v], worker[w])'
<1>1. Apart(worker[v], worker[w])
    BY DEF RInv
<1>2. CASE worker'[v] = worker[v] /\ worker'[w] = worker[w]
    BY <1>1, <1>2 DEF Apart, Still
<1>3. CASE Rests(worker'[v]) \/ Rests(worker'[w])
    BY <1>3 DEF Apart, Rests, AtWork
<1> QED
    BY <1>2, <1>3 DEF NoneBegins

\* A step that writes no report keeps the invariant, if who rests knows what it
\* is about to mail.
LEMMA StillKeeps ==
    ASSUME RInv, Still, NoneBegins, TypeOK', Known',
           \A w \in Workers :
               worker'[w] = worker[w] \/ /\ Placed(worker[w])' /\ MailsPassed(worker[w])'
                                         /\ MailsOne(worker[w])'
    PROVE  RInv'
<1>1. ASSUME NEW w \in Workers PROVE WorkerInv(worker[w])'
    <2>1. CASE worker'[w] = worker[w]
        BY <2>1, StillWorker
    <2>2. CASE worker'[w] # worker[w]
        <3>1. Rests(worker'[w])
            BY <2>2 DEF NoneBegins
        <3> QED
            BY <2>2, <3>1, RestingWorker
    <2> QED
        BY <2>1, <2>2
<1>2. ASSUME NEW r \in Rows PROVE RowInv(r)'
    BY StillShaped, StillLeaves DEF RowInv
<1>3. ASSUME NEW n \in News PROVE Marked(n)'
    BY StillMarked
<1>4. ASSUME NEW v \in Workers, NEW w \in Workers, v # w PROVE Apart(worker[v], worker[w])'
    BY <1>4, StillApart
<1> QED
    BY <1>1, <1>2, <1>3, <1>4 DEF RInv

\* Where no report and no worker changes, what is known of the rest is enough.
LEMMA OutsideKeeps ==
    ASSUME RInv, TypeOK', Known', Still, worker' = worker
    PROVE  RInv'
<1>1. NoneBegins
    BY DEF NoneBegins
<1> QED
    BY <1>1, StillKeeps

\* What Still asks for, where nothing of it is touched.
LEMMA StillTrivial ==
    ASSUME TypeOK, now' = now, pool' = pool, marks' = marks, written' = written,
           overlapped' = overlapped, stale' = stale, rerun' = rerun,
           row' = row
    PROVE  Still
    BY DEF TypeOK, Still

\* The broker, the scheduler, the user's addresses and the polls write no report.
LEMMA OutsideSteps ==
    ASSUME RInv,
           \/ \E j \in Jobs, r \in Rows : RequestJob(j, r)
           \/ \E r \in Scheduled : Trigger(r)
           \/ \E a \in Addresses : ExpireCooldown(a) \/ Verify(a) \/ Unsubscribe(a)
           \/ \E r \in Rows : PollRead(r)
           \/ PollRevoke
    PROVE  RInv'
<1>1. TypeOK /\ Known
    BY DEF RInv
<1>2. ASSUME NEW j \in Jobs, NEW r \in Rows, RequestJob(j, r) PROVE RInv'
    <2>1. /\ job' \in [Jobs -> [status : {"none", "pending", "success", "failed"},
                               row : Rows \cup {None}]]
          /\ queue' \subseteq Jobs \cup Scheduled
          /\ left' \in [ticks : Nat, tasks : Nat, requests : Nat, moves : Nat, faults : Nat]
        <3>1. /\ job \in [Jobs -> [status : {"none", "pending", "success", "failed"},
                                  row : Rows \cup {None}]]
              /\ queue \subseteq Jobs \cup Scheduled
            BY <1>1 DEF TypeOK
        <3>2. /\ Spend("tasks")
              /\ \/ /\ job' = [job EXCEPT ![j] = [status |-> "pending", row |-> r]]
                    /\ queue' = queue \cup {j}
                 \/ /\ job' = [job EXCEPT ![j] = [status |-> "failed", row |-> r]]
                    /\ UNCHANGED queue
            BY <1>2 DEF RequestJob
        <3>3. left' \in [ticks : Nat, tasks : Nat, requests : Nat, moves : Nat, faults : Nat]
            BY <1>1, <3>2, SpendType
        <3>4. queue' \subseteq Jobs \cup Scheduled
            BY <3>1, <3>2
        <3>5. job' \in [Jobs -> [status : {"none", "pending", "success", "failed"},
                                row : Rows \cup {None}]]
            BY <3>1, <3>2
        <3> QED
            BY <3>3, <3>4, <3>5
    <2>2. UNCHANGED <<now, content, tried, lost, worker, mailing, history>>
        BY <1>2 DEF RequestJob
    <2>3. TypeOK'
        BY <1>1, <2>1, <2>2 DEF TypeOK, content, mailing, history
    <2>4. Known'
        BY <1>1, <1>2 DEF RequestJob, Known, content, mailing, history, MailedOne, Stays,
                          BlockedNeverMailed, TypeOK
    <2> QED
        BY <1>1, <2>2, <2>3, <2>4, StillTrivial, OutsideKeeps DEF content, mailing, history
<1>3. ASSUME NEW r \in Scheduled, Trigger(r) PROVE RInv'
    <2>1. /\ tried' \in [Scheduled -> 0..(MaxRetries + 1)]
          /\ queue' \subseteq Jobs \cup Scheduled
        BY <1>1, <1>3, ReportsAssumption DEF Trigger, TypeOK
    <2>2. left' \in [ticks : Nat, tasks : Nat, requests : Nat, moves : Nat, faults : Nat]
        BY <1>1, <1>3, SpendType DEF Trigger
    <2>3. UNCHANGED <<now, content, job, lost, worker, mailing, history>>
        BY <1>3 DEF Trigger
    <2>4. TypeOK'
        BY <1>1, <2>1, <2>2, <2>3 DEF TypeOK, content, mailing, history
    <2>5. Known'
        BY <1>1, <2>3 DEF Known, content, mailing, history, MailedOne, Stays, BlockedNeverMailed
    <2> QED
        BY <1>1, <2>3, <2>4, <2>5, StillTrivial, OutsideKeeps DEF content, mailing, history
<1>4. ASSUME NEW a \in Addresses, ExpireCooldown(a) \/ Verify(a) \/ Unsubscribe(a) PROVE RInv'
    <2>1. /\ verified' \subseteq Addresses /\ cooling' \subseteq Addresses
          /\ left' \in [ticks : Nat, tasks : Nat, requests : Nat, moves : Nat, faults : Nat]
        BY <1>1, <1>4, SpendType DEF ExpireCooldown, Verify, Unsubscribe, TypeOK
    <2>2. UNCHANGED <<now, content, tasks, worker, inbox, polls, bounced, history>>
        BY <1>4 DEF ExpireCooldown, Verify, Unsubscribe
    <2>3. TypeOK'
        BY <1>1, <2>1, <2>2 DEF TypeOK, content, tasks, history
    <2>4. Known'
        BY <1>1, <2>2 DEF Known, content, tasks, history, MailedOne, Stays, BlockedNeverMailed
    <2> QED
        BY <1>1, <2>2, <2>3, <2>4, StillTrivial, OutsideKeeps DEF content, history
<1>5. ASSUME NEW r \in Rows, PollRead(r) PROVE RInv'
    <2>1. bounced' \in Bad \cup {None} /\ polls' \subseteq Rows
        BY <1>1, <1>5 DEF PollRead, TypeOK
    <2>2. UNCHANGED <<now, content, tasks, worker, verified, cooling, inbox, history, left>>
        BY <1>5 DEF PollRead
    <2>3. TypeOK'
        BY <1>1, <2>1, <2>2, ReportsAssumption DEF TypeOK, content, tasks, history
    <2>4. Known'
        BY <1>1, <2>1, <2>2 DEF Known, content, tasks, history, MailedOne, Stays,
                                BlockedNeverMailed
    <2> QED
        BY <1>1, <2>2, <2>3, <2>4, StillTrivial, OutsideKeeps DEF content, history
<1>6. ASSUME PollRevoke PROVE RInv'
    <2>1. bounced' = None /\ verified' \subseteq Addresses
        BY <1>1, <1>6 DEF PollRevoke, Revoked, TypeOK
    <2>2. UNCHANGED <<now, content, tasks, worker, cooling, inbox, polls, history, left>>
        BY <1>6 DEF PollRevoke
    <2>3. TypeOK'
        BY <1>1, <2>1, <2>2 DEF TypeOK, content, tasks, history
    <2>4. Known'
        BY <1>1, <2>1, <2>2 DEF Known, content, tasks, history, MailedOne, Stays,
                                BlockedNeverMailed
    <2> QED
        BY <1>1, <2>2, <2>3, <2>4, StillTrivial, OutsideKeeps DEF content, history
<1> QED
    BY <1>2, <1>3, <1>4, <1>5, <1>6

\* News that is captured is later than the windows that were opened, and time
\* only widens those to come.
LEMMA WorldSteps ==
    ASSUME RInv, Tick \/ \E n \in News : Capture(n)
    PROVE  RInv'
<1>1. TypeOK /\ Known
    BY DEF RInv
<1>2. ASSUME Tick PROVE RInv'
    <2>1. UNCHANGED <<content, tasks, worker, mailing, history>> /\ now' = now + 1
        BY <1>2 DEF Tick
    <2>2. TypeOK'
        BY <1>1, <1>2, <2>1, SpendType DEF Tick, TypeOK, content, tasks, mailing, history
    <2>3. Known'
        BY <1>1, <2>1 DEF Known, content, tasks, mailing, history, MailedOne, Stays,
                          BlockedNeverMailed
    <2>4. Still
        BY <1>1, <2>1 DEF Still, TypeOK, content, history
    <2> QED
        BY <2>1, <2>2, <2>3, <2>4, OutsideKeeps
<1>3. ASSUME NEW n \in News, Capture(n) PROVE RInv'
    <2>1. /\ UNCHANGED <<now, marks, row, written, tasks, worker, mailing, history, left>>
          /\ pool' = pool \cup {n} /\ Published[n] <= now /\ now < Published[n] + Late
        BY <1>3 DEF Capture
    <2>2. TypeOK'
        BY <1>1, <2>1 DEF TypeOK, tasks, mailing, history
    <2>3. Late > 0
        BY <1>1, <2>1, Numbers
    <2>4. Known'
        BY <1>1, <2>1, <2>3 DEF Known, tasks, mailing, history, MailedOne, Stays,
                          BlockedNeverMailed
    <2>5. Still
        BY <1>1, <2>1 DEF Still, TypeOK, history
    <2> QED
        BY <2>1, <2>2, <2>4, <2>5, OutsideKeeps
<1> QED
    BY <1>2, <1>3

-----------------------------------------------------------------------------
(* A worker ends, mails or records.                                        *)

\* A worker that rests, and the others as they were.
LEMMA RestsKeeps ==
    ASSUME RInv, TypeOK', Known', Still, NEW w \in Workers,
           \A v \in Workers : v # w => worker'[v] = worker[v], Rests(worker'[w]),
           Placed(worker[w])', MailsPassed(worker[w])', MailsOne(worker[w])'
    PROVE  RInv'
<1>1. NoneBegins
    BY DEF NoneBegins
<1> QED
    BY <1>1, StillKeeps

\* A worker that ends, or is idle, has nothing to mail any more.
LEMMA EndsKeeps ==
    ASSUME RInv, TypeOK', Known', Still, NEW w \in Workers,
           \A v \in Workers : v # w => worker'[v] = worker[v],
           worker'[w].pc \in {"idle", "end"}, worker'[w].unmark = {}, worker'[w].hide = {},
           worker'[w].pc = "end" =>
               /\ worker'[w].row \in Rows
               /\ worker'[w].mail # NoSend => row'[worker'[w].row].status # "none"
    PROVE  RInv'
<1>1. Rests(worker'[w])
    BY DEF Rests, AtWork
<1>2. Placed(worker[w])' /\ MailsPassed(worker[w])' /\ MailsOne(worker[w])'
    BY DEF Placed, MailsPassed, MailsOne
<1> QED
    BY <1>1, <1>2, RestsKeeps

\* A worker that is about to mail, or has mailed, what stays in its row.
LEMMA MailsKeeps ==
    ASSUME RInv, TypeOK', Known', Still, NEW w \in Workers,
           \A v \in Workers : v # w => worker'[v] = worker[v],
           worker'[w].pc \in {"post", "record"}, worker'[w].unmark = {}, worker'[w].hide = {},
           worker'[w].mail.to \in Addresses, NEW r \in Rows, worker'[w].row = r,
           row[r].status # "none",
           r \notin overlapped => ~worker'[w].mail.text.blocked,
           r \notin overlapped \cup rerun => Stays(r, worker'[w].mail.text)
    PROVE  RInv'
<1>1. Rests(worker'[w])
    BY DEF Rests, AtWork
<1>2. Placed(worker[w])'
    BY DEF Placed, Still
<1>3. MailsPassed(worker[w])' /\ MailsOne(worker[w])'
    BY DEF MailsPassed, MailsOne, Stays, Still
<1> QED
    BY <1>1, <1>2, <1>3, RestsKeeps

\* A worker that sends what it reads in a row that is settled.
LEMMA SendsKeeps ==
    ASSUME RInv, TypeOK', Known', Still, NEW w \in Workers,
           \A v \in Workers : v # w => worker'[v] = worker[v],
           NEW p \in Proc, p.unmark = {}, p.hide = {},
           p.mail # NoSend => row[p.row].status # "none",
           NEW r \in Rows, p.row = r, worker'[w] = Sending(p, row[r]),
           r \notin overlapped => ~row[r].text.blocked,
           r \notin overlapped \cup rerun => row[r].status \in Settled
    PROVE  RInv'
<1> DEFINE q == worker'[w]
<1>1. TypeOK /\ verified \subseteq Addresses /\ row[r] \in Row /\ Shaped(r)
    BY DEF RInv, RowInv, TypeOK
<1>2. /\ q.pc \in {"end", "post"} /\ q.row = r /\ q.unmark = {} /\ q.hide = {}
      /\ q.pc = "end" => q.mail = p.mail
      /\ q.pc = "post" => /\ q.mail.text = row[r].text /\ q.mail.to \in Addresses
                          /\ row[r].text # NoText
    BY <1>1, SendingIs
<1>3. CASE q.pc = "end"
    <2>1. row[r].status # "none" => row'[r].status # "none"
        BY DEF Still
    <2> QED
        BY <1>2, <1>3, <2>1, EndsKeeps
<1>4. CASE q.pc = "post"
    <2>1. row[r].status # "none"
        BY <1>1, <1>2, <1>4 DEF Shaped, NoRow
    <2>2. r \notin overlapped \cup rerun => Stays(r, q.mail.text)
        BY <1>2, <1>4 DEF Stays
    <2>3. q.mail.text = row[r].text
        BY <1>2, <1>4
    <2> QED
        BY <1>2, <1>4, <2>1, <2>2, <2>3, MailsKeeps
<1> QED
    BY <1>2, <1>3, <1>4

\* Known says nothing of a worker, and of a report no more than Still leaves.
LEMMA KnownStays ==
    ASSUME RInv, Still, inbox' = inbox, bounced' = bounced, job' = job, pool' = pool
    PROVE  Known'
<1>1. Known /\ inbox \subseteq [row : Rows, text : Texts, to : Addresses]
    BY DEF RInv, TypeOK
<1>2. MailedOne'
    BY <1>1 DEF Known, MailedOne, Stays, Still
<1>3. BlockedNeverMailed'
    BY <1>1 DEF Known, BlockedNeverMailed, Still
<1> QED
    BY <1>1, <1>2, <1>3 DEF Known, Still

\* A step that sets one worker leaves the others.
LEMMA SetOthers ==
    ASSUME TypeOK, NEW w \in Workers, NEW q \in Proc, Set(w, q)
    PROVE  /\ worker'[w] = q /\ \A v \in Workers : v # w => worker'[v] = worker[v]
           /\ worker' \in [Workers -> Proc]
    BY DEF TypeOK, Set

\* A worker that has ended.
LEMMA EndedKeeps ==
    ASSUME RInv, TypeOK', Known', Still, NEW w \in Workers,
           \A v \in Workers : v # w => worker'[v] = worker[v],
           NEW p \in Proc, NEW ok \in BOOLEAN, p.row \in Rows, worker'[w] = Ended(p, ok)
    PROVE  RInv'
<1>1. /\ worker'[w].pc = "end" /\ worker'[w].unmark = {} /\ worker'[w].hide = {}
      /\ worker'[w].mail = NoSend /\ worker'[w].row \in Rows
    BY EndedIs
<1> QED
    BY <1>1, EndsKeeps

\* A step that sets one worker, and no more of what the invariant is about.
LEMMA SetsOne ==
    ASSUME RInv, NEW w \in Workers, NEW q \in Proc, Set(w, q),
           UNCHANGED <<now, content, overlapped, stale, rerun, job, inbox, bounced>>,
           /\ queue' \subseteq Jobs \cup Scheduled /\ lost' \subseteq Jobs \cup Scheduled
           /\ tried' \in [Scheduled -> 0..(MaxRetries + 1)]
           /\ verified' \subseteq Addresses /\ cooling' \subseteq Addresses /\ polls' \subseteq Rows
           /\ left' \in [ticks : Nat, tasks : Nat, requests : Nat, moves : Nat, faults : Nat]
    PROVE  /\ TypeOK' /\ Still /\ Known'
           /\ worker'[w] = q /\ \A v \in Workers : v # w => worker'[v] = worker[v]
<1>1. TypeOK
    BY DEF RInv
<1>2. worker'[w] = q /\ \A v \in Workers : v # w => worker'[v] = worker[v]
    BY <1>1, SetOthers
<1>3. TypeOK'
    BY <1>1, SetOthers DEF TypeOK, content
<1>4. Still
    BY <1>1, StillTrivial DEF content
<1>5. Known'
    BY <1>4, KnownStays DEF content
<1> QED
    BY <1>2, <1>3, <1>4, <1>5

\* What a worker that is at work holds.
LEMMA WorkerIs ==
    ASSUME RInv, NEW w \in Workers
    PROVE  /\ TypeOK /\ Known /\ worker[w] \in Proc /\ WorkerInv(worker[w])
           /\ worker[w].pc # "idle" => worker[w].row \in Rows /\ row[worker[w].row] \in Row
    BY DEF RInv, TypeOK, WorkerInv, Placed

\* What else is left as it was has its type.
LEMMA RestTypes ==
    ASSUME TypeOK
    PROVE  /\ queue \subseteq Jobs \cup Scheduled /\ lost \subseteq Jobs \cup Scheduled
           /\ tried \in [Scheduled -> 0..(MaxRetries + 1)]
           /\ verified \subseteq Addresses /\ cooling \subseteq Addresses /\ polls \subseteq Rows
           /\ left \in [ticks : Nat, tasks : Nat, requests : Nat, moves : Nat, faults : Nat]
    BY DEF TypeOK

\* A row is read after a commit.
LEMMA LoadStep ==
    ASSUME RInv, NEW w \in Workers, Load(w)
    PROVE  RInv'
<1> DEFINE p == worker[w]
<1>1. p.pc = "load" /\ UNCHANGED <<now, content, tasks, mailing, history, left>>
    BY DEF Load
<1>2. /\ TypeOK /\ p \in Proc /\ p.row \in Rows /\ row[p.row] \in Row /\ verified \subseteq Addresses
      /\ Placed(p) /\ MailsPassed(p) /\ MailsOne(p)
    BY <1>1, WorkerIs DEF WorkerInv, TypeOK
<1>3. /\ p.unmark = {} /\ p.hide = {} /\ row[p.row].status # "none"
      /\ p.row \notin overlapped => ~row[p.row].text.blocked
      /\ p.row \notin overlapped \cup rerun => row[p.row].status \in Settled
    BY <1>1, <1>2 DEF Placed, MailsPassed, MailsOne
<1>4. /\ UNCHANGED <<now, content, overlapped, stale, rerun, job, inbox, bounced>>
      /\ UNCHANGED <<queue, lost, tried, verified, cooling, polls, left>>
    BY <1>1 DEF content, tasks, mailing, history
<1>5. CASE Set(w, Ended(p, TRUE))
    <2>1. Ended(p, TRUE) \in Proc
        BY <1>2, EndedIs
    <2>2. /\ TypeOK' /\ Still /\ Known' /\ worker'[w] = Ended(p, TRUE)
          /\ \A v \in Workers : v # w => worker'[v] = worker[v]
        BY <1>2, <1>4, <1>5, <2>1, RestTypes, SetsOne
    <2> QED
        BY <1>2, <2>2, EndedKeeps
<1>6. CASE Set(w, Sending(p, row[p.row]))
    <2>1. Sending(p, row[p.row]) \in Proc
        BY <1>2, SendingIs
    <2>2. /\ TypeOK' /\ Still /\ Known' /\ worker'[w] = Sending(p, row[p.row])
          /\ \A v \in Workers : v # w => worker'[v] = worker[v]
        BY <1>2, <1>4, <1>6, <2>1, RestTypes, SetsOne
    <2> QED
        BY <1>2, <1>3, <2>2, SendsKeeps
<1> QED
    BY <1>5, <1>6 DEF Load

-----------------------------------------------------------------------------
(* The mail, and the ends.                                                 *)

\* A worker that has nothing to do any more.
LEMMA IdleKeeps ==
    ASSUME RInv, TypeOK', Known', Still, NEW w \in Workers,
           \A v \in Workers : v # w => worker'[v] = worker[v], worker'[w] = Idle
    PROVE  RInv'
<1>1. worker'[w].pc = "idle" /\ worker'[w].unmark = {} /\ worker'[w].hide = {}
    BY DEF Idle
<1> QED
    BY <1>1, EndsKeeps

\* A worker that ends an attempt, a request or a mail, and changes no report.
LEMMA EndingSteps ==
    ASSUME RInv, NEW w \in Workers,
           RegenerateFails(w) \/ Answer(w) \/ Die(w) \/ CommitFails(w)
    PROVE  RInv'
<1> DEFINE p == worker[w]
<1>1. TypeOK /\ p \in Proc
    BY WorkerIs
<1>2. p.pc # "idle" => p.row \in Rows
    BY WorkerIs
<1>3. Idle \in Proc /\ Ended(p, FALSE) \in Proc
    BY <1>1, EndedIs, Blanks
<1>4. Set(w, Idle) \/ (p.pc # "idle" /\ Set(w, Ended(p, FALSE)))
    BY DEF RegenerateFails, Answer, Die, CommitFails
<1>5. UNCHANGED <<now, content, overlapped, stale, rerun, job, inbox, bounced>>
    BY DEF RegenerateFails, Answer, Die, CommitFails, content, tasks, mailing, history
<1>6. /\ queue' \subseteq Jobs \cup Scheduled /\ lost' \subseteq Jobs \cup Scheduled
      /\ verified' \subseteq Addresses /\ cooling' \subseteq Addresses /\ polls' \subseteq Rows
    BY <1>1, RestTypes DEF RegenerateFails, Answer, Die, CommitFails, Acked, content,
                           tasks, mailing, history
<1>7. tried' \in [Scheduled -> 0..(MaxRetries + 1)]
    <2>1. tried \in [Scheduled -> 0..(MaxRetries + 1)] /\ MaxRetries \in Nat
        BY <1>1, ReportsAssumption DEF TypeOK
    <2>2. CASE tried' = tried
        BY <2>1, <2>2
    <2>3. CASE /\ p.task \in Scheduled /\ tried[p.task] <= MaxRetries
               /\ tried' = [tried EXCEPT ![p.task] = @ + 1]
        BY <2>1, <2>3
    <2> QED
        BY <2>2, <2>3 DEF RegenerateFails, Answer, Die, CommitFails, tasks
<1>8. left' \in [ticks : Nat, tasks : Nat, requests : Nat, moves : Nat, faults : Nat]
    <2>1. Spend("faults") \/ left' = left
        BY DEF RegenerateFails, Answer, Die, CommitFails
    <2> QED
        BY <1>1, <2>1, SpendType, RestTypes
<1>9. CASE Set(w, Idle)
    <2>1. /\ TypeOK' /\ Still /\ Known' /\ worker'[w] = Idle
          /\ \A v \in Workers : v # w => worker'[v] = worker[v]
        BY <1>3, <1>5, <1>6, <1>7, <1>8, <1>9, SetsOne
    <2> QED
        BY <2>1, IdleKeeps
<1>10. CASE p.pc # "idle" /\ Set(w, Ended(p, FALSE))
    <2>1. /\ TypeOK' /\ Still /\ Known' /\ worker'[w] = Ended(p, FALSE)
          /\ \A v \in Workers : v # w => worker'[v] = worker[v]
        BY <1>3, <1>5, <1>6, <1>7, <1>8, <1>10, SetsOne
    <2> QED
        BY <1>1, <1>2, <1>10, <2>1, EndedKeeps
<1> QED
    BY <1>4, <1>9, <1>10

\* What the mail service accepts is a text that stays, and that passed.
LEMMA DeliversOne ==
    ASSUME RInv, NEW w \in Workers, worker[w].pc = "post", NEW q \in Proc, Set(w, q),
           inbox' = Delivered(worker[w]),
           UNCHANGED <<now, content, tasks, verified, cooling, polls, bounced, history>>,
           left' \in [ticks : Nat, tasks : Nat, requests : Nat, moves : Nat, faults : Nat]
    PROVE  /\ TypeOK' /\ Still /\ Known'
           /\ worker'[w] = q /\ \A v \in Workers : v # w => worker'[v] = worker[v]
<1> DEFINE p == worker[w]
           mail == [row |-> p.row, text |-> p.mail.text, to |-> p.mail.to]
<1>1. /\ TypeOK /\ Known /\ p \in Proc /\ p.row \in Rows
      /\ Placed(p) /\ MailsPassed(p) /\ MailsOne(p)
    BY WorkerIs DEF WorkerInv
<1>2. worker'[w] = q /\ \A v \in Workers : v # w => worker'[v] = worker[v]
    BY <1>1, SetOthers
<1>3. inbox' = inbox \cup {mail}
    BY DEF Delivered
<1>4. mail \in [row : Rows, text : Texts, to : Addresses]
    BY <1>1 DEF Placed, Proc, Sends
<1>5. TypeOK'
    BY <1>1, <1>3, <1>4, SetOthers DEF TypeOK, content, tasks, history
<1>6. Still
    BY <1>1, StillTrivial DEF content, history
<1>7. MailedOne'
    <2>1. p.row \notin overlapped \cup rerun => Stays(p.row, p.mail.text)
        BY <1>1 DEF MailsOne
    <2> HIDE DEF p
    <2> QED
        BY <1>1, <1>3, <2>1 DEF Known, MailedOne, Stays, content, history
<1>8. BlockedNeverMailed'
    <2>1. p.row \notin overlapped => ~p.mail.text.blocked
        BY <1>1 DEF MailsPassed
    <2> HIDE DEF p
    <2> QED
        BY <1>1, <1>3, <2>1 DEF Known, BlockedNeverMailed, history
<1>9. Known'
    BY <1>1, <1>7, <1>8 DEF Known, content, tasks, history
<1> QED
    BY <1>2, <1>5, <1>6, <1>9

\* The mail is posted, or refused.
LEMMA PostStep ==
    ASSUME RInv, NEW w \in Workers, Post(w)
    PROVE  RInv'
<1> DEFINE p == worker[w]
           q == [p EXCEPT !.pc = "record"]
<1>1. /\ p.pc = "post"
      /\ UNCHANGED <<now, content, tasks, verified, cooling, polls, bounced, history, left>>
    BY DEF Post
<1>2. /\ TypeOK /\ p \in Proc /\ p.row \in Rows
      /\ Placed(p) /\ MailsPassed(p) /\ MailsOne(p)
    BY <1>1, WorkerIs DEF WorkerInv
<1>3. /\ p.unmark = {} /\ p.hide = {} /\ p.mail.to \in Addresses /\ row[p.row].status # "none"
      /\ p.row \notin overlapped => ~p.mail.text.blocked
      /\ p.row \notin overlapped \cup rerun => Stays(p.row, p.mail.text)
    BY <1>1, <1>2 DEF Placed, MailsPassed, MailsOne
<1>4. CASE inbox' = Delivered(p) /\ Set(w, q)
    <2>1. /\ q \in Proc /\ q.pc = "record" /\ q.unmark = {} /\ q.hide = {} /\ q.mail = p.mail
          /\ q.row = p.row
        BY <1>2, <1>3 DEF Proc
    <2>2. /\ TypeOK' /\ Still /\ Known' /\ worker'[w] = q
          /\ \A v \in Workers : v # w => worker'[v] = worker[v]
        BY <1>1, <1>2, <1>4, <2>1, RestTypes, DeliversOne
    <2> HIDE DEF q
    <2> QED
        BY <1>2, <1>3, <2>1, <2>2, MailsKeeps
<1>5. CASE UNCHANGED inbox /\ Set(w, Ended(p, TRUE))
    <2>1. Ended(p, TRUE) \in Proc
        BY <1>2, EndedIs
    <2>2. /\ UNCHANGED <<now, content, overlapped, stale, rerun, job, inbox, bounced>>
          /\ UNCHANGED <<queue, lost, tried, verified, cooling, polls, left>>
        BY <1>1, <1>5 DEF content, tasks, history
    <2>3. /\ TypeOK' /\ Still /\ Known' /\ worker'[w] = Ended(p, TRUE)
          /\ \A v \in Workers : v # w => worker'[v] = worker[v]
        BY <1>2, <1>5, <2>1, <2>2, RestTypes, SetsOne
    <2> QED
        BY <1>2, <2>3, EndedKeeps
<1> QED
    BY <1>4, <1>5 DEF Post

\* The mail is accepted and nobody knows.
LEMMA MailUnconfirmedStep ==
    ASSUME RInv, NEW w \in Workers, MailUnconfirmed(w)
    PROVE  RInv'
<1> DEFINE p == worker[w]
<1>1. /\ p.pc = "post" /\ Spend("faults") /\ inbox' = Delivered(p) /\ Set(w, Ended(p, TRUE))
      /\ UNCHANGED <<now, content, tasks, verified, cooling, polls, bounced, history>>
    BY DEF MailUnconfirmed
<1>2. TypeOK /\ p \in Proc /\ p.row \in Rows
    BY <1>1, WorkerIs
<1>3. Ended(p, TRUE) \in Proc
    BY <1>2, EndedIs
<1>4. left' \in [ticks : Nat, tasks : Nat, requests : Nat, moves : Nat, faults : Nat]
    BY <1>1, <1>2, SpendType
<1>5. /\ TypeOK' /\ Still /\ Known' /\ worker'[w] = Ended(p, TRUE)
      /\ \A v \in Workers : v # w => worker'[v] = worker[v]
    BY <1>1, <1>3, <1>4, DeliversOne
<1> QED
    BY <1>2, <1>5, EndedKeeps

\* The mail columns of a report are written over.
LEMMA SentWritten ==
    ASSUME RInv, NEW r \in Rows, row[r].status # "none", NEW sent \in Sends,
           row' = [row EXCEPT ![r].sent = sent],
           UNCHANGED <<now, pool, marks, written, overlapped, stale, rerun>>
    PROVE  Still /\ row' \in [Rows -> Row]
<1>1. TypeOK /\ row \in [Rows -> Row] /\ now \in Nat
    BY DEF RInv, TypeOK
<1>2. row' \in [Rows -> Row]
    BY <1>1 DEF Row
<1>3. \A s \in Rows : /\ row'[s].status = row[s].status /\ row'[s].inputs = row[s].inputs
                      /\ row'[s].start = row[s].start /\ row'[s].end = row[s].end
                      /\ row'[s].text = row[s].text
                      /\ row[s].status = "none" => row'[s] = row[s]
    BY <1>1 DEF Row
<1>4. Still
    BY <1>1, <1>3 DEF Still
<1> QED
    BY <1>2, <1>4

\* The sender records what it has sent.
LEMMA RecordStep ==
    ASSUME RInv, NEW w \in Workers, Record(w)
    PROVE  RInv'
<1> DEFINE p == worker[w]
           e == [Ended(p, TRUE) EXCEPT !.mail = p.mail]
<1>1. /\ p.pc = "record"
      /\ UNCHANGED <<now, pool, marks, written, tasks, verified, cooling, inbox, bounced,
                     history, left>>
    BY DEF Record
<1>2. TypeOK /\ p \in Proc /\ p.row \in Rows /\ p.mail \in Sends /\ Placed(p)
    BY <1>1, WorkerIs DEF WorkerInv, Proc
<1>3. row[p.row].status # "none"
    BY <1>1, <1>2 DEF Placed
<1>4. CASE row' = [row EXCEPT ![p.row].sent = p.mail] /\ polls' = polls \cup {p.row} /\ Set(w, e)
    <2>1. Still /\ row' \in [Rows -> Row]
        BY <1>1, <1>2, <1>3, <1>4, SentWritten DEF history
    <2>2. /\ e \in Proc /\ e.pc = "end" /\ e.unmark = {} /\ e.hide = {} /\ e.row = p.row
        BY <1>2, EndedIs, ZenonT(60) DEF Proc
    <2>3. worker'[w] = e /\ \A v \in Workers : v # w => worker'[v] = worker[v]
        BY <1>2, <1>4, <2>2, SetOthers
    <2>4. TypeOK'
        BY <1>1, <1>2, <1>4, <2>1, <2>2, SetOthers DEF TypeOK, tasks, history
    <2>5. Known'
        BY <1>1, <2>1, KnownStays DEF tasks
    <2>6. row'[p.row].status # "none"
        BY <1>2, <1>3, <2>1 DEF Still
    <2> HIDE DEF e
    <2> QED
        BY <1>2, <2>1, <2>2, <2>3, <2>4, <2>5, <2>6, EndsKeeps
<1>5. CASE UNCHANGED <<row, polls>> /\ Set(w, Ended(p, TRUE))
    <2>1. Ended(p, TRUE) \in Proc
        BY <1>2, EndedIs
    <2>2. /\ UNCHANGED <<now, content, overlapped, stale, rerun, job, inbox, bounced>>
          /\ UNCHANGED <<queue, lost, tried, verified, cooling, polls, left>>
        BY <1>1, <1>5 DEF content, tasks, history
    <2>3. /\ TypeOK' /\ Still /\ Known' /\ worker'[w] = Ended(p, TRUE)
          /\ \A v \in Workers : v # w => worker'[v] = worker[v]
        BY <1>2, <1>5, <2>1, <2>2, RestTypes, SetsOne
    <2> QED
        BY <1>2, <2>3, EndedKeeps
<1> QED
    BY <1>4, <1>5 DEF Record

\* A job ends, and may write over the record of the mail.
LEMMA EndJobStep ==
    ASSUME RInv, NEW w \in Workers, EndJob(w)
    PROVE  RInv'
<1> DEFINE p == worker[w]
<1>1. /\ p.pc = "end" /\ p.task \in Jobs /\ Acked(p.task) /\ Set(w, Idle)
      /\ job' = [job EXCEPT ![p.task].status = Outcome(p)]
      /\ UNCHANGED <<now, pool, marks, written, tried, lost, mailing, history, left>>
    BY DEF EndJob
<1>2. TypeOK /\ Known /\ p \in Proc /\ p.row \in Rows /\ p.mail \in Sends /\ Placed(p)
    BY <1>1, WorkerIs DEF WorkerInv, Proc
<1>3. Still /\ row' \in [Rows -> Row]
    <2>1. CASE row' = row
        BY <1>1, <1>2, <2>1, StillTrivial DEF history, TypeOK
    <2>2. CASE p.mail # NoSend /\ row' = [row EXCEPT ![p.row].sent = p.mail]
        <3>1. row[p.row].status # "none"
            BY <1>1, <1>2, <2>2 DEF Placed
        <3> QED
            BY <1>1, <1>2, <2>2, <3>1, SentWritten DEF history
    <2> QED
        BY <2>1, <2>2 DEF EndJob, MailWritten
<1>4. Outcome(p) \in {"success", "failed"}
    BY DEF Outcome
<1>5. job' \in [Jobs -> [status : {"none", "pending", "success", "failed"},
                         row : Rows \cup {None}]]
    BY <1>1, <1>2, <1>4 DEF TypeOK
<1>6. worker' \in [Workers -> Proc]
    BY <1>1, <1>2, Blanks, SetOthers
<1>7. TypeOK'
    BY <1>1, <1>2, <1>3, <1>5, <1>6 DEF TypeOK, mailing, history, Acked
<1>8. Known'
    <2>1. \A j \in Jobs : job'[j].status = "pending" => job[j].status = "pending" /\ job'[j] = job[j]
        BY <1>1, <1>2, <1>4 DEF TypeOK
    <2>2. inbox' = inbox /\ bounced' = bounced
        BY <1>1 DEF mailing
    <2>3. MailedOne'
        BY <1>2, <1>3, <2>2 DEF Known, MailedOne, Stays, Still, TypeOK
    <2>4. BlockedNeverMailed'
        BY <1>2, <1>3, <2>2 DEF Known, BlockedNeverMailed, Still
    <2> QED
        BY <1>1, <1>2, <1>3, <2>1, <2>2, <2>3, <2>4 DEF Known, Still
<1>9. worker'[w] = Idle /\ \A v \in Workers : v # w => worker'[v] = worker[v]
    BY <1>1, <1>2, Blanks, SetOthers
<1> QED
    BY <1>3, <1>7, <1>8, <1>9, IdleKeeps

\* A batch ends, and may write over the record of the mail.
LEMMA EndBatchStep ==
    ASSUME RInv, NEW w \in Workers, EndBatch(w)
    PROVE  RInv'
<1> DEFINE p == worker[w]
<1>1. /\ p.pc = "end" /\ p.task \in Scheduled /\ Set(w, Idle)
      /\ UNCHANGED <<now, pool, marks, written, job, lost, mailing, history, left>>
    BY DEF EndBatch
<1>2. TypeOK /\ Known /\ p \in Proc /\ p.row \in Rows /\ p.mail \in Sends /\ Placed(p)
    BY <1>1, WorkerIs DEF WorkerInv, Proc
<1>3. Still /\ row' \in [Rows -> Row]
    <2>1. CASE row' = row
        BY <1>1, <1>2, <2>1, StillTrivial DEF history, TypeOK
    <2>2. CASE MailWritten(w)
        <3>1. row[p.row].status # "none"
            BY <1>1, <1>2, <2>2 DEF Placed, MailWritten
        <3>2. row' = [row EXCEPT ![p.row].sent = p.mail]
            BY <2>2 DEF MailWritten
        <3> QED
            BY <1>1, <1>2, <3>1, <3>2, SentWritten DEF history
    <2> QED
        BY <2>1, <2>2 DEF EndBatch
<1>4. queue' \subseteq Jobs \cup Scheduled
    BY <1>2 DEF EndBatch, Acked, TypeOK
<1>5. tried' \in [Scheduled -> 0..(MaxRetries + 1)]
    <2>1. tried \in [Scheduled -> 0..(MaxRetries + 1)] /\ MaxRetries \in Nat
        BY <1>2, ReportsAssumption DEF TypeOK
    <2>2. CASE tried' = tried
        BY <2>1, <2>2
    <2>3. CASE /\ tried[p.task] <= MaxRetries
               /\ tried' = [tried EXCEPT ![p.task] = @ + 1]
        BY <1>1, <2>1, <2>3
    <2> QED
        BY <2>2, <2>3 DEF EndBatch, MayRetry
<1>6. worker' \in [Workers -> Proc]
    BY <1>1, <1>2, Blanks, SetOthers
<1>7. TypeOK'
    BY <1>1, <1>2, <1>3, <1>4, <1>5, <1>6 DEF TypeOK, mailing, history
<1>8. Known'
    <2>1. inbox' = inbox /\ bounced' = bounced
        BY <1>1 DEF mailing
    <2>2. MailedOne'
        BY <1>2, <1>3, <2>1 DEF Known, MailedOne, Stays, Still, TypeOK
    <2>3. BlockedNeverMailed'
        BY <1>2, <1>3, <2>1 DEF Known, BlockedNeverMailed, Still
    <2> QED
        BY <1>1, <1>2, <1>3, <2>1, <2>2, <2>3 DEF Known, Still
<1>9. worker'[w] = Idle /\ \A v \in Workers : v # w => worker'[v] = worker[v]
    BY <1>1, <1>2, Blanks, SetOthers
<1> QED
    BY <1>3, <1>7, <1>8, <1>9, IdleKeeps

\* A report that was never mailed is mailed at the request of Ops.
LEMMA SendStep ==
    ASSUME RInv, NEW w \in Workers, NEW r \in Rows, Send(w, r)
    PROVE  RInv'
<1> DEFINE p == [Idle EXCEPT !.task = "send", !.row = r]
<1>1. /\ Spend("requests") /\ row[r].status = "success" /\ Set(w, Sending(p, row[r]))
      /\ UNCHANGED <<now, content, tasks, mailing, history>>
    BY DEF Send
<1>2. TypeOK /\ row[r] \in Row /\ verified \subseteq Addresses /\ Passed(r)
    BY DEF RInv, TypeOK, RowInv
<1>3. /\ p \in Proc /\ p.row = r /\ p.unmark = {} /\ p.hide = {} /\ p.mail = NoSend
    BY Blanks DEF Proc, Idle, Tasks
<1>4. Sending(p, row[r]) \in Proc
    BY <1>2, <1>3, SendingIs
<1>5. left' \in [ticks : Nat, tasks : Nat, requests : Nat, moves : Nat, faults : Nat]
    BY <1>1, <1>2, SpendType
<1>6. /\ UNCHANGED <<now, content, overlapped, stale, rerun, job, inbox, bounced>>
      /\ UNCHANGED <<queue, lost, tried, verified, cooling, polls>>
    BY <1>1 DEF tasks, mailing, history
<1>7. /\ TypeOK' /\ Still /\ Known' /\ worker'[w] = Sending(p, row[r])
      /\ \A v \in Workers : v # w => worker'[v] = worker[v]
    BY <1>1, <1>2, <1>4, <1>5, <1>6, RestTypes, SetsOne
<1>8. (r \notin overlapped => ~row[r].text.blocked) /\ row[r].status \in Settled
    BY <1>1, <1>2 DEF Passed, Settled
<1> HIDE DEF p
<1> QED
    BY <1>3, <1>7, <1>8, SendsKeeps

-----------------------------------------------------------------------------
(* A worker begins an attempt.                                             *)

\* Worker w begins, as q: no report changes, and the history is noted.  What
\* its row may show it takes in, unless another attempt is at work on the row.
Enters(w, q) ==
    /\ q \in Proc /\ worker'[w] = q /\ \A v \in Workers : v # w => worker'[v] = worker[v]
    /\ q.pc \in {"wait", "write"} /\ q.row \in Rows
    /\ UNCHANGED <<now, content, job, inbox, bounced>>
    /\ overlapped \subseteq overlapped' /\ stale \subseteq stale' /\ rerun \subseteq rerun'
    /\ overlapped' \subseteq stale'
    /\ q.pc = "write" /\ q.row \notin overlapped' =>
           \A n \in pool : marks[n] = None /\ Holds(q.row, n) => n \in q.new.inputs.news

\* What is provided for stays so.
LEMMA EntersProvided ==
    ASSUME RInv, NEW w \in Workers, NEW q, Enters(w, q), NEW n \in News, n \in pool, Provided(n)
    PROVE  Provided(n)'
<1>1. marks' = marks /\ row' = row /\ written' = written
    BY DEF Enters, content
<1>2. CASE marks[n] # None
    BY <1>1, <1>2 DEF Provided
<1>3. ASSUME NEW r \in Rows, Blurred(r, n) PROVE Provided(n)'
    <2>1. Blurred(r, n)'
        BY <1>1, <1>3 DEF Blurred, Enters, Selectable
    <2> QED
        BY <2>1 DEF Provided
<1>4. ASSUME NEW r \in Rows, Holds(r, n), Stands(r, n), marks[n] = None PROVE Provided(n)'
    <2>1. Holds(r, n)'
        BY <1>1, <1>4 DEF Holds, Selectable
    <2>2. CASE q.row = r /\ r \in overlapped'
        <3>1. row[r].status # "none" /\ Selectable(n, row[r].start, row[r].end)
            BY <1>4 DEF RInv, RowInv, Shaped, Holds, Covers, Done
        <3>2. Blurred(r, n)'
            BY <1>1, <2>2, <3>1 DEF Blurred, Selectable
        <3> QED
            BY <3>2 DEF Provided
    <2>3. CASE ~(q.row = r /\ r \in overlapped')
        <3>1. Stands(r, n)'
            BY <1>4, <2>3 DEF Stands, Enters
        <3> QED
            BY <2>1, <3>1 DEF Provided
    <2> QED
        BY <2>2, <2>3
<1> QED
    BY <1>2, <1>3, <1>4 DEF Provided

\* The other workers know what they knew.
LEMMA EntersOthers ==
    ASSUME RInv, NEW w \in Workers, NEW q, Enters(w, q), NEW v \in Workers, v # w
    PROVE  WorkerInv(worker[v])'
<1> DEFINE p == worker[v]
<1>1. /\ Placed(p) /\ Opening(p) /\ Unchanged(p) /\ Reading(p)
      /\ MailsPassed(p) /\ MailsOne(p) /\ WillLeaveNone(p)
    BY DEF RInv, WorkerInv
<1>2. /\ worker'[v] = worker[v] /\ marks' = marks /\ row' = row /\ now' = now /\ pool' = pool
      /\ overlapped \subseteq overlapped' /\ stale \subseteq stale' /\ rerun \subseteq rerun'
    BY DEF Enters, content
<1>3. Placed(worker[v])'
    BY <1>1, <1>2 DEF Placed
<1>4. Opening(worker[v])'
    BY <1>1, <1>2 DEF Opening
<1>5. Unchanged(worker[v])'
    BY <1>1, <1>2 DEF Unchanged
<1>6. Reading(worker[v])'
    BY <1>1, <1>2 DEF Reading, Covers, Selectable, MarksOf
<1>7. MailsPassed(worker[v])' /\ MailsOne(worker[v])'
    BY <1>1, <1>2 DEF MailsPassed, MailsOne, Stays
<1>8. WillLeaveNone(worker[v])'
    <2>1. \A n \in News : n \in pool /\ Provided(n) => Provided(n)'
        BY EntersProvided
    <2> QED
        BY <1>1, <1>2, <2>1 DEF WillLeaveNone, Past
<1> QED
    BY <1>3, <1>4, <1>5, <1>6, <1>7, <1>8 DEF WorkerInv

\* Rows and marks say the same.
LEMMA EntersRows ==
    ASSUME RInv, NEW w \in Workers, NEW q, Enters(w, q)
    PROVE  /\ \A r \in Rows : RowInv(r)'
           /\ \A n \in News : Marked(n)'
<1>1. /\ marks' = marks /\ row' = row /\ now' = now /\ pool' = pool /\ written' = written
      /\ overlapped \subseteq overlapped' /\ stale \subseteq stale' /\ rerun \subseteq rerun'
    BY DEF Enters, content
<1>2. ASSUME NEW r \in Rows PROVE RowInv(r)'
    <2>1. Shaped(r) /\ ShowsMarked(r) /\ Passed(r) /\ LeavesNone(r)
        BY DEF RInv, RowInv
    <2>2. Shaped(r)'
        BY <1>1, <2>1 DEF Shaped, Covers, Selectable
    <2>3. ShowsMarked(r)' /\ Passed(r)'
        BY <1>1, <2>1 DEF ShowsMarked, Passed
    <2>4. LeavesNone(r)'
        <3>1. \A n \in News : n \in pool /\ Provided(n) => Provided(n)'
            BY EntersProvided
        <3> QED
            BY <1>1, <2>1, <3>1 DEF LeavesNone, Past
    <2> QED
        BY <2>2, <2>3, <2>4 DEF RowInv
<1>3. ASSUME NEW n \in News PROVE Marked(n)'
    <2>1. Marked(n)
        BY DEF RInv
    <2> QED
        BY <1>1, <2>1 DEF Marked, Covers, Selectable
<1> QED
    BY <1>2, <1>3

\* Who begins an attempt keeps the invariant, if it knows what it should and is
\* apart from the others.
LEMMA EntersKeeps ==
    ASSUME RInv, TypeOK', NEW w \in Workers, NEW q, Enters(w, q), WorkerInv(worker[w])',
           \A v \in Workers : v # w => Apart(worker[v], worker[w])'
    PROVE  RInv'
<1>1. worker'[w] = q /\ \A v \in Workers : v # w => worker'[v] = worker[v]
    BY DEF Enters
<1>2. Known'
    <2>1. Known
        BY DEF RInv
    <2>2. /\ row' = row /\ inbox' = inbox /\ pool' = pool /\ job' = job /\ bounced' = bounced
          /\ overlapped \subseteq overlapped' /\ rerun \subseteq rerun' /\ overlapped' \subseteq stale'
        BY DEF Enters, content
    <2>3. MailedOne' /\ BlockedNeverMailed'
        BY <2>1, <2>2 DEF Known, MailedOne, Stays, BlockedNeverMailed
    <2> QED
        BY <2>1, <2>2, <2>3 DEF Known
<1>3. ASSUME NEW v \in Workers PROVE WorkerInv(worker[v])'
    <2>1. CASE v = w
        BY <2>1
    <2>2. CASE v # w
        BY <2>2, EntersOthers
    <2> QED
        BY <2>1, <2>2
<1>4. ASSUME NEW u \in Workers, NEW v \in Workers, u # v PROVE Apart(worker[u], worker[v])'
    <2>1. CASE v = w
        BY <1>1, <1>4, <2>1
    <2>2. CASE u = w
        <3>1. Apart(worker[v], worker[w])'
            BY <1>1, <1>4, <2>2
        <3> QED
            BY <2>2, <3>1 DEF Apart
    <2>3. CASE u # w /\ v # w
        <3>1. Apart(worker[u], worker[v])
            BY <1>4 DEF RInv
        <3>2. /\ worker'[u] = worker[u] /\ worker'[v] = worker[v]
              /\ overlapped \subseteq overlapped' /\ stale \subseteq stale'
            BY <1>1, <2>3 DEF Enters
        <3> QED
            BY <3>1, <3>2 DEF Apart
    <2> QED
        BY <2>1, <2>2, <2>3
<1> QED
    BY <1>2, <1>3, <1>4, EntersRows DEF RInv

\* The history notes who is at work beside an attempt that begins.
LEMMA NotedIs ==
    ASSUME RInv, NEW w \in Workers, NEW r \in Rows, NEW old \in BOOLEAN, Noted(w, r, old)
    PROVE  /\ overlapped \subseteq overlapped' /\ stale \subseteq stale'
           /\ overlapped' \subseteq stale' /\ overlapped' \subseteq Rows /\ stale' \subseteq Rows
           /\ old => r \in stale'
           /\ Held(w, r) => r \in overlapped'
           /\ \A v \in Workers : v # w /\ worker[v].pc \in AtWork =>
                  /\ {worker[v].row, r} \subseteq stale'
                  /\ worker[v].row = r => r \in overlapped'
<1>1. overlapped \subseteq stale /\ overlapped \subseteq Rows /\ stale \subseteq Rows
    BY DEF RInv, Known, TypeOK
<1>2. /\ overlapped' = overlapped \cup (Busy(w) \cap {r})
      /\ stale' = stale \cup Busy(w) \cup (IF old \/ Busy(w) # {} THEN {r} ELSE {})
    BY DEF Noted
<1>3. \A v \in Workers : v # w /\ worker[v].pc \in AtWork => worker[v].row \in Busy(w)
    BY DEF Busy, AtWork
<1>4. Busy(w) \subseteq Rows
    BY DEF Busy, RInv, WorkerInv, Placed
<1>5. Held(w, r) => r \in Busy(w)
    BY DEF Held, Busy
<1> HIDE DEF Busy
<1> QED
    BY <1>1, <1>2, <1>3, <1>4, <1>5

\* Who begins is apart from the others, if it inserts a row or deletes marks
\* only where nobody else does.
LEMMA EntersApart ==
    ASSUME RInv, NEW w \in Workers, NEW q, Enters(w, q),
           \A v \in Workers : v # w /\ worker[v].pc \in AtWork =>
                  /\ {worker[v].row, q.row} \subseteq stale'
                  /\ worker[v].row = q.row => q.row \in overlapped',
           q.unmark \subseteq MarksOf(q.row),
           q.unmark # {} \/ (q.pc = "write" /\ q.old.status = "none") => ~Held(w, q.row)
    PROVE  \A v \in Workers : v # w => Apart(worker[v], worker[w])'
<1> SUFFICES ASSUME NEW v \in Workers, v # w
             PROVE  Apart(worker[v], worker[w])'
    OBVIOUS
<1> DEFINE p == worker[v]
<1>1. worker'[w] = q /\ worker'[v] = p
    BY DEF Enters
<1>2. p.unmark # {} => p.pc = "write"
    BY DEF RInv, WorkerInv, Placed
<1>3. \A n \in p.unmark : marks[n] = p.row
    BY <1>2 DEF RInv, WorkerInv, Reading
<1>4. \A n \in q.unmark : marks[n] = q.row
    BY DEF MarksOf
<1>5. p.unmark \cap q.unmark = {}
    <2>1. SUFFICES ASSUME NEW n \in p.unmark, n \in q.unmark PROVE FALSE
        OBVIOUS
    <2>2. p.row = q.row /\ p.pc = "write" /\ p.unmark # {}
        BY <1>2, <1>3, <1>4, <2>1
    <2>3. Held(w, q.row)
        BY <2>2 DEF Held
    <2> QED
        BY <2>1, <2>3
<1>6. p.pc = "write" /\ q.pc = "write" /\ p.row = q.row =>
          p.old.status # "none" \/ q.old.status # "none"
    BY DEF Held
<1>7. p.pc \in AtWork /\ q.pc \in AtWork =>
          /\ {p.row, q.row} \subseteq stale'
          /\ p.row = q.row => p.row \in overlapped'
    OBVIOUS
<1> HIDE DEF p
<1> QED
    BY <1>1, <1>5, <1>6, <1>7 DEF Apart

\* Who writes from a stored answer knows what the row says.
LEMMA StoredKnows ==
    ASSUME RInv, NEW w \in Workers, NEW q, Enters(w, q), NEW r \in Rows, q.row = r,
           q.pc = "write", q.old = row[r], row[r].inputs.body,
           q.new.inputs = row[r].inputs, q.new.start = row[r].start, q.new.end = row[r].end,
           q.unmark = {}, q.hide = {}, q.task \in Attempts \cup Repeats,
           q.task \in Attempts => row[r].status = "failed" /\ r \in stale',
           q.task \in Repeats => r \in rerun' /\ (r \notin stale' => row[r].status \in Done)
    PROVE  WorkerInv(worker[w])'
<1>1. /\ worker'[w] = q /\ row' = row /\ marks' = marks /\ pool' = pool /\ now' = now
      /\ overlapped \subseteq overlapped'
    BY DEF Enters, content
<1>2. Shaped(r) /\ LeavesNone(r) /\ row[r].status # "none" /\ overlapped' \subseteq stale'
    BY DEF RInv, RowInv, Shaped, NoRow, NoInputs, Enters
<1>3. MarksOf(r) = {} \/ r \in overlapped' \/ q.task \in Repeats
    <2>1. ASSUME NEW n \in News, marks[n] = r, r \notin overlapped, q.task \in Attempts PROVE FALSE
        <3>1. row[r].status \in Done
            BY <2>1 DEF RInv, Marked
        <3> QED
            BY <2>1, <3>1 DEF Done
    <2> QED
        BY <1>1, <2>1 DEF MarksOf
<1>4. \A n \in News : n \in pool /\ Provided(n) => Provided(n)'
    BY EntersProvided
<1>5. Placed(worker[w])'
    BY <1>1 DEF Placed
<1>6. Opening(worker[w])' /\ Unchanged(worker[w])'
    BY <1>1, <1>2 DEF Opening, Unchanged
<1>7. Reading(worker[w])'
    <2>1. \A n \in q.new.inputs.news : Covers(n, q.new)'
        BY <1>1, <1>2 DEF Shaped, Covers, Selectable
    <2>2. q.task \in Attempts /\ r \notin overlapped' => MarksOf(r)' \subseteq q.unmark
        BY <1>1, <1>3, TaskNames DEF MarksOf
    <2> QED
        BY <1>1, <2>1, <2>2, TaskNames DEF Reading, Covers, Selectable
<1>8. MailsPassed(worker[w])' /\ MailsOne(worker[w])'
    BY <1>1, TaskNames DEF MailsPassed, MailsOne, Settled
<1>9. WillLeaveNone(worker[w])'
    BY <1>1, <1>2, <1>4 DEF WillLeaveNone, LeavesNone, Past
<1> QED
    BY <1>5, <1>6, <1>7, <1>8, <1>9 DEF WorkerInv

\* What a window that starts at a worker's time has left behind.
Behind(q) == \A n \in News : Past(n, q.new.start) => Provided(n) \/ n \in q.hide

\* Who waits for another session knows its window.
LEMMA WaitKnows ==
    ASSUME RInv, NEW w \in Workers, NEW q, Enters(w, q), q.pc = "wait", q.task \in Attempts,
           q.row \in overlapped', q.unmark = {}, Opening(q), Behind(q)
    PROVE  WorkerInv(worker[w])'
<1>1. /\ worker'[w] = q /\ row' = row /\ marks' = marks /\ pool' = pool /\ now' = now
    BY DEF Enters, content
<1>2. \A n \in News : n \in pool /\ Provided(n) => Provided(n)'
    BY EntersProvided
<1>3. Placed(worker[w])'
    BY <1>1 DEF Placed, Enters
<1>4. Opening(worker[w])' /\ Unchanged(worker[w])' /\ Reading(worker[w])'
    BY <1>1 DEF Opening, Unchanged, Reading
<1>5. MailsPassed(worker[w])' /\ MailsOne(worker[w])'
    BY <1>1 DEF MailsPassed, MailsOne
<1>6. WillLeaveNone(worker[w])'
    BY <1>1, <1>2 DEF WillLeaveNone, Behind, Past
<1> QED
    BY <1>3, <1>4, <1>5, <1>6 DEF WorkerInv

\* What load_news_window finds for a worker, of its columns.
Found(q) ==
    {n \in pool : /\ Selectable(n, q.new.start, q.new.end)
                  /\ marks[n] = None \/ n \in q.unmark
                  /\ n \notin q.hide}

\* A marked item is in the window of a row that an attempt opens again.
LEMMA MarksInWindow ==
    ASSUME RInv, NEW q, q.pc = "write", q.row \in Rows, Opening(q), NEW n \in MarksOf(q.row)
    PROVE  n \in pool /\ Selectable(n, q.new.start, q.new.end) /\ q.hide = {}
<1>1. n \in News /\ marks[n] = q.row
    BY DEF MarksOf
<1>2. Covers(n, row[q.row]) /\ row[q.row].status # "none"
    BY <1>1 DEF RInv, Marked
<1>3. q.hide = {} /\ q.new.start = row[q.row].start /\ q.new.end = row[q.row].end
    BY <1>2 DEF Opening, NoRow
<1> QED
    BY <1>2, <1>3 DEF Covers

\* Who loads the news knows what it has found.
LEMMA OpenedKnows ==
    ASSUME RInv, NEW w \in Workers, NEW q, Enters(w, q), q.pc = "write", q.task \in Attempts,
           q.new.inputs.news = Found(q), q.unmark \subseteq MarksOf(q.row),
           q.row \notin overlapped' =>
               q.unmark = MarksOf(q.row) /\ q.old = row[q.row] /\ ~Finished(q.old),
           Opening(q), Behind(q)
    PROVE  WorkerInv(worker[w])'
<1>1. /\ worker'[w] = q /\ row' = row /\ marks' = marks /\ pool' = pool /\ now' = now
      /\ q.row \in Rows /\ q \in Proc /\ TypeOK
    BY DEF Enters, content, RInv
<1>2. \A n \in News : n \in pool /\ Provided(n) => Provided(n)'
    BY EntersProvided
<1>3. Placed(worker[w])'
    BY <1>1 DEF Placed, AtWork
<1>4. Opening(worker[w])' /\ Unchanged(worker[w])'
    BY <1>1 DEF Opening, Unchanged
<1>5. Reading(worker[w])'
    <2>1. \A n \in q.new.inputs.news : Covers(n, q.new)'
        BY <1>1 DEF Found, Covers, Selectable
    <2>2. \A n \in q.unmark : marks[n] = q.row /\ n \in q.new.inputs.news
        BY <1>1, MarksInWindow DEF Found, MarksOf
    <2>3. q.row \notin overlapped' => MarksOf(q.row)' \subseteq q.unmark
        BY <1>1 DEF MarksOf
    <2>4. \A n \in q.new.inputs.news : (marks[n] = None \/ n \in q.unmark) /\ n \notin q.hide
        BY DEF Found
    <2> QED
        BY <1>1, <2>1, <2>2, <2>3, <2>4, TaskNames DEF Reading, Covers, Selectable
<1>6. MailsPassed(worker[w])' /\ MailsOne(worker[w])'
    BY <1>1 DEF MailsPassed, MailsOne, Settled, Finished
<1>7. WillLeaveNone(worker[w])'
    <2> SUFFICES ASSUME NEW n \in News
                 PROVE  /\ Past(n, q.new.start)' => Provided(n)' \/ n \in q.hide
                        /\ n \notin q.new.inputs.news /\ Past(n, q.new.end)' =>
                               Provided(n)' \/ n \in q.hide
        BY <1>1 DEF WillLeaveNone
    <2>1. /\ Past(n, q.new.start)' <=> n \in pool /\ Past(n, q.new.start)
          /\ Past(n, q.new.end)' <=> n \in pool /\ Past(n, q.new.end)
        BY <1>1 DEF Past
    <2>2. n \in pool /\ Past(n, q.new.start) => Provided(n)' \/ n \in q.hide
        BY <1>2 DEF Behind
    <2>3. ASSUME n \in pool, n \notin q.new.inputs.news, Past(n, q.new.end), n \notin q.hide
          PROVE  Provided(n)'
        <3>1. Published[n] <= q.new.end
            <4>1. Published[n] \in Nat /\ Late \in Nat /\ q.new.end \in Int
                BY <1>1, Numbers DEF Proc, Row
            <4> QED
                BY <2>3, <4>1 DEF Past
        <3>2. CASE ~(marks[n] = None \/ n \in q.unmark)
            <4>1. Provided(n)
                BY <3>2 DEF Provided
            <4> QED
                BY <1>2, <2>3, <4>1
        <3>3. CASE ~(Published[n] > q.new.start - Late)
            <4>1. Published[n] \in Nat /\ Late \in Nat /\ q.new.start \in Int
                BY <1>1, Numbers DEF Proc, Row
            <4>2. Past(n, q.new.start)
                BY <2>3, <3>3, <4>1 DEF Past
            <4> QED
                BY <2>2, <2>3, <4>2
        <3> QED
            BY <2>3, <3>1, <3>2, <3>3 DEF Found, Selectable
    <2> QED
        BY <2>1, <2>2, <2>3
<1> QED
    BY <1>3, <1>4, <1>5, <1>6, <1>7 DEF WorkerInv

\* A row that is reset keeps its window; the window of a new one starts where the
\* last one ended, and what it would leave behind is backfilled.
LEMMA FreshIs ==
    ASSUME RInv, NEW r \in Rows, NEW p \in Proc, p.row = r, p.old = row[r],
           p.unmark = {}, p.hide = {}, NEW f, f = Fresh(p)
    PROVE  /\ f \in Proc /\ f.task = p.task /\ f.row = r /\ f.old = row[r] /\ f.unmark = {}
           /\ row[r].status # "none" =>
                 /\ f.hide = {} /\ f.new.start = row[r].start /\ f.new.end = row[r].end
           /\ row[r].status = "none" =>
                 row[r] = NoRow /\ f.new.start <= now /\ f.new.end <= now
           /\ Behind(f)
<1>1. /\ TypeOK /\ row[r] \in Row /\ Shaped(r) /\ LeavesNone(r)
      /\ \A q \in Rows : row[q].end <= now
    BY DEF RInv, RowInv, Shaped, TypeOK
<1>3. CASE row[r].status # "none"
    <2> DEFINE new == [p.old EXCEPT !.inputs = NoInputs, !.text = NoText, !.sent = NoSend]
    <2>1. f = [p EXCEPT !.new = new]
        BY <1>3 DEF Fresh
    <2>2. new \in Row /\ new.start = row[r].start /\ new.end = row[r].end
        BY <1>1, Blanks DEF Row
    <2> HIDE DEF new
    <2>3. /\ f \in Proc /\ f.task = p.task /\ f.row = r /\ f.old = row[r] /\ f.unmark = {}
          /\ f.hide = {} /\ f.new = new
        BY <2>1, <2>2 DEF Proc
    <2>4. Behind(f)
        BY <1>1, <1>3, <2>2, <2>3 DEF Behind, LeavesNone
    <2> QED
        BY <1>3, <2>2, <2>3, <2>4
<1>4. CASE row[r].status = "none"
    <2> DEFINE new == [NoRow EXCEPT !.start = Watermark(p.row), !.end = now]
               hide == IF Watermark(p.row) = Floor
                       THEN {n \in pool : Published[n] < Floor /\ marks[n] = None} ELSE {}
    <2>1. f = [p EXCEPT !.new = new, !.hide = hide]
        BY <1>4 DEF Fresh
    <2>2. /\ Watermark(r) \in Int /\ Watermark(r) <= now /\ Floor \in Int
          /\ Watermark(r) = Floor \/ \E q \in Counted(r) : Watermark(r) = row[q].end
          /\ Counted(r) \subseteq Rows /\ \A q \in Counted(r) : row[q].status \in Done
        BY <1>1, WatermarkIs
    <2>3. new \in Row /\ new.start = Watermark(r) /\ new.end = now
        <3>1. NoRow \in Row /\ now \in Int
            BY <1>1, Blanks DEF TypeOK
        <3> QED
            BY <2>2, <3>1 DEF Row
    <2>4. hide \in SUBSET News
        BY <1>1 DEF TypeOK
    <2>5. Behind(f)
        <3>1. f.new.start = Watermark(r) /\ f.hide = hide
            BY <2>1, <2>3 DEF Proc
        <3>2. SUFFICES ASSUME NEW n \in News, Past(n, Watermark(r)) PROVE Provided(n) \/ n \in hide
            BY <3>1 DEF Behind
        <3>3. CASE Watermark(r) = Floor
            <4>1. n \in pool /\ Published[n] <= Floor - Late /\ Late > 0
                BY <3>2, <3>3 DEF Past, RInv, Known
            <4>2. Published[n] < Floor
                BY <1>1, <2>2, <4>1, Numbers
            <4> QED
                BY <3>3, <4>1, <4>2 DEF Provided
        <3>4. ASSUME NEW q \in Counted(r), Watermark(r) = row[q].end PROVE Provided(n)
            <4>1. q \in Rows /\ row[q].status \in Done
                BY <2>2
            <4>2. LeavesNone(q)
                BY <4>1 DEF RInv, RowInv
            <4> QED
                BY <3>2, <3>4, <4>1, <4>2 DEF LeavesNone
        <3> QED
            BY <2>2, <3>3, <3>4
    <2> HIDE DEF new, hide
    <2>6. /\ f \in Proc /\ f.task = p.task /\ f.row = r /\ f.old = row[r] /\ f.unmark = {}
          /\ f.new = new
        BY <2>1, <2>3, <2>4 DEF Proc
    <2>7. row[r] = NoRow /\ now \in Nat
        BY <1>1, <1>4 DEF Shaped, TypeOK
    <2> QED
        BY <1>4, <2>2, <2>3, <2>5, <2>6, <2>7
<1> QED
    BY <1>3, <1>4

\* What a worker holds once it has loaded the news (load_news_window).
LEMMA OpenedIs ==
    ASSUME TypeOK, NEW f \in Proc, NEW gone \in SUBSET News, NEW q,
           q = Opened([f EXCEPT !.unmark = gone])
    PROVE  /\ q \in Proc /\ q.pc = "write" /\ q.task = f.task /\ q.row = f.row /\ q.old = f.old
           /\ q.unmark = gone /\ q.hide = f.hide
           /\ q.new.start = f.new.start /\ q.new.end = f.new.end
           /\ q.new.inputs.news = Found(q)
<1> DEFINE p == [f EXCEPT !.unmark = gone]
           new == [p.new EXCEPT !.inputs = [body |-> TRUE, news |-> Window(p)]]
<1>1. p \in Proc /\ p.unmark = gone /\ p.hide = f.hide /\ p.new = f.new
    BY DEF Proc
<1>2. p.task = f.task /\ p.row = f.row /\ p.old = f.old
    BY DEF Proc
<1> HIDE DEF p
<1>3. Window(p) \in SUBSET News
    BY DEF Window, TypeOK
<1>4. q = [p EXCEPT !.pc = "write", !.new = new]
    BY DEF Opened, p, Proc
<1>5. new \in Row /\ new.start = f.new.start /\ new.end = f.new.end
    BY <1>1, <1>3 DEF Proc, Row, Inputs
<1>6. new.inputs.news = Window(p)
    BY <1>1 DEF Proc, Row
<1> HIDE DEF new
<1>7. /\ q \in Proc /\ q.pc = "write" /\ q.task = f.task /\ q.row = f.row /\ q.old = f.old
      /\ q.unmark = gone /\ q.hide = f.hide /\ q.new = new
    BY <1>1, <1>2, <1>4, <1>5 DEF Proc
<1>8. Window(p) = Found(q)
    BY <1>1, <1>5, <1>7 DEF Window, Found
<1> QED
    BY <1>5, <1>6, <1>7, <1>8

\* Who waits for another session holds what it held.
LEMMA WaitIs ==
    ASSUME NEW f \in Proc, NEW q, q = [f EXCEPT !.pc = "wait"]
    PROVE  /\ q \in Proc /\ q.pc = "wait" /\ q.task = f.task /\ q.row = f.row /\ q.old = f.old
           /\ q.unmark = f.unmark /\ q.hide = f.hide /\ q.new = f.new
    BY DEF Proc

\* What its row may show, a worker that loads the news finds.
LEMMA FindsHeld ==
    ASSUME RInv, NEW q, q.pc = "write", q.row \in Rows, q.old = row[q.row], Opening(q),
           NEW n \in pool, marks[n] = None, Holds(q.row, n)
    PROVE  n \in Found(q)
<1>1. row[q.row].status # "none" /\ Selectable(n, row[q.row].start, row[q.row].end)
    BY DEF RInv, RowInv, Shaped, Holds, Covers, Done
<1>2. q.hide = {} /\ q.new.start = row[q.row].start /\ q.new.end = row[q.row].end
    BY <1>1 DEF Opening
<1> QED
    BY <1>1, <1>2 DEF Found

\* What a step that begins an attempt leaves to be checked of the types.
LEMMA BeginsTypes ==
    ASSUME TypeOK, NEW w \in Workers, NEW q \in Proc, Set(w, q),
           UNCHANGED <<now, content, job, inbox, bounced, tried, lost, queue, polls, verified>>,
           cooling' \subseteq Addresses, overlapped' \subseteq Rows, stale' \subseteq Rows,
           rerun' \subseteq Rows,
           left' \in [ticks : Nat, tasks : Nat, requests : Nat, moves : Nat, faults : Nat]
    PROVE  /\ TypeOK'
           /\ worker'[w] = q /\ \A v \in Workers : v # w => worker'[v] = worker[v]
    BY SetOthers DEF TypeOK, content

-----------------------------------------------------------------------------
(* generate_report looks its row up.                                       *)

\* A report that is finished is mailed, if that is missing.
LEMMA BeginsFinished ==
    ASSUME RInv, NEW w \in Workers, NEW r \in Rows, Finished(row[r]),
           NEW p \in Proc, p.row = r, p.unmark = {}, p.hide = {}, p.mail = NoSend,
           Set(w, IF row[r].status = "success" THEN Sending(p, row[r]) ELSE Ended(p, TRUE)),
           UNCHANGED <<now, content, overlapped, stale, rerun, job, queue, lost, tried, mailing>>,
           left' \in [ticks : Nat, tasks : Nat, requests : Nat, moves : Nat, faults : Nat]
    PROVE  RInv'
<1>1. TypeOK /\ row[r] \in Row /\ verified \subseteq Addresses /\ Passed(r)
    BY DEF RInv, TypeOK, RowInv
<1>3. UNCHANGED <<inbox, bounced, verified, cooling, polls>>
    BY DEF mailing
<1>4. CASE row[r].status = "success" /\ Set(w, Sending(p, row[r]))
    <2>1. Sending(p, row[r]) \in Proc
        BY <1>1, SendingIs
    <2>2. /\ TypeOK' /\ Still /\ Known' /\ worker'[w] = Sending(p, row[r])
          /\ \A v \in Workers : v # w => worker'[v] = worker[v]
        BY <1>1, <1>3, <1>4, <2>1, RestTypes, SetsOne
    <2>3. (r \notin overlapped => ~row[r].text.blocked) /\ row[r].status \in Settled
        BY <1>1, <1>4 DEF Passed, Settled
    <2> QED
        BY <2>2, <2>3, SendsKeeps
<1>5. CASE Set(w, Ended(p, TRUE))
    <2>1. Ended(p, TRUE) \in Proc
        BY EndedIs
    <2>2. /\ TypeOK' /\ Still /\ Known' /\ worker'[w] = Ended(p, TRUE)
          /\ \A v \in Workers : v # w => worker'[v] = worker[v]
        BY <1>1, <1>3, <1>5, <2>1, RestTypes, SetsOne
    <2> QED
        BY <2>2, EndedKeeps
<1> QED
    BY <1>4, <1>5

\* A stored answer is written up, by an attempt or for Ops.
LEMMA BeginsStored ==
    ASSUME RInv, NEW w \in Workers, NEW r \in Rows, NEW q \in Proc, Set(w, q), NEW old \in BOOLEAN,
           row[r].inputs.body, Noted(w, r, old),
           q.pc = "write", q.row = r, q.old = row[r],
           q.new.inputs = row[r].inputs, q.new.start = row[r].start, q.new.end = row[r].end,
           q.unmark = {}, q.hide = {}, q.task \in Attempts \cup Repeats,
           q.task \in Attempts => row[r].status = "failed" /\ old /\ rerun' = rerun,
           q.task \in Repeats => rerun' = rerun \cup {r} /\ (row[r].status = "failed" => old),
           UNCHANGED <<now, content, job, inbox, bounced, tried, lost, queue, polls, verified>>,
           cooling' \subseteq Addresses,
           left' \in [ticks : Nat, tasks : Nat, requests : Nat, moves : Nat, faults : Nat]
    PROVE  RInv'
<1>1. TypeOK /\ Shaped(r) /\ row[r] \in Row
    BY DEF RInv, RowInv, TypeOK
<1>2. /\ overlapped \subseteq overlapped' /\ stale \subseteq stale'
      /\ overlapped' \subseteq stale' /\ overlapped' \subseteq Rows /\ stale' \subseteq Rows
      /\ old => r \in stale'
      /\ \A v \in Workers : v # w /\ worker[v].pc \in AtWork =>
             /\ {worker[v].row, r} \subseteq stale'
             /\ worker[v].row = r => r \in overlapped'
    BY NotedIs
<1>3. rerun \subseteq rerun' /\ rerun' \subseteq Rows
    BY <1>1 DEF TypeOK
<1>4. /\ TypeOK'
      /\ worker'[w] = q /\ \A v \in Workers : v # w => worker'[v] = worker[v]
    BY <1>1, <1>2, <1>3, BeginsTypes
<1>5. \A n \in pool : Holds(r, n) => n \in row[r].inputs.news
    BY DEF Holds
<1>6. Enters(w, q)
    BY <1>2, <1>3, <1>4, <1>5 DEF Enters
<1>7. row[r].status # "none" /\ (row[r].status # "failed" => row[r].status \in Done)
    BY <1>1 DEF Shaped, NoRow, NoInputs, Row
<1>8. WorkerInv(worker[w])'
    BY <1>2, <1>6, <1>7, StoredKnows, TaskNames
<1>9. \A v \in Workers : v # w => Apart(worker[v], worker[w])'
    BY <1>2, <1>6, <1>7, EntersApart
<1> QED
    BY <1>4, <1>6, <1>8, <1>9, EntersKeeps

\* A row is reset, or made: at once, or when another session has ended.
LEMMA BeginsFresh ==
    ASSUME RInv, NEW w \in Workers, NEW t \in Attempts, NEW r \in Rows, ~Finished(row[r]),
           NEW p \in Proc, p.task = t, p.row = r, p.old = row[r], p.unmark = {}, p.hide = {},
           NEW f, f = Fresh(p), Noted(w, r, FALSE),
           Set(w, IF Held(w, r) THEN [f EXCEPT !.pc = "wait"]
                  ELSE Opened([f EXCEPT !.unmark = MarksOf(r)])),
           UNCHANGED <<now, content, rerun, job, queue, lost, tried, mailing>>,
           left' \in [ticks : Nat, tasks : Nat, requests : Nat, moves : Nat, faults : Nat]
    PROVE  RInv'
<1>1. TypeOK
    BY DEF RInv
<1>2. /\ f \in Proc /\ f.task = t /\ f.row = r /\ f.old = row[r] /\ f.unmark = {}
      /\ row[r].status # "none" =>
            f.hide = {} /\ f.new.start = row[r].start /\ f.new.end = row[r].end
      /\ row[r].status = "none" => row[r] = NoRow /\ f.new.start <= now /\ f.new.end <= now
      /\ Behind(f)
    BY FreshIs
<1>3. /\ overlapped \subseteq overlapped' /\ stale \subseteq stale'
      /\ overlapped' \subseteq stale' /\ overlapped' \subseteq Rows /\ stale' \subseteq Rows
      /\ Held(w, r) => r \in overlapped'
      /\ \A v \in Workers : v # w /\ worker[v].pc \in AtWork =>
             /\ {worker[v].row, r} \subseteq stale'
             /\ worker[v].row = r => r \in overlapped'
    BY NotedIs, ZenonT(60)
<1>4. /\ UNCHANGED <<now, content, job, inbox, bounced, tried, lost, queue, polls, verified>>
      /\ cooling' \subseteq Addresses /\ rerun' \subseteq Rows /\ rerun' = rerun
    BY <1>1 DEF mailing, TypeOK
<1>5. CASE Held(w, r)
    <2>1. PICK q : q = [f EXCEPT !.pc = "wait"]
        OBVIOUS
    <2>2. /\ q \in Proc /\ q.pc = "wait" /\ q.task = t /\ q.row = r /\ q.old = row[r]
          /\ q.unmark = {} /\ q.hide = f.hide /\ q.new = f.new
        BY <1>2, <2>1, WaitIs
    <2>3. Set(w, q)
        BY <1>5, <2>1
    <2>4. /\ TypeOK'
          /\ worker'[w] = q /\ \A v \in Workers : v # w => worker'[v] = worker[v]
        BY <1>1, <1>3, <1>4, <2>2, <2>3, BeginsTypes
    <2>5. Enters(w, q)
        BY <1>3, <1>4, <2>2, <2>4 DEF Enters
    <2>6. Opening(q) /\ Behind(q)
        BY <1>2, <2>2 DEF Opening, Behind, NoRow
    <2>7. WorkerInv(worker[w])'
        BY <1>3, <1>5, <2>2, <2>5, <2>6, WaitKnows
    <2>8. \A v \in Workers : v # w => Apart(worker[v], worker[w])'
        BY <1>3, <2>2, <2>5, EntersApart
    <2> QED
        BY <2>4, <2>5, <2>7, <2>8, EntersKeeps
<1>6. CASE ~Held(w, r)
    <2>1. PICK q : q = Opened([f EXCEPT !.unmark = MarksOf(r)])
        OBVIOUS
    <2>2. MarksOf(r) \in SUBSET News
        BY DEF MarksOf
    <2>3. /\ q \in Proc /\ q.pc = "write" /\ q.task = t /\ q.row = r /\ q.old = row[r]
          /\ q.unmark = MarksOf(r) /\ q.hide = f.hide
          /\ q.new.start = f.new.start /\ q.new.end = f.new.end
          /\ q.new.inputs.news = Found(q)
        BY <1>1, <1>2, <2>1, <2>2, OpenedIs, SMTT(60)
    <2>4. Set(w, q)
        BY <1>6, <2>1
    <2>5. /\ TypeOK'
          /\ worker'[w] = q /\ \A v \in Workers : v # w => worker'[v] = worker[v]
        BY <1>1, <1>3, <1>4, <2>3, <2>4, BeginsTypes
    <2>6. Opening(q) /\ Behind(q)
        BY <1>2, <2>3 DEF Opening, Behind, NoRow
    <2>7. \A n \in pool : marks[n] = None /\ Holds(r, n) => n \in q.new.inputs.news
        BY <2>3, <2>6, FindsHeld
    <2>8. Enters(w, q)
        BY <1>3, <1>4, <2>3, <2>5, <2>7 DEF Enters
    <2>9. WorkerInv(worker[w])'
        BY <2>3, <2>6, <2>8, OpenedKnows
    <2>10. \A v \in Workers : v # w => Apart(worker[v], worker[w])'
        BY <1>3, <1>6, <2>3, <2>8, EntersApart
    <2> QED
        BY <2>5, <2>8, <2>9, <2>10, EntersKeeps
<1> QED
    BY <1>5, <1>6

\* A message begins an attempt.
LEMMA BeginStep ==
    ASSUME RInv, NEW w \in Workers, NEW t \in Attempts, NEW r \in Rows, Begin(w, t, r),
           UNCHANGED <<now, content, rerun, job, queue, lost, tried, mailing>>,
           left' \in [ticks : Nat, tasks : Nat, requests : Nat, moves : Nat, faults : Nat]
    PROVE  RInv'
<1>1. PICK p : p = [Idle EXCEPT !.task = t, !.row = r, !.old = row[r]]
    OBVIOUS
<1>2. PICK f : f = Fresh(p)
    OBVIOUS
<1>20. row[r] \in Row /\ Shaped(r) /\ TypeOK
    BY DEF RInv, RowInv, TypeOK
<1>21. /\ p \in Proc /\ p.task = t /\ p.row = r /\ p.old = row[r]
       /\ p.unmark = {} /\ p.hide = {} /\ p.mail = NoSend
    BY <1>1, <1>20, Blanks, TaskNames DEF Idle, Proc
<1>3. CASE /\ Finished(row[r])
           /\ Set(w, IF row[r].status = "success" THEN Sending(p, row[r]) ELSE Ended(p, TRUE))
           /\ UNCHANGED <<overlapped, stale>>
    BY <1>21, <1>3, BeginsFinished
<1>4. CASE /\ ~Finished(row[r]) /\ row[r].status # "needs_review" /\ row[r].inputs.body
           /\ Set(w, [p EXCEPT !.pc = "write", !.resume = TRUE, !.new = row[r]])
           /\ Noted(w, r, TRUE)
    <2>1. PICK q : q = [p EXCEPT !.pc = "write", !.resume = TRUE, !.new = row[r]]
        OBVIOUS
    <2>4. /\ q \in Proc /\ q.pc = "write" /\ q.task = t /\ q.row = r /\ q.old = row[r]
          /\ q.unmark = {} /\ q.hide = {} /\ q.new = row[r]
        BY <1>20, <1>21, <2>1 DEF Proc
    <2>5. row[r].status = "failed"
        BY <1>4, <1>20 DEF Shaped, NoRow, NoInputs, Row, Done, Finished
    <2>6. Set(w, q)
        BY <1>4, <2>1
    <2>7. /\ UNCHANGED <<now, content, job, inbox, bounced, tried, lost, queue, polls, verified>>
          /\ cooling' \subseteq Addresses /\ rerun' = rerun
        BY <1>20 DEF mailing, TypeOK
    <2> QED
        BY <1>4, <2>4, <2>5, <2>6, <2>7, BeginsStored, TaskNames
<1>5. CASE /\ ~Finished(row[r])
           /\ Set(w, IF Held(w, r) THEN [f EXCEPT !.pc = "wait"]
                     ELSE Opened([f EXCEPT !.unmark = MarksOf(r)]))
           /\ Noted(w, r, FALSE)
    BY <1>2, <1>21, <1>5, BeginsFresh
<1> QED
    BY <1>1, <1>2, <1>3, <1>4, <1>5 DEF Begin

\* A message is delivered once more at the cost of a fault.
LEMMA DeliverType ==
    ASSUME TypeOK, NEW w, NEW m, Deliver(w, m)
    PROVE  left' \in [ticks : Nat, tasks : Nat, requests : Nat, moves : Nat, faults : Nat]
<1>1. Spend("faults") \/ left' = left
    BY DEF Deliver
<1> QED
    BY <1>1, SpendType, RestTypes

\* A message is acknowledged, and nothing else happens.
LEMMA AckedKeeps ==
    ASSUME RInv, NEW m, Acked(m),
           UNCHANGED <<now, content, worker, job, tried, lost, mailing, history>>,
           left' \in [ticks : Nat, tasks : Nat, requests : Nat, moves : Nat, faults : Nat]
    PROVE  RInv'
<1>1. TypeOK /\ Known
    BY DEF RInv
<1>2. TypeOK'
    BY <1>1 DEF TypeOK, Acked, content, mailing, history
<1>3. Known'
    BY <1>1 DEF Known, content, mailing, history, MailedOne, Stays, BlockedNeverMailed
<1>4. Still
    BY <1>1, StillTrivial DEF content, history
<1> QED
    BY <1>2, <1>3, <1>4, OutsideKeeps

\* A worker takes a job, or a batch.
LEMMA TakeStep ==
    ASSUME RInv, NEW w \in Workers, Take(w)
    PROVE  RInv'
<1>1. TypeOK /\ Known
    BY DEF RInv
<1>2. ASSUME NEW j \in Jobs, StartJob(w, j) PROVE RInv'
    <2>1. left' \in [ticks : Nat, tasks : Nat, requests : Nat, moves : Nat, faults : Nat]
        BY <1>1, <1>2, DeliverType DEF StartJob
    <2>2. CASE AlreadyEnded(j)
        <3>1. Acked(j) /\ UNCHANGED <<now, content, worker, job, tried, lost, mailing, history>>
            BY <1>2, <2>2 DEF StartJob, history
        <3> QED
            BY <2>1, <3>1, AckedKeeps
    <2>3. CASE ~AlreadyEnded(j)
        <3>1. job[j].row \in Rows
            BY <1>1, <2>3 DEF Known, AlreadyEnded
        <3>2. /\ Begin(w, j, job[j].row)
              /\ UNCHANGED <<now, content, rerun, job, queue, lost, tried, mailing>>
            BY <1>2, <2>3 DEF StartJob
        <3>3. j \in Attempts
            BY DEF Attempts
        <3> QED
            BY <2>1, <3>1, <3>2, <3>3, BeginStep
    <2> QED
        BY <2>2, <2>3
<1>3. ASSUME NEW r \in Scheduled, StartBatch(w, r) PROVE RInv'
    <2>1. left' \in [ticks : Nat, tasks : Nat, requests : Nat, moves : Nat, faults : Nat]
        BY <1>1, <1>3, DeliverType DEF StartBatch
    <2>2. CASE Acked(r) /\ UNCHANGED <<worker, overlapped, stale>>
        <3>1. UNCHANGED <<now, content, worker, job, tried, lost, mailing, history>>
            BY <1>3, <2>2 DEF StartBatch, history
        <3> QED
            BY <2>1, <2>2, <3>1, AckedKeeps
    <2>3. CASE Begin(w, r, r) /\ UNCHANGED queue
        <3>1. UNCHANGED <<now, content, rerun, job, queue, lost, tried, mailing>>
            BY <1>3, <2>3 DEF StartBatch
        <3>2. r \in Attempts /\ r \in Rows
            BY ReportsAssumption DEF Attempts
        <3> QED
            BY <2>1, <2>3, <3>1, <3>2, BeginStep
    <2> QED
        BY <1>3, <2>2, <2>3 DEF StartBatch
<1> QED
    BY <1>2, <1>3 DEF Take

\* Ops reruns a report from its stored answer, and may mail it again.
LEMMA RerunStep ==
    ASSUME RInv, NEW w \in Workers, NEW r \in Rows, Rerun(w, r)
    PROVE  RInv'
<1>1. PICK q : q = [Idle EXCEPT !.pc = "write", !.task = "rerun", !.row = r,
                                !.old = row[r], !.new = row[r]]
    OBVIOUS
<1>2. /\ Spend("requests") /\ row[r].inputs.body /\ Set(w, q) /\ rerun' = rerun \cup {r}
      /\ Noted(w, r, row[r].status = "failed")
      /\ UNCHANGED <<now, content, tasks, mailing>>
    BY <1>1 DEF Rerun
<1>3. TypeOK /\ row[r] \in Row
    BY DEF RInv, TypeOK
<1>4. /\ q \in Proc /\ q.pc = "write" /\ q.row = r /\ q.old = row[r] /\ q.new = row[r]
      /\ q.unmark = {} /\ q.hide = {} /\ q.task = "rerun"
    BY <1>1, <1>3, Blanks DEF Idle, Proc, Tasks
<1>5. q.task \in Repeats /\ q.task \notin Attempts
    BY <1>4, TaskNames DEF Repeats
<1>6. left' \in [ticks : Nat, tasks : Nat, requests : Nat, moves : Nat, faults : Nat]
    BY <1>2, <1>3, SpendType
<1>7. /\ UNCHANGED <<now, content, job, inbox, bounced, tried, lost, queue, polls, verified>>
      /\ cooling' \subseteq Addresses
    BY <1>2, <1>3 DEF tasks, mailing, TypeOK
<1>8. PICK old \in BOOLEAN : old = (row[r].status = "failed")
    OBVIOUS
<1>9. Noted(w, r, old)
    BY <1>2, <1>8
<1> QED
    BY <1>2, <1>4, <1>5, <1>6, <1>7, <1>8, <1>9, BeginsStored

\* Ops has a report written and mailed again (send_report_for_user).
LEMMA ResendStep ==
    ASSUME RInv, NEW w \in Workers, NEW r \in Rows, Resend(w, r)
    PROVE  RInv'
<1>1. PICK q : q = [Idle EXCEPT !.pc = "write", !.task = "resend", !.row = r, !.old = row[r],
                                !.new = [row[r] EXCEPT !.sent = NoSend],
                                !.lock = row[r].sent # NoSend, !.cool = Recipient]
    OBVIOUS
<1>2. /\ Spend("requests") /\ row[r].inputs.body /\ Set(w, q) /\ rerun' = rerun \cup {r}
      /\ Noted(w, r, row[r].status = "failed")
      /\ cooling' = cooling \cup ({Recipient} \ {None})
      /\ UNCHANGED <<now, content, tasks, verified, inbox, polls, bounced>>
    BY <1>1 DEF Resend
<1>3. TypeOK /\ row[r] \in Row /\ Recipient \in Addresses \cup {None}
    BY RecipientType DEF RInv, TypeOK
<1>4. PICK new : new = [row[r] EXCEPT !.sent = NoSend]
    OBVIOUS
<1>5. /\ new \in Row /\ new.inputs = row[r].inputs /\ new.start = row[r].start
      /\ new.end = row[r].end
    BY <1>3, <1>4, Blanks DEF Row
<1>6. q = [Idle EXCEPT !.pc = "write", !.task = "resend", !.row = r, !.old = row[r],
                       !.new = new, !.lock = row[r].sent # NoSend, !.cool = Recipient]
    BY <1>1, <1>4
<1>7. /\ q \in Proc /\ q.pc = "write" /\ q.row = r /\ q.old = row[r] /\ q.new = new
      /\ q.unmark = {} /\ q.hide = {} /\ q.task = "resend"
    BY <1>3, <1>5, <1>6, Blanks DEF Idle, Proc, Tasks
<1>8. q.task \in Repeats /\ q.task \notin Attempts
    BY <1>7, TaskNames DEF Repeats
<1>9. left' \in [ticks : Nat, tasks : Nat, requests : Nat, moves : Nat, faults : Nat]
    BY <1>2, <1>3, SpendType
<1>10. /\ UNCHANGED <<now, content, job, inbox, bounced, tried, lost, queue, polls, verified>>
       /\ cooling' \subseteq Addresses
    BY <1>2, <1>3 DEF tasks, TypeOK
<1>11. PICK old \in BOOLEAN : old = (row[r].status = "failed")
    OBVIOUS
<1>12. Noted(w, r, old)
    BY <1>2, <1>11
<1> QED
    BY <1>2, <1>5, <1>7, <1>8, <1>9, <1>10, <1>11, <1>12, BeginsStored

\* The session that another had made wait goes on, or finds the row inserted.
LEMMA ProceedStep ==
    ASSUME RInv, NEW w \in Workers, Proceed(w)
    PROVE  RInv'
<1>1. PICK p : p = worker[w]
    OBVIOUS
<1>2. /\ p.pc = "wait" /\ ~Held(w, p.row)
      /\ UNCHANGED <<now, content, tasks, mailing, history, left>>
    BY <1>1 DEF Proceed
<1>3. /\ TypeOK /\ p \in Proc /\ p.row \in Rows
      /\ Placed(p) /\ Opening(p) /\ WillLeaveNone(p) /\ Shaped(p.row) /\ Known
    BY <1>1, <1>2, WorkerIs DEF WorkerInv, RInv, RowInv
<1>4. p.task \in Attempts /\ p.row \in overlapped
    BY <1>2, <1>3 DEF Placed
<1>5. CASE Set(w, Ended(p, FALSE))
    <2>1. Ended(p, FALSE) \in Proc
        BY <1>3, EndedIs
    <2>2. /\ UNCHANGED <<now, content, overlapped, stale, rerun, job, inbox, bounced>>
          /\ UNCHANGED <<queue, lost, tried, verified, cooling, polls, left>>
        BY <1>2 DEF tasks, mailing, history
    <2>3. /\ TypeOK' /\ Still /\ Known' /\ worker'[w] = Ended(p, FALSE)
          /\ \A v \in Workers : v # w => worker'[v] = worker[v]
        BY <1>3, <1>5, <2>1, <2>2, RestTypes, SetsOne
    <2> QED
        BY <1>3, <2>3, EndedKeeps
<1>6. ASSUME ~(p.old.status = "none" /\ row[p.row].status # "none"),
             NEW gone \in {{}, MarksOf(p.row)}, Set(w, Opened([p EXCEPT !.unmark = gone]))
      PROVE  RInv'
    <2>1. PICK q : q = Opened([p EXCEPT !.unmark = gone])
        OBVIOUS
    <2>2. gone \in SUBSET News /\ gone \subseteq MarksOf(p.row)
        BY DEF MarksOf
    <2>3. /\ q \in Proc /\ q.pc = "write" /\ q.task = p.task /\ q.row = p.row /\ q.old = p.old
          /\ q.unmark = gone /\ q.hide = p.hide
          /\ q.new.start = p.new.start /\ q.new.end = p.new.end
          /\ q.new.inputs.news = Found(q)
        BY <1>3, <2>1, <2>2, OpenedIs
    <2>4. Set(w, q)
        BY <1>6, <2>1
    <2>5. /\ UNCHANGED <<now, content, overlapped, stale, rerun, job, inbox, bounced>>
          /\ UNCHANGED <<queue, lost, tried, verified, cooling, polls, left>>
        BY <1>2 DEF tasks, mailing, history
    <2>6. /\ TypeOK'
          /\ worker'[w] = q /\ \A v \in Workers : v # w => worker'[v] = worker[v]
        BY <1>3, <2>3, <2>4, <2>5, BeginsTypes DEF TypeOK
    <2>7. overlapped \subseteq stale
        BY <1>3 DEF Known
    <2>8. Enters(w, q)
        BY <1>3, <1>4, <2>3, <2>5, <2>6, <2>7 DEF Enters
    <2>9. Opening(q) /\ Behind(q)
        <3>1. Opening(q)
            BY <1>2, <1>3, <1>6, <2>3 DEF Opening, Shaped
        <3>2. Behind(q)
            BY <1>2, <1>3, <2>3 DEF WillLeaveNone, Behind
        <3> QED
            BY <3>1, <3>2
    <2>10. WorkerInv(worker[w])'
        BY <1>4, <2>2, <2>3, <2>5, <2>8, <2>9, OpenedKnows
    <2>11. \A v \in Workers : v # w /\ worker[v].pc \in AtWork =>
               /\ {worker[v].row, q.row} \subseteq stale'
               /\ worker[v].row = q.row => q.row \in overlapped'
        BY <1>1, <1>2, <1>4, <2>3, <2>5 DEF RInv, Apart, AtWork
    <2>12. \A v \in Workers : v # w => Apart(worker[v], worker[w])'
        BY <1>2, <2>2, <2>3, <2>8, <2>11, EntersApart
    <2> QED
        BY <2>6, <2>8, <2>10, <2>12, EntersKeeps
<1> QED
    BY <1>1, <1>5, <1>6 DEF Proceed

-----------------------------------------------------------------------------
(* An attempt, or a request of Ops, commits.                               *)

\* Worker w, which held p, commits: new is what it writes, shown is the news it
\* marks.
Commits(w, p, new, shown) ==
    /\ worker[w] = p /\ p.pc = "write" /\ new \in Row
    /\ new.start = p.new.start /\ new.end = p.new.end /\ new.status \in Done \cup {"failed"}
    /\ new.status = "failed" =>
           /\ p.task \in Attempts /\ shown = {}
           /\ new.inputs \in {p.new.inputs, NoInputs}
    /\ new.status = "skipped" =>
           /\ p.task \in Attempts /\ shown = {} /\ ~new.text.blocked
           /\ new.inputs = NoInputs /\ p.new.inputs.news = {}
    /\ new.status \in {"success", "needs_review"} =>
           /\ new.inputs = p.new.inputs
           /\ shown = IF p.task \in Attempts THEN p.new.inputs.news ELSE {}
    /\ new.status = "success" => ~new.text.blocked
    /\ new.status \in Done => new.text.n = written[p.row] + 1
    /\ row' = [row EXCEPT ![p.row] = Merged(p, @, new)]
    /\ marks' = MarkedBy(p, shown)
    /\ written' = [written EXCEPT ![p.row] = IF new.text.n > @ THEN new.text.n ELSE @]
    /\ worker'[w] \in Proc /\ \A v \in Workers : v # w => worker'[v] = worker[v]
    /\ worker' \in [Workers -> Proc]
    /\ worker'[w].row = p.row /\ worker'[w].unmark = {} /\ worker'[w].hide = {}
    /\ worker'[w].mail = NoSend /\ worker'[w].pc \in {"end", "load"}
    /\ worker'[w].pc = "load" => new.status \in Settled
    /\ UNCHANGED <<now, pool, tasks, mailing, history, left>>

\* What the worker knew, in one place.
LEMMA CommitterKnows ==
    ASSUME RInv, NEW w \in Workers, NEW p, NEW new, NEW shown, Commits(w, p, new, shown)
    PROVE  /\ TypeOK /\ Known /\ p \in Proc /\ p.row \in Rows /\ row[p.row] \in Row
           /\ p.old \in Row /\ new \in Row /\ written[p.row] \in Nat
           /\ Placed(p) /\ Opening(p) /\ Unchanged(p) /\ Reading(p) /\ MailsOne(p)
           /\ WillLeaveNone(p)
           /\ Shaped(p.row) /\ ShowsMarked(p.row) /\ Passed(p.row) /\ LeavesNone(p.row)
           /\ p.new.inputs.news \in SUBSET News
<1>1. worker[w] = p /\ p.pc = "write" /\ new \in Row
    BY DEF Commits
<1>2. /\ TypeOK /\ Known /\ p \in Proc /\ WorkerInv(p) /\ p.row \in Rows /\ row[p.row] \in Row
    BY <1>1, WorkerIs
<1>3. RowInv(p.row)
    BY <1>2 DEF RInv
<1>4. p.old \in Row /\ p.new.inputs.news \in SUBSET News /\ written[p.row] \in Nat
    BY <1>2 DEF Proc, Row, Inputs, TypeOK
<1> QED
    BY <1>1, <1>2, <1>3, <1>4 DEF WorkerInv, RowInv

\* The row that it leaves.  Its window is the one the worker had; if no other
\* attempt was at work on it, it is what the worker wrote.
LEMMA CommitRow ==
    ASSUME RInv, NEW w \in Workers, NEW p, NEW new, NEW shown, Commits(w, p, new, shown)
    PROVE  /\ row'[p.row] \in Row /\ row' \in [Rows -> Row]
           /\ \A r \in Rows : r # p.row => row'[r] = row[r] /\ written'[r] = written[r]
           /\ row'[p.row].start = p.new.start /\ row'[p.row].end = p.new.end
           /\ row[p.row].status # "none" =>
                 row[p.row].start = p.new.start /\ row[p.row].end = p.new.end
           /\ row'[p.row].status \in Done \cup {"failed"}
           /\ row'[p.row].status \in {new.status, row[p.row].status}
           /\ row'[p.row].inputs \in {new.inputs, row[p.row].inputs}
           /\ p.row \notin overlapped =>
                 /\ row'[p.row].status = new.status /\ row'[p.row].inputs = new.inputs
                 /\ row'[p.row].text = new.text
           /\ written' \in [Rows -> Nat] /\ written[p.row] <= written'[p.row]
           /\ new.status \in Done => written'[p.row] > 0
<1> DEFINE r == p.row
           cur == row[r]
<1>1. /\ TypeOK /\ p \in Proc /\ r \in Rows /\ cur \in Row /\ p.old \in Row /\ new \in Row
      /\ Opening(p) /\ Unchanged(p) /\ written[r] \in Nat /\ Shaped(r)
    BY CommitterKnows
<1>2. PICK m : m = Merged(p, cur, new)
    OBVIOUS
<1>3. /\ m \in Row
      /\ m.status = IF new.status = p.old.status THEN cur.status ELSE new.status
      /\ m.start = IF new.start = p.old.start THEN cur.start ELSE new.start
      /\ m.end = IF new.end = p.old.end THEN cur.end ELSE new.end
      /\ m.inputs = new.inputs \/ (m.inputs = cur.inputs /\ new.inputs = p.old.inputs)
      /\ m.text = IF new.text = p.old.text THEN cur.text ELSE new.text
    BY <1>1, <1>2, MergedIs
<1>4. row' = [row EXCEPT ![r] = m]
    BY <1>2 DEF Commits
<1>5. /\ row' \in [Rows -> Row] /\ row'[r] = m
      /\ \A s \in Rows : s # r => row'[s] = row[s]
    BY <1>1, <1>3, <1>4 DEF TypeOK
<1>6. /\ p.pc = "write" /\ new.start = p.new.start /\ new.end = p.new.end
      /\ new.status \in Done \cup {"failed"}
      /\ new.status \in Done => new.text.n = written[r] + 1
      /\ written' = [written EXCEPT ![r] = IF new.text.n > @ THEN new.text.n ELSE @]
    BY DEF Commits
<1>7. /\ m.start = p.new.start /\ m.end = p.new.end
      /\ cur.status # "none" => cur.start = p.new.start /\ cur.end = p.new.end
      /\ m.status \in Done \cup {"failed"}
      /\ r \notin overlapped => m.status = new.status /\ m.inputs = new.inputs /\ m.text = new.text
    <2>1. CASE p.old.status = "none"
        <3>1. p.old = NoRow /\ cur = NoRow
            BY <1>1, <1>6, <2>1 DEF Opening
        <3>2. /\ m.status = new.status /\ m.start = new.start /\ m.end = new.end
              /\ m.inputs = new.inputs /\ m.text = new.text /\ cur.status = "none"
            BY <1>3, <2>1, <3>1
        <3> QED
            BY <1>6, <3>2
    <2>2. CASE p.old.status # "none"
        <3>1. /\ cur.status # "none" /\ p.new.start = cur.start /\ p.new.end = cur.end
              /\ p.old.start = cur.start /\ p.old.end = cur.end
            BY <1>1, <1>6, <2>2 DEF Opening
        <3>2. r \notin overlapped => /\ cur.status = p.old.status /\ cur.inputs = p.old.inputs
                                     /\ cur.text = p.old.text
            BY <1>1, <1>6 DEF Unchanged
        <3>3. cur.status \in Done \cup {"failed"}
            BY <1>1, <3>1 DEF Row
        <3> QED
            BY <1>3, <1>6, <3>1, <3>2, <3>3
    <2> QED
        BY <2>1, <2>2
<1>8. new.text.n \in Nat
    BY <1>1 DEF Row, Texts
<1>9. /\ written' \in [Rows -> Nat] /\ written[r] <= written'[r]
      /\ \A s \in Rows : s # r => written'[s] = written[s]
      /\ new.status \in Done => written'[r] > 0
    BY <1>1, <1>6, <1>8 DEF TypeOK
<1>10. m.status \in {new.status, cur.status} /\ m.inputs \in {new.inputs, cur.inputs}
    BY <1>3
<1>11. row'[p.row] \in Row /\ row' \in [Rows -> Row]
    BY <1>3, <1>5
<1>12. \A s \in Rows : s # p.row => row'[s] = row[s] /\ written'[s] = written[s]
    BY <1>5, <1>9
<1>13. /\ row'[p.row].start = p.new.start /\ row'[p.row].end = p.new.end
       /\ row[p.row].status # "none" =>
             row[p.row].start = p.new.start /\ row[p.row].end = p.new.end
       /\ row'[p.row].status \in Done \cup {"failed"}
       /\ p.row \notin overlapped =>
             /\ row'[p.row].status = new.status /\ row'[p.row].inputs = new.inputs
             /\ row'[p.row].text = new.text
    BY <1>5, <1>7
<1>14. /\ row'[p.row].status \in {new.status, row[p.row].status}
       /\ row'[p.row].inputs \in {new.inputs, row[p.row].inputs}
    BY <1>5, <1>10
<1> QED
    BY <1>9, <1>11, <1>12, <1>13, <1>14

\* The marks that it leaves.
LEMMA CommitMarks ==
    ASSUME RInv, NEW w \in Workers, NEW p, NEW new, NEW shown, Commits(w, p, new, shown)
    PROVE  /\ marks' \in [News -> Rows \cup {None, Backfill}]
           /\ shown \in SUBSET p.new.inputs.news
           /\ \A n \in News :
                 /\ marks[n] # None /\ n \notin p.unmark => marks'[n] = marks[n]
                 /\ n \in p.hide \/ n \in shown => marks'[n] # None
                 /\ (marks[n] = None \/ n \in p.unmark) /\ n \in shown /\ n \notin p.hide =>
                       marks'[n] = p.row
                 /\ marks'[n] \in Rows =>
                       \/ marks'[n] = marks[n] /\ n \notin p.unmark
                       \/ marks'[n] = p.row /\ n \in shown
<1>1. TypeOK /\ p.row \in Rows
    BY CommitterKnows
<1>2. marks' = MarkedBy(p, shown) /\ shown \in SUBSET p.new.inputs.news
    BY DEF Commits, Done
<1>3. /\ None \notin Rows /\ Backfill \notin Rows \cup {None}
      /\ marks \in [News -> Rows \cup {None, Backfill}]
    BY <1>1, ReportsAssumption DEF TypeOK
<1>4. marks' \in [News -> Rows \cup {None, Backfill}]
    BY <1>1, <1>2, <1>3 DEF MarkedBy
<1> SUFFICES ASSUME NEW n \in News
             PROVE  /\ marks[n] # None /\ n \notin p.unmark => marks'[n] = marks[n]
                    /\ n \in p.hide \/ n \in shown => marks'[n] # None
                    /\ (marks[n] = None \/ n \in p.unmark) /\ n \in shown /\ n \notin p.hide =>
                          marks'[n] = p.row
                    /\ marks'[n] \in Rows =>
                          \/ marks'[n] = marks[n] /\ n \notin p.unmark
                          \/ marks'[n] = p.row /\ n \in shown
    BY <1>2, <1>4
<1>5. CASE marks[n] # None /\ n \notin p.unmark
    <2>1. marks'[n] = marks[n]
        BY <1>2, <1>5 DEF MarkedBy
    <2> QED
        BY <1>5, <2>1
<1>6. CASE ~(marks[n] # None /\ n \notin p.unmark) /\ n \in p.hide
    BY <1>1, <1>2, <1>3, <1>6 DEF MarkedBy
<1>7. CASE ~(marks[n] # None /\ n \notin p.unmark) /\ n \notin p.hide /\ n \in shown
    BY <1>1, <1>2, <1>3, <1>7 DEF MarkedBy
<1>8. CASE ~(marks[n] # None /\ n \notin p.unmark) /\ n \notin p.hide /\ n \notin shown
    BY <1>1, <1>2, <1>3, <1>8 DEF MarkedBy
<1> QED
    BY <1>5, <1>6, <1>7, <1>8

\* While no other attempt has been at work on the row, nobody else writes it.
LEMMA CommitAlone ==
    ASSUME RInv, NEW w \in Workers, NEW p, NEW new, NEW shown, Commits(w, p, new, shown),
           NEW v \in Workers, v # w
    PROVE  /\ worker[v].pc \in AtWork =>
                 /\ {worker[v].row, p.row} \subseteq stale
                 /\ worker[v].row = p.row => p.row \in overlapped
           /\ worker[v].pc = "write" /\ worker[v].row = p.row =>
                 worker[v].old.status # "none" \/ p.old.status # "none"
           /\ worker[v].unmark \cap p.unmark = {}
<1>1. worker[w] = p /\ p.pc = "write"
    BY DEF Commits
<1>2. Apart(worker[v], p)
    BY <1>1 DEF RInv
<1> QED
    BY <1>1, <1>2 DEF Apart, AtWork

\* The news that a worker has read is provided for when it commits, unless the
\* report fails that had never been written.
LEMMA ReadProvided ==
    ASSUME RInv, NEW w \in Workers, NEW p, NEW new, NEW shown, Commits(w, p, new, shown),
           NEW n \in News, n \in p.new.inputs.news,
           p.row \in overlapped \/ new.status # "failed" \/ written[p.row] > 0
    PROVE  Provided(n)'
<1> DEFINE r == p.row
<1>1. /\ r \in Rows /\ Reading(p) /\ Placed(p) /\ p.pc = "write" /\ written[r] \in Nat
      /\ written'[r] \in Nat
    <2>1. p.pc = "write"
        BY DEF Commits
    <2>2. r \in Rows /\ Reading(p) /\ Placed(p) /\ written[r] \in Nat
        BY CommitterKnows
    <2>3. written' \in [Rows -> Nat]
        BY CommitRow
    <2> QED
        BY <2>1, <2>2, <2>3
<1>2. Selectable(n, p.new.start, p.new.end)
    BY <1>1 DEF Reading, Covers
<1>3. /\ row'[r].start = p.new.start /\ row'[r].end = p.new.end
      /\ row'[r].status \in Done \cup {"failed"}
      /\ r \notin overlapped => row'[r].status = new.status /\ row'[r].inputs = new.inputs
      /\ written[r] <= written'[r]
    BY CommitRow
<1>4. overlapped' = overlapped
    BY DEF Commits, history
<1>5. CASE r \in overlapped
    <2>1. Blurred(r, n)'
        BY <1>2, <1>3, <1>4, <1>5 DEF Blurred, Selectable, Done
    <2> QED
        BY <1>1, <2>1 DEF Provided
<1>6. CASE r \notin overlapped
    <2>1. Stands(r, n)'
        <3>1. SUFFICES ASSUME NEW v \in Workers, worker'[v].pc = "write", worker'[v].row = r
                       PROVE  FALSE
            BY DEF Stands
        <3>2. v # w
            BY <3>1 DEF Commits
        <3>3. worker'[v] = worker[v]
            BY <3>2 DEF Commits
        <3> QED
            BY <1>6, <3>1, <3>2, <3>3, CommitAlone DEF AtWork
    <2>2. CASE new.status = "failed"
        <3>1. new.inputs \in {p.new.inputs, NoInputs} /\ ~NoInputs.body /\ written'[r] > 0
            BY <1>1, <1>3, <1>6, <2>2 DEF Commits, NoInputs
        <3>2. Holds(r, n)'
            BY <1>2, <1>3, <1>6, <2>2, <3>1 DEF Holds, Selectable
        <3> QED
            BY <1>1, <2>1, <3>2 DEF Provided
    <2>3. CASE new.status \in Done
        <3>1. new.inputs = p.new.inputs
            BY <2>3 DEF Commits, Done
        <3>2. Holds(r, n)'
            BY <1>3, <1>6, <2>3, <3>1 DEF Holds
        <3> QED
            BY <1>1, <2>1, <3>2 DEF Provided
    <2> QED
        BY <1>3, <1>6, <2>2, <2>3
<1> QED
    BY <1>5, <1>6

\* What is provided for stays so, and what the worker backfills is.
LEMMA CommitProvided ==
    ASSUME RInv, NEW w \in Workers, NEW p, NEW new, NEW shown, Commits(w, p, new, shown),
           NEW n \in News, Provided(n) \/ n \in p.hide
    PROVE  Provided(n)'
<1> DEFINE r == p.row
<1>1. /\ r \in Rows /\ Reading(p) /\ Placed(p) /\ p.pc = "write" /\ Shaped(r)
      /\ written[r] \in Nat
    BY CommitterKnows, ZenonT(60) DEF Commits
<1>2. /\ marks[n] # None /\ n \notin p.unmark => marks'[n] # None
      /\ n \in p.hide \/ n \in shown => marks'[n] # None
    BY CommitMarks
<1>3. CASE n \in p.hide
    BY <1>2, <1>3 DEF Provided
<1>4. CASE marks[n] # None
    <2>1. CASE n \notin p.unmark
        BY <1>2, <1>4, <2>1 DEF Provided
    <2>2. CASE n \in p.unmark
        <3>1. marks[n] = r /\ n \in p.new.inputs.news
            BY <1>1, <2>2 DEF Reading
        <3>2. written[r] > 0
            BY <1>1, <3>1 DEF RInv, Marked
        <3> QED
            BY <3>1, <3>2, ReadProvided
    <2> QED
        BY <2>1, <2>2
<1>5. ASSUME NEW s \in Rows, Blurred(s, n) PROVE Provided(n)'
    <2>1. Blurred(s, n)'
        <3>1. overlapped' = overlapped
            BY DEF Commits, history
        <3>2. CASE s # r
            <4>1. row'[s] = row[s]
                BY <3>2, CommitRow
            <4> QED
                BY <1>5, <3>1, <4>1 DEF Blurred, Selectable
        <3>3. CASE s = r
            <4>1. /\ row'[r].start = p.new.start /\ row'[r].end = p.new.end
                  /\ row[r].status # "none" =>
                         row[r].start = p.new.start /\ row[r].end = p.new.end
                  /\ row'[r].status \in Done \cup {"failed"}
                BY CommitRow
            <4> QED
                BY <1>5, <3>1, <3>3, <4>1 DEF Blurred, Selectable, Done
        <3> QED
            BY <3>2, <3>3
    <2> QED
        BY <2>1 DEF Provided
<1>6. ASSUME NEW s \in Rows, Holds(s, n), Stands(s, n) PROVE Provided(n)'
    <2>1. CASE s # r
        <3>1. row'[s] = row[s] /\ written'[s] = written[s]
            BY <2>1, CommitRow
        <3>2. Holds(s, n)'
            BY <1>6, <3>1 DEF Holds, Selectable
        <3>3. Stands(s, n)'
            BY <1>6, <2>1 DEF Stands, Commits
        <3> QED
            BY <3>2, <3>3 DEF Provided
    <2>2. CASE s = r
        <3>1. n \in p.new.inputs.news
            BY <1>6, <2>2 DEF Stands, Commits
        <3>2. written[r] > 0
            BY <1>1, <1>6, <2>2 DEF Holds, Shaped
        <3> QED
            BY <3>1, <3>2, ReadProvided
    <2> QED
        BY <2>1, <2>2
<1> QED
    BY <1>3, <1>4, <1>5, <1>6 DEF Provided

\* The other workers know what they knew.
LEMMA CommitOthers ==
    ASSUME RInv, NEW w \in Workers, NEW p, NEW new, NEW shown, Commits(w, p, new, shown),
           NEW v \in Workers, v # w
    PROVE  WorkerInv(worker[v])'
<1> DEFINE r == p.row
<1>1. PICK u : u = worker[v]
    OBVIOUS
<1>2. /\ Placed(u) /\ Opening(u) /\ Unchanged(u) /\ Reading(u)
      /\ MailsPassed(u) /\ MailsOne(u) /\ WillLeaveNone(u)
    BY <1>1 DEF RInv, WorkerInv
<1>3. /\ worker'[v] = u /\ now' = now /\ pool' = pool /\ overlapped' = overlapped
      /\ stale' = stale /\ rerun' = rerun
    BY <1>1 DEF Commits, history
<1>4. /\ u.pc \in AtWork => /\ {u.row, r} \subseteq stale
                            /\ u.row = r => r \in overlapped
      /\ u.pc = "write" /\ u.row = r => u.old.status # "none" \/ p.old.status # "none"
      /\ u.unmark \cap p.unmark = {}
    BY <1>1, CommitAlone
<1>5. /\ \A s \in Rows : s # r => row'[s] = row[s]
      /\ row'[r].start = p.new.start /\ row'[r].end = p.new.end
      /\ row[r].status # "none" => row[r].start = p.new.start /\ row[r].end = p.new.end
      /\ row'[r].status # "none"
    BY CommitRow DEF Done
<1>6. /\ r \in Rows /\ Opening(p) /\ MailsOne(p) /\ Unchanged(p) /\ p.pc = "write"
    BY CommitterKnows, ZenonT(60) DEF Commits
<1>7. u.pc # "idle" => u.row \in Rows
    BY <1>2 DEF Placed
<1>8. u.row # r /\ u.pc # "idle" => row'[u.row] = row[u.row]
    BY <1>5, <1>7
<1> HIDE DEF r
<1>9. Placed(worker[v])'
    BY <1>2, <1>3, <1>5, <1>8 DEF Placed
<1>10. Opening(worker[v])'
    <2>1. CASE u.row # r
        BY <1>2, <1>3, <1>8, <2>1 DEF Opening
    <2>2. CASE u.row = r /\ u.old.status # "none"
        BY <1>2, <1>3, <1>5, <2>2 DEF Opening
    <2>3. CASE u.row = r /\ u.old.status = "none" /\ u.pc # "write"
        BY <1>2, <1>3, <2>3 DEF Opening
    <2>4. CASE u.row = r /\ u.old.status = "none" /\ u.pc = "write"
        <3>1. row[r] = NoRow
            BY <1>2, <2>4 DEF Opening
        <3>2. row[r].status # "none"
            BY <1>4, <1>6, <2>4 DEF Opening, r
        <3> QED
            BY <3>1, <3>2 DEF NoRow
    <2> QED
        BY <2>1, <2>2, <2>3, <2>4
<1>11. Unchanged(worker[v])'
    BY <1>2, <1>3, <1>4, <1>8 DEF Unchanged, AtWork
<1>12. Reading(worker[v])'
    <2>1. CASE u.pc = "write"
        <3>1. \A n \in u.new.inputs.news : Covers(n, u.new)'
            BY <1>2, <1>3, <2>1 DEF Reading, Covers, Selectable
        <3>2. \A n \in u.unmark : marks'[n] = u.row /\ n \in u.new.inputs.news
            <4>1. SUFFICES ASSUME NEW n \in u.unmark PROVE marks'[n] = u.row
                BY <1>2, <2>1 DEF Reading
            <4>2. marks[n] = u.row /\ u.row \in Rows /\ n \notin p.unmark /\ u \in Proc
                BY <1>1, <1>2, <1>4, <1>7, <2>1, WorkerIs DEF Reading
            <4>3. n \in News /\ marks[n] # None
                BY <4>2, ReportsAssumption DEF Proc
            <4> QED
                BY <4>2, <4>3, CommitMarks
        <3>3. u.task \in Attempts /\ u.row \notin overlapped => MarksOf(u.row)' \subseteq u.unmark
            <4>1. SUFFICES ASSUME u.task \in Attempts, u.row \notin overlapped, NEW n \in News,
                                  marks'[n] = u.row
                           PROVE  n \in u.unmark
                BY <1>3 DEF MarksOf
            <4>2. u.row # r /\ u.row \in Rows
                BY <1>4, <1>7, <2>1, <4>1 DEF AtWork
            <4>3. marks[n] = u.row
                BY <4>1, <4>2, CommitMarks DEF r
            <4> QED
                BY <1>2, <2>1, <4>1, <4>3 DEF Reading, MarksOf
        <3>4. u.row \in stale
            BY <1>4, <2>1 DEF AtWork
        <3> QED
            BY <1>2, <1>3, <2>1, <3>1, <3>2, <3>3, <3>4 DEF Reading, Covers, Selectable
    <2>2. CASE u.pc # "write"
        BY <1>3, <2>2 DEF Reading
    <2> QED
        BY <2>1, <2>2
<1>13. MailsPassed(worker[v])'
    BY <1>2, <1>3, <1>4, <1>8 DEF MailsPassed, AtWork
<1>14. MailsOne(worker[v])'
    <2>1. CASE u.row # r
        BY <1>2, <1>3, <1>8, <2>1 DEF MailsOne, Stays
    <2>2. CASE u.row = r /\ u.pc \in AtWork
        BY <1>3, <1>4, <2>2 DEF MailsOne, AtWork
    <2>3. CASE u.row = r /\ u.pc \notin AtWork
        <3>1. r \notin overlapped \cup rerun => row[r].status \notin Settled
            BY <1>6 DEF MailsOne, Unchanged, r
        <3> QED
            BY <1>2, <1>3, <2>3, <3>1 DEF MailsOne, Stays, AtWork
    <2> QED
        BY <2>1, <2>2, <2>3
<1>15. WillLeaveNone(worker[v])'
    <2>1. \A n \in News : Provided(n) => Provided(n)'
        BY CommitProvided
    <2> QED
        BY <1>2, <1>3, <2>1 DEF WillLeaveNone, Past
<1> QED
    BY <1>9, <1>10, <1>11, <1>12, <1>13, <1>14, <1>15 DEF WorkerInv

\* The worker has nothing left but to mail what it wrote.
LEMMA CommitSelf ==
    ASSUME RInv, NEW w \in Workers, NEW p, NEW new, NEW shown, Commits(w, p, new, shown)
    PROVE  WorkerInv(worker[w])'
<1>1. PICK q : q = worker'[w]
    OBVIOUS
<1>2. /\ q.row = p.row /\ q.unmark = {} /\ q.hide = {} /\ q.mail = NoSend
      /\ q.pc \in {"end", "load"}
      /\ q.pc = "load" => new.status \in Settled
      /\ overlapped' = overlapped /\ rerun' = rerun
    BY <1>1 DEF Commits, history
<1>3. /\ p.row \in Rows
      /\ row'[p.row].status \in Done \cup {"failed"}
      /\ p.row \notin overlapped => row'[p.row].status = new.status /\ row'[p.row].text = new.text
    BY CommitterKnows, CommitRow
<1>4. new.status \in Settled => ~new.text.blocked
    BY DEF Commits, Settled
<1>5. Placed(worker[w])'
    BY <1>1, <1>2, <1>3 DEF Placed, Done
<1>6. Opening(worker[w])' /\ Unchanged(worker[w])' /\ Reading(worker[w])' /\ WillLeaveNone(worker[w])'
    BY <1>1, <1>2 DEF Opening, Unchanged, Reading, WillLeaveNone
<1>7. MailsPassed(worker[w])' /\ MailsOne(worker[w])'
    BY <1>1, <1>2, <1>3, <1>4 DEF MailsPassed, MailsOne
<1> QED
    BY <1>5, <1>6, <1>7 DEF WorkerInv

\* The workers stay apart.
LEMMA CommitApart ==
    ASSUME RInv, NEW w \in Workers, NEW p, NEW new, NEW shown, Commits(w, p, new, shown),
           NEW u \in Workers, NEW v \in Workers, u # v
    PROVE  Apart(worker[u], worker[v])'
<1>1. /\ overlapped' = overlapped /\ stale' = stale
      /\ worker'[w].row = p.row /\ worker'[w].unmark = {} /\ worker'[w].pc \in {"end", "load"}
      /\ \A x \in Workers : x # w => worker'[x] = worker[x]
    BY DEF Commits, history
<1>2. CASE u = w
    <2>1. worker[v].pc \in AtWork => /\ {worker[v].row, p.row} \subseteq stale
                                     /\ worker[v].row = p.row => p.row \in overlapped
        BY <1>2, CommitAlone
    <2> QED
        BY <1>1, <1>2, <2>1 DEF Apart
<1>3. CASE v = w
    <2>1. worker[u].pc \in AtWork => /\ {worker[u].row, p.row} \subseteq stale
                                     /\ worker[u].row = p.row => p.row \in overlapped
        BY <1>3, CommitAlone
    <2> QED
        BY <1>1, <1>3, <2>1 DEF Apart
<1>4. CASE u # w /\ v # w
    <2>1. Apart(worker[u], worker[v])
        BY DEF RInv
    <2> QED
        BY <1>1, <1>4, <2>1 DEF Apart
<1> QED
    BY <1>2, <1>3, <1>4

\* A mark is of a report that was written.
LEMMA CommitMarked ==
    ASSUME RInv, NEW w \in Workers, NEW p, NEW new, NEW shown, Commits(w, p, new, shown),
           NEW n \in News
    PROVE  Marked(n)'
<1> DEFINE r == p.row
<1>1. SUFFICES ASSUME marks'[n] \in Rows PROVE Marked(n)'
    BY DEF Marked
<1>2. \/ marks'[n] = marks[n] /\ n \notin p.unmark
      \/ marks'[n] = r /\ n \in shown
    BY <1>1, CommitMarks
<1>3. Marked(n) /\ r \in Rows /\ Reading(p) /\ written[r] \in Nat
    BY CommitterKnows DEF RInv
<1>4. /\ p.pc = "write" /\ pool' = pool /\ overlapped' = overlapped
      /\ new.status = "failed" => p.task \in Attempts /\ shown = {}
      /\ new.status \in Done \cup {"failed"}
    BY DEF Commits, history
<1>5. /\ \A s \in Rows : s # r => row'[s] = row[s] /\ written'[s] = written[s]
      /\ row'[r].start = p.new.start /\ row'[r].end = p.new.end
      /\ row[r].status # "none" => row[r].start = p.new.start /\ row[r].end = p.new.end
      /\ row'[r].status \in Done \cup {"failed"}
      /\ r \notin overlapped => row'[r].status = new.status
      /\ written' \in [Rows -> Nat] /\ written[r] <= written'[r]
      /\ new.status \in Done => written'[r] > 0
    BY CommitRow
<1>6. CASE marks'[n] # r
    BY <1>1, <1>2, <1>3, <1>4, <1>5, <1>6 DEF Marked, Covers, Selectable
<1>7. CASE marks'[n] = r /\ marks[n] = r /\ n \notin p.unmark
    <2>1. /\ Covers(n, row[r]) /\ row[r].status # "none" /\ written[r] > 0
        BY <1>3, <1>7 DEF Marked
    <2>2. Covers(n, row[r])'
        BY <1>4, <1>5, <2>1 DEF Covers, Selectable
    <2>3. written'[r] > 0
        BY <1>3, <1>5, <2>1
    <2>4. r \notin overlapped => new.status # "failed"
        BY <1>3, <1>4, <1>7 DEF Reading, MarksOf
    <2>5. row'[r].status # "none" /\ (r \notin overlapped => row'[r].status \in Done)
        BY <1>4, <1>5, <2>4 DEF Done
    <2> QED
        BY <1>4, <1>7, <2>2, <2>3, <2>5 DEF Marked
<1>8. CASE marks'[n] = r /\ n \in shown
    <2>1. n \in p.new.inputs.news /\ new.status \in Done
        BY <1>4, <1>8, CommitMarks
    <2>2. Covers(n, row[r])'
        BY <1>3, <1>4, <1>5, <2>1 DEF Reading, Covers, Selectable
    <2>3. row'[r].status # "none" /\ (r \notin overlapped => row'[r].status \in Done)
        BY <1>5, <2>1 DEF Done
    <2> QED
        BY <1>4, <1>5, <1>8, <2>1, <2>2, <2>3 DEF Marked
<1> QED
    BY <1>2, <1>6, <1>7, <1>8

\* The other rows say what they said.
LEMMA CommitOtherRows ==
    ASSUME RInv, NEW w \in Workers, NEW p, NEW new, NEW shown, Commits(w, p, new, shown),
           NEW s \in Rows, s # p.row
    PROVE  RowInv(s)'
<1>1. Shaped(s) /\ ShowsMarked(s) /\ Passed(s) /\ LeavesNone(s)
    BY DEF RInv, RowInv
<1>2. row'[s] = row[s] /\ written'[s] = written[s]
    BY CommitRow
<1>3. /\ now' = now /\ pool' = pool /\ overlapped' = overlapped /\ stale' = stale
      /\ p.pc = "write"
    BY DEF Commits, history
<1>4. Shaped(s)' /\ Passed(s)'
    BY <1>1, <1>2, <1>3 DEF Shaped, Passed, Covers, Selectable
<1>5. ShowsMarked(s)'
    <2>1. SUFFICES ASSUME s \notin stale, row[s].status \in Done, NEW n \in row[s].inputs.news
                   PROVE  marks'[n] = s
        BY <1>2, <1>3 DEF ShowsMarked
    <2>2. marks[n] = s /\ n \in News
        BY <1>1, <2>1 DEF ShowsMarked, RInv, TypeOK, Row, Inputs
    <2>3. n \notin p.unmark
        BY <1>3, <2>2, CommitterKnows DEF Reading
    <2> QED
        BY <2>2, <2>3, CommitMarks, ReportsAssumption
<1>6. LeavesNone(s)'
    <2>1. \A n \in News : Provided(n) => Provided(n)'
        BY CommitProvided
    <2> QED
        BY <1>1, <1>2, <1>3, <2>1 DEF LeavesNone, Past
<1> QED
    BY <1>4, <1>5, <1>6 DEF RowInv

\* The row of the worker says what it should.
LEMMA CommitOwnRow ==
    ASSUME RInv, NEW w \in Workers, NEW p, NEW new, NEW shown, Commits(w, p, new, shown),
           NEW r, r = p.row
    PROVE  RowInv(r)'
<1>1. /\ r \in Rows /\ row[r] \in Row /\ written[r] \in Nat /\ TypeOK /\ Known
      /\ Placed(p) /\ Opening(p) /\ Unchanged(p) /\ Reading(p) /\ WillLeaveNone(p)
      /\ Shaped(r) /\ ShowsMarked(r) /\ Passed(r) /\ LeavesNone(r)
    BY CommitterKnows
<1>2. /\ p.pc = "write" /\ new.status \in Done \cup {"failed"}
      /\ now' = now /\ pool' = pool /\ overlapped' = overlapped /\ stale' = stale
      /\ new.status = "success" => ~new.text.blocked
      /\ new.inputs \in {p.new.inputs, NoInputs}
    BY DEF Commits, history, Done
<1>3. /\ row'[r] \in Row /\ row'[r].start = p.new.start /\ row'[r].end = p.new.end
      /\ row[r].status # "none" => row[r].start = p.new.start /\ row[r].end = p.new.end
      /\ row'[r].status \in Done \cup {"failed"}
      /\ row'[r].status \in {new.status, row[r].status}
      /\ row'[r].inputs \in {new.inputs, row[r].inputs}
      /\ r \notin overlapped => /\ row'[r].status = new.status /\ row'[r].inputs = new.inputs
                                /\ row'[r].text = new.text
      /\ written'[r] \in Nat /\ written[r] <= written'[r]
      /\ new.status \in Done => written'[r] > 0
    BY <1>1, CommitRow
<1>4. row[r].status = "none" => row[r].inputs = NoInputs
    BY <1>1 DEF Shaped, NoRow
<1>5. NoInputs.news = {} /\ ~NoInputs.body
    BY DEF NoInputs
<1>6. Shaped(r)'
    <2>1. p.new.start <= now /\ p.new.end <= now
        BY <1>1, <1>2 DEF Opening, Shaped
    <2>2. \A n \in p.new.inputs.news : Covers(n, row[r])'
        BY <1>1, <1>2, <1>3 DEF Reading, Covers, Selectable
    <2>3. \A n \in row[r].inputs.news : Covers(n, row[r])'
        BY <1>1, <1>2, <1>3, <1>4, <1>5 DEF Shaped, Covers, Selectable
    <2>4. \A n \in row'[r].inputs.news : Covers(n, row[r])'
        BY <1>2, <1>3, <1>5, <2>2, <2>3
    <2>5. row'[r].status \in Done => written'[r] > 0
        <3>1. row[r].status \in Done => written[r] > 0
            BY <1>1 DEF Shaped
        <3> QED
            BY <1>1, <1>3, <3>1
    <2> QED
        BY <1>2, <1>3, <2>1, <2>4, <2>5 DEF Shaped, Done
<1>7. Passed(r)'
    BY <1>2, <1>3 DEF Passed
<1>8. ShowsMarked(r)'
    <2>1. SUFFICES ASSUME r \notin stale, new.status \in Done, NEW n \in new.inputs.news
                   PROVE  marks'[n] = r
        BY <1>1, <1>2, <1>3 DEF ShowsMarked, Known
    <2>2. n \in p.new.inputs.news /\ n \in News /\ r \notin overlapped
        BY <1>1, <1>2, <1>5, <2>1, CommitterKnows DEF Known
    <2>3. p.task \in Attempts \cup Repeats
        BY <1>1, <1>2 DEF Placed
    <2>4. CASE p.task \in Attempts
        <3>1. n \in shown
            BY <2>1, <2>2, <2>4, <1>5 DEF Commits, Done
        <3>2. (marks[n] = None \/ n \in p.unmark) /\ n \notin p.hide
            BY <1>1, <1>2, <2>1, <2>2, <2>4 DEF Reading
        <3> QED
            BY <2>2, <3>1, <3>2, CommitMarks
    <2>5. CASE p.task \in Repeats
        <3>1. p.new.inputs = p.old.inputs /\ p.old.status \in Done /\ p.unmark = {}
            BY <1>1, <1>2, <2>1, <2>5, TaskNames DEF Reading, Placed
        <3>2. row[r].inputs = p.old.inputs /\ row[r].status = p.old.status
            BY <1>1, <1>2, <2>2 DEF Unchanged
        <3>3. marks[n] = r
            BY <1>1, <2>1, <2>2, <3>1, <3>2 DEF ShowsMarked
        <3>4. r # None
            BY <1>1, ReportsAssumption
        <3> QED
            BY <2>2, <3>1, <3>3, <3>4, CommitMarks
    <2> QED
        BY <2>3, <2>4, <2>5
<1>9. LeavesNone(r)'
    <2> SUFFICES ASSUME NEW n \in News
                 PROVE  /\ Past(n, row[r].start)' => Provided(n)'
                        /\ row'[r].status \in Done /\ Past(n, row[r].end)' => Provided(n)'
                        /\ row'[r].inputs.body /\ n \notin row'[r].inputs.news
                              /\ Past(n, row[r].end)' => Provided(n)'
        BY DEF LeavesNone
    <2>1. /\ Past(n, row[r].start)' <=> Past(n, p.new.start)
          /\ Past(n, row[r].end)' <=> Past(n, p.new.end)
        BY <1>2, <1>3 DEF Past
    <2>2. /\ Past(n, p.new.start) => Provided(n) \/ n \in p.hide
          /\ n \notin p.new.inputs.news /\ Past(n, p.new.end) => Provided(n) \/ n \in p.hide
        BY <1>1, <1>2 DEF WillLeaveNone
    <2>3. Provided(n) \/ n \in p.hide => Provided(n)'
        BY CommitProvided
    <2>4. n \in p.new.inputs.news /\ (r \in overlapped \/ new.status # "failed") => Provided(n)'
        BY ReadProvided
    <2>5. row'[r].status \in Done => r \in overlapped \/ new.status # "failed"
        BY <1>3 DEF Done
    <2>6. ASSUME row'[r].inputs.body, n \notin row'[r].inputs.news, Past(n, p.new.end)
          PROVE  Provided(n)'
        <3>1. CASE row'[r].inputs = new.inputs
            BY <1>2, <1>5, <2>2, <2>3, <2>6, <3>1
        <3>2. CASE row'[r].inputs = row[r].inputs
            <4>1. row[r].end = p.new.end
                BY <1>3, <1>4, <1>5, <2>6, <3>2
            <4>2. Provided(n)
                BY <1>1, <2>6, <3>2, <4>1 DEF LeavesNone
            <4> QED
                BY <2>3, <4>2
        <3> QED
            BY <1>3, <3>1, <3>2
    <2> QED
        BY <2>1, <2>2, <2>3, <2>4, <2>5, <2>6
<1> QED
    BY <1>6, <1>7, <1>8, <1>9 DEF RowInv

\* A commit keeps the invariant.
LEMMA CommitKeeps ==
    ASSUME RInv, NEW w \in Workers, NEW p, NEW new, NEW shown, Commits(w, p, new, shown)
    PROVE  RInv'
<1>1. TypeOK'
    <2>1. TypeOK
        BY DEF RInv
    <2>2. /\ row' \in [Rows -> Row] /\ written' \in [Rows -> Nat]
          /\ marks' \in [News -> Rows \cup {None, Backfill}]
        BY CommitRow, CommitMarks
    <2>3. worker' \in [Workers -> Proc] /\ UNCHANGED <<now, pool, tasks, mailing, history, left>>
        BY DEF Commits
    <2> QED
        BY <2>1, <2>2, <2>3 DEF TypeOK, tasks, mailing, history
<1>2. Known'
    <2>1. Known /\ MailsOne(p) /\ Unchanged(p)
        BY CommitterKnows
    <2>2. UNCHANGED <<pool, job, inbox, bounced, overlapped, stale, rerun>> /\ p.pc = "write"
        BY DEF Commits, tasks, mailing, history
    <2>3. p.row \notin overlapped \cup rerun => row[p.row].status \notin Settled
        BY <2>1, <2>2 DEF MailsOne, Unchanged
    <2>4. \A s \in Rows : s # p.row => row'[s] = row[s]
        BY CommitRow
    <2>5. \A m \in inbox : m.row \in Rows
        BY DEF RInv, TypeOK
    <2>6. MailedOne'
        BY <2>1, <2>2, <2>3, <2>4, <2>5 DEF Known, MailedOne, Stays
    <2>7. BlockedNeverMailed'
        BY <2>1, <2>2 DEF Known, BlockedNeverMailed
    <2> QED
        BY <2>1, <2>2, <2>6, <2>7 DEF Known
<1>3. ASSUME NEW v \in Workers PROVE WorkerInv(worker[v])'
    <2>1. CASE v = w
        BY <2>1, CommitSelf
    <2>2. CASE v # w
        BY <2>2, CommitOthers
    <2> QED
        BY <2>1, <2>2
<1>4. ASSUME NEW u \in Workers, NEW v \in Workers, u # v PROVE Apart(worker[u], worker[v])'
    BY <1>4, CommitApart
<1>5. ASSUME NEW s \in Rows PROVE RowInv(s)'
    <2>1. CASE s = p.row
        BY <2>1, CommitOwnRow
    <2>2. CASE s # p.row
        BY <2>2, CommitOtherRows
    <2> QED
        BY <2>1, <2>2
<1>6. ASSUME NEW n \in News PROVE Marked(n)'
    BY CommitMarked
<1> QED
    BY <1>1, <1>2, <1>3, <1>4, <1>5, <1>6 DEF RInv

\* What a worker that has committed, or given up, is set to.
LEMMA SetsEnded ==
    ASSUME TypeOK, NEW w \in Workers, NEW p \in Proc, NEW q,
           Set(w, q), (\E ok \in BOOLEAN : q = Ended(p, ok)) \/ q = Committed(p)
    PROVE  /\ worker'[w] = q /\ worker'[w] \in Proc
           /\ \A v \in Workers : v # w => worker'[v] = worker[v]
           /\ worker' \in [Workers -> Proc]
           /\ worker'[w].row = p.row /\ worker'[w].unmark = {} /\ worker'[w].hide = {}
           /\ worker'[w].mail = NoSend /\ worker'[w].pc \in {"end", "load"}
           /\ worker'[w].pc = "load" => q = Committed(p)
<1>1. CASE \E ok \in BOOLEAN : q = Ended(p, ok)
    <2>1. PICK ok \in BOOLEAN : q = Ended(p, ok)
        BY <1>1
    <2>2. /\ q \in Proc /\ q.pc = "end" /\ q.row = p.row
          /\ q.unmark = {} /\ q.hide = {} /\ q.mail = NoSend
        BY <2>1, EndedIs
    <2> QED
        BY <2>2, SetOthers
<1>2. CASE q = Committed(p)
    <2>1. /\ q \in Proc /\ q.pc = "load" /\ q.row = p.row
          /\ q.unmark = {} /\ q.hide = {} /\ q.mail = NoSend
        BY <1>2, CommittedIs
    <2> QED
        BY <1>2, <2>1, SetOthers
<1> QED
    BY <1>1, <1>2

\* The number and the fate of a text that is written now.
LEMMA NewTextIs ==
    ASSUME TypeOK, NEW r \in Rows, NEW blocked \in BOOLEAN
    PROVE  /\ NewText(r, blocked) \in Texts /\ NewText(r, blocked).n = written[r] + 1
           /\ NewText(r, blocked).blocked = blocked
<1>1. written[r] \in Nat
    BY DEF TypeOK
<1> QED
    BY <1>1 DEF NewText, Texts

\* An attempt fails, with its answer or without.
LEMMA FailStep ==
    ASSUME RInv, NEW w \in Workers, Fail(w)
    PROVE  RInv'
<1>1. PICK p : p = worker[w]
    OBVIOUS
<1>2. /\ p.pc = "write" /\ p.task \in Jobs \cup Scheduled /\ Set(w, Ended(p, FALSE))
      /\ UNCHANGED <<now, pool, tasks, mailing, history, left>>
    BY <1>1 DEF Fail
<1>3. TypeOK /\ p \in Proc /\ p.row \in Rows
    BY <1>1, <1>2, WorkerIs
<1>4. PICK inputs \in {p.new.inputs, NoInputs} :
          Commit(w, [p.new EXCEPT !.status = "failed", !.inputs = inputs], {})
    BY <1>1 DEF Fail
<1>5. PICK new : new = [p.new EXCEPT !.status = "failed", !.inputs = inputs]
    OBVIOUS
<1>6. inputs \in Inputs /\ p.new \in Row
    BY <1>3, Blanks DEF Proc, Row
<1>7. /\ new \in Row /\ new.status = "failed" /\ new.inputs = inputs
      /\ new.start = p.new.start /\ new.end = p.new.end
    BY <1>5, <1>6 DEF Row
<1>8. Commit(w, new, {})
    BY <1>4, <1>5
<1>9. /\ worker'[w] \in Proc /\ \A v \in Workers : v # w => worker'[v] = worker[v]
      /\ worker' \in [Workers -> Proc]
      /\ worker'[w].row = p.row /\ worker'[w].unmark = {} /\ worker'[w].hide = {}
      /\ worker'[w].mail = NoSend /\ worker'[w].pc = "end"
    BY <1>2, <1>3, SetOthers, EndedIs
<1>10. Commits(w, p, new, {})
    BY <1>1, <1>2, <1>4, <1>7, <1>8, <1>9 DEF Commits, Commit, Attempts, Done
<1> QED
    BY <1>10, CommitKeeps

\* A quiet window is settled, and says so.
LEMMA SkipStep ==
    ASSUME RInv, NEW w \in Workers, Skip(w)
    PROVE  RInv'
<1>1. PICK p : p = worker[w]
    OBVIOUS
<1>2. /\ p.pc = "write" /\ p.task \in Jobs \cup Scheduled /\ p.new.inputs.news = {}
      /\ UNCHANGED <<now, pool, tasks, mailing, history, left>>
      /\ Set(w, Committed(p)) \/ Set(w, Ended(p, TRUE))
    BY <1>1 DEF Skip
<1>3. TypeOK /\ p \in Proc /\ p.row \in Rows
    BY <1>1, <1>2, WorkerIs
<1>4. PICK text : text = NewText(p.row, FALSE)
    OBVIOUS
<1>5. text \in Texts /\ text.n = written[p.row] + 1 /\ text.blocked = FALSE
    BY <1>3, <1>4, NewTextIs
<1>6. PICK new : new = [p.new EXCEPT !.status = "skipped", !.inputs = NoInputs, !.text = text]
    OBVIOUS
<1>7. /\ new \in Row /\ new.status = "skipped" /\ new.inputs = NoInputs /\ new.text = text
      /\ new.start = p.new.start /\ new.end = p.new.end
    <2>1. p.new \in Row
        BY <1>3 DEF Proc
    <2> QED
        BY <1>5, <1>6, <2>1, Blanks DEF Row, Done
<1>8. Commit(w, new, {})
    BY <1>1, <1>4, <1>6 DEF Skip
<1>9. /\ worker'[w] \in Proc /\ \A v \in Workers : v # w => worker'[v] = worker[v]
      /\ worker' \in [Workers -> Proc]
      /\ worker'[w].row = p.row /\ worker'[w].unmark = {} /\ worker'[w].hide = {}
      /\ worker'[w].mail = NoSend /\ worker'[w].pc \in {"end", "load"}
    BY <1>2, <1>3, SetsEnded
<1>10. Commits(w, p, new, {})
    BY <1>1, <1>2, <1>5, <1>7, <1>8, <1>9 DEF Commits, Commit, Attempts, Done, Settled
<1> QED
    BY <1>10, CommitKeeps

\* A report is finished, or held for review, with its marks.
LEMMA FinishStep ==
    ASSUME RInv, NEW w \in Workers, Finish(w)
    PROVE  RInv'
<1>1. PICK p : p = worker[w]
    OBVIOUS
<1>2. /\ p.pc = "write" /\ p.task \in Jobs \cup Scheduled
      /\ UNCHANGED <<now, pool, tasks, mailing, history, left>>
    BY <1>1 DEF Finish
<1>3. TypeOK /\ p \in Proc /\ p.row \in Rows /\ p.new.inputs \in Inputs
    BY <1>1, <1>2, WorkerIs DEF Proc, Row
<1>4. PICK blocked \in BOOLEAN :
          /\ Commit(w, [p.new EXCEPT !.status = IF blocked THEN "needs_review" ELSE "success",
                                     !.text = NewText(p.row, blocked)], Shown(p, blocked))
          /\ Set(w, AfterFinish(p, blocked))
    BY <1>1 DEF Finish
<1>5. PICK text : text = NewText(p.row, blocked)
    OBVIOUS
<1>6. text \in Texts /\ text.n = written[p.row] + 1 /\ text.blocked = blocked
    BY <1>3, <1>5, NewTextIs
<1>7. PICK status : status = IF blocked THEN "needs_review" ELSE "success"
    OBVIOUS
<1>8. status \in Done /\ (blocked <=> status = "needs_review") /\ (~blocked <=> status = "success")
    BY <1>7 DEF Done
<1>9. PICK new : new = [p.new EXCEPT !.status = status, !.text = text]
    OBVIOUS
<1>10. /\ new \in Row /\ new.status = status /\ new.inputs = p.new.inputs /\ new.text = text
       /\ new.start = p.new.start /\ new.end = p.new.end
    <2>1. p.new \in Row
        BY <1>3 DEF Proc
    <2> QED
        BY <1>6, <1>8, <1>9, <2>1 DEF Row
<1>11. Commit(w, new, p.new.inputs.news)
    BY <1>4, <1>5, <1>7, <1>9 DEF Shown
<1>12. PICK q : q = AfterFinish(p, blocked)
    OBVIOUS
<1>13. Set(w, q) /\ q = IF blocked THEN Ended(p, TRUE) ELSE Committed(p)
    BY <1>4, <1>12 DEF AfterFinish
<1>14. /\ worker'[w] \in Proc /\ \A v \in Workers : v # w => worker'[v] = worker[v]
       /\ worker' \in [Workers -> Proc]
       /\ worker'[w].row = p.row /\ worker'[w].unmark = {} /\ worker'[w].hide = {}
       /\ worker'[w].mail = NoSend /\ worker'[w].pc \in {"end", "load"}
       /\ worker'[w].pc = "load" => ~blocked
    <2>1. CASE blocked
        BY <1>3, <1>13, <2>1, SetOthers, EndedIs, ZenonT(60)
    <2>2. CASE ~blocked
        BY <1>3, <1>13, <2>2, SetOthers, CommittedIs
    <2> QED
        BY <2>1, <2>2
<1>15. Commits(w, p, new, p.new.inputs.news)
    BY <1>1, <1>2, <1>6, <1>8, <1>10, <1>11, <1>14
       DEF Commits, Commit, Attempts, Done, Settled
<1> QED
    BY <1>15, CommitKeeps

\* A report is written again for Ops, and marks nothing.
LEMMA RegenerateStep ==
    ASSUME RInv, NEW w \in Workers, Regenerate(w)
    PROVE  RInv'
<1>1. PICK p : p = worker[w]
    OBVIOUS
<1>2. /\ p.pc = "write" /\ p.task \in Repeats
      /\ UNCHANGED <<now, pool, tasks, mailing, history, left>>
    BY <1>1 DEF Regenerate
<1>3. TypeOK /\ p \in Proc /\ p.row \in Rows /\ p.new.inputs \in Inputs /\ p.task \notin Attempts
    BY <1>1, <1>2, WorkerIs, TaskNames DEF Proc, Row, Repeats
<1>4. PICK blocked \in BOOLEAN :
          /\ Commit(w, [p.new EXCEPT !.status = IF blocked THEN "needs_review" ELSE "success",
                                     !.text = NewText(p.row, blocked)], {})
          /\ Set(w, IF p.task = "resend" /\ ~blocked THEN Committed(p) ELSE Ended(p, TRUE))
    BY <1>1 DEF Regenerate
<1>5. PICK text : text = NewText(p.row, blocked)
    OBVIOUS
<1>6. text \in Texts /\ text.n = written[p.row] + 1 /\ text.blocked = blocked
    BY <1>3, <1>5, NewTextIs
<1>7. PICK status : status = IF blocked THEN "needs_review" ELSE "success"
    OBVIOUS
<1>8. status \in Done /\ (blocked <=> status = "needs_review") /\ (~blocked <=> status = "success")
    BY <1>7 DEF Done
<1>9. PICK new : new = [p.new EXCEPT !.status = status, !.text = text]
    OBVIOUS
<1>10. /\ new \in Row /\ new.status = status /\ new.inputs = p.new.inputs /\ new.text = text
       /\ new.start = p.new.start /\ new.end = p.new.end
    <2>1. p.new \in Row
        BY <1>3 DEF Proc
    <2> QED
        BY <1>6, <1>8, <1>9, <2>1 DEF Row
<1>11. Commit(w, new, {})
    BY <1>4, <1>5, <1>7, <1>9
<1>12. /\ worker'[w] \in Proc /\ \A v \in Workers : v # w => worker'[v] = worker[v]
       /\ worker' \in [Workers -> Proc]
       /\ worker'[w].row = p.row /\ worker'[w].unmark = {} /\ worker'[w].hide = {}
       /\ worker'[w].mail = NoSend /\ worker'[w].pc \in {"end", "load"}
       /\ worker'[w].pc = "load" => ~blocked
    <2>1. CASE Set(w, Ended(p, TRUE))
        <3>1. PICK q : q = Ended(p, TRUE)
            OBVIOUS
        <3>2. /\ q \in Proc /\ q.pc = "end" /\ q.row = p.row
              /\ q.unmark = {} /\ q.hide = {} /\ q.mail = NoSend
            BY <1>3, <3>1, EndedIs
        <3> QED
            BY <1>3, <2>1, <3>1, <3>2, SetOthers
    <2>2. CASE ~blocked /\ Set(w, Committed(p))
        BY <1>3, <2>2, SetOthers, CommittedIs
    <2> QED
        BY <1>4, <2>1, <2>2
<1>13. Commits(w, p, new, {})
    BY <1>1, <1>2, <1>3, <1>6, <1>8, <1>10, <1>11, <1>12 DEF Commits, Commit, Done, Settled
<1> QED
    BY <1>13, CommitKeeps

-----------------------------------------------------------------------------
(* The invariant holds, and what follows from it.                          *)

\* Nothing is written, marked or mailed at first.
LEMMA InitRInv == Init => RInv
<1> SUFFICES ASSUME Init PROVE RInv
    OBVIOUS
<1>1. TypeOK
    BY ReportsAssumption, Blanks DEF Init, TypeOK
<1>2. Known
    BY DEF Init, Known, MailedOne, BlockedNeverMailed
<1>3. ASSUME NEW w \in Workers PROVE WorkerInv(worker[w])
    <2>1. worker[w] = Idle
        BY DEF Init
    <2>2. Idle.pc = "idle" /\ Idle.unmark = {} /\ Idle.hide = {}
        BY DEF Idle
    <2> QED
        BY <2>1, <2>2 DEF WorkerInv, Placed, Opening, Unchanged, Reading, MailsPassed, MailsOne,
                          WillLeaveNone
<1>4. ASSUME NEW v \in Workers, NEW w \in Workers PROVE Apart(worker[v], worker[w])
    <2>1. worker[v] = Idle /\ worker[w] = Idle
        BY DEF Init
    <2> QED
        BY <2>1 DEF Apart, AtWork, Idle
<1>5. ASSUME NEW r \in Rows PROVE RowInv(r)
    <2>1. row[r] = NoRow /\ now = 0
        BY DEF Init
    <2>2. /\ NoRow.status = "none" /\ NoRow.start = 0 /\ NoRow.end = 0 /\ NoRow.inputs.news = {}
          /\ ~NoRow.inputs.body
        BY DEF NoRow, NoInputs
    <2> QED
        BY <2>1, <2>2 DEF RowInv, Shaped, ShowsMarked, Passed, LeavesNone, Done
<1>6. ASSUME NEW n \in News PROVE Marked(n)
    BY ReportsAssumption DEF Init, Marked
<1> QED
    BY <1>1, <1>2, <1>3, <1>4, <1>5, <1>6 DEF RInv

\* Every step keeps the invariant.
LEMMA NextRInv == RInv /\ [Next]_vars => RInv'
<1> SUFFICES ASSUME RInv, [Next]_vars PROVE RInv'
    OBVIOUS
<1>1. ASSUME NEW w \in Workers, Work(w) PROVE RInv'
    BY <1>1, ProceedStep, FailStep, SkipStep, FinishStep, LoadStep, PostStep, RecordStep,
       EndJobStep, EndBatchStep, EndingSteps, RegenerateStep DEF Work
<1>2. ASSUME NEW w \in Workers, Take(w) PROVE RInv'
    BY <1>2, TakeStep
<1>3. ASSUME Ops PROVE RInv'
    BY <1>3, OutsideSteps, RerunStep, ResendStep, SendStep DEF Ops
<1>4. ASSUME Faults PROVE RInv'
    BY <1>4, EndingSteps, MailUnconfirmedStep DEF Faults
<1>5. ASSUME \/ \E r \in Scheduled : Trigger(r)
             \/ \E a \in Addresses : Verify(a) \/ Unsubscribe(a)
             \/ \E r \in Rows : PollRead(r)
             \/ PollRevoke
      PROVE  RInv'
    BY <1>5, OutsideSteps
<1>6. ASSUME Tick \/ \E n \in News : Capture(n) PROVE RInv'
    BY <1>6, WorldSteps
<1>7. ASSUME UNCHANGED vars PROVE RInv'
    <2>1. /\ UNCHANGED <<now, pool, marks, row, written, overlapped, rerun, stale>>
          /\ UNCHANGED <<job, queue, tried, lost, verified, cooling, inbox, polls, bounced, left>>
          /\ worker' = worker
        BY <1>7 DEF vars, content, tasks, mailing, history
    <2>2. TypeOK /\ Known
        BY DEF RInv
    <2>3. TypeOK'
        BY <2>1, <2>2 DEF TypeOK
    <2>4. Known'
        BY <2>1, <2>2 DEF Known, MailedOne, Stays, BlockedNeverMailed
    <2>5. Still
        BY <2>1, <2>2, StillTrivial
    <2> QED
        BY <2>1, <2>3, <2>4, <2>5, OutsideKeeps
<1> QED
    BY <1>1, <1>2, <1>3, <1>4, <1>5, <1>6, <1>7 DEF Next

\* What workers, rows, marks and mails say together, always holds.
THEOREM ReportsInvariant == Spec => []RInv
    BY InitRInv, NextRInv, PTL DEF Spec

\* What is captured in time is not lost: the windows of all reports together
\* leave nothing behind (user_watermark, load_news_window).
THEOREM ReportsNothingSkipped == Spec => []NothingSkipped
<1>1. RInv => NothingSkipped
    <2> SUFFICES ASSUME RInv, NEW n \in pool, marks[n] = None,
                        ~\E r \in Rows : row[r].status \in Done /\ n \in row[r].inputs.news,
                        ~\E r \in Rows : /\ (row[r].status = "failed" /\ written[r] > 0) \/ r \in overlapped
                                         /\ Selectable(n, row[r].start, row[r].end),
                        NEW r \in Rows, row[r].status \in Done
                 PROVE  Published[n] > row[r].end - Late
        BY DEF NothingSkipped
    <2>1. n \in News
        BY DEF RInv, TypeOK
    <2>2. ~Provided(n)
        BY DEF Provided, Blurred, Holds
    <2>3. ~Past(n, row[r].end)
        BY <2>1, <2>2 DEF RInv, RowInv, LeavesNone
    <2>4. Published[n] \in Nat /\ Late \in Nat /\ row[r].end \in Int
        BY <2>1, Numbers DEF RInv
    <2> QED
        BY <2>3, <2>4 DEF Past
<1> QED
    BY <1>1, ReportsInvariant, PTL

\* The compliance filter's verdict holds for the mail (_finish_report,
\* send_report_email).
THEOREM ReportsBlockedNeverMailed == Spec => []BlockedNeverMailed
<1>1. RInv => BlockedNeverMailed
    BY DEF RInv, Known
<1> QED
    BY <1>1, ReportsInvariant, PTL

\* One text of a report is mailed, however often its message comes.
THEOREM ReportsOneTextMailed == Spec => []OneTextMailed
<1>1. RInv => OneTextMailed
    BY DEF RInv, Known, MailedOne, Stays, OneTextMailed
<1> QED
    BY <1>1, ReportsInvariant, PTL

\* News is shown once, and its mark names a report that is done
\* (mark_news_surfaced in the commit of _finish_report).
THEOREM ReportsNewsShownOnce == Spec => []NewsShownOnce
<1>1. RInv => NewsShownOnce
    <2> SUFFICES ASSUME RInv PROVE NewsShownOnce
        OBVIOUS
    <2>1. TypeOK
        BY DEF RInv
    <2>2. ShownOnce
        <3> SUFFICES ASSUME NEW r \in Rows \ stale, NEW q \in Rows \ stale, r # q,
                            row[r].status \in Done, row[q].status \in Done,
                            NEW n \in row[r].inputs.news, n \in row[q].inputs.news
                     PROVE  FALSE
            BY DEF ShownOnce
        <3>1. ShowsMarked(r) /\ ShowsMarked(q)
            BY DEF RInv, RowInv
        <3> QED
            BY <3>1 DEF ShowsMarked
    <2>3. MarksAreDone
        BY DEF MarksAreDone, RInv, Marked
    <2> QED
        BY <2>1, <2>2, <2>3 DEF NewsShownOnce
<1> QED
    BY <1>1, ReportsInvariant, PTL

\* A poll takes back no address but one that bounced (poll_report_delivery).
THEOREM ReportsOnlyBouncedRevoked == Spec => OnlyBouncedRevoked
<1>1. RInv /\ [Next]_vars => (bounced # None /\ bounced' = None => verified \ verified' \subseteq Bad)
    <2> SUFFICES ASSUME RInv, [Next]_vars, bounced # None, bounced' = None
                 PROVE  verified \ verified' \subseteq Bad
        OBVIOUS
    <2>1. bounced \in Bad
        BY DEF RInv, Known
    <2>2. CASE PollRevoke
        BY <2>1, <2>2 DEF PollRevoke, Revoked
    <2>3. CASE bounced' = bounced
        BY <2>3
    <2>4. PollRevoke \/ bounced' = bounced
        <3>1. ASSUME NEW w \in Workers, Work(w) PROVE bounced' = bounced
            BY <3>1 DEF Work, Proceed, Fail, Skip, Finish, Load, Post, Record, EndJob, EndBatch,
                        Regenerate, RegenerateFails, Answer, mailing
        <3>2. ASSUME NEW w \in Workers, Take(w) PROVE bounced' = bounced
            BY <3>2 DEF Take, StartJob, StartBatch, mailing
        <3>3. ASSUME Ops PROVE bounced' = bounced
            BY <3>3 DEF Ops, RequestJob, Rerun, Resend, Send, ExpireCooldown, mailing
        <3>4. ASSUME Faults PROVE bounced' = bounced
            BY <3>4 DEF Faults, Die, CommitFails, MailUnconfirmed, mailing
        <3>5. ASSUME NEW r \in Scheduled, Trigger(r) PROVE bounced' = bounced
            BY <3>5 DEF Trigger, mailing
        <3>6. ASSUME NEW a \in Addresses, Verify(a) \/ Unsubscribe(a) PROVE bounced' = bounced
            BY <3>6 DEF Verify, Unsubscribe
        <3>7. ASSUME NEW r \in Rows, PollRead(r) PROVE FALSE
            BY <3>7 DEF PollRead
        <3>8. ASSUME Tick \/ \E n \in News : Capture(n) PROVE bounced' = bounced
            BY <3>8 DEF Tick, Capture, mailing
        <3>9. ASSUME UNCHANGED vars PROVE bounced' = bounced
            BY <3>9 DEF vars, mailing
        <3> QED
            BY <3>1, <3>2, <3>3, <3>4, <3>5, <3>6, <3>7, <3>8, <3>9 DEF Next
    <2> QED
        BY <2>2, <2>3, <2>4
<1> QED
    BY <1>1, ReportsInvariant, PTL DEF Spec, OnlyBouncedRevoked

=============================================================================
