------------------------------ MODULE Reports ------------------------------
(***************************************************************************)
(* One user's reports: services/report_generator.py writes them from the   *)
(* news that was not shown yet, tasks/report_tasks.py starts it for the    *)
(* scheduled batch and for the jobs of Ops, services/email_sender.py mails *)
(* them, routers/admin.py reruns and resends them, and                     *)
(* tasks/report_delivery_tasks.py takes back an address that bounced.      *)
(*                                                                         *)
(* Each transaction, and each call of the mail service, is an action.  The *)
(* model call lies between the step that begins an attempt and the one     *)
(* that commits it.  Users share no row, so one user is enough; whether    *)
(* everybody else in a batch failed is left open.                          *)
(***************************************************************************)
EXTENDS Integers, FiniteSets

CONSTANTS
    Rows,           \* the keys (report_date, report_type, session_node)
    Scheduled,      \* the keys the batch writes; the others are manual
    Jobs,
    News,
    Published,      \* when each news item was published
    Addresses,
    Account,        \* the account's own address; the others are delivery ones
    Bad,            \* the addresses whose mail bounces
    None,           \* no address, no mark
    Backfill,       \* the mark of news that is too old to be shown
    Workers,        \* the processes: workers, and requests of Ops
    Late,           \* LATE_INGEST_WINDOW
    Cap,            \* WINDOW_MAX_DAYS
    MaxRetries,     \* the retries of the batch
    Budgets         \* bound: what may happen in a run besides the work itself

ASSUME ReportsAssumption ==
    /\ Scheduled \subseteq Rows /\ Jobs \cap Rows = {}
    /\ Published \in [News -> Nat]
    /\ Account \in Addresses /\ Bad \subseteq Addresses /\ None \notin Addresses
    /\ None \notin Rows /\ Backfill \notin Rows \cup {None}
    /\ {"resend", "rerun", "send", "idle"} \cap (Jobs \cup Rows) = {}
    /\ Late \in Nat /\ Cap \in Nat /\ MaxRetries \in Nat
    /\ Budgets \subseteq [ticks : Nat, tasks : Nat, requests : Nat, moves : Nat, faults : Nat]

VARIABLES
    now,
    pool,       \* the news captured so far
    marks,      \* news_surfaced: the report in which a news item was shown
    row,        \* the reports
    written,    \* how many texts each report has had
    job,        \* report_jobs
    queue,      \* the messages not yet acknowledged, each a job or a batch
    tried,      \* how often the batch of each scheduled key was started
    worker,     \* what each worker, or request of Ops, is doing
    verified,   \* the user's verified addresses
    cooling,    \* the addresses to which a resend was just asked for
    inbox,      \* what the mail service has accepted
    polls,      \* the reports whose delivery is still to be asked for
    bounced,    \* an address that a poll found undeliverable, or None
    left,       \* the ticks, tasks, requests of Ops, changes of address and faults left
    lost,       \* history: the jobs whose message was lost
    overlapped, \* history: the reports that two attempts wrote at once
    rerun,      \* history: the reports that Ops reran
    stale       \* history: the reports at work beside another attempt, or whose
                \* news was read long before they were written

content == <<pool, marks, row, written>>
tasks == <<job, queue, tried, lost>>
mailing == <<verified, cooling, inbox, polls, bounced>>
history == <<overlapped, rerun, stale>>
vars == <<now, content, tasks, worker, mailing, history, left>>

\* A text is known by its number; blocked: the compliance filter held it.
Texts == [n : Nat, blocked : BOOLEAN]
NoText == [n |-> 0, blocked |-> FALSE]
Sends == [text : Texts, to : Addresses \cup {None}]
NoSend == [text |-> NoText, to |-> None]

\* body: a complete Pass 2 answer is stored; news: what it was written from.
Inputs == [body : BOOLEAN, news : SUBSET News]
NoInputs == [body |-> FALSE, news |-> {}]

Done == {"success", "skipped", "needs_review"}
Row == [status : Done \cup {"none", "failed"}, start : Int, end : Int,
        inputs : Inputs, text : Texts, sent : Sends]
NoRow == [status |-> "none", start |-> 0, end |-> 0, inputs |-> NoInputs,
          text |-> NoText, sent |-> NoSend]

\* What a worker or a request keeps.  task: its message, or the kind of its
\* request; old: the row as its session read it; new: as it will write it;
\* unmark: the marks it has deleted; hide: the news it backfills; lock: it has
\* the row locked; cool: the address it claimed; mail: what it sends or sent.
Tasks == Jobs \cup Scheduled \cup {"resend", "rerun", "send", "idle"}
Proc == [pc : {"idle", "wait", "write", "load", "post", "record", "end"},
         task : Tasks, row : Rows \cup {None}, resume : BOOLEAN, old : Row, new : Row,
         unmark : SUBSET News, hide : SUBSET News, lock : BOOLEAN,
         cool : Addresses \cup {None}, mail : Sends, ok : BOOLEAN]
Idle == [pc |-> "idle", task |-> "idle", row |-> None, resume |-> FALSE, old |-> NoRow,
         new |-> NoRow, unmark |-> {}, hide |-> {}, lock |-> FALSE, cool |-> None,
         mail |-> NoSend, ok |-> TRUE]

Spend(kind) == left[kind] > 0 /\ left' = [left EXCEPT ![kind] = @ - 1]

-----------------------------------------------------------------------------
(* What a session reads.                                                   *)

\* recipient_email_with_purpose: a verified delivery address before the account's.
Recipient ==
    IF verified = {} THEN None
    ELSE IF verified = {Account} THEN Account
    ELSE CHOOSE a \in verified \ {Account} : TRUE

\* Mutant: a failed report counts as well.
CountedAlsoFailed(r) == {q \in Rows \ {r} : row[q].status # "none"}

\* The reports that user_watermark counts for a new report.
Counted(r) == {q \in Rows \ {r} : row[q].status \in Done}

Floor == now - Cap

\* user_watermark: where the window of a new report starts.
Watermark(r) ==
    LET ends == {Floor} \cup {row[q].end : q \in Counted(r)}
    IN  CHOOSE e \in ends : \A f \in ends : f <= e

\* load_news_window: what a window takes in.
Selectable(n, start, end) == Published[n] > start - Late /\ Published[n] <= end

\* The same, as the worker's own transaction sees the marks.
Window(p) ==
    {n \in pool : /\ Selectable(n, p.new.start, p.new.end)
                  /\ marks[n] = None \/ n \in p.unmark
                  /\ n \notin p.hide}

\* The row is locked by a rerun of somebody else.
Locked(w, r) == \E q \in Workers \ {w} : worker[q].row = r /\ worker[q].lock

\* Another session has inserted this row, or deleted its marks, and not committed.
Held(w, r) ==
    \E q \in Workers \ {w} :
        /\ worker[q].row = r /\ worker[q].pc = "write"
        /\ worker[q].old.status = "none" \/ worker[q].unmark # {}

\* The reports that another attempt is at work on.
Busy(w) ==
    {worker[q].row : q \in {q \in Workers \ {w} : worker[q].pc \in {"wait", "write", "load"}}}

\* An attempt begins to write a row, with news it reads now or had read before.
\* Whoever is at work beside it may show the same news.
Noted(w, r, old) ==
    /\ overlapped' = overlapped \cup (Busy(w) \cap {r})
    /\ stale' = stale \cup Busy(w) \cup (IF old \/ Busy(w) # {} THEN {r} ELSE {})

\* The tasks that make a report again.
Repeats == {"rerun", "resend"}

\* A session writes the columns whose value it changed, and only those; a report
\* that is made again gets notes in its inputs, so these always change.
Merged(p, cur, new) ==
    [f \in DOMAIN cur |-> IF new[f] = p.old[f] /\ ~(f = "inputs" /\ p.task \in Repeats)
                          THEN cur[f] ELSE new[f]]

\* Mutant: the marks of a reopened report stay.
MarksOfNone(r) == {}

\* unmark_news_surfaced.
MarksOf(r) == {n \in News : marks[n] = r}

\* The marks when a worker commits; ON CONFLICT DO NOTHING.
MarkedBy(p, shown) ==
    [n \in News |->
        IF marks[n] # None /\ n \notin p.unmark THEN marks[n]
        ELSE IF n \in p.hide THEN Backfill
        ELSE IF n \in shown THEN p.row ELSE None]

\* send_report_email up to the call of the mail service, from a row just read.
Sending(p, r) ==
    IF r.sent # NoSend \/ r.text = NoText \/ Recipient = None
    THEN [p EXCEPT !.pc = "end"]
    ELSE [p EXCEPT !.pc = "post", !.mail = [text |-> r.text, to |-> Recipient]]

\* What is left of an attempt once it has committed, or given up.
Ended(p, ok) == [Idle EXCEPT !.pc = "end", !.task = p.task, !.row = p.row, !.ok = ok]
Committed(p) == [Idle EXCEPT !.pc = "load", !.task = p.task, !.row = p.row]

Set(w, p) == worker' = [worker EXCEPT ![w] = p]

-----------------------------------------------------------------------------
(* generate_report.                                                        *)

\* Reset the row, or make a new one, whose window is set once and for all.
Fresh(p) ==
    IF p.old.status # "none"
    THEN [p EXCEPT !.new = [p.old EXCEPT !.inputs = NoInputs, !.text = NoText,
                                         !.sent = NoSend]]
    ELSE [p EXCEPT !.new = [NoRow EXCEPT !.start = Watermark(p.row), !.end = now],
                   !.hide = IF Watermark(p.row) = Floor
                            THEN {n \in pool : Published[n] < Floor /\ marks[n] = None}
                            ELSE {}]

\* The news is loaded; what follows is the model's work.
Opened(p) == [p EXCEPT !.pc = "write", !.new.inputs = [body |-> TRUE, news |-> Window(p)]]

\* Mutant: a report whose mail is not confirmed is written again.
FinishedWhenSent(r) == r.status = "skipped" \/ (r.status = "success" /\ r.sent # NoSend)

Finished(r) == r.status \in {"success", "skipped"}

\* Look the row up: mail it if that is all that is missing, resume from a
\* stored answer if the prompts are still the same, or begin afresh.
Begin(w, t, r) ==
    LET cur == row[r]
        p == [Idle EXCEPT !.task = t, !.row = r, !.old = cur]
        f == Fresh(p)
    IN
    \/ /\ Finished(cur)
       /\ Set(w, IF cur.status = "success" THEN Sending(p, cur) ELSE Ended(p, TRUE))
       /\ UNCHANGED <<overlapped, stale>>
    \/ /\ ~Finished(cur) /\ cur.status # "needs_review" /\ cur.inputs.body
       /\ Set(w, [p EXCEPT !.pc = "write", !.resume = TRUE, !.new = cur])
       /\ Noted(w, r, TRUE)
    \/ /\ ~Finished(cur)
       /\ Set(w, IF Held(w, r) THEN [f EXCEPT !.pc = "wait"]
                 ELSE Opened([f EXCEPT !.unmark = MarksOf(r)]))
       /\ Noted(w, r, FALSE)

\* The other session has ended: the insert fails, or the deletion finds what
\* it saw, or finds it gone.
Proceed(w) ==
    LET p == worker[w] IN
    /\ p.pc = "wait" /\ ~Held(w, p.row)
    /\ IF p.old.status = "none" /\ row[p.row].status # "none"
       THEN Set(w, Ended(p, FALSE))
       ELSE \E gone \in {{}, MarksOf(p.row)} : Set(w, Opened([p EXCEPT !.unmark = gone]))
    /\ UNCHANGED <<now, content, tasks, mailing, history, left>>

\* The commit of an attempt, with the news it shows.
Commit(w, new, shown) ==
    LET p == worker[w] IN
    /\ ~Locked(w, p.row)
    /\ \A q \in Workers \ {w} : worker[q].unmark \cap shown = {}
    /\ row' = [row EXCEPT ![p.row] = Merged(p, @, new)]
    /\ marks' = MarkedBy(p, shown)
    /\ written' = [written EXCEPT ![p.row] =
                       IF new.text.n > @ THEN new.text.n ELSE @]

NewText(r, blocked) == [n |-> written[r] + 1, blocked |-> blocked]

\* The attempt fails, with or without a complete answer of the model.
Fail(w) ==
    LET p == worker[w] IN
    /\ p.pc = "write" /\ p.task \in Jobs \cup Scheduled
    /\ \E inputs \in {p.new.inputs} \cup (IF p.resume THEN {} ELSE {NoInputs}) :
           Commit(w, [p.new EXCEPT !.status = "failed", !.inputs = inputs], {})
    /\ Set(w, Ended(p, FALSE))
    /\ UNCHANGED <<now, pool, tasks, mailing, history, left>>

\* A quiet window.  A short one of a manual report is not mailed.
Skip(w) ==
    LET p == worker[w] IN
    /\ p.pc = "write" /\ p.task \in Jobs \cup Scheduled
    /\ ~p.resume /\ p.new.inputs.news = {}
    /\ Commit(w, [p.new EXCEPT !.status = "skipped", !.inputs = NoInputs,
                               !.text = NewText(p.row, FALSE)], {})
    /\ \/ Set(w, Committed(p))
       \/ p.row \notin Scheduled /\ Set(w, Ended(p, TRUE))
    /\ UNCHANGED <<now, pool, tasks, mailing, history, left>>

\* Mutant: a report under review is mailed.
AfterFinishAlways(p, blocked) == Committed(p)

\* The violations of this render decide, not the row.
AfterFinish(p, blocked) == IF blocked THEN Ended(p, TRUE) ELSE Committed(p)

\* Mutant: the news of a report under review is not marked.
ShownWhenMailed(p, blocked) == IF blocked THEN {} ELSE p.new.inputs.news

\* What mark_news_surfaced is given.
Shown(p, blocked) == p.new.inputs.news

\* _finish_report: status, body and marks in one commit.
Finish(w) ==
    LET p == worker[w] IN
    /\ p.pc = "write" /\ p.task \in Jobs \cup Scheduled
    /\ \E blocked \in BOOLEAN :
        /\ Commit(w, [p.new EXCEPT !.status = IF blocked THEN "needs_review" ELSE "success",
                                   !.text = NewText(p.row, blocked)], Shown(p, blocked))
        /\ Set(w, AfterFinish(p, blocked))
    /\ UNCHANGED <<now, pool, tasks, mailing, history, left>>

-----------------------------------------------------------------------------
(* send_report_email.                                                      *)

\* After a commit the row is read again; a rerun looks at its status too.
Load(w) ==
    LET p == worker[w] IN
    /\ p.pc = "load"
    /\ Set(w, IF p.task = "resend" /\ row[p.row].status # "success" THEN Ended(p, TRUE)
              ELSE Sending(p, row[p.row]))
    /\ UNCHANGED <<now, content, tasks, mailing, history, left>>

\* The mail service delivers one content once: the key is made from it.
Delivered(p) == inbox \cup {[row |-> p.row, text |-> p.mail.text, to |-> p.mail.to]}

Post(w) ==
    LET p == worker[w] IN
    /\ p.pc = "post"
    /\ \/ inbox' = Delivered(p) /\ Set(w, [p EXCEPT !.pc = "record"])
       \/ UNCHANGED inbox /\ Set(w, Ended(p, TRUE))
    /\ UNCHANGED <<now, content, tasks, verified, cooling, polls, bounced, history, left>>

\* Only one sender finds email_sent_at empty.
Record(w) ==
    LET p == worker[w] IN
    /\ p.pc = "record" /\ ~Locked(w, p.row)
    /\ IF row[p.row].sent = NoSend
       THEN /\ row' = [row EXCEPT ![p.row].sent = p.mail]
            /\ polls' = polls \cup {p.row}
            /\ Set(w, [Ended(p, TRUE) EXCEPT !.mail = p.mail])
       ELSE UNCHANGED <<row, polls>> /\ Set(w, Ended(p, TRUE))
    /\ UNCHANGED <<now, pool, marks, written, tasks, verified, cooling, inbox, bounced,
                   history, left>>

-----------------------------------------------------------------------------
(* The tasks.                                                              *)

\* enqueue_report_for_user: the broker may refuse the message.
RequestJob(j, r) ==
    /\ job[j].status = "none" /\ Spend("tasks")
    /\ \/ /\ job' = [job EXCEPT ![j] = [status |-> "pending", row |-> r]]
          /\ queue' = queue \cup {j}
       \/ /\ job' = [job EXCEPT ![j] = [status |-> "failed", row |-> r]]
          /\ UNCHANGED queue
    /\ UNCHANGED <<now, content, tried, lost, worker, mailing, history>>

\* Beat starts the batch of a scheduled key.
Trigger(r) ==
    /\ tried[r] = 0 /\ Spend("tasks")
    /\ tried' = [tried EXCEPT ![r] = 1]
    /\ queue' = queue \cup {r}
    /\ UNCHANGED <<now, content, job, lost, worker, mailing, history>>

\* A message is delivered again while a worker is on it: a fault.
Deliver(w, m) ==
    /\ worker[w].pc = "idle" /\ m \in queue
    /\ IF \E q \in Workers : worker[q].task = m
       THEN Spend("faults")
       ELSE UNCHANGED left

Acked(m) == queue' = queue \ {m}

AlreadyEnded(j) == job[j].status # "pending"

StartJob(w, j) ==
    /\ Deliver(w, j)
    /\ IF AlreadyEnded(j)
       THEN Acked(j) /\ UNCHANGED <<worker, overlapped, stale>>
       ELSE Begin(w, j, job[j].row) /\ UNCHANGED queue
    /\ UNCHANGED <<now, content, job, tried, lost, mailing, rerun>>

\* The batch reaches this user, unless it is late or the user has no address.
StartBatch(w, r) ==
    /\ Deliver(w, r)
    /\ \/ Acked(r) /\ UNCHANGED <<worker, overlapped, stale>>
       \/ Recipient # None /\ Begin(w, r, r) /\ UNCHANGED queue
    /\ UNCHANGED <<now, content, job, tried, lost, mailing, rerun>>

Outcome(p) == IF p.ok THEN "success" ELSE "failed"

\* A later commit also writes what the session still holds of the mail.
MailWritten(w) ==
    LET p == worker[w] IN
    p.mail # NoSend /\ ~Locked(w, p.row) /\ row' = [row EXCEPT ![p.row].sent = p.mail]

EndJob(w) ==
    LET p == worker[w] IN
    /\ p.pc = "end" /\ p.task \in Jobs
    /\ (p.mail = NoSend /\ UNCHANGED row) \/ MailWritten(w)
    /\ job' = [job EXCEPT ![p.task].status = Outcome(p)]
    /\ Acked(p.task)
    /\ Set(w, Idle)
    /\ UNCHANGED <<now, pool, marks, written, tried, lost, mailing, history, left>>

\* Mutant: one retry too many.
MayRetryOnce(r) == tried[r] <= MaxRetries + 1

MayRetry(r) == tried[r] <= MaxRetries

\* A batch in which everybody failed is tried again; the others are not modelled.
\* The checks of subscriptions that follow commit, if anybody is to be checked.
EndBatch(w) ==
    LET p == worker[w] IN
    /\ p.pc = "end" /\ p.task \in Scheduled
    /\ \/ /\ ~p.ok /\ MayRetry(p.task)
          /\ tried' = [tried EXCEPT ![p.task] = @ + 1] /\ UNCHANGED queue
       \/ Acked(p.task) /\ UNCHANGED tried
    /\ UNCHANGED row \/ MailWritten(w)
    /\ Set(w, Idle)
    /\ UNCHANGED <<now, pool, marks, written, job, lost, mailing, history, left>>

-----------------------------------------------------------------------------
(* Ops: rerun_report_for_user and send_report_for_user.                    *)

Rerun(w, r) ==
    /\ worker[w].pc = "idle" /\ Spend("requests") /\ row[r].inputs.body
    /\ Set(w, [Idle EXCEPT !.pc = "write", !.task = "rerun", !.row = r,
                           !.old = row[r], !.new = row[r]])
    /\ rerun' = rerun \cup {r}
    /\ Noted(w, r, row[r].status = "failed")
    /\ UNCHANGED <<now, content, tasks, mailing>>

\* email_sent_at is cleared first, and the row stays locked until the commit.
Resend(w, r) ==
    /\ worker[w].pc = "idle" /\ Spend("requests") /\ row[r].inputs.body
    /\ Recipient \notin cooling
    /\ cooling' = cooling \cup ({Recipient} \ {None})
    /\ row[r].sent # NoSend => ~Locked(w, r)
    /\ Set(w, [Idle EXCEPT !.pc = "write", !.task = "resend", !.row = r, !.old = row[r],
                           !.new = [row[r] EXCEPT !.sent = NoSend],
                           !.lock = row[r].sent # NoSend, !.cool = Recipient])
    /\ rerun' = rerun \cup {r}
    /\ Noted(w, r, row[r].status = "failed")
    /\ UNCHANGED <<now, content, tasks, verified, inbox, polls, bounced>>

\* regenerate_report: neither marks nor mails.
Regenerate(w) ==
    LET p == worker[w] IN
    /\ p.pc = "write" /\ p.task \in Repeats
    /\ \E blocked \in BOOLEAN :
        /\ Commit(w, [p.new EXCEPT !.status = IF blocked THEN "needs_review" ELSE "success",
                                   !.text = NewText(p.row, blocked)], {})
        /\ Set(w, IF p.task = "resend" /\ ~blocked THEN Committed(p) ELSE Ended(p, TRUE))
    /\ UNCHANGED <<now, pool, tasks, mailing, history, left>>

\* The transaction is rolled back and the cooldown given back.
RegenerateFails(w) ==
    LET p == worker[w] IN
    /\ p.pc = "write" /\ p.task \in Repeats
    /\ cooling' = cooling \ {p.cool}
    /\ Set(w, Ended(p, FALSE))
    /\ UNCHANGED <<now, content, tasks, verified, inbox, polls, bounced, history, left>>

ExpireCooldown(a) ==
    /\ a \in cooling /\ cooling' = cooling \ {a}
    /\ UNCHANGED <<now, content, tasks, worker, verified, inbox, polls, bounced, history,
                   left>>

Send(w, r) ==
    /\ worker[w].pc = "idle" /\ Spend("requests")
    /\ row[r].status = "success" /\ row[r].sent = NoSend
    /\ Set(w, Sending([Idle EXCEPT !.task = "send", !.row = r], row[r]))
    /\ UNCHANGED <<now, content, tasks, mailing, history>>

Answer(w) ==
    /\ worker[w].pc = "end" /\ worker[w].task \in {"rerun", "resend", "send"}
    /\ Set(w, Idle)
    /\ UNCHANGED <<now, content, tasks, mailing, history, left>>

-----------------------------------------------------------------------------
(* The addresses, the news and the time.                                   *)

\* confirm_verification: there is one delivery address at a time.
Verify(a) ==
    /\ Spend("moves") /\ a \notin verified
    /\ verified' = IF a = Account THEN verified \cup {a} ELSE (verified \cap {Account}) \cup {a}
    /\ UNCHANGED <<now, content, tasks, worker, cooling, inbox, polls, bounced, history>>

Unsubscribe(a) ==
    /\ Spend("moves") /\ a \in verified
    /\ verified' = verified \ {a}
    /\ UNCHANGED <<now, content, tasks, worker, cooling, inbox, polls, bounced, history>>

\* poll_report_delivery: read the row, ask the mail service.
PollRead(r) ==
    /\ r \in polls /\ bounced = None
    /\ polls' = polls \ {r}
    /\ bounced' = IF row[r].sent.to \in Bad THEN row[r].sent.to ELSE None
    /\ UNCHANGED <<now, content, tasks, worker, verified, cooling, inbox, history, left>>

\* Mutant: the address in use is taken back, whichever it is.
RevokedInUse(a) == verified \ {Recipient}

\* The conditional UPDATE of the user: the column must still hold this address.
Revoked(a) == verified \ {a}

PollRevoke ==
    /\ bounced # None
    /\ verified' = Revoked(bounced)
    /\ bounced' = None
    /\ UNCHANGED <<now, content, tasks, worker, cooling, inbox, polls, history, left>>

\* News is captured within the allowance for late news.
Capture(n) ==
    /\ n \notin pool /\ Published[n] <= now /\ now < Published[n] + Late
    /\ pool' = pool \cup {n}
    /\ UNCHANGED <<now, marks, row, written, tasks, worker, mailing, history, left>>

Tick ==
    /\ Spend("ticks") /\ now' = now + 1
    /\ UNCHANGED <<content, tasks, worker, mailing, history>>

-----------------------------------------------------------------------------
(* Faults.                                                                 *)

\* A process dies.  Its message is delivered again, or acknowledged and lost.
Die(w) ==
    LET p == worker[w] IN
    /\ p.pc # "idle" /\ Spend("faults")
    /\ Set(w, Idle)
    /\ \/ UNCHANGED <<queue, lost>>
       \/ p.task \in queue /\ Acked(p.task) /\ lost' = lost \cup {p.task}
    /\ UNCHANGED <<now, content, job, tried, mailing, history>>

\* The commit of an attempt fails and is rolled back.
CommitFails(w) ==
    /\ worker[w].pc = "write" /\ Spend("faults")
    /\ Set(w, Ended(worker[w], FALSE))
    /\ UNCHANGED <<now, content, tasks, mailing, history>>

\* The mail is accepted, and the answer or the record of it is lost.
MailUnconfirmed(w) ==
    /\ worker[w].pc = "post" /\ Spend("faults")
    /\ inbox' = Delivered(worker[w])
    /\ Set(w, Ended(worker[w], TRUE))
    /\ UNCHANGED <<now, content, tasks, verified, cooling, polls, bounced, history>>

-----------------------------------------------------------------------------
Init ==
    /\ now = 0 /\ pool = {} /\ marks = [n \in News |-> None]
    /\ row = [r \in Rows |-> NoRow] /\ written = [r \in Rows |-> 0]
    /\ job = [j \in Jobs |-> [status |-> "none", row |-> None]]
    /\ queue = {} /\ tried = [r \in Scheduled |-> 0] /\ lost = {}
    /\ worker = [w \in Workers |-> Idle]
    /\ verified = {Account} /\ cooling = {} /\ inbox = {} /\ polls = {} /\ bounced = None
    /\ left \in Budgets
    /\ overlapped = {} /\ rerun = {} /\ stale = {}

\* A step of what has been begun.
Work(w) ==
    \/ Proceed(w) \/ Fail(w) \/ Skip(w) \/ Finish(w)
    \/ Load(w) \/ Post(w) \/ Record(w)
    \/ EndJob(w) \/ EndBatch(w)
    \/ Regenerate(w) \/ RegenerateFails(w) \/ Answer(w)

Take(w) == (\E j \in Jobs : StartJob(w, j)) \/ (\E r \in Scheduled : StartBatch(w, r))

Ops ==
    \/ \E j \in Jobs, r \in Rows : RequestJob(j, r)
    \/ \E w \in Workers, r \in Rows : Rerun(w, r) \/ Resend(w, r) \/ Send(w, r)
    \/ \E a \in Addresses : ExpireCooldown(a)

Faults == \E w \in Workers : Die(w) \/ CommitFails(w) \/ MailUnconfirmed(w)

Next ==
    \/ \E w \in Workers : Work(w)
    \/ \E w \in Workers : Take(w)
    \/ Ops
    \/ \E r \in Scheduled : Trigger(r)
    \/ \E a \in Addresses : Verify(a) \/ Unsubscribe(a)
    \/ \E r \in Rows : PollRead(r)
    \/ PollRevoke
    \/ \E n \in News : Capture(n)
    \/ Tick
    \/ Faults

Spec == Init /\ [][Next]_vars

-----------------------------------------------------------------------------
(* Properties.                                                             *)

TypeOK ==
    /\ now \in Nat /\ pool \subseteq News
    /\ marks \in [News -> Rows \cup {None, Backfill}]
    /\ row \in [Rows -> Row] /\ written \in [Rows -> Nat]
    /\ job \in [Jobs -> [status : {"none", "pending", "success", "failed"},
                         row : Rows \cup {None}]]
    /\ queue \subseteq Jobs \cup Scheduled /\ lost \subseteq Jobs \cup Scheduled
    /\ tried \in [Scheduled -> 0..(MaxRetries + 1)]
    /\ worker \in [Workers -> Proc]
    /\ verified \subseteq Addresses /\ cooling \subseteq Addresses
    /\ inbox \subseteq [row : Rows, text : Texts, to : Addresses]
    /\ polls \subseteq Rows /\ bounced \in Addresses \cup {None}
    /\ left \in [ticks : Nat, tasks : Nat, requests : Nat, moves : Nat, faults : Nat]
    /\ overlapped \subseteq Rows /\ rerun \subseteq Rows /\ stale \subseteq Rows

\* News captured in time is not lost.  It is marked, or shown by a report that
\* is done, or the next report can still take it in, or the window of a report
\* covers it that was under review, and failed when it was tried again.
NothingSkipped ==
    \A n \in pool :
        \/ marks[n] # None
        \/ \E r \in Rows : row[r].status \in Done /\ n \in row[r].inputs.news
        \/ \A r \in Rows : row[r].status \in Done => Published[n] > row[r].end - Late
        \/ \E r \in Rows : /\ (row[r].status = "failed" /\ written[r] > 0) \/ r \in overlapped
                           /\ Selectable(n, row[r].start, row[r].end)

\* A news item is shown by one report only, unless one of two was at work beside
\* another attempt, or was resumed with news that it had read before it failed.
ShownOnce ==
    \A r, q \in Rows \ stale :
        r # q /\ row[r].status \in Done /\ row[q].status \in Done
            => row[r].inputs.news \cap row[q].inputs.news = {}

\* "In the same transaction as the status commit, so the two can never
\* diverge": a mark belongs to a report that is done, unless two attempts at
\* it overlapped.
MarksAreDone ==
    \A n \in News :
        marks[n] \in Rows \ overlapped => row[marks[n]].status \in Done

\* News appears in one report, and its mark names a report that shows it.
NewsShownOnce == TypeOK /\ ShownOnce /\ MarksAreDone

\* A text that the compliance filter held is never mailed, unless two attempts
\* at the report overlapped.
BlockedNeverMailed ==
    \A m \in inbox : m.row \in overlapped \/ ~m.text.blocked

\* Redeliveries, retries, lost answers and senders that race mail one text of a
\* report, unless Ops reran it or two attempts overlapped.
OneTextMailed ==
    \A m, k \in inbox :
        m.row = k.row /\ m.row \notin rerun \cup overlapped => m.text = k.text

\* A poll takes back no address but one that bounced, whatever the user has
\* verified since the report was sent.
OnlyBouncedRevoked ==
    [][bounced # None /\ bounced' = None => verified \ verified' \subseteq Bad]_vars

=============================================================================
