------------------------------ MODULE Capture ------------------------------
(***************************************************************************)
(* Closing prices of A-Share ETFs and net asset values of Chinese funds:   *)
(* services/price_capture.py takes them from a primary source (Yahoo,      *)
(* Eastmoney) and fills what is missing from a second one (Tencent, Sina), *)
(* for the tasks of tasks/capture_tasks.py: the daily capture, and the     *)
(* backfill that a confirmed upload asks for.  They may run side by side.  *)
(*                                                                         *)
(* A task retries as a chain: its next message carries the instruments     *)
(* that are open and the Yahoo bars it saw.  All attempts of a chain look  *)
(* at one window of trading days, frozen at the first; so does this model. *)
(* A price is left out: what is stored is where it came from, and what it  *)
(* is worth is on which side of the last dividend or split it lies.        *)
(***************************************************************************)
EXTENDS Integers

CONSTANTS
    Instruments,
    Yuan,           \* those whose holdings are all in CNY
    LastSession,    \* how many trading days the window has
    MaxLag,         \* FUND_NAV_MAX_LAG_SESSIONS
    MaxAttempts,    \* the retries of each task, and one
    Cases,          \* bound: what there may be at first
    MaxMishaps      \* bound: exceptions, dead workers and sold holdings

Sessions == 1..LastSession
Chains == {"daily", "confirm"}

\* What price_snapshots has for a day: nothing; an unusable close, beside other
\* prices that agree with any bar, or with none; or a close of either source.
Closes == {"none", "blank", "odd", "primary", "fallback"}

ASSUME CaptureAssumption ==
    /\ Yuan \subseteq Instruments /\ LastSession \in Nat \ {0} /\ MaxLag \in Nat
    /\ MaxAttempts \in [Chains -> Nat \ {0}] /\ MaxMishaps \in Nat
    /\ Cases \subseteq [kind : {"etf", "fund"}, calendar : {"ok", "unknown"}, since : Sessions,
                      held : SUBSET Instruments, tasks : SUBSET Chains,
                      row : [Instruments -> [Sessions -> Closes \ {"fallback"}]]]
    /\ \A z \in Cases, k \in Instruments, d \in Sessions :
        z.kind = "fund" => z.since = 1 /\ z.row[k][d] # "odd"

VARIABLES
    kind,       \* what the instruments are: "etf" or "fund"
    calendar,   \* whether the exchange calendar covers the window
    since,      \* the first session that no later dividend or split adjusts
    held,       \* the instruments that somebody holds
    row,        \* price_snapshots, the close node
    chain,      \* each task: its message, and how far its attempt is
    marked,     \* the alerts that the dedup store has
    mailed,     \* history: the alerts that were delivered
    mishaps     \* how much has gone wrong

captureVars == <<kind, calendar, since, held, row, chain, marked, mailed, mishaps>>
given == <<kind, calendar, since>>
outside == <<held, marked, mailed, mishaps>>

NoDays == [k \in Instruments |-> {}]
NoAttempt == [todo |-> {}, open |-> {}, missing |-> NoDays, retained |-> NoDays,
              series |-> [k \in Instruments |-> [raw |-> {}, qfq |-> {}]],
              key |-> "none", known |-> {}, failed |-> FALSE]

\* only, anchors: the retry context.  History: fired, the instruments that the
\* chain began with; span, the days whose close each had then.
NotSent == [pc |-> "off", attempt |-> 1, only |-> {}, anchors |-> NoDays, fired |-> {},
            span |-> NoDays, work |-> NoAttempt]

-----------------------------------------------------------------------------
(* What is stored.                                                         *)

Usable(close) == close \in {"primary", "fallback"}
DaysOf(closes) == {d \in Sessions : Usable(closes[d])}
StoredDays(k) == DaysOf(row[k])

\* The days from the earliest of these on.
Since(days) == {d \in Sessions : \E e \in days : e <= d}

\* _upsert: the primary source overwrites.
Upserted(got) ==
    [k \in Instruments |-> [d \in Sessions |-> IF d \in got[k] THEN "primary" ELSE row[k][d]]]

\* Mutant: the row is overwritten, whatever it holds.
FilledAlways(close) == "fallback"

Filled(close) == IF close \in {"none", "blank"} THEN "fallback" ELSE close

\* _guarded_fallback_upsert: a usable close stays, and so does one whose other
\* prices contradict the new ones.
GuardedUpsert(k, days) ==
    row' = [row EXCEPT ![k] = [d \in Sessions |-> IF d \in days THEN Filled(@[d]) ELSE @[d]]]

-----------------------------------------------------------------------------
(* The chain.                                                              *)

Last(c) == chain[c].attempt >= MaxAttempts[c]
Goes(c, pc, work) == chain' = [chain EXCEPT ![c].pc = pc, ![c].work = work]
Ended == {"quiet", "miss", "failed", "gone"}
EndsAs(c, pc) == Goes(c, pc, NoAttempt)
Running(c) == chain[c].pc \notin Ended \cup {"off"}

\* Beat, or a confirmed upload for some of the instruments.
Fire(c) ==
    /\ chain[c].pc = "off"
    /\ \E ks \in (SUBSET held) \ {{}} :
        /\ c = "daily" => ks = held
        /\ chain' = [chain EXCEPT ![c].pc = "ready", ![c].only = ks, ![c].fired = ks,
                                  ![c].span = [k \in Instruments |-> StoredDays(k)]]
    /\ UNCHANGED <<given, row, outside>>

\* The task reads its message; nothing is left to do if all was sold.
Targets(c) == held \cap chain[c].only

StartAttempt(c) ==
    /\ chain[c].pc = "ready" /\ (kind = "fund" \/ Targets(c) = {})
    /\ IF Targets(c) = {} THEN EndsAs(c, "quiet")
       ELSE Goes(c, "nav", [NoAttempt EXCEPT !.todo = Targets(c)])
    /\ UNCHANGED <<given, row, outside>>

\* Mutant: an instrument of which a bar was seen is not asked for again.
RetryForgets(c) ==
    [chain[c] EXCEPT !.pc = "ready", !.attempt = @ + 1, !.work = NoAttempt,
                     !.only = {k \in chain[c].work.open : chain[c].work.retained[k] = {}}]

\* task.retry with the open instruments and the bars seen so far.
Retry(c) ==
    [chain[c] EXCEPT !.pc = "ready", !.attempt = @ + 1, !.work = NoAttempt,
                     !.only = chain[c].work.open, !.anchors = chain[c].work.retained]

EndAttempt(c) ==
    LET open == chain[c].work.open
    IN /\ chain[c].pc \in {"judge", "fill", "nav"} /\ chain[c].work.todo = {}
       /\ chain[c].pc = "judge" => ~(Last(c) \/ calendar = "unknown")
       /\ IF open = {} THEN EndsAs(c, "quiet")
          ELSE IF ~Last(c) THEN chain' = [chain EXCEPT ![c] = Retry(c)]
          ELSE Goes(c, "alert", [NoAttempt EXCEPT !.todo = open])
       /\ UNCHANGED <<given, row, outside>>

\* Mutant: marked although the mail was not sent.
MarkedAnyway(k, sent) == marked \cup {k}

Marked(k, sent) == IF sent THEN marked \cup {k} ELSE marked

\* emit_nav_terminal_diagnostics and its twin: an alert that the store has is
\* not sent again, though one for another day is, and all are if the store is
\* down.  CaptureDataMiss ends the task after the last.
Alert(c, k) ==
    /\ chain[c].pc = "alert" /\ k \in chain[c].work.todo
    /\ \/ k \in marked /\ UNCHANGED <<marked, mailed>>
       \/ \E sent \in BOOLEAN :
            /\ mailed' = IF sent THEN mailed \cup {k} ELSE mailed
            /\ marked' \in {marked, Marked(k, sent)}
    /\ IF chain[c].work.todo = {k} THEN EndsAs(c, "miss")
       ELSE Goes(c, "alert", [chain[c].work EXCEPT !.todo = @ \ {k}])
    /\ UNCHANGED <<given, held, row, mishaps>>

-----------------------------------------------------------------------------
(* ETFs: capture_prices_attempt and the backfill of capture_prices.        *)

Gets(ks) == {got \in [Instruments -> SUBSET Sessions] : \A k \in Instruments \ ks : got[k] = {}}

\* Yahoo, for all of them at once.  The backfill asks nobody else.
Backfill ==
    /\ kind = "etf" /\ chain["confirm"].pc = "ready" /\ Targets("confirm") # {}
    /\ \E got \in Gets(Targets("confirm")) : row' = Upserted(got)
    /\ EndsAs("confirm", "quiet")
    /\ UNCHANGED <<given, outside>>

Fetch ==
    LET ks == Targets("daily")
    IN /\ kind = "etf" /\ chain["daily"].pc = "ready" /\ ks # {}
       /\ \E got \in Gets(ks) :
           /\ row' = Upserted(got)
           /\ Goes("daily", "judge",
                   [NoAttempt EXCEPT !.todo = ks \cap Yuan,
                       !.retained = [k \in Instruments |-> chain["daily"].anchors[k] \cup got[k]]])
       /\ UNCHANGED <<given, outside>>

Series == [raw : SUBSET Sessions, qfq : SUBSET Sessions]
Dates(s) == s.raw \cup s.qfq

\* What is missing of k, if `expected` are the days it must have.
Gap(k, expected) ==
    (expected \cap Since(StoredDays(k) \cup chain["daily"].work.retained[k])) \ StoredDays(k)

Noted(k, isOpen, gap, s) ==
    [chain["daily"].work EXCEPT !.todo = @ \ {k},
        !.open = IF isOpen THEN @ \cup {k} ELSE @, !.missing[k] = gap,
        !.series[k] = IF gap = {} THEN @ ELSE s]

\* Without a calendar the days are those that Tencent knows.
Judge(k) ==
    LET w == chain["daily"].work
    IN /\ chain["daily"].pc = "judge" /\ k \in w.todo
       /\ \E s \in Series :
           /\ Dates(s) # {} => calendar = "unknown" /\ StoredDays(k) \cup w.retained[k] # {}
           /\ LET expected == IF calendar = "ok" THEN Sessions ELSE Dates(s)
                  gap == Gap(k, expected)
              IN Goes("daily", "judge",
                      IF StoredDays(k) \cup w.retained[k] = {} \/ expected = {}
                      THEN Noted(k, TRUE, {}, s)
                      ELSE Noted(k, gap # {}, gap, s))
       /\ UNCHANGED <<given, row, outside>>

\* The last attempt goes on to Tencent, and every attempt without a calendar.
StartFilling ==
    LET w == chain["daily"].work
    IN /\ chain["daily"].pc = "judge" /\ w.todo = {}
       /\ Last("daily") \/ calendar = "unknown"
       /\ Goes("daily", "fill", [w EXCEPT !.todo = {k \in w.open : w.missing[k] # {}}])
       /\ UNCHANGED <<given, row, outside>>

\* A price of Tencent as it was and as adjusted: equal if nothing came since.
Agree(d) == d >= since

Between(a, d, days) == {e \in days : (a <= e /\ e <= d) \/ (d <= e /\ e <= a)}

\* Mutant: the days between need only be there.
IntervalPresent(a, d, s, expected) ==
    /\ Between(a, d, expected) # {}
    /\ \A e \in Between(a, d, expected) : e \in s.raw \cap s.qfq

IntervalOk(a, d, s, expected) ==
    /\ Between(a, d, expected) # {}
    /\ \A e \in Between(a, d, expected) : e \in s.raw \cap s.qfq /\ Agree(e)

\* admit_tencent_missing_dates: all of the days, or none.
Admits(k, s, expected) ==
    LET w == chain["daily"].work
    IN \A d \in w.missing[k] :
        /\ d \in s.raw \cap s.qfq
        /\ \E a \in w.retained[k] \cap s.raw : Agree(a) /\ IntervalOk(a, d, s, expected)

\* Mutant: what was admitted is taken for written.
LeftoverUnread(k) == {}

\* What the guarded upsert has not written is still missing.
Leftover(k) == {d \in chain["daily"].work.missing[k] : ~Usable(row'[k][d])}

Filed(k, isOpen) ==
    Goes("daily", "fill",
         [chain["daily"].work EXCEPT !.todo = @ \ {k},
             !.open = IF isOpen THEN @ ELSE @ \ {k},
             !.missing[k] = {}, !.series[k] = NoAttempt.series[k]])

Fill(k) ==
    LET w == chain["daily"].work
    IN /\ chain["daily"].pc = "fill" /\ k \in w.todo
       /\ \E s \in IF calendar = "ok" THEN Series ELSE {w.series[k]} :
            IF Admits(k, s, IF calendar = "ok" THEN Sessions ELSE Dates(s))
            THEN /\ GuardedUpsert(k, w.missing[k])
                 /\ Filed(k, Leftover(k) # {})
            ELSE UNCHANGED row /\ Filed(k, TRUE)
       /\ UNCHANGED <<given, outside>>

-----------------------------------------------------------------------------
(* Funds: capture_fund_navs_attempt, one fund after the other.             *)

\* Eastmoney: some values, or none, or an error.
NavFetch(c, k) ==
    LET w == chain[c].work
    IN /\ chain[c].pc = "nav" /\ k \in w.todo
       /\ \E days \in SUBSET Sessions :
           /\ row' = Upserted([NoDays EXCEPT ![k] = days])
           /\ Goes(c, "check", [w EXCEPT !.todo = @ \ {k}, !.key = k, !.known = days,
                                         !.failed = (days = {})])
       /\ UNCHANGED <<given, outside>>

\* The latest value that is known is not older than the lag allows.
Fresh(known) ==
    known # {} /\ (calendar = "ok" => \E d \in known : d >= LastSession - MaxLag)

Resolves(c, isOpen) ==
    LET w == chain[c].work
    IN Goes(c, "nav", [w EXCEPT !.open = IF isOpen THEN @ \cup {w.key} ELSE @,
                                !.key = "none", !.known = {}, !.failed = FALSE])

Asks(c, pc, known) == Goes(c, pc, [chain[c].work EXCEPT !.known = known])

\* What is known of the fund, stored values of earlier runs included.
NavCheck(c) ==
    LET w == chain[c].work
        known == w.known \cup StoredDays(w.key)
    IN /\ chain[c].pc = "check"
       /\ IF calendar = "unknown" /\ known # {}
          THEN IF w.key \in Yuan THEN Asks(c, "verify", known) ELSE Resolves(c, FALSE)
          ELSE IF ~w.failed /\ Fresh(known) THEN Resolves(c, FALSE)
          ELSE IF ~Last(c) THEN Resolves(c, TRUE)
          ELSE IF w.key \in Yuan THEN Asks(c, "sina", known)
          ELSE Resolves(c, ~Fresh(known))
       /\ UNCHANGED <<given, row, outside>>

\* Sina's latest value, if it has one: a check where there is no calendar.
NavVerify(c) ==
    LET w == chain[c].work
    IN /\ chain[c].pc = "verify"
       /\ \/ UNCHANGED row /\ Resolves(c, TRUE)
          \/ /\ \E d \in Sessions :
                 IF \A e \in w.known : e < d THEN GuardedUpsert(w.key, {d}) ELSE UNCHANGED row
             /\ Resolves(c, FALSE)
       /\ UNCHANGED <<given, outside>>

\* ...and the fallback of the last attempt.  A source that failed does not
\* matter if what is stored will do.
NavFallback(c) ==
    LET w == chain[c].work
    IN /\ chain[c].pc = "sina"
       /\ \/ /\ \E d \in Sessions : GuardedUpsert(w.key, {d})
             /\ Resolves(c, ~Fresh(DaysOf(row'[w.key])))
          \/ UNCHANGED row /\ Resolves(c, ~Fresh(w.known))
       /\ UNCHANGED <<given, outside>>

-----------------------------------------------------------------------------
(* What goes wrong.                                                        *)

Mishap == mishaps < MaxMishaps /\ mishaps' = mishaps + 1

\* Any other exception: the same message again, or a loud end (_capture_failed).
Raises(c) ==
    /\ Running(c) /\ chain[c].pc # "alert" /\ Mishap
    /\ IF Last(c) THEN EndsAs(c, "failed")
       ELSE chain' = [chain EXCEPT ![c].pc = "ready", ![c].attempt = @ + 1,
                                   ![c].work = NoAttempt]
    /\ UNCHANGED <<given, held, row, marked, mailed>>

\* The worker dies: the message comes again, or is lost with its process.
WorkerDies(c) ==
    /\ Running(c) /\ Mishap
    /\ \E pc \in {"ready", "gone"} : EndsAs(c, pc)
    /\ UNCHANGED <<given, held, row, marked, mailed>>

Sold(k) ==
    /\ k \in held /\ Mishap
    /\ held' = held \ {k}
    /\ UNCHANGED <<given, row, chain, marked, mailed>>

-----------------------------------------------------------------------------
CaptureInit ==
    /\ \E z \in Cases : /\ kind = z.kind /\ calendar = z.calendar /\ since = z.since
                       /\ held = z.held /\ row = z.row
                       /\ chain = [c \in Chains |-> IF c \in z.tasks THEN NotSent
                                                   ELSE [NotSent EXCEPT !.pc = "gone"]]
    /\ marked = {} /\ mailed = {} /\ mishaps = 0

CaptureNext ==
    \/ \E c \in Chains :
        \/ Fire(c) \/ StartAttempt(c) \/ EndAttempt(c) \/ NavCheck(c) \/ NavVerify(c)
        \/ NavFallback(c) \/ Raises(c) \/ WorkerDies(c)
        \/ \E k \in Instruments : Alert(c, k) \/ NavFetch(c, k)
    \/ Backfill \/ Fetch \/ StartFilling
    \/ \E k \in Instruments : Judge(k) \/ Fill(k) \/ Sold(k)

CaptureSpec == CaptureInit /\ [][CaptureNext]_captureVars

-----------------------------------------------------------------------------
Work == [todo : SUBSET Instruments, open : SUBSET Instruments,
         missing : [Instruments -> SUBSET Sessions], retained : [Instruments -> SUBSET Sessions],
         series : [Instruments -> Series], key : Instruments \cup {"none"},
         known : SUBSET Sessions, failed : BOOLEAN]
Places == {"off", "ready", "judge", "fill", "nav", "check", "verify", "sina", "alert"} \cup Ended
Chain == [pc : Places, attempt : Nat, only : SUBSET Instruments,
          anchors : [Instruments -> SUBSET Sessions], fired : SUBSET Instruments,
          span : [Instruments -> SUBSET Sessions], work : Work]

\* Every variable holds values of its kind.
CaptureTypeOK ==
    /\ kind \in {"etf", "fund"} /\ calendar \in {"ok", "unknown"} /\ since \in Sessions
    /\ held \subseteq Instruments /\ row \in [Instruments -> [Sessions -> Closes]]
    /\ chain \in [Chains -> Chain]
    /\ marked \subseteq Instruments /\ mailed \subseteq Instruments /\ mishaps \in Nat

\* A close is taken from a fallback only where no usable one is stored at that
\* moment, however late the fallback writes and whoever stored one meanwhile
\* (_guarded_fallback_upsert).  And since stored closes are adjusted for
\* dividends and splits and Tencent's are not, only where that makes no
\* difference, whatever bars of earlier attempts vouch for it and whatever days
\* its series lack (admit_tencent_missing_dates).
FallbackAdmitted ==
    [][\A k \in Instruments, d \in Sessions :
        row'[k][d] = "fallback" /\ row[k][d] # "fallback" =>
            ~Usable(row[k][d]) /\ (kind = "etf" => Agree(d))]_captureVars

\* What a task that found nothing more to do has left behind for k.
Complete(c, k) ==
    LET days == DaysOf(row'[k])
    IN /\ days # {}
       /\ kind = "fund" => Fresh(days)
       /\ kind = "etf" /\ calendar = "ok" => Since(chain[c].span[k]) \subseteq days

\* A chain that ends quietly has left what it was fired for complete, whatever
\* was open, raised or sold on the way; otherwise it ends loudly, and an alert
\* is suppressed only if it was delivered once (CaptureDataMiss, _send_nav_alert).
NoSilentMiss ==
    [][/\ \A c \in Chains :
            chain[c].pc # "quiet" /\ chain'[c].pc = "quiet" /\ ~(c = "confirm" /\ kind = "etf")
                => \A k \in held' \cap chain[c].fired :
                        kind = "fund" \/ k \in Yuan => Complete(c, k)
       /\ marked' \subseteq mailed']_captureVars

=============================================================================
