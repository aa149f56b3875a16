# Portfonia in TLA+

Portfonia keeps a user's holdings, captures market data, writes briefings with
an LLM and mails them on a schedule. Users pay for briefings with credits that
they buy through Paddle. This directory models the parts of the backend where a
wrong order of steps costs money, mail, access or data: the credit ledger and
all that moves credits, subscriptions, the daily portfolio snapshots, reports
and their delivery, signup with its invites and verification links, the book of
holdings with its history and its uploads, closing prices with their fallbacks,
and the paid searches of news.

Paths below are relative to `backend/app/`.

## The system

| Component | State it keeps | Operations | What is hard about it | What makes it correct |
|---|---|---|---|---|
| Credit ledger (`services/credit_ledger.py`) | `users.credit_cash_balance`, `credit_gift_balance`; rows of `credit_ledger` | post, consume, return, purchase, refund, reverse, clawback, relinquish, adjust | every writer must hold the user's row lock; idempotency keys of eleven kinds; rounding | a balance is the sum of its rows; a key writes once; only a clawback overdraws |
| Payments and refunds (`routers/paddle_webhooks.py`, `routers/admin.py`) | none of its own: Paddle's adjustments, the ledger | two webhooks, the Ops refund | webhooks repeated or early; a refund holds a row lock across two calls to Paddle; answer lost, commit failing | what Paddle pays out is what the ledger took, once |
| Account deletion and purge (`routers/me.py`, `routers/admin.py`, `services/user_purge.py`) | the users row, `invited_by` | delete by the user, purge by Ops | balance checked before a remote call; referrers and buyers vanish between refund and rejection | nobody is deleted with cash; refunds of others still settle |
| Subscriptions (`services/subscription.py`) | ten columns of `users` | set plan, cancel, resume, change Jade's cadence, scheduled check, launch | dates read before locks; charge keys that must not meet; month ends; proration | every active period is paid; paid service is not withdrawn |
| Unsubscribe links (`services/unsubscribe.py`) | verification timestamps | read, confirm | decides on a row it did not lock | an unverified subscription ends |
| Email verification (`services/email_verification.py`, `tasks/email_verification_tasks.py`) | verification links, `email_verified_at`, the delivery address | first mail with retries, resend, click, expiry, bounce | each reads, calls the mail service or waits, then writes | a link ends once; only a pending link verifies |
| Report batches, jobs, generation (`tasks/report_tasks.py`, `services/report_generator.py`) | reports, jobs, `news_surfaced` | scheduled batch, on-demand job, rerun, review | Celery redelivers and retries; two attempts at one report; minutes pass in a model call | no news is skipped or shown twice; a held text is not mailed |
| Report delivery (`services/email_sender.py`, `tasks/report_delivery_tasks.py`) | `email_sent_at`, recipient columns | send, resend, poll | two senders of one report; mail accepted and commit fails; addresses change meanwhile | one text of a report is mailed; only an address that bounced is taken back |
| Portfolio snapshots (`services/portfolio_history.py`, `snapshot_outbox.py`, `snapshot_recovery.py`) | batches, outbox rows, published snapshots | capture, replay, recover | a crash between stage, commit and publish | what was frozen is published once, and not over newer data |
| Signup, invites, waitlist (`routers/auth.py`, `services/invites.py`, `services/waitlist.py`, `tasks/waitlist_tasks.py`) | invites, users, waitlist entries; the Auth provider's users | sign up, redeem, revoke, mail letters, invite automatically, delete | an Auth user to compensate; row locks held across mails; daily limits | the two systems agree; an invite is used once, an entry has one live link |
| Holdings (`services/holdings_write.py`, `agent_holdings.py`, `agent_idempotency.py`, `holding_changes.py`) | holdings, `holdings_version`, change groups, idempotency keys | edit, reorder, confirm, agent writes, preview, roll back | late and repeated requests; a preview and a rollback are two requests; plans end | a stale write is refused; history leads back exactly; the cap holds |
| Uploads (`routers/holdings.py`, `tasks/holdings_tasks.py`) | upload jobs | upload, parse, sweep, clean up | workers killed, messages delivered again, four writers of one row | a result stands; every job ends |
| Market data (`services/price_capture.py`, `services/_tencent.py`, `tasks/capture_tasks.py`, `core/alert_dedup.py`) | `price_snapshots`; the context of a retry; the alerts sent | capture, back fill, judge what is missing, fall back, alert | retries that carry what is open, two sources with different adjustment, captures side by side, mails that fail | a fallback never replaces a close nor mixes two bases; what is missing in the end is reported |
| News and intel (`tasks/intel_tasks.py`, `services/intel_deepen.py`, `services/paid_usage.py`, `services/paid_search.py`) | `intel_slot_runs`, `paid_api_usage`, the meter of a run | reserve, search, extract, retry with the other provider, disable, close | threads that share caps, two runs of a slot that share only the ledger, slow and lost answers that are charged, threads that wait for each other | spending stays within the caps, charges are on the ledger, a run ends |
| Browser sessions (`core/deps.py`, `core/idle_activity.py`) | two keys per session in Redis | check, touch | the store forgets and fails; requests of one session side by side | a session that was refused stays refused |
| Agent tokens and windows (`routers/api_tokens.py`, `core/agent_auth.py`, `core/agent_limits.py`, `tasks/__init__.py`) | `api_tokens`; markers of heavy tasks | create, use, lapse, revoke; mark, clear | judged and written in two statements; signals of tasks that are retried, repeated or killed | five active tokens; agents wait exactly while heavy tasks run |
| Notices (`tasks/notification_tasks.py`, `services/holding_change_alerts.py`) | claims in Redis | claim, queue, judge, send, retry | a claim stands for a mail not yet sent | one mail for one claim |
| Portfolio arithmetic, Jade tools, parsing, compliance | rows derived from the above | pure computation, LLM calls | text and numbers | not a question for a state model |
| Ops alerts, backups, migrations, frontend | logs | reads | — | — |

They interact through rows of one PostgreSQL database, through Celery tasks, and
through three remote services: Paddle (payments), the Auth provider (identity)
and Resend (mail). `PROJECT.json` lists every component with its status and
every hazard with its line.

## The plan

1. **CreditLedger, Payments** — written, checked; every safety property proved.
2. **Subscription**, with the abstract **SubscriptionPromise** it implements —
   written, checked; its safety and the refinement proved.
3. **Snapshots**: capture, outbox and recovery with crashes between their
   commits — written, checked, its safety proved. Left: the overlap of two
   sessions inside one transaction.
4. **Reports**: batch, job, rerun, delivery and the ledger of shown news —
   written, checked; its safety proved.
5. **Invites, Verification, Accounts**: signup in two systems, invites and
   letters, and the links of one account — written, checked; their safety proved,
   apart and together.
6. **Holdings, Uploads, HoldingsPage**: versions, cap, history, idempotency keys,
   upload jobs — written, checked; the stability of upload results and the safety of Holdings proved.
7. **Capture, Deepening** and **DataTasks**, which puts them beside Snapshots, and
   **SlotRuns**, two workers of Deepening: closes and fund values with their
   fallbacks, and the paid searches of a slot —
   written, checked; the safety of Capture proved. Left: the unguarded fallbacks of
   other markets, exchange rates, benchmarks, the free collection of news.
8. **Sessions, AgentTokens, QuietWindows, Notices** and **Access**, which puts them
   beside Accounts: what stands between an account and its data — written, checked;
   their safety proved. Left: the counters of `core/rate_limit.py`.
9. **Proofs** still to write: `TypeOK` of Holdings; `CadenceMatchesType` without
   the condition on the date of a request; Deepening, once its queues are sets.

Twelve runs exist, one per question.

## Modules

`CreditLedger` has no variables: it is the vocabulary of Payments and Subscription.
The two tables are one value `db` (which users exist, who invited whom, the
balance columns, the rows), and each function of `services/credit_ledger.py` is
an operator from tables to tables. A function that can raise has a `Can...`
operator; a caller whose `Can...` is false rolls back, so it has no action (or
one that only ends the request). Amounts are cents. An idempotency key is a
tuple of a namespace and ids, since the queries of the code tell keys apart by
prefix and transaction. Rows are kept per user and bucket, in id order; no query
reads the order between accounts.

| Module | Models | State | Actions |
|---|---|---|---|
| `Payments` | `routers/paddle_webhooks.py`; `refund_payment`, `credit_adjustment_by_email`, `_purge_local_user` of `routers/admin.py`; `delete_account` of `routers/me.py` | `db`; `lock` (the request that holds each users row across remote calls); `req` (the Ops refunds that run); `payment`, `adj` (Paddle's side); `late` (purchases past 120 days); `purging` (purges between check and delete) | `PurchaseWebhook`, `RejectionWebhook`; a refund in steps: `RefundStarts`, `RefundDebits` or `RefundRefused`, `PaddleAdjusts` or `PaddleRefuses`, `RefundCommits`, `RefundCommitFails` or `AnswerLost`; `AdminAdjusts`, `DeletesAccount`, `OpsPurgeChecks` / `Deletes` / `Fails`; Paddle's `PaddleCompletes`, `PaddleDecides`, and time, `WindowCloses` |
| `Subscription` | `services/subscription.py`, `confirm_unsubscribe`, the users write of `confirm_verification`, the conditional update of `poll_report_delivery`, the check phase of `generate_incremental_report` | `db`; `sub` (the subscription columns); `verified`; `leaving` (unsubscribe requests between read and commit); `today` | `SetPlan...` (one per branch of `set_plan`), `Cancel`, `Resume`, `SetJadeCadence`, `TopsUp`, `Check...` (one per outcome of `_check_user`), `Activates`, `Verifies`, `UnsubscribeReads` / `Commits`, `Bounces`, `Midnight` |
| `SubscriptionPromise` | what a subscriber may rely on, without plans, fees or calendar | service, paid until, credits, day of last adjustment | what the user asks for, what the scheduler may do |
| `Snapshots` | `services/portfolio_history.py`, `services/snapshot_recovery.py`, the pruning of `services/snapshot_outbox.py`, the daily task of `tasks/capture_tasks.py`, the Ops recovery of `routers/admin.py` | `slot` (batch status, outbox row and published rows of a user and day); `book`, `rates` (what a capture reads); `task`, `left` (the daily task and its retries); `today` | `TaskFreezes`, `TaskPublishes`, `TaskRecovers` (one per date) for the task's commits, `TaskRaises`, `TaskDies`; `OpsRecovers`; the world's `Midnight`, `RatesArrive`, `BookChanges`, `PayloadBreaks` |
| `Reports` | `generate_report`, `regenerate_report` and the news ledger of `services/report_generator.py`; `send_report_email`; `tasks/report_tasks.py`, `services/report_jobs.py`; rerun and resend of `routers/admin.py`; `poll_report_delivery` | `row` (a report: status, window, news, text, email columns), `marks` (`news_surfaced`), `pool`; `job`, `queue`, `tried`; `worker` (what each process has read); `inbox` (what the mail service accepted), `verified`, `polls`, `bounced` | `RequestJob`, `Trigger`, `StartJob`, `StartBatch`; one attempt in steps, `Proceed`, `Skip`, `Fail`, `Finish`; a send in steps, `Load`, `Post`, `Record`; `EndJob`, `EndBatch`; `Rerun`, `Regenerate`, `RegenerateFails`, `Answer`, `Resend`, `Send`; `PollRead`, `PollRevoke`; `Verify`, `Unsubscribe`, `Capture`, `Tick`; `Die`, `CommitFails`, `MailUnconfirmed` |
| `Invites` | `signup` of `routers/auth.py`, `services/invites.py`, `services/invitation_letters.py`, `services/waitlist.py`, `tasks/waitlist_tasks.py`, the account routes of `routers/admin.py` and `routers/me.py`, `services/user_purge.py` | `auth` (the provider's users), `local` (the users rows), `invites`, `entries`, `session` (a request or task run, with what it has flushed) | a signup in steps, `Submit`, `Redeem`, `CreateAuth`, `CommitSignup`, `Compensate`; `Ask`, `LockEntry`, `Issue`, `Mail`, `MarkSent` for links, letters and status; `StartRun`, `NextLetter`, `EndRun` for the automatic ones; `CreateInvite`, `Refer`, `Revoke`; `DeleteAuth`, `DeleteLocal`, `SelfDelete`, `FindOrphan`, `DeleteOrphan`; lost answers, failing commits, `Die`, `Expire`, `Unsubscribe` |
| `Verification` | `services/email_verification.py`, `tasks/email_verification_tasks.py`, `routers/email_verification.py`, the delivery address of `routers/me.py` | `links`, `columns` (what the users row says), `task` (the first mail and its retries), `clerk` (a request or task between read and write), `polls` | `Request`, `StartTask`, `Sent`, `NotSent`, `NotStored`, `Click`, `Confirm`, `PollRead`, `PollWrite`, `Withdraw`, `Age`, `Appear`, `Remove` |
| `Accounts` | the two composed: a users row appears and disappears, and with it the links of its address | the variables of both | `AccountStep`, `LinkStep` |
| `Holdings` | `services/holdings_write.py`, `services/agent_holdings.py`, `services/agent_idempotency.py`, `services/holding_changes.py`, `cleanup_holding_changes` of `core/agent_audit.py` | `book`, `version`, `groups` (the history), `keys`, `plan`; `seen` and `sent` (the agent and the network), `preview` (the browser) | `ConfirmHoldings`, `CreateHolding`, `ReorderHoldings`, `UpdateHolding`, `DeleteHolding`; `PreviewVersion`, `PreviewRows`, `PreviewGroups`, `RollbackHoldings`; `GetBook`, `Ask`, `ServeWrite`, `ServeWithoutWriting`; `KeyExpires`, `PlanChanges`, `OpsEdit`, `CleanupHoldingChanges` |
| `Uploads` | `upload_holdings` of `routers/holdings.py`, `tasks/holdings_tasks.py` | `jobs`, `router`, `messages` (the broker), `worker`, `rescuer` (hook and sweeper between read and write), `killed` | `Upload`, `Enqueue`, `EnqueueFails`, `RouterDies`; `StartParse`, `SkipParse`, `FinishParse`, `Acknowledge`, `CommitFails`, `HardLimit`, `WorkerDies`, `Redeliver`; `RescueReads`, `RescueWrites`, `RescueFails`, `HookMissed`; `Stale`, `Age`, `CleanupUploadJobs` |
| `HoldingsPage` | the two halves of the holdings page | the variables of both | `BookStep`, `UploadStep` |
| `Capture` | `capture_prices`, `capture_prices_attempt`, `capture_fund_navs_attempt` and their alerts of `services/price_capture.py`; `admit_tencent_missing_dates` of `services/_tencent.py`; the two captures and the backfill of `tasks/capture_tasks.py`; `core/alert_dedup.py` | `row` (where each close came from); `chain` (a task's message, attempt and work); `held`; `marked`, `mailed` (alerts); `kind`, `calendar`, `since` (the world) | `Fire`, `StartAttempt`, `EndAttempt`, `Alert`; of ETFs `Backfill`, `Fetch`, `Judge`, `StartFilling`, `Fill`; of funds `NavFetch`, `NavCheck`, `NavVerify`, `NavFallback`; `Raises`, `WorkerDies`, `Sold` |
| `Deepening` | `services/intel_deepen.py`, `services/paid_usage.py`, the calls of `services/paid_search.py` and `exa_search.py`, `intel_slot` of `tasks/intel_tasks.py` | `status` (of the slot's row); `slotTask` (how far the task is); `coord` with `queue` and `groups`, `thread` with `jobs` (the coordinator and the pool); `meter`, `spent` (the meter of the run and the ledger), `unseen` | `Trigger` (the clock), `Check` (the row is read), `Begin` (and written), `Load` (the meter), `MoversCollected`, `Finish`, `CollectionFails`, `Close`, `Dies`; of the coordinator `StartWave`, `TakeLinks`, `Search`, `SearchAnswered`, `SubmitBatches`, `WaveEnds`, `StartExa`, `ExaQuery`, `ExaAnswered`, ...; of a thread `TakeJob`, `Choose`, `Size`, `Extract`, `ExtractAnswered`, `Disable` |
| `SlotRuns` | two instances of Deepening, one per worker, around one row and one ledger | the shared variables of Deepening once (`slot...`), the others twice (`...A`, `...B`); `latest` (who has the later clock), `overlapped` | `RunA`, `RunB`: any step of one worker, with what it changes in what the other counts |
| `Sessions` | `core/idle_activity.py`, `current_principal` of `core/deps.py` | `active`, `start` (the two keys, with the moment they are forgotten), `call` (each request), `time` | `CheckIdle`, `ReadStart`, `WriteStart`, `Touch`, one per call to the store; `PassTime` |
| `AgentTokens` | `routers/api_tokens.py`, `services/api_tokens.py`, `core/agent_auth.py`, the revocations of `routers/api_token_revoke.py` and `routers/admin.py` | `token`, `rowLock`, `caller` (a creation or an agent's request), `date` | `AskToken`, `LockUser`, `CountTokens`, `NewToken`; `ReadToken`, `WriteLastUsed`; `RevokeToken`, `RevokeAll`; `NextDate` |
| `QuietWindows` | `quiet_retry_after` of `core/agent_limits.py`, the Celery signals of `tasks/__init__.py` | `heavy` (messages and workers of each task), `mark`, `cool`, `clock` | `Publish`, `StartHeavy`, `Retry`, `EndHeavy`, `SetCooldown`, `HeavyDies`, `DeliverAgain`, `Minute` |
| `Notices` | `tasks/notification_tasks.py`, `services/holding_change_alerts.py`, the claims of `routers/agent.py`, `routers/portfolio.py` and `core/rate_limit.py` | `claimed`, `asking`, `waiting` (messages by arguments), `sender`, `mails` | `Claim`, `QueueNotice`, `NoticeFails`, `RequestDies`, `HoldingsChange`; of a worker `Take`, `Judge`, `ClaimAlert`, `SendMail`, `NoRecipient`, `EndTask`, `RetryMail`, `SenderDies` |
| `Access` | Accounts and these four, which share no table | the variables of all five | `AccountsStep`, `SessionStep`, `TokenStep`, `QuietStep`, `NoticeStep` |
| `DataTasks` | Snapshots, Deepening, SlotRuns and Capture, which share no table | the variables of all four | `SnapshotStep`, `DeepenStep`, `SlotStep`, `CaptureStep` |
| `MC...` | the small instances | | |
| `...Proofs` | lemmas and theorems of the module they are named after, and of those it puts together | | |

**Grain.** PostgreSQL runs at READ COMMITTED and nearly every writer takes the
user's row lock first, does its work and commits. Nobody sees its rows before
the commit and nobody else writes the account, so it is one action, enabled when
the locks it takes are free. Where the code breaks that pattern the model has
several actions: the Ops refund (lock held across Paddle's calls), the Ops
purge (balance read, remote call, delete), the unsubscribe link (read without a
lock, later commit). Two things are read before a lock that is waited for and
are modelled as older than it: the replay check of `debit_refund`
(`RefundStarts`) and the date of a subscription request (`Dates`). The daily
snapshot task is one action per commit, and reads the users to recover once,
before its first date.

In Reports every transaction and every call of the mail service is an action;
the model call lies between the one that begins an attempt and the one that
commits it. SQLAlchemy writes the columns a session changed, by primary key, so
two attempts at a report mix; `written` and the row say whose text is whose. In
Invites and Verification a call of the provider or of the mail service lies
between two actions, and so does each wait for a row lock that follows a read;
what is flushed but not committed stays with its session, and rows it has locked
block the others. In Holdings every writer locks the users row, then the rows of
the book, and commits once, so a write is one action; what interleaves are the
requests of the agent, the three reads of a preview, retention and edits by
hand. In Uploads nobody locks: worker, hook, sweeper and router each read that a
job is pending in one action and write its end, by primary key and without a
condition, in another.

In Deepening what a thread does under the lock of the meter is one action, and a
paid call lies between two. A slot that is new is inserted, which blocks other
triggers until its status is committed, so there `Check` reads and writes; one
that has failed is read without a lock (`Check`) and written later (`Begin`). In Capture the fetch of a source with the write of
what it got is an action, and so is the judgement of one instrument; between
them the rows are read again, as in the code. `DataTasks` and `Access` put modules
that share no table into one run; a behaviour is about one of them. In Sessions
and QuietWindows each call to Redis is an action; in AgentTokens each statement
that another request can come between; in Notices the claim, the queue, the
judgement and the mail.

**Left out.** Notes, alert wording, e-mails about balances, quotes and
summaries; signature checks; webhooks the code ignores; currencies (one). Row
locks of one action are taken together, so a deadlock of two transactions
(which PostgreSQL resolves by aborting one, as if it had failed) does not occur
in the model; the hazard list names the one the code can meet. A legacy cadence
is a constant of the instance. The subscriber of Subscription is an existing,
active user: deletion is modelled in Payments. A snapshot is the shares of each
holding: prices are frozen with them and no step treats them differently.
`rates` holds the days for which a capture finds every rate it needs, which
abstracts the look back over earlier rates. A capture and an Ops recovery of the
same day whose statements overlap inside their transactions are not modelled.

Reports follows one user, since users share no row; who is due in a batch is in
Subscription, and whether all others failed, which lets a batch be retried, is
left open. News is a set of items: what a text says is abstracted to which news
it shows and whether the compliance filter held it, and the news of single
instruments is not told from the rest. Resend remembers an idempotency key for
24 hours only; the model forgets none. Signup's attribution, its opening credits and
the referral fields belong to other components; letter bounces, captchas, rate
limits and the probes that Ops sends to unbound addresses are left out. A row of
holdings has a value and a position; which of its other fields a write may set
is validation, and brokerage accounts, asset classes, captures and alerts that
follow a write are left out.

Capture has closes by source, and by the side of the last dividend or split they
lie on, not by value: two series of Tencent agree on a day exactly if nothing
came since. So Yahoo's closes are taken to be adjusted and Tencent's adjusted
series to be up to date; if that one lags behind an event, its raw and adjusted
closes agree by mistake and the code admits them. The window is frozen with the
chain; in the code an exception in a first attempt freezes it anew. Alerts are
per instrument, not per day. Other markets and intraday nodes, exchange rates,
benchmarks and forward events are left out. Deepening leaves out what articles
say, how units are chosen and ranked, the rows of news, alerts about the budget,
and every `INTEL_AB_MODE` but `ab`.

## Runs

Passing runs:

| Run | Instance | Shows |
|---|---|---|
| `payments` | a buyer and the inviter, one purchase of 7 credits for 10 units of money with a bonus of 4 (3.5 rounded up); two requests at once, three keys, three adjustments, refunds of 2 and 5; commits may fail; symmetric workers, keys and adjustments | `BalancesMatchLedger`, `RefundsWithinPayment`, `ClawbackFollowsRefunds`, `LedgerMatchesPaddle`, `RejectionRestoresDebit` |
| `deletion` | the same with one key and one adjustment, where the inviter and the buyer may spend, be deleted or purged at any time, the window closes, commits fail and answers are lost | `ClawbacksAreExact`: what deletion leaves of the clawbacks, and that nothing else overdraws; with fairness `WorkIsSettled`: payments are credited, refunds end, rejections restore |
| `subscription` | one subscriber and the inviter, months of 2, 1, 2, 2 and 2 days, six days, two briefing plans at 2 and 3, Jade at 5 (4 for the first period), a signup grant of 5 and a top-up of 4, an address that may bounce, a cadence from before subscriptions | `CadenceMatchesType`, `PeriodsArePaid`, `ChargesAddUp` (returns within charges, discounts charged, the first charge rewards the inviter once), `PromiseKept`; with fairness `OverdueIsSettled` |
| `data_tasks` | four parts. Snapshots: one user with a holding in the base currency and one in another, three days, looking back one day, retention of one day, one retry; two edits, one dead worker or damaged payload; exchange rates at any time, Ops recovers any day at any time. Deepening: two movers (one to search, one with three links), another instrument with one link, a theme; two threads, three providers whose month or run binds first; triggered twice, or once with a failing call or a dead worker. SlotRuns: two workers with a thread each, the mover with three links, one provider of which the run pays three credits and the month two more; triggered three times. Capture: two instruments over three days, one held in yuan; nine cases of what is stored, known and adjusted; a daily capture of three attempts beside a backfill of two, one mishap | `ShownIsFrozen`, `PastIsReplayed`, with fairness `RecoverySettles`; `SpendAccounted` (caps, and charges on the ledger, by one worker; by two, the caps of one run, or of two where they overlap), with fairness `DeepeningEnds`; `FallbackAdmitted`, `NoSilentMiss` |
| `reports` | a scheduled report and a manual one, a job, one news item, two processes that are workers or requests of Ops, the account's address, which bounces, and another; one of: windows that move on, a fault, two requests of Ops, a request beside a change of address, a fault beside one | `NothingSkipped`, `NewsShownOnce`, `BlockedNeverMailed`, `OneTextMailed`, `OnlyBouncedRevoked` |
| `accounts` | two addresses on the waitlist, three invites, two Auth ids, two sessions; ten mixes of signups, Ops, runs, deletions and faults; one account with three links, two processes and an address that bounces; a session with two requests, an idle limit of 1, a lifetime of 2 and keys kept for 4 and 6, over 7 moments, one failing call; two tokens of which one may be active, lapsing after a day, two requests; two heavy tasks with a marker kept for 3, a cooldown of 2 and a start at 0, over 5 moments, one fault; one claim of each kind with two workers, three occasions and three faults | `OneLiveInvite`, `UsersMatchAuth`, `AutoLimit`, `RedeemedWasLive`, `VerifiedByLink`; `EndedStaysEnded`; `ActiveTokensCapped`; `GateMatchesTasks`; `ToldOnce` |
| `holdings` | a book of two rows with room for three, or for one after a downgrade; seven mixes of browser writes, requests of an agent with copies, previews and a disturbance (a key expires, the plan changes, an edit by hand, retention in batches of one); or one upload with two workers, a sweep beside a hook, and two faults | `VersionTellsBook`, `RollbackExact`, `RollbackAsShown`, `RowsWithinCap`, `AppliedOnce`, `ResultStands`; with fairness `JobsEnd` |

Runs that TLC finds violated, each a disagreement between the code and its
documentation (`PROJECT.json`, findings, quotes both):

| Run | Shortest story |
|---|---|
| `early_rejection` | Paddle rejects a refund while the request that created it has not committed: the webhook finds no debit and answers 200; the debit then commits and stays. |
| `lost_answer` | Paddle creates the adjustment, the answer times out, the route rolls back without an alert: money leaves, no debit. |
| `stale_purge` | Ops checks a zero balance, a purchase webhook credits cash while the Auth call runs, the user is purged with it. |
| `unsubscribe_race` | An unsubscribe link reads an inactive account, the subscription starts, the link commits: active, unverified, not ending. |
| `refreeze` | Ops recovers today, the user edits, the daily task freezes today again and its worker dies before it publishes: the batch is complete, so no recovery takes up what was frozen. |

These faults are switched off where a passing run is about something else: the
constant `Faults` of Payments (the `payments` run has no `early_rejection` and no
`answer_lost`, the `deletion` run no `early_rejection`). With them on, the
violated property is the finding's. `LateDates` of Subscription lets a request
read its date before midnight and get its lock after: then `PeriodsArePaid`
fails too (subscribe to A, change to B the next day from a request with the
older date: the once-a-day check compares with another date, and a charge key of
the day before is replayed instead of charged); the `subscription` run has it
off. `subscription` has one address, since two are what `unsubscribe_race` needs;
an unsubscribe may still commit late there, also one clicked when the address was
no longer verified, and `UnverifiedIsEnding` is no property of that run.

### What the properties except, and why

Several properties name a race of the code and hold outside of it. Each
exception is needed: without it TLC finds the race.

- Reports, `overlapped`: two attempts at one report at once (a job delivered
  again while the first worker is still at the model, or a rerun beside an
  attempt). Their blind writes mix: a text that was held can be mailed, two texts
  can be, and marks can stay on a report that ended as failed. `_finish_report`
  decides to mail by the violations of its own text while `send_report_email`
  reads the row again.
- Reports, `stale`: of two reports at work beside each other either may show what
  the other shows, or what a third shows after the other has lost it again (it was
  marked, the report reopened under review and failed, which takes the mark away).
  A report that failed and was resumed after another had shown the same news shows
  it again. `rerun`: Ops asked for another text.
- `NothingSkipped`: a report under review that fails when it is tried again keeps
  its window, and news in it waits for Ops.
- Invites, `doomed`: the Ops purge of an Auth user "without a users row" can take
  that of a signup whose commit is under way (`routers/admin.py:1018-1021`): the
  account then exists and nobody can log in to it. A commit whose answer was lost
  makes the compensation delete the Auth user of a live account. A letter in
  flight can make the local half of a deletion fail after the remote half.
- Invites, `orphaned`: the answer of `create_auth_user` is lost, or the process
  dies, and the Auth user stays without a users row; the address is blocked until
  Ops purges it.
- Invites, `overlapped` and `unrecorded`: two automatic runs at once, and letters
  whose record was lost, exceed the daily limit.
- Holdings, `edited`: rows corrected by hand in the database move no version and
  leave no history.
- Holdings, "no group missing on the way": `cleanup_holding_changes` deletes up to
  a thousand expired groups at a time in no order and commits between, so an older
  group of a user may for a moment outlive a newer one, and a rollback to it skips
  the newer one's changes.
- Deepening, `over` and `lost`: what a provider reports above the estimate it was
  sent is charged all the same and may exceed a cap; a charge is not on the ledger
  if the connection broke, the row did not commit, the worker died in the call, or
  an Exa query was never answered. `SpendWithinCaps` is about one worker, with
  one run after the other.
- SlotRuns, `overlapped`: two triggers of a failed slot both read the row as failed
  and both run: the row is read at `tasks/intel_tasks.py:67-71` without a lock, and
  written at 93-95. (`docs/mechanisms/capture-and-reporting.md:633` says the key of
  the row "prevents repeated non-failed runs"; the second of these starts while the
  row is at running, or has ended well.) The meter of each counts what the ledger
  shows when it is loaded, and in the month only rows with a clock no later than
  its own (`paid_usage.py:70`); so a run that loads it while the other is at work,
  or after one with a later clock has paid, may spend its caps once more. Either
  alone is enough. `SpendTogether` bounds both runs by the caps of one if neither
  has happened, and by twice those if one has.
- Capture: the backfill of ETFs asks one source and ends quietly whatever it got,
  and holdings outside the yuan have no fallback and no alert, so `NoSilentMiss`
  is not about them. A dead worker or an exception in the last attempt ends a
  chain without an alert of ours; an exception is Celery's to report.
- Sessions, `crossed` and `outages`: a request that had passed its check when
  another was refused records its activity all the same, and revives the session;
  and every failing call to the store lets a request pass, by design.
- AgentTokens, `revived`: a token lapses between the read and the write of a
  request that used it. The write makes it active again, and its place may be
  taken, so a user may have six.
- QuietWindows, `blamed`: the marker of a task that was killed, or whose signal
  could not reach the store, stays for its four hours or is missing; a message
  delivered again runs without a marker once its other copy has ended.
- Notices: `repeated`, a mail accepted without its sender knowing (the answer lost,
  the worker killed before it acknowledged) is sent again; `spent`, the worker of
  an alert dies after its claim, and the message that comes again finds the day
  told (`services/holding_change_alerts.py:127`), as for any claim whose mail fails
  twice; `dropped`, the store or the broker failed before a claim.
- Uploads, `overlapped`: two have read a job as pending before either wrote. A
  sweeper beside a slow worker can turn a success into a failure that keeps its
  preview, which `models/upload_job.py:62-63` calls "Never populated on failure";
  a router whose broker took the message and then raised can do the same.

**Bounds.** Two requests are enough for every race on one row lock, since a
third waits like the second. Refunds of 2 and 5 of a purchase of 7 give a
partial refund, two that add up to all of it, and two or three that do not fit;
three keys and adjustments allow a refund, its rejection, and a second and third
attempt. 7 credits for 10 units make every share of money and of the bonus
uneven, so that rounding errors show. One purchase suffices for properties that
are per purchase; accounts mix sources of credits through the opening balance
and the adjustment. Six days over four months reach a renewal on a shorter
month, the anchor coming back on a longer one, a missed period, a lapse and a
recovery; one top-up is what a lapse needs to end. Three days with a look back
of one give a day to lose, the day whose task recovers it, and a day when the
first is out of reach; the last day has no faults, so that what earlier ones
left is settled or provably stuck. Days of different users meet only in the
publishing transaction, which one damaged payload rolls back for all. In `reports`, `accounts` and
`holdings` each behaviour starts with one of a few budgets: what happens besides
the work itself is spent from it. They hold one or two disturbances at a time
beside two actors, which every race of the code on one row needs; two processes,
requests or workers and symmetry between them are enough for the same reason as
in `payments`. Two reports and one news item let news be skipped, shown twice or
marked wrongly; three invites are one to use, one to supersede it and one of the
next letter. A book of two rows that may hold three has an append that fits, one
that does not, and after a downgrade a book over its cap; three groups make a
rollback over a rollback. Two threads beside a coordinator meet at the meter in
every way that matters, and the caps of the instance are a few calls wide, so that
each is the one that is hit in some behaviour; a second trigger starts with what
the first has spent. In SlotRuns the first trigger fails the slot and the other
two may meet; one thread per worker is enough, since what two threads do at one
meter is the subject of Deepening. Three days of closes have one before an event and one
between two; three attempts have one that retries with what another saw, and a
last one. `CHECK_DEADLOCK FALSE` is set
because requests, keys and days run out.

**Fairness.** Payments assumes that Paddle redelivers a webhook until it gets a
200 (`paddle_webhooks.py` answers 5xx on any failure for that purpose), that a
waiter for a row lock is served in the end (PostgreSQL queues waiters: strong
fairness, because other transactions come and go), and that a request runs to
its end because each call to Paddle has a timeout. Deciding on a refund,
requesting one, deleting a user and the passing of 120 days are not fair.
Subscription assumes only that the scheduled check runs for the user again and
again (weak fairness of `Check`), which Celery beat does on every due day of a
cadence; no request is fair and midnight is not either. Snapshots assumes that
days pass and that the task is started on each of them and takes its next step
unless it dies; a dead or failed task may be redelivered, retried or lost. Edits,
rates, Ops and faults are not fair. Deepening assumes that a step which the
task, the coordinator or a thread can take is taken: collection has a time budget, each call a timeout, and
the operating system runs the threads; no trigger and no dead worker is assumed. Uploads assumes that time passes and that
Celery Beat starts the sweeper every 30 seconds (`SweepFairness`); nothing is
asked of a worker, a hook or the broker, which is what the sweeper is for. Reports,
Invites, Verification, Holdings, Capture and the modules of Access have safety properties only: a dead worker may
leave a job of Ops pending for good, since no sweeper looks after report jobs.

## Proofs

`CreditLedgerProofs` proves what every later proof needs: how `Sum`, a recursive
function over a sequence, behaves (`SumType`, `SumAppend`; since theorems that
take an operator cannot be used here, induction goes through subsets of the
naturals, `NatSetInduction`, and the partial sums of a sequence), and that one
posting keeps tables sound (`PostedSound`): every row is typed, and every
balance is the sum of its rows and the last `balance_after`.

`PaymentsProofs` proves, for all values of the constants that satisfy
`PaymentsAssumption`:

- `TypeCorrect`: `Spec => []TypeOK`;
- `AccountsReconciled`: `Spec => []BalancesMatchLedger`;
- `CreditsNeverOverRefunded`: `Spec => []RefundsWithinPurchase`;
- `ClawbacksExact`, `ClawbacksFollowRefunds`: `Spec => []ClawbacksAreExact` and
  `Spec => []ClawbackFollowsRefunds`;
- `RefundsWithinWhatWasPaid`: `Spec => []RefundsWithinPayment`, and
  `LedgerAgreesWithPaddle`: `Spec => []LedgerMatchesPaddle`, both if
  `"answer_lost" \notin Faults`;
- `RejectionsRestoreDebits`: `Spec => []RejectionRestoresDebit`, if
  `"early_rejection" \notin Faults`.

The hypotheses on `Faults` are the two faults whose violations are findings
(`lost_answer`, `early_rejection`): without them the properties are false. The
others hold with every fault.

The first two follow from an inductive invariant `IInv`. `TypeOK` alone is not
inductive: to type the row that `RefundCommits` posts one needs that a request
past its first step names a transaction, a key and an adjustment (`Requests`),
and to type what a rejection reverses, that an adjustment that exists names a
transaction (`AtPaddle`). The proof has one lemma per writer of the tables
(`PurchasedSound`, `AfterClawbackSound`, `ReversedSound`, ...) which reduces it
to postings, and one lemma per group of actions (`PaddleStep`, `WebhookStep`,
`RefundStep`, `CommitStep`, `AccountStep`).

The others follow from `PInv == IInv /\ Books(db) /\ Asked /\ Answered /\
Accounted /\ Patient`, all of which TLC checked on both instances first:

- `Books` says what the rows add up to. Every refund has its clawback and every
  reversal the row it undoes, each once (`WellKept`); the sum of the signed rows
  of a purchase is the sum of those not undone (`Tallied`), which bounds it from
  both sides; refunds are within the purchase and clawbacks within the bonus
  (`Within`, `Matched`); and what an account is overdrawn is clawbacks
  (`Overdraft`). Books are kept by one posting of each kind (`Fits`, `FitsKeeps`),
  then by each transaction (`PurchasedBooks`, `CommittedBooks`, `ReversedBooks`,
  ...). In the middle of a refund they are off by one row (`Debiting`,
  `Restoring`), and the clawback puts them right.
- `Asked` says that what a request found under the buyer's row lock (enough
  left of the purchase, enough cash, its key unused) still holds when it commits
  after two calls to Paddle. This is where the mutual exclusion by the lock is
  used: `Moves` names the users whom a transaction may move, and `OthersStay` shows
  that no other transaction moves one that is locked.
- `Answered` ties each debit to the adjustment it names and its amount in money;
  `Accounted` says that without lost answers every adjustment is debited, alerted
  or in flight; `Patient`, that without early rejections a rejection finds its
  debit.

For the money, `FoldFunction` takes one element after the other out of a set by
a recursive function. `FoldExists` shows that such a function exists on the
subsets of the finite set of adjustments, by induction on their number
(`NatSetInduction`), `AddedOnce` that there is only one, and `FoldIs` that the sum is
its value. `FoldCovered` then compares
it with the partial sums of the ledger: every adjustment has a debit of its own
that covers it at the price of a credit, rounded down (`MoneyCovered`), and at
most one request is in flight (`OneInFlight`).

Assumed of its constants: ids are distinct from `None`, prices and credits are
positive, the bonus rate is at most one, opening balances are not negative.

`DataTasksProofs` proves of Snapshots, for all values that satisfy
`SnapshotsAssumption`:

- `TypeCorrect`: `Spec => []TypeOK`;
- `AppliedIsShown`: `Spec => []ShownIsFrozen`;
- `PastIsKept`: `Spec => PastIsReplayed`.

Its inductive invariant adds to the two invariants `FrozenHasRates`, since a
payload is published without another look at the rates, and `AtWork`: a task that
runs has a start left and is at a day that has come, without which neither its
retries nor its dates stay in range. One lemma per function of the code
(`StagedGood`, `AppliedGood`, `RecoveredGood`, `PrunedGood`, ...) shows that it
keeps one user and day `Good`; the lemmas about actions only spread that over
users and days. `AppliedGood` needs a readable payload, which is where the guard
of `TaskPublishes` and the test in `Replayed` enter.

It proves of Capture, for all instruments, windows, lags, numbers of attempts,
cases and mishaps that satisfy `CaptureAssumption`:

- `CaptureTypes`: `CaptureSpec => []CaptureTypeOK`;
- `FallbackIsAdmitted`: `CaptureSpec => FallbackAdmitted`;
- `NoMissIsSilent`: `CaptureSpec => NoSilentMiss`.

No step takes a usable close away (`Grows`), so whatever a chain has seen is still
stored (`Seen`). The invariant `CIInv` then says of each chain where it can be
(`Placed`), that what is missing of an instrument together with what is stored is
all that was expected (`Gaps`), and that whatever the chain was fired for and has
not before it any more is complete (`Accounted`), which is what must be true of
everything when it ends quietly. A step is either one of a chain (`MovedKeeps`),
or one of the world, which leaves the others as they are (`Frame`). There is one
lemma per action. `FallbackIsAdmitted` then follows from the guards of
`GuardedUpsert` and `Admits`: the days between an admitted day and one that was
seen are all unadjusted, and so is the admitted one. `DataTasksKeepTheirWord`
carries both to `DataSpec`, which the run checks: a step of one task leaves the
variables of the others as they are.

`VerificationProofs` proves, for all accounts, links, clerks, addresses and
faults:

- `VerificationTypes`: `Spec => []TypeOK`;
- `TerminalForEver`: a link that has left pending is never moved again;
- `VerifiedThroughLinks`: an address becomes verified only with a pending link.

Its inductive invariant is `TypeOK /\ Clicked`: a clerk that is about to confirm
a link holds the scope and the address of that very link, which no step changes
as long as the link exists. The two action properties then follow step by step:
every writer moves a link through `Moved`, which tests that it is still pending,
whatever its clerk read before.

`HoldingsPageProofs` proves of Holdings, for all books, files, plans, keys, caps, requests and
numbers of writes and disturbances:

- `VersionIsBook`: `Spec => []VersionTellsBook`;
- `RequestsApplyOnce`: `Spec => []AppliedOnce`;
- `HistoryLeadsBack`: `Spec => []RollbackExact`;
- `RollbackKeepsItsWord`: `Spec => RollbackAsShown`;
- `CapHolds`: `Spec => RowsWithinCap`.

At its centre is `History`: outside the rows edited by hand, each group that is
left holds exactly the difference between the book it found and the book that
the next one found (`Follows`), which is what makes the replay work. `Replay` is
a recursive function over the groups; that it exists (`RewindExists`) and where
it leads (`ReplayLeadsBack`, `ReplayShaped`) go by induction over the number of
groups, and one step of it is `UndoneLeadsBack`. The invariant adds what is
known of everything that was read earlier: the agent's view (`Reading`), the
requests in the network (`Waiting`: one that was applied carries a version that
is past) and the preview (`Shown`). Every writer reduces to `Makes`: one write of
a book of well formed rows within the cap. A write makes all that was read
before it stale (`WriteKeeps`); any other step changes at most edited rows and
drops groups (`QuietKeeps`). `CapHolds` follows from `Makes` and the size of a
book with added rows (`WithRowsAdds`).

Assumed of its constants: the first book has the ids from 1 on, caps are natural
numbers, files are sequences of rows.

It proves of Uploads, for all jobs, workers, rescuers and numbers of faults:

- `UploadsTypes`: `UploadsSpec => []UploadsTypeOK`;
- `TextIsCleared`: the uploaded text is kept only while the job is pending;
- `ResultsStand`: a job that has ended keeps its result, but for `overlapped`.

The inductive invariant adds `Guarded`: of a job that is not overlapped at most
one party, `Alone`, may still write the end, and while it may the job is pending
or gone; a job with no status has been claimed by nobody. The parties are the
router, the workers and the rescuers, and each action moves at most one of them
in or out of the claim.

`PageKeepsItsWord` carries all of it to `PageSpec`, which the run checks.

`AccessProofs` proves of Invites, for all addresses, invites, Auth users,
sessions, limits, days and faults that satisfy `InvitesAssumption`:

- `InvitesTypes`: `Spec => []TypeOK`;
- `OneLinkAtATime`: `Spec => []OneLiveInvite`;
- `RedeemedInvitesWereLive`: `Spec => RedeemedWasLive`;
- `TheTwoSystemsAgree`: `Spec => []UsersMatchAuth`;
- `DailyLimitHolds`: `Spec => []AutoLimit`.

None of the four properties is inductive. Each needs to know what the sessions
under way hold, and the invariant has a part for each. `RowsApart`: what a signup
has redeemed is made, unused, not revoked, in no letter's hands and no other
signup's, which is what the row locks are for. `EntryHeld`: who locked an entry
is alone, and when it mails it holds all links of the entry, so that the new link
is the only one (`OneLink`); the lock is needed here, since two letters that had
both revoked the same links would each add one. `SubsApart`: ids given out are
never given out again, so a signup's Auth user is its own, no other row names it,
and the user of a purge under way is already gone from the provider.
`WithinLimit`: what was mailed plus what the run may still mail fits
(`RoomForRun`), and what was mailed is in `invites` or known as lost
(`PostsRecorded`), from which the next run of the day counts. There is one lemma
per action; most reduce to `RowsStay`, `AccountsStay` and `LimitStays`, which say
what leaves a part alone, and the rest to `NewLink`, `AuthComes`, `RowComes`,
`AuthGoes` and `PostedLimit`, which say what a part can take.

It carries this to the accounts of Access, and proves of the four parts beside
them, for all requests, tokens, tasks, workers, limits and bounds:

- `SessionsTypes`, `RefusedStaysRefused`: `SessionsSpec => []EndedStaysEnded`;
- `TokensCapped`: `TokensSpec => []ActiveTokensCapped`;
- `GateIsRight`: `QuietSpec => []GateMatchesTasks`;
- `NoticesToldOnce`: `NoticesSpec => []ToldOnce`;
- `AccessKeepsItsWord`: all of these, what is proved of Invites, and
  `VerifiedByLink` and `TerminalStays` of Verification for the owner's account, of
  `AccessSpec`, which the run checks.

The last rests on a refinement: the accounts implement Invites, and, with the
owner's users row for its account, Verification (`LinksFollow`). For that a users
row must never pass from one Auth user to another in one step
(`LocalComesAndGoes`): a signup commits only where there is none.

Sessions (`SInv`): as long as no call to the store failed and the first start is
remembered, its key is still there and no activity is older (`Begun`); and once a
request was refused, the session is past its lifetime or its last activity is
stale, and no request stands behind the check that would stop it (`Over`). This
is where the code's choice of times matters: activity is remembered for longer
than the lifetime (`Lifetime < IdleKept`), so when a stale activity is forgotten
the lifetime has passed.

AgentTokens (`TInv`): whoever stands between the count and the insert holds the
row of the user (`HolderIsLocked`), and the room counted is still there
(`RoomIsLeft`). `ActiveTokensCapped` alone is not inductive, since the insert does
not count again. Tokens that a late last use revived are left out of both.

QuietWindows (`QInv`): a task that nothing went wrong with is in one place and
marked from its last publication on while in flight (`MarkedInFlight`); a marker
is no newer than its task, and has a task in flight or one to blame behind it
(`MarkHasReason`); the cooldown stands once no end is under way (`CooldownIsSet`).

Notices (`NInv`): the one mail of a notice is in one place at a time. `Way` counts
the places: requests that claimed, messages in the queue with the claim, workers
that hold it, mails. It is at most one unless a message was repeated, and zero
without the claim (`OneWay`); it is at least one under a claim that was not
spent, and otherwise each occasion was dropped or is still on its way (`Owed`).
Each action moves one from place to place (`WaitingChanges`, `SenderChanges`).

Assumed of the constants: times and bounds are naturals, `Lifetime < IdleKept`,
senders are finitely many, and the mark of a row that nobody holds is no caller.

`SubscriptionProofs` proves of Subscription, for all users, plans, fees, rates,
months and days:

- `CadencesFollow`: `Spec => []CadenceMatchesType`;
- `PeriodsStayPaid`: `Spec => []PeriodsArePaid`;
- `LedgerAddsUp`: `Spec => []ChargesAddUp`;
- `PromiseIsKept`: `Spec => PromiseKept`, the refinement of SubscriptionPromise.

All four assume `LateDates = FALSE`, as the `subscription` run does: a request
carries the date on which it gets its lock. `PeriodsArePaid` is false otherwise
(see the runs), and so is `PromiseKept`, whose user acts once a day. For
`CadenceMatchesType` and `ChargesAddUp` the invariant that carries the proof
needs the condition; whether they hold without it is not settled here.

None of them is inductive. `IInv` says of every subscriber (`Subscriber`) how the
columns agree with the ledger. `ChargesPast` and `ReturnsPast`: no key in the ledger
is of a later day than the running period's first, and one of that day is the
period's own charge, or comes before the adjustment of that day; so the key that
the next charge uses is new, which is what `consume_credits` relies on, since it
takes a known key for a replay. `Ledger`: the user's charges have the user's keys,
each return is within its charge, and the discounts are counted; `Rewarded`: the
bonus is posted with the first charge. `Dated`: a period ends where `next_expiry`
puts its end, on its anchor day or at the end of a month, which is why a fresh
period never ends before the one it replaces (`NextExpiryGrows`, from lemmas about
a calendar of arbitrary months).

The proof goes from the ledger up: what one posting does to what a key moved
(`PostIsSeen`), what a charge, a return and a bonus do (`ChargeIsSeen`,
`ReturnIsSeen`, `BonusIsSeen`), what a whole transaction does to the user
(`SubscribeKeeps`, `RenewKeeps`, `ColumnsChange`) and to everybody else
(`OthersStay`: their keys are their own, and nobody loses credits), and one lemma
per action. For the refinement each action is then matched with one of the
promise (`RequestsAdjust`, `ChecksAsPromised`, `UnsubscribeAsPromised`, ...).

Assumed of the constants: fees are positive, nobody invited themselves, ids,
plans and `None` are distinct, and the calendar reaches a month past the last day.

`ReportsProofs` proves of Reports, for all reports, jobs, news, addresses, workers,
retries and budgets that satisfy `ReportsAssumption`:

- `ReportsInvariant`: `Spec => []RInv`, with `TypeOK` in it;
- `ReportsNothingSkipped`: `Spec => []NothingSkipped`;
- `ReportsNewsShownOnce`: `Spec => []NewsShownOnce`;
- `ReportsBlockedNeverMailed`: `Spec => []BlockedNeverMailed`;
- `ReportsOneTextMailed`: `Spec => []OneTextMailed`;
- `ReportsOnlyBouncedRevoked`: `Spec => OnlyBouncedRevoked`.

`NothingSkipped` is far from inductive: a report may skip what it did not read,
so one must know why that is provided for elsewhere, and that it stays so until
the attempts under way have committed. `RInv` follows a news item. `Provided` says
what becomes of it: it is marked; or a report shows it, or failed and will take
it in when it is tried again (`Holds`), and no attempt is about to write that
report without it (`Stands`); or its place was in a report that two attempts wrote
at once (`Blurred`). `LeavesNone` says that what lies before the window of a report,
or in it and not shown, is provided for, if it was captured in time; and
`WillLeaveNone` says it of the window that an attempt has opened, where the news to
be backfilled, which the commit will mark, counts too. A window starts at the
watermark, where a report that counts ended, so `LeavesNone` of that report is what
the new window needs, or as far back as a window may reach, and then the rest is
backfilled (`WatermarkIs`, `FreshIs`). This is the argument for which the code
moves the watermark with reports that are done, and no others.

The rest of `RInv` is what makes this survive the minutes between reading and
committing. Of a worker: where it is (`Placed`); that it opened the window of its
row or resumed it (`Opening`); that a row on which it is alone is as it has read it
(`Unchanged`); that its news is in its window, marked for nobody else, and the marks
that it has deleted were its row's (`Reading`). Of two workers: `Apart`, that both
have noted each other, only one of them inserts a row, and no two delete one
mark. Of a row, that its news is in its window (`Shaped`) and marked for it
(`ShowsMarked`); of a mark, that it names a report that could take the news in and
is done (`Marked`). For mail: only a text that passed is about to be sent (`Passed`,
`MailsPassed`), and what was sent or is about to be is the text of a report that is
settled (`Stays`, `MailsOne`, `MailedOne`), which no attempt writes again
(`overlapped` and `rerun` apart).

The steps are of three kinds. Those that write no report (a send, a poll, a
capture, a tick, a change of address, a dead worker) reduce to `StillKeeps`: the
mail columns at most change, and what is captured is younger than every window
that was opened. Those that begin an attempt, of a batch, a job or Ops, reduce to
`EntersKeeps`: no report changes, and what the row may show the attempt takes in.
Those that commit (`Finish`, `Fail`, `Skip`, `Regenerate`) reduce to `CommitKeeps`,
whose centre is `CommitProvided`: whoever loses an item in this commit, of the
marks deleted or of the news no longer shown, has it again in the same commit or
leaves the report to be tried again. `MergedIs` is the write itself, column by
column over a row that has changed meanwhile.

The proof changed the model in two places. `ShownOnce` excepted the later of two
reports at work beside each other only, and with three reports this was false: a
begins, b begins beside it and marks the news, a commits and shows it too, b is
reopened under review and fails, which takes its mark away, and c shows it again.
The instance of the run has two reports and could not show it. And `MarkedBy` was
a CASE whose guards overlap, of which TLC takes the first and the logic any.

Assumed of its constants: reports, jobs, the tasks of Ops and `None` have names of
their own, `Late`, `Cap` and `MaxRetries` are natural numbers, and so is the time at
which news is published.

Only model-checked: everything else above, the liveness properties (no prover
here reasons about fairness), everything about Deepening and SlotRuns (whose queues are folded
and cut by library operators that no prover here can instantiate), and `TypeOK` of
Holdings.
