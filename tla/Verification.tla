---------------------------- MODULE Verification ----------------------------
(***************************************************************************)
(* The verification links of one account: services/email_verification.py   *)
(* mails, supersedes, confirms and expires them, the tasks of              *)
(* tasks/email_verification_tasks.py mail the first one and ask whether it *)
(* bounced, and the routes ask for more.                                   *)
(*                                                                         *)
(* Every operation reads, then calls the mail service or waits for the     *)
(* database, then writes: two actions.  The account itself comes and goes  *)
(* with module Invites.                                                    *)
(***************************************************************************)
EXTENDS Integers, FiniteSets

CONSTANTS
    Users,          \* the ids of the accounts, one after another
    LinkIds,        \* numbers, given out in their order
    Clerks,         \* requests and task runs
    Addresses,
    Home,           \* users.email
    Bad,            \* the addresses whose mail bounces
    None,
    MaxRetries,     \* of send_account_email_verification_task
    Allowances      \* bound: how often the things of each kind happen

\* What is assumed of them; Accounts, which gives them values, assumes it.
ConstantsOK ==
    /\ Home \in Addresses /\ Bad \subseteq Addresses
    /\ None \notin Addresses \cup Users \cup LinkIds
    /\ LinkIds \subseteq Nat /\ MaxRetries \in Nat
    /\ Allowances \subseteq [asks : Nat, clicks : Nat, ages : Nat, breaks : Nat]

VARIABLES
    account,    \* the account, or None
    columns,    \* what its row says of its addresses
    links,      \* email_verifications
    polls,      \* the links whose delivery is still to be asked for
    task,       \* the first mail: for whom it is to be sent, and how often it failed
    clerk,      \* what each request or task run is doing
    spare       \* how much may still happen

vars == <<account, columns, links, polls, task, clerk, spare>>

Scopes == {"account_email", "delivery_email"}

\* stale: the link is older than RESEND_COOLDOWN, late: than TOKEN_TTL.
Link == [status : {"none", "pending", "verified", "expired", "superseded",
                   "undeliverable", "deleted"},
         scope : Scopes, email : Addresses, stale : BOOLEAN, late : BOOLEAN]
NoLink == [status |-> "none", scope |-> "account_email", email |-> Home,
           stale |-> FALSE, late |-> FALSE]

\* email_verified_at is set; delivery_email.
Columns == [home : BOOLEAN, delivery : Addresses \cup {None}]
NoColumns == [home |-> FALSE, delivery |-> None]

\* user: the account it works for; link: the prior link, or the one it was
\* asked about; late: what it read of it.
Clerk == [pc : {"idle", "send", "confirm", "bounce"}, user : Users \cup {None},
          scope : Scopes, email : Addresses, link : LinkIds \cup {None},
          late : BOOLEAN, first : BOOLEAN]
Idle == [pc |-> "idle", user |-> None, scope |-> "account_email", email |-> Home,
         link |-> None, late |-> FALSE, first |-> FALSE]

Task == [user : Users \cup {None}, tries : 0..MaxRetries]
NoTask == [user |-> None, tries |-> 0]

Hire(c, k) == clerk' = [clerk EXCEPT ![c] = k]
Use(kind) == spare[kind] > 0 /\ spare' = [spare EXCEPT ![kind] = @ - 1]
Pending(l) == links[l].status = "pending"
NextId(l) == links[l] = NoLink /\ \A k \in LinkIds : k < l => links[k] # NoLink

\* UPDATE ... WHERE id = :id AND status = 'pending'.
Moved(l, s) == IF Pending(l) THEN [links EXCEPT ![l].status = s] ELSE links

-----------------------------------------------------------------------------
(* create_verification.                                                    *)

\* _find_live_pending: the live link of a scope, whichever if there are two.
Found(scope) ==
    LET live == {l \in LinkIds : Pending(l) /\ links[l].scope = scope}
    IN  IF live = {} THEN {None} ELSE live

\* A fresh one refuses another.
TooSoon(l) == l # None /\ ~links[l].stale

Asked(scope, email, l, first) ==
    [Idle EXCEPT !.pc = "send", !.user = account, !.scope = scope, !.email = email,
                 !.link = l, !.first = first]

\* The user's routes and that of Ops: any address of any scope.
Request(c, scope, email) ==
    /\ clerk[c].pc = "idle" /\ account # None /\ Use("asks")
    /\ \E l \in Found(scope) : ~TooSoon(l) /\ Hire(c, Asked(scope, email, l, FALSE))
    /\ UNCHANGED <<account, columns, links, polls, task>>

\* send_account_email_verification_task: an account that is gone ends it, and
\* so does the cooldown.
StartTask(c) ==
    /\ clerk[c].pc = "idle" /\ task # NoTask /\ ~\E d \in Clerks : clerk[d].first
    /\ \/ /\ account = task.user
          /\ \E l \in Found("account_email") :
                 ~TooSoon(l) /\ Hire(c, Asked("account_email", Home, l, TRUE))
          /\ UNCHANGED task
       \/ /\ account = task.user => \E l \in Found("account_email") : TooSoon(l)
          /\ task' = NoTask /\ UNCHANGED clerk
    /\ UNCHANGED <<account, columns, links, polls, spare>>

\* The links once a clerk's mail is sent: the prior one, if it is still live,
\* is superseded by l.
Superseded(k, l) ==
    [(IF k.link = None THEN links ELSE Moved(k.link, "superseded"))
        EXCEPT ![l] = [NoLink EXCEPT !.status = "pending", !.scope = k.scope,
                                     !.email = k.email]]

\* Mutant: the attempts are not counted against max_retries.
TaskAfterForEver(k, sent) ==
    IF ~k.first THEN task
    ELSE IF sent THEN NoTask
    ELSE [task EXCEPT !.tries = @ + 1]

\* What becomes of the task: only a mail that was not sent is tried again.
TaskAfter(k, sent) ==
    IF ~k.first THEN task
    ELSE IF sent \/ task.tries = MaxRetries THEN NoTask
    ELSE [task EXCEPT !.tries = @ + 1]

\* The mail is sent and the link stored; scheduling its poll is best effort.
Sent(c) ==
    LET k == clerk[c] IN
    /\ k.pc = "send" /\ account = k.user
    /\ \E l \in LinkIds :
           /\ NextId(l)
           /\ links' = Superseded(k, l)
           /\ polls' \in {polls, polls \cup {l}}
    /\ task' = TaskAfter(k, TRUE)
    /\ Hire(c, Idle)
    /\ UNCHANGED <<account, columns, spare>>

\* The mail service refuses: nothing is written.
NotSent(c) ==
    LET k == clerk[c] IN
    /\ k.pc = "send"
    /\ task' = TaskAfter(k, FALSE)
    /\ Hire(c, Idle)
    /\ UNCHANGED <<account, columns, links, polls, spare>>

\* The mail is sent and the link not stored, because the account is gone or
\* the commit fails: the link is dead, the prior one lives on.
NotStored(c) ==
    LET k == clerk[c] IN
    /\ k.pc = "send"
    /\ IF account = k.user THEN Use("breaks") ELSE UNCHANGED spare
    /\ task' = TaskAfter(k, TRUE)
    /\ Hire(c, Idle)
    /\ UNCHANGED <<account, columns, links, polls>>

-----------------------------------------------------------------------------
(* confirm_verification.                                                   *)

\* The link is pending, and late or for the address that it claims to be.
Click(c, l) ==
    /\ clerk[c].pc = "idle" /\ Pending(l) /\ Use("clicks")
    /\ links[l].late \/ links[l].scope # "account_email" \/ links[l].email = Home
    /\ Hire(c, [Idle EXCEPT !.pc = "confirm", !.user = account, !.scope = links[l].scope,
                            !.email = links[l].email, !.link = l, !.late = links[l].late])
    /\ UNCHANGED <<account, columns, links, polls, task>>

\* Mutant: the number of rows that were updated is not looked at.
VerifiedAnyway(k) ==
    IF k.scope = "account_email" THEN [columns EXCEPT !.home = TRUE]
    ELSE [columns EXCEPT !.delivery = k.email]

\* What is written to the users row.
Verified(k) ==
    IF ~Pending(k.link) THEN columns
    ELSE IF k.scope = "account_email" THEN [columns EXCEPT !.home = TRUE]
    ELSE [columns EXCEPT !.delivery = k.email]

\* Only the one that moves the link off pending writes to the user.
Confirm(c) ==
    LET k == clerk[c] IN
    /\ k.pc = "confirm"
    /\ IF k.late
       THEN links' = Moved(k.link, "expired") /\ UNCHANGED columns
       ELSE links' = Moved(k.link, "verified") /\ columns' = Verified(k)
    /\ Hire(c, Idle)
    /\ UNCHANGED <<account, polls, task, spare>>

-----------------------------------------------------------------------------
(* poll_email_verification_delivery.                                       *)

PollRead(c, l) ==
    /\ clerk[c].pc = "idle" /\ l \in polls
    /\ polls' = polls \ {l}
    /\ Hire(c, IF Pending(l) /\ links[l].email \in Bad
               THEN [Idle EXCEPT !.pc = "bounce", !.link = l] ELSE Idle)
    /\ UNCHANGED <<account, columns, links, task, spare>>

PollWrite(c) ==
    /\ clerk[c].pc = "bounce"
    /\ links' = Moved(clerk[c].link, "undeliverable")
    /\ Hire(c, Idle)
    /\ UNCHANGED <<account, columns, polls, task, spare>>

-----------------------------------------------------------------------------
(* Time, faults, and what other modules do to the account.                 *)

Age(l) ==
    /\ Pending(l) /\ Use("ages")
    /\ \/ ~links[l].stale /\ links' = [links EXCEPT ![l].stale = TRUE]
       \/ ~links[l].late /\ links' = [links EXCEPT ![l].stale = TRUE, ![l].late = TRUE]
    /\ UNCHANGED <<account, columns, polls, task, clerk>>

\* A process dies.  The message of a task that was not acknowledged stays.
Break(c) ==
    /\ clerk[c].pc # "idle" /\ Use("breaks")
    /\ Hire(c, Idle)
    /\ UNCHANGED <<account, columns, links, polls, task>>

\* An unsubscription, or a report that bounced.
Withdraw(scope) ==
    /\ Use("ages")
    /\ columns' = IF scope = "account_email" THEN [columns EXCEPT !.home = FALSE]
                  ELSE [columns EXCEPT !.delivery = None]
    /\ columns' # columns
    /\ UNCHANGED <<account, links, polls, task, clerk>>

\* The end of signup: the message may be refused.
Appear(u) ==
    /\ account = None /\ account' = u
    /\ task' \in {task, [NoTask EXCEPT !.user = u]}
    /\ UNCHANGED <<columns, links, polls, clerk, spare>>

\* purge_user deletes the links before the row.
Remove ==
    /\ account # None /\ account' = None
    /\ columns' = NoColumns
    /\ links' = [l \in LinkIds |-> IF links[l] = NoLink THEN NoLink
                                   ELSE [NoLink EXCEPT !.status = "deleted"]]
    /\ UNCHANGED <<polls, task, clerk, spare>>

-----------------------------------------------------------------------------
Init ==
    /\ account = None /\ columns = NoColumns
    /\ links = [l \in LinkIds |-> NoLink]
    /\ polls = {} /\ task = NoTask
    /\ clerk = [c \in Clerks |-> Idle]
    /\ spare \in Allowances

\* What happens while the account neither comes nor goes.
Step ==
    \/ \E c \in Clerks :
           \/ \E scope \in Scopes, email \in Addresses : Request(c, scope, email)
           \/ StartTask(c) \/ Sent(c) \/ NotSent(c) \/ NotStored(c)
           \/ \E l \in LinkIds : Click(c, l) \/ PollRead(c, l)
           \/ Confirm(c) \/ PollWrite(c) \/ Break(c)
    \/ \E l \in LinkIds : Age(l)
    \/ \E scope \in Scopes : Withdraw(scope)

Next == Step \/ (\E u \in Users : Appear(u)) \/ Remove

Spec == Init /\ [][Next]_vars

-----------------------------------------------------------------------------
(* Properties.                                                             *)

TypeOK ==
    /\ account \in Users \cup {None} /\ columns \in Columns
    /\ links \in [LinkIds -> Link] /\ polls \subseteq LinkIds /\ task \in Task
    /\ clerk \in [Clerks -> Clerk]
    /\ spare \in [asks : Nat, clicks : Nat, ages : Nat, breaks : Nat]

\* A link that has left pending is never moved again, by a click, a resend, a
\* poll or an expiry that read it before, until its account is deleted.
TerminalStays ==
    [][\A l \in LinkIds :
           links[l].status \notin {"none", "pending"} =>
               links'[l].status \in {links[l].status, "deleted"}]_vars

\* An address becomes a verified one only in the step in which a pending link
\* to it does: a click that lost a race writes nothing to the user.
VerifiedByLink ==
    [][/\ columns'.home /\ ~columns.home =>
              \E l \in LinkIds : /\ Pending(l) /\ links'[l].status = "verified"
                                 /\ links[l].scope = "account_email" /\ links[l].email = Home
       /\ columns'.delivery \notin {None, columns.delivery} =>
              \E l \in LinkIds : /\ Pending(l) /\ links'[l].status = "verified"
                                 /\ links[l].scope = "delivery_email"
                                 /\ links[l].email = columns'.delivery]_vars

=============================================================================
