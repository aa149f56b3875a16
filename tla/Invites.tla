------------------------------ MODULE Invites ------------------------------
(***************************************************************************)
(* Signup, invites and the waitlist: routers/auth.py creates an account in *)
(* two systems, the Auth provider and the users table; services/invites.py *)
(* and services/invitation_letters.py issue, revoke and redeem invites;    *)
(* tasks/waitlist_tasks.py mails a few of them a day; routers/admin.py and *)
(* services/user_purge.py take an account away again.                      *)
(*                                                                         *)
(* A call of the provider or of the mail service lies between two actions, *)
(* and so does every wait for a row lock that follows a read.  What is     *)
(* flushed and not committed is kept with the session that wrote it.       *)
(***************************************************************************)
EXTENDS Integers, FiniteSets

CONSTANTS
    Emails,         \* the addresses, normalised; each is that of one user,
                    \* one waitlist entry, one Auth user at a time
    InviteIds,      \* numbers, given out in their order
    Subs,           \* the ids the Auth provider gives out, in their order
    Sessions,       \* requests and task runs
    None,
    Waiting,        \* the addresses on the waitlist to begin with
    Limit,          \* WAITLIST_AUTO_INVITE_DAILY_LIMIT
    Days,           \* bound: the days of a run are 1..Days
    Budgets         \* bound: how often the things of each kind happen

ASSUME InvitesAssumption ==
    /\ None \notin Emails \cup InviteIds \cup Subs
    /\ Waiting \subseteq Emails /\ InviteIds \subseteq Nat /\ Subs \subseteq Nat
    /\ Limit \in Nat /\ Days \in Nat \ {0}
    /\ Budgets \subseteq [signups : Nat, ops : Nat, runs : Nat, deletions : Nat,
                          others : Nat, faults : Nat]

VARIABLES
    day,
    auth,       \* the Auth user of each address, or None
    local,      \* the Auth user that the users row of each address names, or None
    issued,     \* the ids given out so far
    entries,    \* waitlist_entries
    invites,
    session,    \* what each session is doing
    left,       \* how much may still happen
    posts,      \* history: the letters that automatic runs mailed on each day
    unrecorded, \* history: those of them whose record was lost
    overlapped, \* history: two automatic runs have been at work at once
    orphaned,   \* history: the Auth users that a fault left without a users row
    doomed      \* history: the Auth users that Ops, a deletion or a commit of
                \* unknown outcome may have removed before their users row

tables == <<entries, invites>>
history == <<posts, unrecorded, overlapped, orphaned, doomed>>
vars == <<day, auth, local, issued, tables, session, left, history>>

\* email: None when the invite is bound to nobody; used: the Auth user of the
\* signup that used it up; entry: the waitlist entry it
\* is linked to, known by its address; day: of its letter, 0 for none.
Invite == [made : BOOLEAN, email : Emails \cup {None}, entry : Emails \cup {None},
           used : Subs \cup {None}, revoked : BOOLEAN, expired : BOOLEAN, unsub : BOOLEAN,
           day : Nat]
NoInvite == [made |-> FALSE, email |-> None, entry |-> None, used |-> None,
             revoked |-> FALSE, expired |-> FALSE, unsub |-> FALSE, day |-> 0]

Entry == [status : {"none", "pending", "invited", "rejected"}, sent : BOOLEAN]
NoEntry == [status |-> "none", sent |-> FALSE]

\* invite: the one a signup redeems; sub: the Auth user it has made, or that it
\* deletes; entry: the entry of email is locked; holds: the invites revoked and
\* not committed; quota, todo: what an automatic run may and will still mail.
Session == [pc : {"idle", "redeem", "auth", "insert", "undo", "lock", "issue", "send",
                  "auto", "purge", "orphan"},
            task : {"idle", "signup", "mint", "status", "letter", "auto", "delete", "orphan"},
            email : Emails \cup {None}, invite : InviteIds \cup {None},
            sub : Subs \cup {None}, entry : BOOLEAN, holds : SUBSET InviteIds,
            quota : Nat, todo : SUBSET Emails]
Idle == [pc |-> "idle", task |-> "idle", email |-> None, invite |-> None, sub |-> None,
         entry |-> FALSE, holds |-> {}, quota |-> 0, todo |-> {}]

Set(p, s) == session' = [session EXCEPT ![p] = s]
Spend(kind) == left[kind] > 0 /\ left' = [left EXCEPT ![kind] = @ - 1]

\* The next id of each kind.
NextId(i) == ~invites[i].made /\ \A j \in InviteIds : j < i => invites[j].made
NextSub(s) == s \notin issued /\ \A u \in Subs : u < s => u \in issued

Begin(p, t, e) == [Idle EXCEPT !.pc = t, !.task = t, !.email = e]

-----------------------------------------------------------------------------
(* What a session reads, and what it has to wait for.                      *)

\* signup_email_taken.
Taken(e) == local[e] # None

\* The links of an entry that _revoke_waitlist_links revokes.
Live(i) == invites[i].made /\ invites[i].used = None /\ ~invites[i].revoked /\ ~invites[i].expired
LiveLinks(e) == {i \in InviteIds : Live(i) /\ invites[i].entry = e}

\* views: the stage is registered, or activated, once a linked invite is used.
Registered(e) == \E i \in InviteIds : invites[i].entry = e /\ invites[i].used # None

\* link_expired; the latest link is one of those that are linked.
LinkExpired(e) == LiveLinks(e) = {}

\* _unsubscribed, and the same query in send_letter.
Unsubscribed(e) == \E i \in InviteIds : invites[i].email = e /\ invites[i].unsub

Eligible(e) == entries[e].status = "pending" /\ ~Taken(e) /\ ~Unsubscribed(e)

\* Mutant: redeem_invite selects and does not update.
RowLockedByLetters(i) == \E q \in Sessions : i \in session[q].holds

\* An invite row that another transaction has updated: a signup that redeemed
\* it, or a letter that revoked it.
RowLocked(i) ==
    \E q \in Sessions :
        \/ session[q].invite = i /\ session[q].pc \in {"auth", "insert"}
        \/ i \in session[q].holds

\* Mutant: _waitlist_entry without the lock.
EntryLockedNever(e) == FALSE

\* SELECT ... FOR UPDATE of the entry.
EntryLocked(e) == \E q \in Sessions : session[q].entry /\ session[q].email = e

-----------------------------------------------------------------------------
(* signup.                                                                 *)

Submit(p, e, i) ==
    /\ session[p].pc = "idle" /\ Spend("signups")
    /\ ~Taken(e) /\ (i # None => invites[i].made)
    /\ Set(p, [Begin(p, "signup", e) EXCEPT !.pc = "redeem", !.invite = i])
    /\ UNCHANGED <<day, auth, local, issued, tables, history>>

\* The condition of the update, evaluated once the row is free.
Redeemable(i, e) == Live(i) /\ invites[i].email \in {None, e}

\* redeem_invite.
Redeem(p) ==
    LET s == session[p] IN
    /\ s.pc = "redeem"
    /\ \/ s.invite = None /\ Set(p, [s EXCEPT !.pc = "auth"])
       \/ /\ s.invite # None /\ ~RowLocked(s.invite)
          /\ Set(p, IF Redeemable(s.invite, s.email) THEN [s EXCEPT !.pc = "auth"] ELSE Idle)
    /\ UNCHANGED <<day, auth, local, issued, tables, left, history>>

\* Mutant: the compensation runs even when no Auth user was made.
RefusedAndUndone(p) == [session[p] EXCEPT !.pc = "undo", !.sub = auth[session[p].email]]

\* The session after create_auth_user has refused: rolled back, nothing to undo.
Refused(p) == Idle

\* create_auth_user: the provider refuses an address that it has already.
CreateAuth(p) ==
    LET s == session[p] IN
    /\ s.pc = "auth"
    /\ \/ \E new \in Subs :
              /\ NextSub(new) /\ auth[s.email] = None
              /\ auth' = [auth EXCEPT ![s.email] = new]
              /\ issued' = issued \cup {new}
              /\ Set(p, [s EXCEPT !.pc = "insert", !.sub = new])
       \/ Set(p, Refused(p)) /\ UNCHANGED <<auth, issued>>
    /\ UNCHANGED <<day, local, tables, left, history>>

\* The answer is lost: sub stays None, so nothing compensates.
CreateAuthUnanswered(p) ==
    LET s == session[p] IN
    /\ s.pc = "auth" /\ auth[s.email] = None /\ Spend("faults")
    /\ \E new \in Subs :
           /\ NextSub(new)
           /\ auth' = [auth EXCEPT ![s.email] = new]
           /\ issued' = issued \cup {new}
           /\ orphaned' = orphaned \cup {new}
    /\ Set(p, Idle)
    /\ UNCHANGED <<day, local, tables, posts, unrecorded, overlapped, doomed>>

\* The users row and the redeemed invite become visible together.
Committed(p) ==
    LET s == session[p] IN
    /\ local' = [local EXCEPT ![s.email] = s.sub]
    /\ invites' = IF s.invite = None THEN invites
                  ELSE [invites EXCEPT ![s.invite].used = s.sub]

\* Mutant: the exception is answered and the Auth user left.
RolledBackOnly(p) == Idle

\* After a rollback: the invite is free again, the Auth user is to be deleted.
RolledBack(p) == [session[p] EXCEPT !.pc = "undo", !.invite = None]

\* The inserts and the commit.  users.email is unique; other statements of the
\* transaction may fail as well.
CommitSignup(p) ==
    LET s == session[p] IN
    /\ s.pc = "insert"
    /\ \/ ~Taken(s.email) /\ Committed(p) /\ Set(p, Idle)
       \/ UNCHANGED <<local, invites>> /\ Set(p, RolledBack(p))
    /\ UNCHANGED <<day, auth, issued, entries, left, history>>

\* The commit is done and its answer is lost: the handler compensates.
CommitUnanswered(p) ==
    LET s == session[p] IN
    /\ s.pc = "insert" /\ ~Taken(s.email) /\ Spend("faults")
    /\ Committed(p) /\ Set(p, RolledBack(p))
    /\ doomed' = doomed \cup {s.sub}
    /\ UNCHANGED <<day, auth, issued, entries, posts, unrecorded, overlapped, orphaned>>

\* delete_auth_user: by id; an id that is gone is no error.
AuthWithout(sub) == [e \in Emails |-> IF auth[e] = sub THEN None ELSE auth[e]]

\* The compensation; when it fails, Ops is told of an orphan.
Compensate(p) ==
    LET s == session[p] IN
    /\ s.pc = "undo"
    /\ \/ auth' = AuthWithout(s.sub) /\ UNCHANGED <<left, orphaned>>
       \/ Spend("faults") /\ orphaned' = orphaned \cup {s.sub} /\ UNCHANGED auth
    /\ Set(p, Idle)
    /\ UNCHANGED <<day, local, issued, tables, posts, unrecorded, overlapped, doomed>>

-----------------------------------------------------------------------------
(* Letters, and what Ops does to an entry or an invite.                    *)

\* What is left of a session: an automatic run goes on to its next letter.
Ended(p, attempts) ==
    IF session[p].task = "auto"
    THEN [Begin(p, "auto", None) EXCEPT !.quota = session[p].quota - attempts,
                                        !.todo = session[p].todo]
    ELSE Idle

\* A request of Ops that begins with the lock of the entry, or a letter, which
\* looks at the address first.
Ask(p, t, e) ==
    /\ session[p].pc = "idle" /\ Spend("ops")
    /\ \/ t = "letter" /\ ~Unsubscribed(e) /\ ~Taken(e)
       \/ t \in {"mint", "status"} /\ entries[e].status # "none"
    /\ Set(p, [Begin(p, t, e) EXCEPT !.pc = "lock"])
    /\ UNCHANGED <<day, auth, local, issued, tables, history>>

\* The entry is locked and looked at.  Its invites are not locked: a signup may
\* redeem one between this and the update.
LockEntry(p) ==
    LET s == session[p]
        status == entries[s.email].status
        wrong == \/ Registered(s.email)
                 \/ s.task \in {"letter", "auto"} /\ status = "rejected"
                 \/ s.task = "auto" /\ status # "pending"
    IN
    /\ s.pc = "lock" /\ ~EntryLocked(s.email)
    /\ Set(p, IF status = "none"
              THEN IF s.task \in {"letter", "auto"} THEN [s EXCEPT !.pc = "issue"]
                   ELSE Ended(p, 0)
              ELSE IF wrong THEN Ended(p, 0)
              ELSE [s EXCEPT !.pc = "issue", !.entry = TRUE])
    /\ UNCHANGED <<day, auth, local, issued, tables, left, history>>

\* A new invite, for an address or for nobody, linked to an entry or to none.
New(e, entry, d) ==
    [NoInvite EXCEPT !.made = TRUE, !.email = e, !.entry = entry, !.day = d]

\* The invites once an entry's links are revoked and i is made.
Reissued(revoked, i, new) ==
    [j \in InviteIds |-> CASE j = i -> new
                           [] j \in revoked -> [invites[j] EXCEPT !.revoked = TRUE]
                           [] OTHER -> invites[j]]

\* The links are revoked, which waits for a signup that is redeeming one, and
\* create_invite looks again for a user of the address.
Issue(p) ==
    LET s == session[p]
        links == IF s.entry THEN LiveLinks(s.email) ELSE {}
    IN
    /\ s.pc = "issue" /\ \A i \in links : ~RowLocked(i)
    /\ CASE s.task = "status" ->
              /\ \E status \in {"pending", "rejected"} :
                     entries' = [entries EXCEPT ![s.email] =
                                     [status |-> status, sent |-> FALSE]]
              /\ invites' = [i \in InviteIds |->
                                IF i \in links THEN [invites[i] EXCEPT !.revoked = TRUE]
                                ELSE invites[i]]
              /\ Set(p, Idle)
         [] s.task # "status" /\ Taken(s.email) ->
              Set(p, Ended(p, 0)) /\ UNCHANGED tables
         [] s.task = "mint" /\ ~Taken(s.email) ->
              /\ \E i \in InviteIds :
                     /\ NextId(i)
                     /\ invites' = Reissued(links, i, New(s.email, s.email, 0))
              /\ entries' = [entries EXCEPT ![s.email] = [status |-> "invited", sent |-> FALSE]]
              /\ Set(p, Idle)
         [] OTHER -> Set(p, [s EXCEPT !.pc = "send", !.holds = links]) /\ UNCHANGED tables
    /\ UNCHANGED <<day, auth, local, issued, left, history>>

\* The history of the letters of automatic runs.
Counted(p, h) == IF session[p].task = "auto" THEN [h EXCEPT ![day] = @ + 1] ELSE h

\* send_invitation_letter, and the commit that records it; or the mail service
\* refuses it, and all is rolled back.
Mail(p) ==
    LET s == session[p] IN
    /\ s.pc = "send"
    /\ \/ /\ \E i \in InviteIds :
                 /\ NextId(i)
                 /\ invites' = Reissued(s.holds, i,
                                   New(s.email, IF s.entry THEN s.email ELSE None, day))
          /\ entries' = IF s.entry
                        THEN [entries EXCEPT ![s.email] = [status |-> "invited", sent |-> TRUE]]
                        ELSE entries
          /\ posts' = Counted(p, posts)
       \/ UNCHANGED <<tables, posts>>
    /\ Set(p, Ended(p, 1))
    /\ UNCHANGED <<day, auth, local, issued, left, unrecorded, overlapped, orphaned, doomed>>

\* The letter is mailed and its record lost, with or without the run itself.
MailUnrecorded(p) ==
    /\ session[p].pc = "send" /\ Spend("faults")
    /\ posts' = Counted(p, posts) /\ unrecorded' = Counted(p, unrecorded)
    /\ Set(p, Ended(p, 1)) \/ Set(p, Idle)
    /\ UNCHANGED <<day, auth, local, issued, tables, overlapped, orphaned, doomed>>

\* mark_waitlist_sent: stage invited, and a link that can be used.
MarkSent(p, e) ==
    /\ session[p].pc = "idle" /\ Spend("ops") /\ ~EntryLocked(e)
    /\ entries[e] = [status |-> "invited", sent |-> FALSE]
    /\ ~Registered(e) /\ ~LinkExpired(e)
    /\ entries' = [entries EXCEPT ![e].sent = TRUE]
    /\ UNCHANGED <<day, auth, local, issued, invites, session, history>>

\* create_invite_endpoint: bound to an address or to nobody, linked to nothing.
CreateInvite(e) ==
    /\ Spend("ops") /\ (e # None => ~Taken(e))
    /\ \E i \in InviteIds :
           NextId(i) /\ invites' = [invites EXCEPT ![i] = New(e, None, 0)]
    /\ UNCHANGED <<day, auth, local, issued, entries, session, history>>

\* revoke_invite: the update waits for the row, whatever has become of it.
Revoke(p, i) ==
    /\ session[p].pc = "idle" /\ Spend("ops")
    /\ invites[i].made /\ ~invites[i].revoked /\ ~RowLocked(i)
    /\ invites' = [invites EXCEPT ![i].revoked = TRUE]
    /\ UNCHANGED <<day, auth, local, issued, entries, session, history>>

-----------------------------------------------------------------------------
(* auto_invite_waitlist.                                                   *)

\* Mutant: the letters of an earlier run of the day are not counted.
RemainingOfRun == Limit

\* The letters recorded today count, whoever asked for them.
Remaining ==
    LET n == Cardinality({i \in InviteIds : invites[i].day = day})
    IN  IF n < Limit THEN Limit - n ELSE 0

\* A run that is started again while one is at work, by a redelivery, is a fault.
StartRun(p) ==
    /\ session[p].pc = "idle" /\ Limit > 0
    /\ IF \E q \in Sessions : session[q].task = "auto"
       THEN Spend("faults") /\ overlapped' = TRUE
       ELSE Spend("runs") /\ UNCHANGED overlapped
    /\ Set(p, [Begin(p, "auto", None) EXCEPT !.quota = Remaining,
                                             !.todo = {e \in Emails : Eligible(e)}])
    /\ UNCHANGED <<day, auth, local, issued, tables, posts, unrecorded, orphaned, doomed>>

\* The next address; what send_letter reads first decides whether it goes on.
NextLetter(p, e) ==
    LET s == session[p]
        rest == [s EXCEPT !.todo = s.todo \ {e}]
    IN
    /\ s.pc = "auto" /\ s.quota > 0 /\ e \in s.todo
    /\ Set(p, IF Unsubscribed(e) \/ Taken(e) THEN rest
              ELSE [rest EXCEPT !.pc = "lock", !.email = e])
    /\ UNCHANGED <<day, auth, local, issued, tables, left, history>>

EndRun(p) ==
    /\ session[p].pc = "auto" /\ (session[p].quota = 0 \/ session[p].todo = {})
    /\ Set(p, Idle)
    /\ UNCHANGED <<day, auth, local, issued, tables, left, history>>

-----------------------------------------------------------------------------
(* Deletion.                                                               *)

\* What purge_user does to the tables of this module.
Purged(e) ==
    /\ local' = [local EXCEPT ![e] = None]
    /\ entries' = [entries EXCEPT ![e] = NoEntry]
    /\ invites' = [i \in InviteIds |->
                      IF e \in {invites[i].email, invites[i].entry}
                      THEN [invites[i] EXCEPT !.email = None, !.entry = None]
                      ELSE invites[i]]

\* It has to wait for the rows that it updates and deletes.
Purgeable(e) ==
    /\ ~EntryLocked(e)
    /\ \A i \in InviteIds : e \in {invites[i].email, invites[i].entry} => ~RowLocked(i)

\* _purge_local_user: the Auth user goes first.
DeleteAuth(p, e) ==
    /\ session[p].pc = "idle" /\ Spend("deletions") /\ Taken(e)
    /\ auth' = AuthWithout(local[e])
    /\ doomed' = doomed \cup {local[e]}
    /\ Set(p, [Begin(p, "delete", e) EXCEPT !.pc = "purge", !.sub = local[e]])
    /\ UNCHANGED <<day, local, issued, tables, posts, unrecorded, overlapped, orphaned>>

DeleteLocal(p) ==
    LET s == session[p] IN
    /\ s.pc = "purge"
    /\ IF local[s.email] = s.sub
       THEN Purgeable(s.email) /\ Purged(s.email)
       ELSE UNCHANGED <<local, tables>>
    /\ Set(p, Idle)
    /\ UNCHANGED <<day, auth, issued, left, history>>

\* The purge fails: a letter in flight links its invite to the entry, whose
\* deletion then breaks a foreign key; or the commit fails.
DeleteLocalFails(p) ==
    LET s == session[p] IN
    /\ s.pc = "purge"
    /\ IF \E q \in Sessions : /\ session[q].pc = "send" /\ session[q].entry
                              /\ session[q].email = s.email
       THEN UNCHANGED left
       ELSE Spend("faults")
    /\ Set(p, Idle)
    /\ UNCHANGED <<day, auth, local, issued, tables, history>>

\* The user's own deletion locks its rows, deletes the Auth user and commits.
SelfDelete(p, e) ==
    /\ session[p].pc = "idle" /\ Spend("deletions") /\ Taken(e) /\ Purgeable(e)
    /\ auth' = AuthWithout(local[e])
    /\ Purged(e)
    /\ UNCHANGED <<day, issued, session, history>>

\* The same, and the commit fails after the Auth user is gone.
SelfDeleteFails(p, e) ==
    /\ session[p].pc = "idle" /\ Spend("faults") /\ Taken(e) /\ Purgeable(e)
    /\ auth' = AuthWithout(local[e])
    /\ doomed' = doomed \cup {local[e]}
    /\ UNCHANGED <<day, local, issued, tables, session, posts, unrecorded, overlapped, orphaned>>

\* An Auth user without a users row, as far as this session can see.
FindOrphan(p, e) ==
    /\ session[p].pc = "idle" /\ Spend("deletions")
    /\ ~Taken(e) /\ auth[e] # None
    /\ Set(p, [Begin(p, "orphan", e) EXCEPT !.sub = auth[e]])
    /\ UNCHANGED <<day, auth, local, issued, tables, history>>

DeleteOrphan(p) ==
    /\ session[p].pc = "orphan"
    /\ auth' = AuthWithout(session[p].sub)
    /\ doomed' = doomed \cup {session[p].sub}
    /\ Set(p, Idle)
    /\ UNCHANGED <<day, local, issued, tables, left, posts, unrecorded, overlapped, orphaned>>

-----------------------------------------------------------------------------
(* Everybody else, and time.                                               *)

\* refer_someone: email is unique in waitlist_entries.
Refer(e) ==
    /\ Spend("others") /\ ~Taken(e) /\ entries[e].status = "none"
    /\ entries' = [entries EXCEPT ![e].status = "pending"]
    /\ UNCHANGED <<day, auth, local, issued, invites, session, history>>

\* The unsubscribe link of a letter.
Unsubscribe(i) ==
    /\ Spend("others") /\ invites[i].day > 0 /\ ~invites[i].unsub
    /\ ~RowLocked(i)
    /\ invites' = [invites EXCEPT ![i].unsub = TRUE]
    /\ UNCHANGED <<day, auth, local, issued, entries, session, history>>

Expire(i) ==
    /\ Spend("others") /\ invites[i].made /\ ~invites[i].expired
    /\ invites' = [invites EXCEPT ![i].expired = TRUE]
    /\ UNCHANGED <<day, auth, local, issued, entries, session, history>>

Tick ==
    /\ Spend("others") /\ day < Days /\ day' = day + 1
    /\ UNCHANGED <<auth, local, issued, tables, session, history>>

\* A process dies; its transaction is rolled back.
Die(p) ==
    LET s == session[p] IN
    /\ s.pc # "idle" /\ Spend("faults")
    /\ orphaned' = orphaned \cup (IF s.pc \in {"insert", "undo"} THEN {s.sub} ELSE {})
    /\ Set(p, Idle)
    /\ UNCHANGED <<day, auth, local, issued, tables, posts, unrecorded, overlapped, doomed>>

-----------------------------------------------------------------------------
Init ==
    /\ day = 1
    /\ auth = [e \in Emails |-> None] /\ local = [e \in Emails |-> None] /\ issued = {}
    /\ entries = [e \in Emails |-> IF e \in Waiting THEN [NoEntry EXCEPT !.status = "pending"]
                                   ELSE NoEntry]
    /\ invites = [i \in InviteIds |-> NoInvite]
    /\ session = [p \in Sessions |-> Idle]
    /\ left \in Budgets
    /\ posts = [d \in 1..Days |-> 0] /\ unrecorded = [d \in 1..Days |-> 0]
    /\ overlapped = FALSE /\ orphaned = {} /\ doomed = {}

Signup(p) ==
    \/ \E e \in Emails, i \in InviteIds \cup {None} : Submit(p, e, i)
    \/ Redeem(p) \/ CreateAuth(p) \/ CreateAuthUnanswered(p)
    \/ CommitSignup(p) \/ CommitUnanswered(p) \/ Compensate(p)

Ops(p) ==
    \/ \E t \in {"mint", "status", "letter"}, e \in Emails : Ask(p, t, e)
    \/ LockEntry(p) \/ Issue(p) \/ Mail(p) \/ MailUnrecorded(p)
    \/ \E e \in Emails : MarkSent(p, e)
    \/ \E i \in InviteIds : Revoke(p, i)
    \/ StartRun(p) \/ EndRun(p)
    \/ \E e \in Emails : NextLetter(p, e)

Deletion(p) ==
    \/ \E e \in Emails : \/ DeleteAuth(p, e) \/ SelfDelete(p, e) \/ SelfDeleteFails(p, e)
                         \/ FindOrphan(p, e)
    \/ DeleteLocal(p) \/ DeleteLocalFails(p) \/ DeleteOrphan(p)

Next ==
    \/ \E p \in Sessions : Signup(p) \/ Ops(p) \/ Deletion(p) \/ Die(p)
    \/ \E e \in Emails \cup {None} : CreateInvite(e)
    \/ \E e \in Emails : Refer(e)
    \/ \E i \in InviteIds : Unsubscribe(i) \/ Expire(i)
    \/ Tick

Spec == Init /\ [][Next]_vars

-----------------------------------------------------------------------------
(* Properties.                                                             *)

TypeOK ==
    /\ day \in 1..Days
    /\ auth \in [Emails -> Subs \cup {None}] /\ local \in [Emails -> Subs \cup {None}]
    /\ issued \subseteq Subs
    /\ entries \in [Emails -> Entry] /\ invites \in [InviteIds -> Invite]
    /\ session \in [Sessions -> Session]
    /\ left \in [signups : Nat, ops : Nat, runs : Nat, deletions : Nat, others : Nat,
                 faults : Nat]
    /\ posts \in [1..Days -> Nat] /\ unrecorded \in [1..Days -> Nat]
    /\ overlapped \in BOOLEAN /\ orphaned \subseteq Subs /\ doomed \subseteq Subs

\* "Keep at most one active invite per entry across concurrent requests":
\* however Ops, letters and automatic runs interleave with signups, an entry
\* never has two links that can be used.
OneLiveInvite == TypeOK /\ \A e \in Emails : Cardinality(LiveLinks(e)) <= 1

\* An invite is used up by one signup only, and never after it was revoked,
\* although seconds pass between its redemption and the commit.
RedeemedWasLive ==
    [][\A i \in InviteIds : invites'[i].used # invites[i].used
            => invites[i].used = None /\ ~invites[i].revoked]_vars

\* A user can log in: the Auth user of a users row exists, unless a deletion
\* was begun, Ops took it for an orphan while the signup was in flight, or a
\* commit was done whose answer was lost.
UserHasAuth == \A e \in Emails : Taken(e) => auth[e] = local[e] \/ local[e] \in doomed

\* The other way round: an address is blocked by an Auth user without a users
\* row only while a signup is in flight, or after a fault.
OrphansAreFaults ==
    \A e \in Emails :
        auth[e] \in {None, local[e]} \cup orphaned
            \cup {session[p].sub : p \in {p \in Sessions : session[p].pc \in {"insert", "undo"}}}

\* The two systems agree on who has an account, but for the faults named above.
UsersMatchAuth == UserHasAuth /\ OrphansAreFaults

\* Automatic runs mail no more letters on a day than the limit and the letters
\* whose record was lost, however often they are stopped and started again,
\* unless two of them overlapped.
AutoLimit == overlapped \/ \A d \in 1..Days : posts[d] <= Limit + unrecorded[d]

=============================================================================
