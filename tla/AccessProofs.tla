---------------------------- MODULE AccessProofs ----------------------------
(***************************************************************************)
(* What is proved of Invites, for any addresses, invites, sessions, limits *)
(* and faults: an entry has one link at most, an invite is used once and   *)
(* while it is live, the Auth provider and the users table agree but for   *)
(* the faults that the history names, and the daily limit holds.           *)
(*                                                                         *)
(* What is proved of the other parts of Access, for any callers, limits,   *)
(* bounds and failing calls: a session that was refused stays refused, the *)
(* cap on tokens holds, the gate of the quiet windows tells what is in     *)
(* flight, and a notice is told once; and that the accounts in Access are  *)
(* those of Invites and of Verification, so that what is proved of these   *)
(* holds there.                                                            *)
(*                                                                         *)
(* The invariant of Invites has four parts that hardly meet.  Rows: what a *)
(* signup has redeemed is its own until it commits, so that whoever        *)
(* revokes waits for it; who locked an entry has all of its links in hand  *)
(* when it mails.  Accounts: no two signups, and no two users rows, share  *)
(* an Auth user, a signup that is to be undone has no row, and a purge     *)
(* deletes only after the Auth user is gone.  Letters: what an automatic   *)
(* run may still mail fits under the limit, and every letter is recorded   *)
(* or known as lost.  Places: what a session holds at each step of its     *)
(* request.                                                                *)
(***************************************************************************)
EXTENDS Access, FiniteSetTheorems, TLAPS

\* What a session knows at each of its places.
Placed(s) ==
    /\ s.pc \in {"redeem", "auth", "insert", "undo", "lock", "issue", "send", "purge"} =>
            s.email \in Emails
    /\ s.pc \in {"insert", "undo", "purge", "orphan"} => s.sub \in Subs
    /\ s.pc = "auto" => s.task = "auto"
    /\ s.task = "auto" => s.pc \in {"auto", "lock", "issue", "send"}
    /\ s.task = "auto" /\ s.pc # "auto" => s.quota > 0
    /\ s.entry => s.pc \in {"issue", "send"}
    /\ s.pc = "issue" /\ s.task \in {"mint", "status"} => s.entry
    /\ s.holds # {} => s.pc = "send"

Places == \A p \in Sessions : Placed(session[p])

\* Ids that were not given out are blank, and finitely many were.
Made == {i \in InviteIds : invites[i].made}
Blank == IsFiniteSet(Made) /\ \A i \in InviteIds : invites[i].made \/ invites[i] = NoInvite

-----------------------------------------------------------------------------
(* Invites: what a signup has redeemed is held for it alone.               *)

Redeems(s) == s.pc \in {"auth", "insert"} /\ s.invite # None

RowsApart ==
    /\ \A p \in Sessions : \A i \in session[p].holds : invites[i].made
    /\ \A p \in Sessions : Redeems(session[p]) =>
        /\ invites[session[p].invite].made
        /\ invites[session[p].invite].used = None
        /\ ~invites[session[p].invite].revoked
        /\ \A q \in Sessions : session[p].invite \notin session[q].holds
        /\ \A q \in Sessions \ {p} :
                Redeems(session[q]) => session[q].invite # session[p].invite

\* One session holds an entry, and has all of its links in hand until it mails.
EntryHeld ==
    \A p \in Sessions : session[p].entry =>
        /\ session[p].pc = "send" => LiveLinks(session[p].email) \subseteq session[p].holds
        /\ \A q \in Sessions \ {p} : session[q].entry => session[q].email # session[p].email

OneLink == \A e \in Emails : \A i, j \in LiveLinks(e) : i = j

-----------------------------------------------------------------------------
(* Accounts: no two signups and no two rows share an Auth user.            *)

Makes(s) == s.pc \in {"insert", "undo"}

Issued == \A e \in Emails : auth[e] \in issued \cup {None} /\ local[e] \in issued \cup {None}
RowsDiffer == \A e, f \in Emails : local[e] = local[f] /\ local[e] # None => e = f
SignupsDiffer ==
    \A p \in Sessions : Makes(session[p]) =>
        /\ session[p].sub \in issued
        /\ \A e \in Emails : auth[e] = session[p].sub => e = session[p].email
        /\ \A q \in Sessions \ {p} : Makes(session[q]) => session[q].sub # session[p].sub
InsertsAnew ==
    \A p \in Sessions : session[p].pc = "insert" =>
        /\ \A e \in Emails : local[e] # session[p].sub
        /\ auth[session[p].email] = session[p].sub \/ session[p].sub \in doomed
UndoesItsOwn ==
    \A p \in Sessions : session[p].pc = "undo" =>
        session[p].sub \in doomed \/ \A e \in Emails : local[e] # session[p].sub
PurgesTheGone ==
    \A p \in Sessions : session[p].pc = "purge" =>
        session[p].sub \in issued /\ \A e \in Emails : auth[e] # session[p].sub

SubsApart ==
    /\ Issued /\ RowsDiffer /\ SignupsDiffer /\ InsertsAnew /\ UndoesItsOwn /\ PurgesTheGone
    /\ UserHasAuth /\ OrphansAreFaults

-----------------------------------------------------------------------------
(* Letters of automatic runs.                                              *)

Letters(d) == {i \in InviteIds : invites[i].day = d}
IsRun(s) == s.task = "auto"

NothingAhead == \A d \in 1..Days : d > day => posts[d] = 0 /\ unrecorded[d] = 0
QuotaInLimit == \A p \in Sessions : IsRun(session[p]) => session[p].quota <= Limit
OneRun == \A p, q \in Sessions : IsRun(session[p]) /\ IsRun(session[q]) => p = q
PostsInLimit == \A d \in 1..Days : posts[d] <= Limit + unrecorded[d]
PostsRecorded == \A d \in 1..Days : posts[d] <= Cardinality(Letters(d)) + unrecorded[d]
RoomForRun ==
    \A p \in Sessions : IsRun(session[p]) =>
        posts[day] + session[p].quota <= Limit + unrecorded[day]

WithinLimit ==
    /\ NothingAhead /\ QuotaInLimit
    /\ overlapped \/ (OneRun /\ PostsInLimit /\ PostsRecorded /\ RoomForRun)

IInv ==
    /\ TypeOK /\ Places /\ Blank
    /\ RowsApart /\ EntryHeld /\ OneLink
    /\ SubsApart
    /\ WithinLimit

-----------------------------------------------------------------------------
LEMMA NoneIsNothing == None \notin Emails /\ None \notin InviteIds /\ None \notin Subs
BY InvitesAssumption

LEMMA InviteLimits == Limit \in Nat /\ Days \in Nat /\ Days >= 1 /\ InviteIds \subseteq Nat
                /\ Subs \subseteq Nat
BY InvitesAssumption

Spendings == {"signups", "ops", "runs", "deletions", "others", "faults"}
Lefts == [signups : Nat, ops : Nat, runs : Nat, deletions : Nat, others : Nat, faults : Nat]

LEMMA SpendTypes == ASSUME TypeOK, NEW kind \in Spendings, Spend(kind) PROVE left' \in Lefts
<1>1. left \in Lefts
  BY DEF TypeOK, Lefts
<1>2. left[kind] \in Nat /\ left[kind] > 0
  BY <1>1 DEF Lefts, Spendings, Spend
<1>3. left[kind] - 1 \in Nat
  BY <1>2
<1> QED BY <1>1, <1>3 DEF Lefts, Spendings, Spend

LEMMA IdleTypes == /\ Idle \in Session /\ Placed(Idle)
                   /\ Idle.pc = "idle" /\ Idle.task = "idle" /\ ~Idle.entry /\ Idle.holds = {}
                   /\ Idle.email = None /\ Idle.invite = None /\ Idle.sub = None
                   /\ ~Redeems(Idle) /\ ~Makes(Idle) /\ ~IsRun(Idle)
BY DEF Idle, Session, Placed, Redeems, Makes, IsRun

LEMMA NoInviteTypes == NoInvite \in Invite /\ NoInvite.made = FALSE /\ NoInvite.used = None
                       /\ NoInvite.day = 0 /\ NoInvite.entry = None /\ NoInvite.revoked = FALSE
BY DEF NoInvite, Invite

LEMMA SessionTypes ==
    ASSUME TypeOK, NEW p \in Sessions
    PROVE  /\ session[p] \in Session
           /\ session[p].pc \in {"idle", "redeem", "auth", "insert", "undo", "lock", "issue",
                                 "send", "auto", "purge", "orphan"}
           /\ session[p].email \in Emails \cup {None} /\ session[p].invite \in InviteIds \cup {None}
           /\ session[p].sub \in Subs \cup {None} /\ session[p].entry \in BOOLEAN
           /\ session[p].holds \subseteq InviteIds /\ session[p].quota \in Nat
           /\ session[p].todo \subseteq Emails
<1>1. session[p] \in Session
  BY DEF TypeOK
<1> QED BY <1>1 DEF Session

LEMMA SetChanges ==
    ASSUME TypeOK, NEW p \in Sessions, NEW s \in Session, Set(p, s)
    PROVE  /\ session' \in [Sessions -> Session]
           /\ session'[p] = s /\ \A q \in Sessions \ {p} : session'[q] = session[q]
BY DEF TypeOK, Set

LEMMA InitIInv == Init => IInv
<1> SUFFICES ASSUME Init PROVE IInv
  OBVIOUS
<1>1. \A p \in Sessions : session[p] = Idle
  BY DEF Init
<1>2. \A i \in InviteIds : invites[i] = NoInvite /\ ~invites[i].made /\ invites[i].day = 0
  BY NoInviteTypes DEF Init
<1>3. TypeOK
  <2>1. session \in [Sessions -> Session] /\ invites \in [InviteIds -> Invite]
    BY IdleTypes, NoInviteTypes DEF Init
  <2>2. entries \in [Emails -> Entry]
    <3>1. NoEntry \in Entry /\ [NoEntry EXCEPT !.status = "pending"] \in Entry
      BY DEF NoEntry, Entry
    <3> QED BY <3>1 DEF Init
  <2>3. day \in 1..Days /\ posts \in [1..Days -> Nat] /\ unrecorded \in [1..Days -> Nat]
    BY InviteLimits DEF Init
  <2>4. left \in Lefts
    BY InvitesAssumption DEF Init, Lefts
  <2> QED BY <2>1, <2>2, <2>3, <2>4 DEF Init, TypeOK, Lefts
<1>4. Places
  BY <1>1, IdleTypes DEF Places
<1>5. Blank
  <2>1. Made = {}
    BY <1>2 DEF Made
  <2> QED BY <1>2, <2>1, FS_EmptySet DEF Blank
<1>6. RowsApart /\ EntryHeld
  BY <1>1, IdleTypes DEF RowsApart, EntryHeld
<1>7. OneLink
  BY <1>2 DEF OneLink, LiveLinks, Live
<1>8. SubsApart
  <2>1. Issued /\ RowsDiffer /\ UserHasAuth
    BY DEF Init, Issued, RowsDiffer, UserHasAuth, Taken
  <2>2. SignupsDiffer /\ InsertsAnew /\ UndoesItsOwn /\ PurgesTheGone
    BY <1>1, IdleTypes DEF SignupsDiffer, InsertsAnew, UndoesItsOwn, PurgesTheGone
  <2>3. OrphansAreFaults
    BY DEF Init, OrphansAreFaults
  <2> QED BY <2>1, <2>2, <2>3 DEF SubsApart
<1>9. WithinLimit
  <2>1. NothingAhead /\ QuotaInLimit /\ OneRun /\ RoomForRun
    BY <1>1, IdleTypes DEF Init, NothingAhead, QuotaInLimit, OneRun, RoomForRun
  <2>2. PostsInLimit
    BY InviteLimits DEF Init, PostsInLimit
  <2>3. PostsRecorded
    <3> SUFFICES ASSUME NEW d \in 1..Days PROVE 0 <= Cardinality(Letters(d)) + 0
      BY DEF PostsRecorded, Init
    <3>1. Letters(d) = {}
      BY <1>2 DEF Letters
    <3> QED BY <3>1, FS_EmptySet
  <2> QED BY <2>1, <2>2, <2>3 DEF WithinLimit
<1> QED BY <1>3, <1>4, <1>5, <1>6, <1>7, <1>8, <1>9 DEF IInv

-----------------------------------------------------------------------------
(* The four parts of the invariant, under what leaves them alone.          *)

\* A session comes to hold s and takes nothing by it.
Plain(s) == ~s.entry /\ s.holds = {}

\* Invites that only lose.
Milder ==
    /\ invites' \in [InviteIds -> Invite]
    /\ \A i \in InviteIds :
        /\ invites'[i].made = invites[i].made /\ invites'[i].day = invites[i].day
        /\ invites[i].used # None => invites'[i].used # None
        /\ invites[i].revoked => invites'[i].revoked
        /\ invites[i].expired => invites'[i].expired
        /\ invites'[i].entry \in {invites[i].entry, None}
        /\ ~invites[i].made => invites'[i] = invites[i]

\* Nobody's redeemed invite is among those that change.
Spares(i) == \A q \in Sessions : Redeems(session[q]) => session[q].invite # i

LEMMA MilderBlank == ASSUME IInv, Milder
                     PROVE  /\ Blank' /\ \A e \in Emails : LiveLinks(e)' \subseteq LiveLinks(e)
                            /\ \A d \in Nat : Letters(d)' = Letters(d)
<1>1. Made' = Made
  BY DEF Milder, Made
<1>2. Blank'
  BY <1>1 DEF IInv, Milder, Blank
<1>3. \A e \in Emails : LiveLinks(e)' \subseteq LiveLinks(e)
  BY NoneIsNothing DEF Milder, LiveLinks, Live
<1>4. \A d \in Nat : Letters(d)' = Letters(d)
  BY DEF Milder, Letters
<1> QED BY <1>2, <1>3, <1>4

LEMMA SameInvites == ASSUME IInv, invites' = invites PROVE Milder
BY DEF IInv, TypeOK, Milder

\* What nobody redeems may change; what is redeemed stays as it is.
LEMMA RowsStay ==
    ASSUME IInv,
           \A q \in Sessions :
                /\ session'[q].holds \subseteq session[q].holds
                /\ session'[q].entry => session'[q] = session[q]
                /\ Redeems(session'[q]) =>
                        /\ Redeems(session[q]) /\ session'[q].invite = session[q].invite
                        /\ invites'[session'[q].invite].made
                        /\ invites'[session'[q].invite].used = None
                        /\ ~invites'[session'[q].invite].revoked,
           \A i \in InviteIds : invites[i].made => invites'[i].made,
           \A e \in Emails : LiveLinks(e)' \subseteq LiveLinks(e)
    PROVE  RowsApart' /\ EntryHeld' /\ OneLink'
<1>1. RowsApart'
  <2>1. \A q \in Sessions : session[q].holds \subseteq InviteIds
    BY SessionTypes DEF IInv
  <2> QED BY <2>1 DEF IInv, RowsApart
<1>2. EntryHeld'
  <2> SUFFICES ASSUME NEW q \in Sessions, session'[q].entry
               PROVE  /\ session'[q].pc = "send" =>
                            LiveLinks(session[q].email)' \subseteq session'[q].holds
                      /\ \A r \in Sessions \ {q} :
                            session'[r].entry => session'[r].email # session'[q].email
    BY DEF EntryHeld
  <2>1. session'[q] = session[q] /\ session[q].entry
    OBVIOUS
  <2>2. session[q].email \in Emails
    BY <2>1 DEF IInv, Places, Placed
  <2> QED BY <2>1, <2>2 DEF IInv, EntryHeld
<1>3. OneLink'
  BY DEF IInv, OneLink
<1> QED BY <1>1, <1>2, <1>3

LEMMA RowsKeep ==
    ASSUME IInv, Milder, NEW p \in Sessions, NEW s \in Session, Set(p, s), Plain(s),
           Redeems(s) => Redeems(session[p]) /\ s.invite = session[p].invite,
           \A i \in InviteIds : invites'[i] # invites[i] =>
                \A q \in Sessions : Redeems(session'[q]) => session'[q].invite # i
    PROVE  Blank' /\ RowsApart' /\ EntryHeld' /\ OneLink'
<1>1. session'[p] = s /\ \A q \in Sessions \ {p} : session'[q] = session[q]
  BY SetChanges DEF IInv
<1>2. \A q \in Sessions : Redeems(session'[q]) =>
            Redeems(session[q]) /\ session'[q].invite = session[q].invite
  BY <1>1
<1>3. \A q \in Sessions : Redeems(session[q]) => session[q].invite \in InviteIds
  BY SessionTypes DEF IInv, Redeems
<1>4. \A q \in Sessions : Redeems(session'[q]) =>
            invites'[session'[q].invite] = invites[session'[q].invite]
  BY <1>2, <1>3
<1>5. \A q \in Sessions : Redeems(session'[q]) =>
            /\ invites'[session'[q].invite].made
            /\ invites'[session'[q].invite].used = None
            /\ ~invites'[session'[q].invite].revoked
  BY <1>2, <1>4 DEF IInv, RowsApart
<1>6. \A q \in Sessions : session'[q].holds \subseteq session[q].holds
                          /\ (session'[q].entry => session'[q] = session[q])
  BY <1>1 DEF Plain
<1>7. \A i \in InviteIds : invites[i].made => invites'[i].made
  BY DEF Milder
<1> QED BY <1>2, <1>5, <1>6, <1>7, MilderBlank, RowsStay

\* The same, when no session changes.
LEMMA RowsRest ==
    ASSUME IInv, Milder, session' = session,
           \A i \in InviteIds : invites'[i] # invites[i] => Spares(i)
    PROVE  Blank' /\ RowsApart' /\ EntryHeld' /\ OneLink'
<1>3. \A q \in Sessions : Redeems(session[q]) => session[q].invite \in InviteIds
  BY SessionTypes DEF IInv, Redeems
<1>4. \A q \in Sessions : Redeems(session'[q]) =>
            invites'[session'[q].invite] = invites[session'[q].invite]
  BY <1>3 DEF Spares
<1>5. \A q \in Sessions : Redeems(session'[q]) =>
            /\ invites'[session'[q].invite].made
            /\ invites'[session'[q].invite].used = None
            /\ ~invites'[session'[q].invite].revoked
  BY <1>4 DEF IInv, RowsApart
<1>6. \A i \in InviteIds : invites[i].made => invites'[i].made
  BY DEF Milder
<1> QED BY <1>5, <1>6, MilderBlank, RowsStay

\* Accounts, when no Auth user and no users row comes or goes.
LEMMA AccountsStay ==
    ASSUME IInv, UNCHANGED <<auth, local, issued, doomed>>, orphaned \subseteq orphaned',
           \A q \in Sessions :
                /\ Makes(session'[q]) \/ session'[q].pc = "purge" => session'[q] = session[q]
                /\ Makes(session[q]) => session'[q] = session[q] \/ session[q].sub \in orphaned'
    PROVE  SubsApart'
<1> USE DEF IInv, SubsApart
<1>1. Issued' /\ RowsDiffer' /\ UserHasAuth'
  BY DEF Issued, RowsDiffer, UserHasAuth, Taken
<1>2. SignupsDiffer' /\ PurgesTheGone'
  BY DEF SignupsDiffer, PurgesTheGone
<1>3. InsertsAnew' /\ UndoesItsOwn'
  BY DEF InsertsAnew, UndoesItsOwn, Makes
<1>4. OrphansAreFaults'
  BY DEF OrphansAreFaults, Makes
<1> QED BY <1>1, <1>2, <1>3, <1>4

\* The count of letters, when none is mailed.
LEMMA LimitStays ==
    ASSUME IInv, UNCHANGED <<day, posts, unrecorded, overlapped>>, Blank', TypeOK',
           \A q \in Sessions : IsRun(session'[q]) =>
                IsRun(session[q]) /\ session'[q].quota <= session[q].quota,
           \A d \in 1..Days : Letters(d) \subseteq Letters(d)'
    PROVE  WithinLimit'
<1>1. \A q \in Sessions : session[q].quota \in Nat /\ session'[q].quota \in Nat
  BY DEF IInv, TypeOK, Session
<1>2. Limit \in Nat /\ day \in 1..Days /\ \A d \in 1..Days : posts[d] \in Nat /\ unrecorded[d] \in Nat
  BY InviteLimits DEF IInv, TypeOK
<1>3. NothingAhead' /\ QuotaInLimit'
  BY <1>1, <1>2 DEF IInv, WithinLimit, NothingAhead, QuotaInLimit
<1>4. (OneRun => OneRun') /\ (PostsInLimit => PostsInLimit')
  BY DEF OneRun, PostsInLimit
<1>5. RoomForRun => RoomForRun'
  BY <1>1, <1>2 DEF RoomForRun
<1>6. PostsRecorded => PostsRecorded'
  <2> SUFFICES ASSUME PostsRecorded, NEW d \in 1..Days
               PROVE  posts[d] <= Cardinality(Letters(d)') + unrecorded[d]
    BY DEF PostsRecorded
  <2>1. Letters(d)' \subseteq Made'
    <3>1. d # 0
      BY InviteLimits
    <3> QED BY <3>1, NoInviteTypes DEF Letters, Made, Blank
  <2>2. IsFiniteSet(Letters(d)')
    BY <2>1, FS_Subset DEF Blank
  <2>3. /\ Cardinality(Letters(d)) <= Cardinality(Letters(d)')
        /\ Cardinality(Letters(d)) \in Nat /\ Cardinality(Letters(d)') \in Nat
    <3>1. IsFiniteSet(Letters(d)) /\ Cardinality(Letters(d)) <= Cardinality(Letters(d)')
      BY <2>2, FS_Subset
    <3> QED BY <2>2, <3>1, FS_CardinalityType
  <2>4. posts[d] <= Cardinality(Letters(d)) + unrecorded[d]
    BY DEF PostsRecorded
  <2> DEFINE n == Cardinality(Letters(d))
             m == Cardinality(Letters(d)')
  <2> HIDE DEF n, m
  <2> QED BY <1>2, <2>3, <2>4 DEF n, m
<1> QED BY <1>3, <1>4, <1>5, <1>6 DEF IInv, WithinLimit
-----------------------------------------------------------------------------
(* A step that the tables and the history do not notice.                   *)

LEMMA TypesKeep ==
    ASSUME IInv, NEW p \in Sessions, NEW s \in Session, Set(p, s), Placed(s), left' \in Lefts,
           day' \in 1..Days, auth' \in [Emails -> Subs \cup {None}],
           local' \in [Emails -> Subs \cup {None}], issued' \subseteq Subs,
           entries' \in [Emails -> Entry], invites' \in [InviteIds -> Invite],
           posts' \in [1..Days -> Nat], unrecorded' \in [1..Days -> Nat],
           overlapped' \in BOOLEAN, orphaned' \subseteq Subs, doomed' \subseteq Subs
    PROVE  TypeOK' /\ Places'
<1>1. /\ session' \in [Sessions -> Session]
      /\ session'[p] = s /\ \A q \in Sessions \ {p} : session'[q] = session[q]
  BY SetChanges DEF IInv
<1>2. TypeOK'
  BY <1>1 DEF TypeOK, Lefts
<1>3. Places'
  BY <1>1 DEF IInv, Places
<1> QED BY <1>2, <1>3

LEMMA SpendKeeps == ASSUME IInv, NEW kind \in Spendings PROVE Spend(kind) => left' \in Lefts
BY SpendTypes DEF IInv

LEMMA LeftKeeps == ASSUME IInv, UNCHANGED left PROVE left' \in Lefts
BY DEF IInv, TypeOK, Lefts

\* A session that neither makes an account nor holds a row any more.
LEMMA LosesKeeps ==
    ASSUME IInv, Milder, NEW p \in Sessions, NEW s \in Session, Set(p, s), Placed(s), Plain(s),
           ~Redeems(s), ~Makes(s), s.pc # "purge",
           \A i \in InviteIds : invites'[i] # invites[i] =>
                \A q \in Sessions : Redeems(session'[q]) => session'[q].invite # i,
           IsRun(s) => IsRun(session[p]) /\ s.quota <= session[p].quota,
           Makes(session[p]) => session[p].sub \in orphaned',
           left' \in Lefts, entries' \in [Emails -> Entry],
           orphaned \subseteq orphaned', orphaned' \subseteq Subs,
           UNCHANGED <<day, auth, local, issued, posts, unrecorded, overlapped, doomed>>
    PROVE  IInv'
<1>1. TypeOK' /\ Places'
  BY TypesKeep DEF IInv, TypeOK, Milder
<1>2. session'[p] = s /\ \A q \in Sessions \ {p} : session'[q] = session[q]
  BY SetChanges DEF IInv
<1>3. Blank' /\ RowsApart' /\ EntryHeld' /\ OneLink'
  BY RowsKeep
<1>4. SubsApart'
  BY <1>2, AccountsStay
<1>5. \A q \in Sessions : IsRun(session'[q]) =>
            IsRun(session[q]) /\ session'[q].quota <= session[q].quota
  <2>1. \A q \in Sessions : session[q].quota \in Nat
    BY SessionTypes DEF IInv
  <2> QED BY <1>2, <2>1
<1>6. WithinLimit'
  <2>1. \A d \in 1..Days : Letters(d) \subseteq Letters(d)'
    BY DEF Letters, Milder
  <2> QED BY <1>1, <1>3, <1>5, <2>1, LimitStays
<1> QED BY <1>1, <1>3, <1>4, <1>6 DEF IInv

\* The same, when the invites stay too.
LEMMA QuietKeeps ==
    ASSUME IInv, NEW p \in Sessions, NEW s \in Session, Set(p, s), Placed(s), Plain(s),
           ~Redeems(s), ~Makes(s), s.pc # "purge",
           IsRun(s) => IsRun(session[p]) /\ s.quota <= session[p].quota,
           Makes(session[p]) => session[p].sub \in orphaned',
           left' \in Lefts, entries' \in [Emails -> Entry],
           orphaned \subseteq orphaned', orphaned' \subseteq Subs,
           UNCHANGED <<day, auth, local, issued, invites, posts, unrecorded, overlapped, doomed>>
    PROVE  IInv'
BY SameInvites, LosesKeeps

\* Its common case: the session goes back to rest, and was not making an account.
LEMMA RestKeeps ==
    ASSUME IInv, NEW p \in Sessions, Set(p, Idle), ~Makes(session[p]),
           left' \in Lefts, entries' \in [Emails -> Entry],
           UNCHANGED <<day, auth, local, issued, invites, posts, unrecorded, overlapped, orphaned,
                       doomed>>
    PROVE  IInv'
<1>1. Plain(Idle) /\ Idle.pc # "purge"
  BY IdleTypes DEF Plain
<1>2. orphaned' \subseteq Subs
  BY DEF IInv, TypeOK
<1> QED BY <1>1, <1>2, IdleTypes, QuietKeeps

LEMMA SubmitKeeps ==
    ASSUME IInv, NEW p \in Sessions, NEW e \in Emails, NEW i \in InviteIds \cup {None}, Submit(p, e, i)
    PROVE  IInv'
<1> DEFINE s == [Begin(p, "signup", e) EXCEPT !.pc = "redeem", !.invite = i]
<1>1. /\ s \in Session /\ s.pc = "redeem" /\ s.task = "signup" /\ s.email = e
      /\ ~s.entry /\ s.holds = {}
  BY DEF Begin, Idle, Session
<1>2. Set(p, s) /\ session[p].pc = "idle"
  BY DEF Submit
<1> HIDE DEF s
<1>3. Placed(s) /\ Plain(s) /\ ~Redeems(s) /\ ~Makes(s) /\ ~IsRun(s) /\ ~Makes(session[p])
  BY <1>1, <1>2 DEF Placed, Plain, Redeems, Makes, IsRun
<1>4. left' \in Lefts
  BY SpendKeeps DEF Submit, Spendings
<1> QED BY <1>1, <1>2, <1>3, <1>4, QuietKeeps DEF Submit, tables, history, IInv, TypeOK

LEMMA AskForEntryKeeps ==
    ASSUME IInv, NEW p \in Sessions, NEW t \in {"mint", "status", "letter"}, NEW e \in Emails,
           Ask(p, t, e)
    PROVE  IInv'
<1> DEFINE s == [Begin(p, t, e) EXCEPT !.pc = "lock"]
<1>1. /\ s \in Session /\ s.pc = "lock" /\ s.task = t /\ s.email = e
      /\ ~s.entry /\ s.holds = {}
  BY DEF Begin, Idle, Session
<1>2. Set(p, s) /\ session[p].pc = "idle"
  BY DEF Ask
<1> HIDE DEF s
<1>3. Placed(s) /\ Plain(s) /\ ~Redeems(s) /\ ~Makes(s) /\ ~IsRun(s) /\ ~Makes(session[p])
  BY <1>1, <1>2 DEF Placed, Plain, Redeems, Makes, IsRun
<1>4. left' \in Lefts
  BY SpendKeeps DEF Ask, Spendings
<1> QED BY <1>1, <1>2, <1>3, <1>4, QuietKeeps DEF Ask, tables, history, IInv, TypeOK

LEMMA FindOrphanKeeps ==
    ASSUME IInv, NEW p \in Sessions, NEW e \in Emails, FindOrphan(p, e) PROVE IInv'
<1> DEFINE s == [Begin(p, "orphan", e) EXCEPT !.sub = auth[e]]
<1>0. auth[e] \in Subs
  BY DEF FindOrphan, IInv, TypeOK
<1>1. /\ s \in Session /\ s.pc = "orphan" /\ s.task = "orphan" /\ s.email = e /\ s.sub \in Subs
      /\ ~s.entry /\ s.holds = {}
  BY <1>0 DEF Begin, Idle, Session
<1>2. Set(p, s) /\ session[p].pc = "idle"
  BY DEF FindOrphan
<1> HIDE DEF s
<1>3. Placed(s) /\ Plain(s) /\ ~Redeems(s) /\ ~Makes(s) /\ ~IsRun(s) /\ ~Makes(session[p])
  BY <1>1, <1>2 DEF Placed, Plain, Redeems, Makes, IsRun
<1>4. left' \in Lefts
  BY SpendKeeps DEF FindOrphan, Spendings
<1> QED BY <1>1, <1>2, <1>3, <1>4, QuietKeeps DEF FindOrphan, tables, history, IInv, TypeOK

\* What an automatic run goes on with.
LEMMA EndedTypes ==
    ASSUME IInv, NEW p \in Sessions, NEW attempts \in {0, 1},
           session[p].pc \in {"lock", "issue", "send"}
    PROVE  /\ Ended(p, attempts) \in Session /\ Placed(Ended(p, attempts))
           /\ Plain(Ended(p, attempts)) /\ ~Redeems(Ended(p, attempts))
           /\ ~Makes(Ended(p, attempts)) /\ Ended(p, attempts).pc # "purge"
           /\ IsRun(Ended(p, attempts)) =>
                 IsRun(session[p]) /\ Ended(p, attempts).quota = session[p].quota - attempts
           /\ ~Makes(session[p])
<1>1. /\ session[p].quota \in Nat /\ session[p].todo \subseteq Emails
      /\ session[p].task = "auto" => session[p].quota > 0
  BY SessionTypes DEF IInv, Places, Placed
<1>2. CASE session[p].task = "auto"
  <2> DEFINE s == [Begin(p, "auto", None) EXCEPT !.quota = session[p].quota - attempts,
                                                 !.todo = session[p].todo]
  <2>1. session[p].quota - attempts \in Nat
    BY <1>1, <1>2
  <2>2. /\ s \in Session /\ s.pc = "auto" /\ s.task = "auto" /\ ~s.entry /\ s.holds = {}
        /\ s.quota = session[p].quota - attempts
    BY <1>1, <2>1 DEF Begin, Idle, Session
  <2>3. Ended(p, attempts) = s
    BY <1>2 DEF Ended
  <2> HIDE DEF s
  <2>4. Placed(s) /\ Plain(s) /\ ~Redeems(s) /\ ~Makes(s) /\ IsRun(session[p])
    BY <1>2, <2>2 DEF Placed, Plain, Redeems, Makes, IsRun
  <2> QED BY <2>2, <2>3, <2>4 DEF Makes
<1>3. CASE session[p].task # "auto"
  BY <1>3, IdleTypes DEF Ended, Plain, Makes
<1> QED BY <1>2, <1>3

LEMMA EndsKeep ==
    ASSUME IInv, NEW p \in Sessions, session[p].pc \in {"lock", "issue"}, Set(p, Ended(p, 0)),
           UNCHANGED <<day, auth, local, issued, tables, left, history>>
    PROVE  IInv'
<1>1. session[p].quota \in Nat
  BY SessionTypes DEF IInv
<1>2. IsRun(Ended(p, 0)) => IsRun(session[p]) /\ Ended(p, 0).quota <= session[p].quota
  BY <1>1, EndedTypes
<1> QED BY <1>2, EndedTypes, LeftKeeps, QuietKeeps DEF tables, history, IInv, TypeOK

LEMMA NextLetterKeeps ==
    ASSUME IInv, NEW p \in Sessions, NEW e \in Emails, NextLetter(p, e) PROVE IInv'
<1> DEFINE rest == [session[p] EXCEPT !.todo = session[p].todo \ {e}]
           next == [rest EXCEPT !.pc = "lock", !.email = e]
<1>1. /\ session[p] \in Session /\ session[p].pc = "auto" /\ session[p].quota > 0
      /\ session[p].task = "auto" /\ ~session[p].entry /\ session[p].holds = {}
  BY SessionTypes DEF NextLetter, IInv, Places, Placed
<1>2. /\ rest \in Session /\ rest.pc = "auto" /\ rest.task = "auto" /\ ~rest.entry
      /\ rest.holds = {} /\ rest.quota = session[p].quota
  BY <1>1 DEF Session
<1>3. /\ next \in Session /\ next.pc = "lock" /\ next.task = "auto" /\ ~next.entry
      /\ next.holds = {} /\ next.quota = session[p].quota /\ next.email = e
  BY <1>2 DEF Session
<1>4. PICK s \in {rest, next} : Set(p, s)
  BY DEF NextLetter
<1> HIDE DEF rest, next
<1>5. session[p].quota \in Nat
  BY SessionTypes DEF IInv
<1>6. /\ s \in Session /\ Placed(s) /\ Plain(s) /\ ~Redeems(s) /\ ~Makes(s) /\ s.pc # "purge"
      /\ IsRun(session[p]) /\ s.quota <= session[p].quota /\ ~Makes(session[p])
  BY <1>1, <1>2, <1>3, <1>5 DEF Placed, Plain, Redeems, Makes, IsRun
<1> QED BY <1>4, <1>6, LeftKeeps, QuietKeeps DEF NextLetter, tables, history, IInv, TypeOK

LEMMA EndRunKeeps == ASSUME IInv, NEW p \in Sessions, EndRun(p) PROVE IInv'
BY RestKeeps, LeftKeeps DEF EndRun, Makes, tables, history, IInv, TypeOK

LEMMA DeleteFailsKeeps == ASSUME IInv, NEW p \in Sessions, DeleteLocalFails(p) PROVE IInv'
<1>1. left' \in Lefts
  BY LeftKeeps, SpendKeeps DEF DeleteLocalFails, Spendings
<1> QED BY <1>1, RestKeeps DEF DeleteLocalFails, Makes, tables, history, IInv, TypeOK

LEMMA DieKeeps == ASSUME IInv, NEW p \in Sessions, Die(p) PROVE IInv'
<1>1. left' \in Lefts
  BY SpendKeeps DEF Die, Spendings
<1>2. Makes(session[p]) => session[p].sub \in Subs
  BY DEF Makes, IInv, Places, Placed
<1>3. orphaned \subseteq orphaned' /\ orphaned' \subseteq Subs
      /\ (Makes(session[p]) => session[p].sub \in orphaned')
  BY <1>2 DEF Die, Makes, IInv, TypeOK
<1>4. Plain(Idle) /\ Idle.pc # "purge"
  BY IdleTypes DEF Plain
<1> QED BY <1>1, <1>3, <1>4, IdleTypes, QuietKeeps DEF Die, tables, IInv, TypeOK

-----------------------------------------------------------------------------
(* What changes invites and entries and no session.                        *)

LEMMA TablesKeep ==
    ASSUME IInv, Milder, session' = session, left' \in Lefts, entries' \in [Emails -> Entry],
           \A i \in InviteIds : invites'[i] # invites[i] => Spares(i),
           UNCHANGED <<day, auth, local, issued, posts, unrecorded, overlapped, orphaned, doomed>>
    PROVE  IInv'
<1>1. TypeOK' /\ Places'
  BY DEF IInv, TypeOK, Places, Milder, Lefts
<1>2. Blank' /\ RowsApart' /\ EntryHeld' /\ OneLink'
  BY RowsRest
<1>3. SubsApart'
  BY AccountsStay
<1>4. \A d \in 1..Days : Letters(d) \subseteq Letters(d)'
  BY DEF Milder, Letters
<1>5. \A q \in Sessions : session[q].quota \in Nat
  BY SessionTypes DEF IInv
<1>6. WithinLimit'
  BY <1>1, <1>2, <1>4, <1>5, LimitStays
<1> QED BY <1>1, <1>2, <1>3, <1>6 DEF IInv

LEMMA EntryTypes ==
    ASSUME NEW s \in {"none", "pending", "invited", "rejected"}, NEW b \in BOOLEAN
    PROVE  [status |-> s, sent |-> b] \in Entry
BY DEF Entry

LEMMA MarkedTypes == \A x \in Entry : [x EXCEPT !.sent = TRUE] \in Entry
BY DEF Entry

LEMMA MarkSentKeeps == ASSUME IInv, NEW p \in Sessions, NEW e \in Emails, MarkSent(p, e) PROVE IInv'
<1>1. left' \in Lefts
  BY SpendKeeps DEF MarkSent, Spendings
<1>2. entries' \in [Emails -> Entry]
  <2>1. [entries[e] EXCEPT !.sent = TRUE] \in Entry
    BY MarkedTypes DEF IInv, TypeOK
  <2> QED BY <2>1 DEF MarkSent, IInv, TypeOK
<1>3. Milder /\ session' = session /\ invites' = invites
  BY SameInvites DEF MarkSent
<1> QED BY <1>1, <1>2, <1>3, TablesKeep DEF MarkSent, history

LEMMA ReferKeeps == ASSUME IInv, NEW e \in Emails, Refer(e) PROVE IInv'
<1>1. left' \in Lefts
  BY SpendKeeps DEF Refer, Spendings
<1>2. entries' \in [Emails -> Entry]
  <2>1. [entries[e] EXCEPT !.status = "pending"] \in Entry
    BY DEF IInv, TypeOK, Entry
  <2> QED BY <2>1 DEF Refer, IInv, TypeOK
<1>3. Milder /\ session' = session /\ invites' = invites
  BY SameInvites DEF Refer
<1> QED BY <1>1, <1>2, <1>3, TablesKeep DEF Refer, history

LEMMA InviteTypes == ASSUME IInv, NEW i \in InviteIds
                     PROVE  /\ invites[i] \in Invite /\ (~invites[i].made => invites[i] = NoInvite)
                            /\ invites[i].entry \in Emails \cup {None}
                            /\ invites[i].email \in Emails \cup {None}
                            /\ invites[i].used \in Subs \cup {None} /\ invites[i].day \in Nat
BY DEF IInv, TypeOK, Invite, Blank

\* An invite that is made is revoked, expires or is unsubscribed from.
LEMMA FlagKeeps ==
    ASSUME IInv, NEW i \in InviteIds, invites[i].made, NEW new,
           new \in {[invites[i] EXCEPT !.revoked = TRUE], [invites[i] EXCEPT !.expired = TRUE],
                    [invites[i] EXCEPT !.unsub = TRUE]},
           invites' = [invites EXCEPT ![i] = new]
    PROVE  Milder
<1>1. /\ new \in Invite /\ new.made = invites[i].made /\ new.day = invites[i].day
      /\ new.used = invites[i].used /\ new.entry = invites[i].entry
  BY InviteTypes DEF Invite
<1>2. (invites[i].revoked => new.revoked) /\ (invites[i].expired => new.expired)
  BY InviteTypes DEF Invite
<1>3. invites' \in [InviteIds -> Invite]
  BY <1>1 DEF IInv, TypeOK
<1>4. \A j \in InviteIds : invites'[j] = IF j = i THEN new ELSE invites[j]
  BY DEF IInv, TypeOK
<1> QED BY <1>1, <1>2, <1>3, <1>4 DEF Milder

LEMMA UnlockedSpares == ASSUME NEW i \in InviteIds, ~RowLocked(i)
                        PROVE  Spares(i) /\ \A q \in Sessions : i \notin session[q].holds
BY DEF RowLocked, Spares, Redeems

LEMMA RevokeInviteKeeps == ASSUME IInv, NEW p \in Sessions, NEW i \in InviteIds, Revoke(p, i) PROVE IInv'
<1>1. left' \in Lefts
  BY SpendKeeps DEF Revoke, Spendings
<1>2. invites' = [invites EXCEPT ![i] = [invites[i] EXCEPT !.revoked = TRUE]] /\ invites[i].made
  BY DEF Revoke, IInv, TypeOK
<1>3. Milder
  BY <1>2, FlagKeeps
<1>4. \A j \in InviteIds : invites'[j] # invites[j] => Spares(j)
  <2>1. Spares(i)
    BY UnlockedSpares DEF Revoke
  <2>2. \A j \in InviteIds \ {i} : invites'[j] = invites[j]
    BY <1>2 DEF IInv, TypeOK
  <2> QED BY <2>1, <2>2
<1> QED BY <1>1, <1>3, <1>4, TablesKeep DEF Revoke, history, IInv, TypeOK

LEMMA UnsubscribeKeeps == ASSUME IInv, NEW i \in InviteIds, Unsubscribe(i) PROVE IInv'
<1>1. left' \in Lefts
  BY SpendKeeps DEF Unsubscribe, Spendings
<1>2. invites' = [invites EXCEPT ![i] = [invites[i] EXCEPT !.unsub = TRUE]]
  BY DEF Unsubscribe, IInv, TypeOK
<1>3. invites[i].made
  BY InviteTypes, NoInviteTypes DEF Unsubscribe
<1>4. Milder
  BY <1>2, <1>3, FlagKeeps
<1>5. \A j \in InviteIds : invites'[j] # invites[j] => Spares(j)
  <2>1. Spares(i)
    BY UnlockedSpares DEF Unsubscribe
  <2>2. \A j \in InviteIds \ {i} : invites'[j] = invites[j]
    BY <1>2 DEF IInv, TypeOK
  <2> QED BY <2>1, <2>2
<1> QED BY <1>1, <1>4, <1>5, TablesKeep DEF Unsubscribe, history, IInv, TypeOK

\* An invite may expire while a signup is redeeming it.
LEMMA ExpireKeeps == ASSUME IInv, NEW i \in InviteIds, Expire(i) PROVE IInv'
<1>1. left' \in Lefts
  BY SpendKeeps DEF Expire, Spendings
<1> DEFINE new == [invites[i] EXCEPT !.expired = TRUE]
<1>2. invites' = [invites EXCEPT ![i] = new] /\ invites[i].made
  BY DEF Expire, IInv, TypeOK
<1>3. Milder
  BY <1>2, FlagKeeps
<1>4. /\ new.made = invites[i].made /\ new.used = invites[i].used
      /\ new.revoked = invites[i].revoked /\ new.day = invites[i].day
  BY InviteTypes DEF Invite
<1> HIDE DEF new
<1>5. \A j \in InviteIds : /\ invites'[j].made = invites[j].made
                           /\ invites'[j].used = invites[j].used
                           /\ invites'[j].revoked = invites[j].revoked
  BY <1>2, <1>4 DEF IInv, TypeOK
<1>6. UNCHANGED <<session, day, auth, local, issued, entries, history>>
  BY DEF Expire
<1>7. TypeOK' /\ Places'
  BY <1>1, <1>3, <1>6 DEF IInv, TypeOK, Places, Milder, Lefts, history
<1>8. Blank' /\ RowsApart' /\ EntryHeld' /\ OneLink'
  <2>1. \A q \in Sessions : Redeems(session[q]) => session[q].invite \in InviteIds
    BY SessionTypes DEF IInv, Redeems
  <2>2. \A q \in Sessions : Redeems(session'[q]) =>
            /\ invites'[session'[q].invite].made
            /\ invites'[session'[q].invite].used = None
            /\ ~invites'[session'[q].invite].revoked
    BY <1>5, <1>6, <2>1 DEF IInv, RowsApart
  <2> QED BY <1>3, <1>5, <1>6, <2>2, MilderBlank, RowsStay
<1>9. SubsApart'
  BY <1>6, AccountsStay DEF history
<1>10. WithinLimit'
  <2>1. \A d \in 1..Days : Letters(d) \subseteq Letters(d)'
    BY <1>3 DEF Milder, Letters
  <2>2. \A q \in Sessions : session[q].quota \in Nat
    BY SessionTypes DEF IInv
  <2> QED BY <1>6, <1>7, <1>8, <2>1, <2>2, LimitStays DEF history
<1> QED BY <1>7, <1>8, <1>9, <1>10 DEF IInv

-----------------------------------------------------------------------------
(* A new invite.                                                           *)

LEMMA NewTypes ==
    ASSUME NEW e \in Emails \cup {None}, NEW link \in Emails \cup {None}, NEW d \in Nat
    PROVE  /\ New(e, link, d) \in Invite /\ New(e, link, d).made /\ New(e, link, d).used = None
           /\ ~New(e, link, d).revoked /\ New(e, link, d).entry = link /\ New(e, link, d).day = d
BY DEF New, NoInvite, Invite

LEMMA NewOnes ==
    \A e, link \in Emails \cup {None}, d \in Nat :
        LET new == New(e, link, d)
        IN  new \in Invite /\ new.made /\ new.entry = link /\ new.day = d /\ new.used = None
BY NewTypes

\* The invites after links were revoked and one was made.
Relinked(revoked, i, new) ==
    /\ invites' \in [InviteIds -> Invite] /\ invites'[i] = new /\ i \notin revoked
    /\ ~invites[i].made
    /\ \A j \in InviteIds \ {i} :
        /\ invites'[j].made = invites[j].made /\ invites'[j].used = invites[j].used
        /\ invites'[j].expired = invites[j].expired /\ invites'[j].entry = invites[j].entry
        /\ invites'[j].day = invites[j].day
        /\ j \in revoked => invites'[j].revoked
        /\ j \notin revoked => invites'[j] = invites[j]

LEMMA ReissuedTypes ==
    ASSUME IInv, NEW revoked \in SUBSET InviteIds, NEW i \in InviteIds, NextId(i),
           \A j \in revoked : invites[j].made,
           NEW new \in Invite, invites' = Reissued(revoked, i, new), new.made
    PROVE  /\ Relinked(revoked, i, new) /\ Blank'
           /\ \A d \in 1..Days : Letters(d) \subseteq Letters(d)'
<1> DEFINE gone(j) == [invites[j] EXCEPT !.revoked = TRUE]
<1>1. \A j \in InviteIds :
        /\ gone(j) \in Invite /\ gone(j).revoked
        /\ gone(j).made = invites[j].made /\ gone(j).used = invites[j].used
        /\ gone(j).expired = invites[j].expired /\ gone(j).entry = invites[j].entry
        /\ gone(j).day = invites[j].day
  BY InviteTypes DEF Invite
<1>2. i \notin revoked /\ ~invites[i].made
  BY DEF NextId
<1>3. invites' = [j \in InviteIds |-> IF j = i THEN new
                                      ELSE IF j \in revoked THEN gone(j) ELSE invites[j]]
  BY <1>2 DEF Reissued
<1> HIDE DEF gone
<1>4. invites' \in [InviteIds -> Invite] /\ invites'[i] = new
  BY <1>1, <1>3, InviteTypes
<1>5. \A j \in InviteIds \ {i} : invites'[j] = IF j \in revoked THEN gone(j) ELSE invites[j]
  BY <1>3
<1>6. \A j \in InviteIds \ {i} :
                /\ invites'[j].made = invites[j].made /\ invites'[j].used = invites[j].used
                /\ invites'[j].expired = invites[j].expired /\ invites'[j].entry = invites[j].entry
                /\ invites'[j].day = invites[j].day
                /\ j \in revoked => invites'[j].revoked
                /\ j \notin revoked => invites'[j] = invites[j]
  BY <1>1, <1>5
<1>7. Blank'
  <2>1. Made' = Made \cup {i}
    BY <1>4, <1>6 DEF Made
  <2>2. IsFiniteSet(Made')
    BY <2>1, FS_AddElement DEF IInv, Blank
  <2>3. \A j \in InviteIds : invites'[j].made \/ invites'[j] = NoInvite
    BY <1>4, <1>6 DEF IInv, Blank
  <2> QED BY <2>2, <2>3 DEF Blank
<1>8. \A d \in 1..Days : Letters(d) \subseteq Letters(d)'
  <2>1. \A d \in 1..Days : d # 0
    BY InviteLimits
  <2>2. invites[i].day = 0
    BY <1>2, InviteTypes, NoInviteTypes
  <2> QED BY <1>6, <2>1, <2>2 DEF Letters
<1> QED BY <1>2, <1>4, <1>6, <1>7, <1>8 DEF Relinked

\* An entry gets a new link only from who holds it and revokes all it had.
LEMMA NewLink ==
    ASSUME IInv, NEW revoked \in SUBSET InviteIds, NEW i \in InviteIds, NEW new,
           Relinked(revoked, i, new), new.made,
           \A j \in revoked : Spares(j),
           \A q \in Sessions :
                /\ session'[q].holds \subseteq session[q].holds
                /\ session'[q].entry => session'[q] = session[q]
                /\ Redeems(session'[q]) =>
                        Redeems(session[q]) /\ session'[q].invite = session[q].invite,
           new.entry # None => \E q \in Sessions :
                /\ session[q].entry /\ ~session'[q].entry /\ session[q].email = new.entry
                /\ LiveLinks(new.entry) \subseteq revoked
    PROVE  RowsApart' /\ EntryHeld' /\ OneLink'
<1>0. \A j \in InviteIds \ {i} :
                /\ invites'[j].made = invites[j].made /\ invites'[j].used = invites[j].used
                /\ invites'[j].expired = invites[j].expired /\ invites'[j].entry = invites[j].entry
                /\ j \in revoked => invites'[j].revoked
                /\ j \notin revoked => invites'[j] = invites[j]
  BY DEF Relinked
<1>1. invites'[i] = new /\ ~invites[i].made
  BY DEF Relinked
<1>2. \A q \in Sessions : Redeems(session[q]) =>
            /\ session[q].invite \in InviteIds /\ session[q].invite # i
            /\ session[q].invite \notin revoked
  <2>1. \A q \in Sessions : Redeems(session[q]) => session[q].invite \in InviteIds
    BY SessionTypes DEF IInv, Redeems
  <2> QED BY <1>1, <2>1 DEF IInv, RowsApart, Spares
<1>3. RowsApart'
  <2>1. \A q \in Sessions : session[q].holds \subseteq InviteIds
    BY SessionTypes DEF IInv
  <2>2. \A q \in Sessions : \A j \in session'[q].holds : invites'[j].made
    BY <1>0, <1>1, <2>1 DEF IInv, RowsApart
  <2> QED BY <1>0, <1>2, <2>2 DEF IInv, RowsApart
<1>4. \A e \in Emails : e # new.entry => LiveLinks(e)' \subseteq LiveLinks(e)
  BY <1>0, <1>1 DEF LiveLinks, Live
<1>5. new.entry # None => LiveLinks(new.entry)' \subseteq {i}
  BY <1>0 DEF LiveLinks, Live
<1>6. OneLink'
  <2> SUFFICES ASSUME NEW e \in Emails, NEW j \in LiveLinks(e)', NEW k \in LiveLinks(e)'
               PROVE  j = k
    BY DEF OneLink
  <2>1. CASE e = new.entry
    BY <1>5, <2>1, NoneIsNothing
  <2>2. CASE e # new.entry
    BY <1>4, <2>2 DEF IInv, OneLink
  <2> QED BY <2>1, <2>2
<1>7. EntryHeld'
  <2> SUFFICES ASSUME NEW q \in Sessions, session'[q].entry
               PROVE  /\ session'[q].pc = "send" =>
                            LiveLinks(session[q].email)' \subseteq session'[q].holds
                      /\ \A r \in Sessions \ {q} :
                            session'[r].entry => session'[r].email # session'[q].email
    BY DEF EntryHeld
  <2>1. session'[q] = session[q] /\ session[q].entry
    OBVIOUS
  <2>2. session[q].email \in Emails
    BY <2>1 DEF IInv, Places, Placed
  <2>3. session[q].email # new.entry
    BY <2>1, <2>2, NoneIsNothing DEF IInv, EntryHeld
  <2> QED BY <1>4, <2>1, <2>2, <2>3 DEF IInv, EntryHeld
<1> QED BY <1>3, <1>6, <1>7

-----------------------------------------------------------------------------
(* Invites are redeemed, entries locked and links revoked.                 *)

\* A session takes a row, and the tables and the history stay.
LEMMA TakesKeep ==
    ASSUME IInv, NEW p \in Sessions, NEW s \in Session, Set(p, s), Placed(s),
           ~Makes(s), s.pc # "purge", ~Makes(session[p]),
           IsRun(s) => IsRun(session[p]) /\ s.quota = session[p].quota,
           UNCHANGED <<day, auth, local, issued, tables, left, history>>,
           RowsApart', EntryHeld'
    PROVE  IInv'
<1>1. UNCHANGED <<day, auth, local, issued, entries, invites, left, posts, unrecorded,
                  overlapped, orphaned, doomed>>
  BY DEF tables, history
<1>2. TypeOK' /\ Places'
  BY <1>1, TypesKeep, LeftKeeps DEF IInv, TypeOK
<1>3. session'[p] = s /\ \A q \in Sessions \ {p} : session'[q] = session[q]
  BY SetChanges DEF IInv
<1>4. Blank' /\ OneLink'
  BY <1>1 DEF IInv, Blank, Made, OneLink, LiveLinks, Live
<1>5. SubsApart'
  BY <1>1, <1>3, AccountsStay
<1>6. WithinLimit'
  <2>1. \A q \in Sessions : session[q].quota \in Nat
    BY SessionTypes DEF IInv
  <2>2. \A q \in Sessions : IsRun(session'[q]) =>
            IsRun(session[q]) /\ session'[q].quota <= session[q].quota
    BY <1>3, <2>1
  <2>3. \A d \in 1..Days : Letters(d) \subseteq Letters(d)'
    BY <1>1 DEF Letters
  <2> QED BY <1>1, <1>2, <1>4, <2>2, <2>3, LimitStays
<1> QED BY <1>2, <1>4, <1>5, <1>6 DEF IInv

LEMMA RedeemKeeps == ASSUME IInv, NEW p \in Sessions, Redeem(p) PROVE IInv'
<1> DEFINE s == [session[p] EXCEPT !.pc = "auth"]
<1>1. /\ session[p] \in Session /\ session[p].pc = "redeem" /\ session[p].task # "auto"
      /\ ~session[p].entry /\ session[p].holds = {} /\ session[p].email \in Emails
      /\ session[p].invite \in InviteIds \cup {None}
  BY SessionTypes DEF Redeem, IInv, Places, Placed
<1>2. /\ s \in Session /\ s.pc = "auth" /\ s.task = session[p].task /\ ~s.entry
      /\ s.holds = {} /\ s.email = session[p].email /\ s.invite = session[p].invite
  BY <1>1 DEF Session
<1>3. CASE Set(p, Idle)
  BY <1>1, <1>3, RestKeeps, LeftKeeps DEF Redeem, Makes, tables, history, IInv, TypeOK
<1>4. CASE Set(p, s) /\ session[p].invite = None
  <2> HIDE DEF s
  <2>1. Placed(s) /\ Plain(s) /\ ~Redeems(s) /\ ~Makes(s) /\ ~IsRun(s) /\ ~Makes(session[p])
    BY <1>1, <1>2, <1>4 DEF Placed, Plain, Redeems, Makes, IsRun
  <2> QED BY <1>2, <1>4, <2>1, LeftKeeps, QuietKeeps DEF Redeem, tables, history, IInv, TypeOK
<1>5. CASE /\ Set(p, s) /\ session[p].invite # None /\ ~RowLocked(session[p].invite)
           /\ Redeemable(session[p].invite, session[p].email)
  <2> HIDE DEF s
  <2>1. Placed(s) /\ ~Makes(s) /\ ~IsRun(s) /\ ~Makes(session[p])
    BY <1>1, <1>2 DEF Placed, Makes, IsRun
  <2>2. session'[p] = s /\ \A q \in Sessions \ {p} : session'[q] = session[q]
    BY <1>2, <1>5, SetChanges DEF IInv
  <2>3. invites' = invites
    BY DEF Redeem, tables
  <2>4. RowsApart'
    <3>1. /\ s.invite \in InviteIds /\ invites[s.invite].made /\ invites[s.invite].used = None
          /\ ~invites[s.invite].revoked
      BY <1>1, <1>2, <1>5 DEF Redeemable, Live
    <3>2. Spares(s.invite) /\ \A q \in Sessions : s.invite \notin session[q].holds
      BY <1>2, <1>5, <3>1, UnlockedSpares
    <3>3. \A q \in Sessions : session'[q].holds = session[q].holds
      BY <1>1, <1>2, <2>2
    <3> QED BY <2>2, <2>3, <3>1, <3>2, <3>3 DEF IInv, RowsApart, Spares
  <2>5. EntryHeld'
    BY <1>2, <2>2, <2>3 DEF IInv, EntryHeld, LiveLinks, Live
  <2> QED BY <1>2, <1>5, <2>1, <2>4, <2>5, TakesKeep DEF Redeem
<1> QED BY <1>3, <1>4, <1>5 DEF Redeem

LEMMA LockEntryKeeps == ASSUME IInv, NEW p \in Sessions, LockEntry(p) PROVE IInv'
<1> DEFINE s == [session[p] EXCEPT !.pc = "issue"]
           t == [s EXCEPT !.entry = TRUE]
<1>1. /\ session[p] \in Session /\ session[p].pc = "lock"
      /\ ~session[p].entry /\ session[p].holds = {} /\ session[p].email \in Emails
      /\ session[p].quota \in Nat /\ (session[p].task = "auto" => session[p].quota > 0)
  BY SessionTypes DEF LockEntry, IInv, Places, Placed
<1>2. /\ s \in Session /\ s.pc = "issue" /\ s.task = session[p].task /\ ~s.entry
      /\ s.holds = {} /\ s.email = session[p].email /\ s.quota = session[p].quota
  BY <1>1 DEF Session
<1>3. /\ t \in Session /\ t.pc = "issue" /\ t.task = session[p].task /\ t.entry
      /\ t.holds = {} /\ t.email = session[p].email /\ t.quota = session[p].quota
  BY <1>2 DEF Session
<1>4. UNCHANGED <<day, auth, local, issued, tables, left, history>>
  BY DEF LockEntry
<1>5. CASE Set(p, Ended(p, 0))
  BY <1>1, <1>4, <1>5, EndsKeep
<1>6. CASE Set(p, s) /\ session[p].task \in {"letter", "auto"}
  <2> HIDE DEF s, t
  <2>1. Placed(s) /\ Plain(s) /\ ~Redeems(s) /\ ~Makes(s) /\ ~Makes(session[p])
        /\ (IsRun(s) => IsRun(session[p]) /\ s.quota <= session[p].quota)
    BY <1>1, <1>2, <1>6 DEF Placed, Plain, Redeems, Makes, IsRun
  <2> QED BY <1>2, <1>4, <1>6, <2>1, LeftKeeps, QuietKeeps DEF tables, history, IInv, TypeOK
<1>7. CASE Set(p, t)
  <2> HIDE DEF s, t
  <2>1. Placed(t) /\ ~Redeems(t) /\ ~Makes(t) /\ ~Makes(session[p])
        /\ (IsRun(t) => IsRun(session[p]) /\ t.quota = session[p].quota)
    BY <1>1, <1>3 DEF Placed, Redeems, Makes, IsRun
  <2>2. session'[p] = t /\ \A q \in Sessions \ {p} : session'[q] = session[q]
    BY <1>3, <1>7, SetChanges DEF IInv
  <2>3. invites' = invites
    BY <1>4 DEF tables
  <2>4. RowsApart'
    BY <1>3, <2>1, <2>2, <2>3 DEF IInv, RowsApart
  <2>5. EntryHeld'
    <3>1. \A q \in Sessions \ {p} : session[q].entry => session[q].email # t.email
      BY <1>3 DEF LockEntry, EntryLocked
    <3> QED BY <1>3, <2>2, <2>3, <3>1 DEF IInv, EntryHeld, LiveLinks, Live
  <2> QED BY <1>3, <1>4, <1>7, <2>1, <2>4, <2>5, TakesKeep
<1> QED BY <1>5, <1>6, <1>7 DEF LockEntry

\* The links of an entry are revoked.
LEMMA RevokedLinks ==
    ASSUME IInv, NEW urls \in SUBSET InviteIds, \A i \in urls : invites[i].made,
           invites' = [i \in InviteIds |->
                            IF i \in urls THEN [invites[i] EXCEPT !.revoked = TRUE]
                            ELSE invites[i]]
    PROVE  Milder /\ \A i \in InviteIds : invites'[i] # invites[i] => i \in urls
<1> DEFINE gone(j) == [invites[j] EXCEPT !.revoked = TRUE]
<1>1. \A j \in InviteIds :
        /\ gone(j) \in Invite /\ gone(j).revoked
        /\ gone(j).made = invites[j].made /\ gone(j).used = invites[j].used
        /\ gone(j).expired = invites[j].expired /\ gone(j).entry = invites[j].entry
        /\ gone(j).day = invites[j].day
  BY InviteTypes DEF Invite
<1>2. \A i \in InviteIds : invites'[i] = IF i \in urls THEN gone(i) ELSE invites[i]
  OBVIOUS
<1>3. \A i \in InviteIds : invites[i] \in Invite
  BY InviteTypes
<1>4. invites' = [i \in InviteIds |-> IF i \in urls THEN gone(i) ELSE invites[i]]
  OBVIOUS
<1> HIDE DEF gone
<1>5. invites' \in [InviteIds -> Invite]
  BY <1>1, <1>3, <1>4
<1> QED BY <1>1, <1>2, <1>5 DEF Milder

\* A new link, of which the counts of letters are still to be shown.
LEMMA LinkKeeps ==
    ASSUME IInv, NEW p \in Sessions, NEW s \in Session, Set(p, s), Placed(s), Plain(s),
           ~Redeems(s), ~Makes(s), s.pc # "purge", ~Makes(session[p]),
           NEW revoked \in SUBSET InviteIds, NEW i \in InviteIds, NEW new,
           Relinked(revoked, i, new), new.made, Blank',
           \A j \in revoked : Spares(j),
           new.entry # None => /\ session[p].entry /\ session[p].email = new.entry
                               /\ LiveLinks(new.entry) \subseteq revoked,
           left' \in Lefts, entries' \in [Emails -> Entry],
           posts' \in [1..Days -> Nat], unrecorded' \in [1..Days -> Nat],
           UNCHANGED <<day, auth, local, issued, overlapped, orphaned, doomed>>,
           WithinLimit'
    PROVE  IInv'
<1>1. TypeOK' /\ Places'
  BY TypesKeep DEF IInv, TypeOK, Relinked
<1>2. session'[p] = s /\ \A q \in Sessions \ {p} : session'[q] = session[q]
  BY SetChanges DEF IInv
<1>3. \A q \in Sessions :
                /\ session'[q].holds \subseteq session[q].holds
                /\ session'[q].entry => session'[q] = session[q]
                /\ Redeems(session'[q]) =>
                        Redeems(session[q]) /\ session'[q].invite = session[q].invite
  BY <1>2 DEF Plain
<1>4. new.entry # None => \E q \in Sessions :
                /\ session[q].entry /\ ~session'[q].entry /\ session[q].email = new.entry
                /\ LiveLinks(new.entry) \subseteq revoked
  BY <1>2 DEF Plain
<1>5. RowsApart' /\ EntryHeld' /\ OneLink'
  BY <1>3, <1>4, NewLink
<1>6. SubsApart'
  BY <1>2, AccountsStay
<1> QED BY <1>1, <1>5, <1>6 DEF IInv

\* The links that are to be revoked, or are held, are made, and nobody redeems them.
LEMMA HeldLinks ==
    ASSUME IInv, NEW p \in Sessions
    PROVE  /\ \A i \in session[p].holds : i \in InviteIds /\ Spares(i) /\ invites[i].made
           /\ session[p].entry /\ session[p].pc = "send" =>
                 LiveLinks(session[p].email) \subseteq session[p].holds
<1>1. session[p].holds \subseteq InviteIds
  BY SessionTypes DEF IInv
<1>2. \A i \in session[p].holds : Spares(i)
  BY DEF IInv, RowsApart, Spares
<1> QED BY <1>1, <1>2 DEF IInv, EntryHeld, RowsApart

\* A link without a letter.
LEMMA MintLimit ==
    ASSUME IInv, NEW p \in Sessions, NEW s \in Session, Set(p, s), TypeOK', Blank',
           IsRun(s) => IsRun(session[p]) /\ s.quota <= session[p].quota,
           \A d \in 1..Days : Letters(d) \subseteq Letters(d)',
           UNCHANGED <<day, posts, unrecorded, overlapped>>
    PROVE  WithinLimit'
<1>1. session'[p] = s /\ \A q \in Sessions \ {p} : session'[q] = session[q]
  BY SetChanges DEF IInv
<1>2. \A q \in Sessions : session[q].quota \in Nat
  BY SessionTypes DEF IInv
<1>3. \A q \in Sessions : IsRun(session'[q]) =>
            IsRun(session[q]) /\ session'[q].quota <= session[q].quota
  BY <1>1, <1>2
<1> QED BY <1>3, LimitStays

LEMMA IssueKeeps == ASSUME IInv, NEW p \in Sessions, Issue(p) PROVE IInv'
<1> DEFINE urls == IF session[p].entry THEN LiveLinks(session[p].email) ELSE {}
<1>1. /\ session[p] \in Session /\ session[p].pc = "issue"
      /\ session[p].email \in Emails /\ session[p].quota \in Nat
      /\ session[p].holds = {}
      /\ session[p].task = "auto" => session[p].quota > 0
      /\ session[p].task \in {"mint", "status"} => session[p].entry
      /\ ~Makes(session[p])
  BY SessionTypes DEF Issue, IInv, Places, Placed, Makes
<1>2. /\ urls \in SUBSET InviteIds
      /\ \A i \in urls : /\ invites[i].made /\ ~RowLocked(i)
                          /\ Spares(i) /\ \A q \in Sessions : i \notin session[q].holds
      /\ session[p].entry => urls = LiveLinks(session[p].email)
  BY UnlockedSpares DEF Issue, LiveLinks, Live
<1>3. UNCHANGED <<day, auth, local, issued, left, posts, unrecorded, overlapped, orphaned, doomed>>
  BY DEF Issue, history
<1>4. left' \in Lefts /\ orphaned \subseteq Subs
  BY <1>3, LeftKeeps DEF IInv, TypeOK
<1>5. CASE /\ \E status \in {"pending", "rejected"} :
                  entries' = [entries EXCEPT ![session[p].email] =
                                  [status |-> status, sent |-> FALSE]]
           /\ invites' = [i \in InviteIds |->
                             IF i \in urls THEN [invites[i] EXCEPT !.revoked = TRUE]
                             ELSE invites[i]]
           /\ Set(p, Idle)
  <2> HIDE DEF urls
  <2>1. entries' \in [Emails -> Entry]
    <3>1. PICK status \in {"pending", "rejected"} :
                entries' = [entries EXCEPT ![session[p].email] = [status |-> status, sent |-> FALSE]]
      BY <1>5
    <3>2. [status |-> status, sent |-> FALSE] \in Entry
      BY EntryTypes
    <3> QED BY <3>1, <3>2 DEF IInv, TypeOK
  <2>2. Milder /\ \A i \in InviteIds : invites'[i] # invites[i] => i \in urls
    BY <1>2, <1>5, RevokedLinks
  <2>3. session'[p] = Idle /\ \A q \in Sessions \ {p} : session'[q] = session[q]
    BY <1>5, SetChanges, IdleTypes DEF IInv
  <2>4. \A i \in InviteIds : invites'[i] # invites[i] =>
            \A q \in Sessions : Redeems(session'[q]) => session'[q].invite # i
    BY <1>2, <2>2, <2>3, IdleTypes DEF Spares
  <2>5. Plain(Idle) /\ Idle.pc # "purge"
    BY IdleTypes DEF Plain
  <2> QED BY <1>1, <1>3, <1>4, <1>5, <2>1, <2>2, <2>4, <2>5, IdleTypes, LosesKeeps
<1>6. CASE Set(p, Ended(p, 0)) /\ UNCHANGED tables
  BY <1>1, <1>3, <1>6, EndsKeep DEF Issue
<1>7. CASE /\ session[p].task = "mint"
           /\ \E i \in InviteIds :
                  /\ NextId(i)
                  /\ invites' = Reissued(urls, i, New(session[p].email, session[p].email, 0))
           /\ entries' = [entries EXCEPT ![session[p].email] = [status |-> "invited", sent |-> FALSE]]
           /\ Set(p, Idle)
  <2> HIDE DEF urls
  <2> DEFINE new == New(session[p].email, session[p].email, 0)
  <2>1. new \in Invite /\ new.made /\ new.entry = session[p].email
    <3>1. session[p].email \in Emails \cup {None} /\ 0 \in Nat
      BY <1>1
    <3> QED BY <3>1, NewOnes
  <2>2. PICK i \in InviteIds : NextId(i) /\ invites' = Reissued(urls, i, new)
    BY <1>7
  <2> HIDE DEF new
  <2>3. /\ Relinked(urls, i, new) /\ Blank'
        /\ \A d \in 1..Days : Letters(d) \subseteq Letters(d)'
    BY <1>2, <2>1, <2>2, ReissuedTypes
  <2>4. entries' \in [Emails -> Entry]
    BY <1>1, <1>7, EntryTypes DEF IInv, TypeOK
  <2>5. Plain(Idle) /\ Idle.pc # "purge"
    BY IdleTypes DEF Plain
  <2>6. TypeOK'
    BY <1>3, <1>4, <1>7, <2>3, <2>4, IdleTypes, TypesKeep DEF IInv, TypeOK, Relinked
  <2>7. WithinLimit'
    BY <1>3, <1>7, <2>3, <2>6, IdleTypes, MintLimit
  <2>8. session[p].entry /\ LiveLinks(new.entry) \subseteq urls
    BY <1>1, <1>2, <1>7, <2>1
  <2>9. posts' \in [1..Days -> Nat] /\ unrecorded' \in [1..Days -> Nat]
    BY <1>3 DEF IInv, TypeOK
  <2> QED BY <1>1, <1>2, <1>3, <1>4, <1>7, <2>1, <2>3, <2>4, <2>5, <2>7, <2>8, <2>9, IdleTypes,
             LinkKeeps
<1>8. CASE /\ session[p].task \notin {"status", "mint"}
           /\ Set(p, [session[p] EXCEPT !.pc = "send", !.holds = urls])
           /\ UNCHANGED tables
  <2> HIDE DEF urls
  <2> DEFINE one == [session[p] EXCEPT !.pc = "send"]
             s == [one EXCEPT !.holds = urls]
  <2>1. /\ one \in Session /\ one.pc = "send" /\ one.task = session[p].task
        /\ one.email = session[p].email /\ one.quota = session[p].quota
        /\ one.entry = session[p].entry
    BY <1>1 DEF Session
  <2>2. /\ s \in Session /\ s.pc = "send" /\ s.task = session[p].task /\ s.holds = urls
        /\ s.email = session[p].email /\ s.quota = session[p].quota
        /\ s.entry = session[p].entry
    BY <1>2, <2>1 DEF Session
  <2>3. Set(p, s)
    BY <1>8
  <2> HIDE DEF one, s
  <2>4. Placed(s) /\ ~Redeems(s) /\ ~Makes(s)
        /\ (IsRun(s) => IsRun(session[p]) /\ s.quota = session[p].quota)
    BY <1>1, <2>2 DEF Placed, Redeems, Makes, IsRun
  <2>5. session'[p] = s /\ \A q \in Sessions \ {p} : session'[q] = session[q]
    BY <2>2, <2>3, SetChanges DEF IInv
  <2>6. invites' = invites
    BY <1>8 DEF tables
  <2>7. RowsApart'
    <3>1. \A q \in Sessions : Redeems(session[q]) => session[q].invite \notin urls
      BY <1>2 DEF Spares
    <3>2. \A q \in Sessions : \A i \in session'[q].holds : invites'[i].made
      BY <1>2, <2>2, <2>5, <2>6 DEF IInv, RowsApart
    <3> QED BY <2>2, <2>4, <2>5, <2>6, <3>1, <3>2 DEF IInv, RowsApart
  <2>8. EntryHeld'
    <3>1. s.entry => LiveLinks(s.email) \subseteq s.holds
      BY <1>2, <2>2
    <3> QED BY <2>2, <2>5, <2>6, <3>1 DEF IInv, EntryHeld, LiveLinks, Live
  <2> QED BY <1>1, <1>8, <2>2, <2>3, <2>4, <2>7, <2>8, TakesKeep DEF Issue
<1>9. CASE session[p].task = "status"
  BY <1>5, <1>9 DEF Issue
<1>10. CASE session[p].task # "status" /\ Taken(session[p].email)
  BY <1>6, <1>10 DEF Issue
<1>11. CASE session[p].task = "mint" /\ ~Taken(session[p].email)
  BY <1>7, <1>11 DEF Issue
<1>12. CASE session[p].task \notin {"status", "mint"} /\ ~Taken(session[p].email)
  BY <1>8, <1>12 DEF Issue
<1> QED BY <1>9, <1>10, <1>11, <1>12

-----------------------------------------------------------------------------
(* Letters, and the count of those that automatic runs mail.               *)

LEMMA CountTypes ==
    ASSUME IInv
    PROVE  /\ Limit \in Nat /\ day \in 1..Days
           /\ \A d \in 1..Days : /\ posts[d] \in Nat /\ unrecorded[d] \in Nat
                                 /\ IsFiniteSet(Letters(d)) /\ Cardinality(Letters(d)) \in Nat
           /\ \A q \in Sessions : session[q].quota \in Nat
<1>1. \A d \in 1..Days : Letters(d) \subseteq Made
  <2>1. \A d \in 1..Days : d # 0
    BY InviteLimits
  <2> QED BY <2>1, NoInviteTypes DEF Letters, Made, IInv, Blank
<1>2. \A d \in 1..Days : IsFiniteSet(Letters(d)) /\ Cardinality(Letters(d)) \in Nat
  BY <1>1, FS_Subset, FS_CardinalityType DEF IInv, Blank
<1> QED BY <1>2, InviteLimits, SessionTypes DEF IInv, TypeOK

\* A letter of an automatic run takes one from the quota of its session.
LEMMA PostedLimit ==
    ASSUME IInv, NEW p \in Sessions, NEW s \in Session, Set(p, s), IsRun(session[p]),
           session[p].quota > 0,
           IsRun(s) => s.quota = session[p].quota - 1,
           UNCHANGED <<day, overlapped>>,
           posts' = [posts EXCEPT ![day] = @ + 1],
           \/ unrecorded' = [unrecorded EXCEPT ![day] = @ + 1] /\ invites' = invites
           \/ /\ unrecorded' = unrecorded
              /\ \A d \in 1..Days : Letters(d) \subseteq Letters(d)'
              /\ \E i \in Letters(day)' : i \notin Letters(day)
              /\ Blank'
    PROVE  WithinLimit'
<1>1. session'[p] = s /\ \A q \in Sessions \ {p} : session'[q] = session[q]
  BY SetChanges DEF IInv
<1>2. /\ Limit \in Nat /\ day \in 1..Days /\ Days \in Nat
      /\ \A d \in 1..Days : posts[d] \in Nat /\ unrecorded[d] \in Nat
      /\ \A q \in Sessions : session[q].quota \in Nat
  BY CountTypes, InviteLimits
<1>3. posts'[day] = posts[day] + 1 /\ \A d \in 1..Days : d # day => posts'[d] = posts[d]
  BY <1>2 DEF IInv, TypeOK
<1>4. /\ unrecorded'[day] \in {unrecorded[day], unrecorded[day] + 1}
      /\ \A d \in 1..Days : d # day => unrecorded'[d] = unrecorded[d]
  BY <1>2 DEF IInv, TypeOK
<1>5. \A q \in Sessions : IsRun(session'[q]) =>
            IsRun(session[q]) /\ session'[q].quota <= session[q].quota
  BY <1>1, <1>2
<1>6. NothingAhead' /\ QuotaInLimit'
  <2>1. NothingAhead'
    <3>1. \A d \in 1..Days : d > day => d # day
      BY <1>2
    <3> QED BY <1>3, <1>4, <3>1 DEF IInv, WithinLimit, NothingAhead
  <2>2. QuotaInLimit'
    <3>1. \A q \in Sessions : IsRun(session[q]) => session[q].quota <= Limit
      BY DEF IInv, WithinLimit, QuotaInLimit
    <3>2. \A q \in Sessions : IsRun(session'[q]) => session'[q].quota \in Nat
      BY <1>1, <1>2
    <3> QED BY <1>2, <1>5, <3>1, <3>2 DEF QuotaInLimit
  <2> QED BY <2>1, <2>2
<1>7. ASSUME ~overlapped PROVE OneRun' /\ PostsInLimit' /\ PostsRecorded' /\ RoomForRun'
  <2>1. OneRun /\ PostsInLimit /\ PostsRecorded /\ RoomForRun
    BY <1>7 DEF IInv, WithinLimit
  <2>2. OneRun'
    BY <1>5, <2>1 DEF OneRun
  <2>3. posts[day] + session[p].quota <= Limit + unrecorded[day]
    BY <2>1 DEF RoomForRun
  <2>4. PostsInLimit'
    <3>1. posts'[day] <= Limit + unrecorded'[day]
      BY <1>2, <1>3, <1>4, <2>3
    <3> QED BY <1>3, <1>4, <2>1, <3>1 DEF PostsInLimit
  <2>5. RoomForRun'
    <3> SUFFICES ASSUME NEW q \in Sessions, IsRun(session'[q])
                 PROVE  posts'[day] + session'[q].quota <= Limit + unrecorded'[day]
      BY DEF RoomForRun
    <3>1. q = p
      BY <1>5, <2>1 DEF OneRun
    <3>2. session'[q].quota = session[p].quota - 1
      BY <1>1, <3>1
    <3> QED BY <1>2, <1>3, <1>4, <2>3, <3>2
  <2>6. PostsRecorded'
    <3> SUFFICES ASSUME NEW d \in 1..Days
                 PROVE  posts'[d] <= Cardinality(Letters(d)') + unrecorded'[d]
      BY DEF PostsRecorded
    <3>1. /\ posts[d] <= Cardinality(Letters(d)) + unrecorded[d]
          /\ Cardinality(Letters(d)) \in Nat /\ IsFiniteSet(Letters(d))
      BY <2>1, CountTypes DEF PostsRecorded
    <3>2. CASE unrecorded' = [unrecorded EXCEPT ![day] = @ + 1] /\ invites' = invites
      <4>1. Letters(d)' = Letters(d)
        BY <3>2 DEF Letters
      <4>2. d = day => unrecorded'[d] = unrecorded[d] + 1
        BY <3>2 DEF IInv, TypeOK
      <4> DEFINE n == Cardinality(Letters(d))
      <4>3. Cardinality(Letters(d)') = n
        BY <4>1
      <4> HIDE DEF n
      <4>4. posts[d] <= n + unrecorded[d] /\ n \in Nat
        BY <3>1 DEF n
      <4>5. CASE d = day
        BY <1>2, <1>3, <4>2, <4>3, <4>4, <4>5
      <4>6. CASE d # day
        BY <1>3, <1>4, <4>3, <4>4, <4>6
      <4> QED BY <4>5, <4>6
    <3>3. CASE /\ unrecorded' = unrecorded
               /\ \A e \in 1..Days : Letters(e) \subseteq Letters(e)'
               /\ \E i \in Letters(day)' : i \notin Letters(day)
               /\ Blank'
      <4>1. IsFiniteSet(Letters(d)')
        <5>1. Letters(d)' \subseteq Made'
          <6>1. d # 0
            BY InviteLimits
          <6> QED BY <3>3, <6>1, NoInviteTypes DEF Letters, Made, Blank
        <5> QED BY <3>3, <5>1, FS_Subset DEF Blank
      <4>2. Cardinality(Letters(d)) <= Cardinality(Letters(d)') /\ Cardinality(Letters(d)') \in Nat
        BY <3>3, <4>1, FS_Subset, FS_CardinalityType
      <4>3. d = day => Cardinality(Letters(d)) + 1 <= Cardinality(Letters(d)')
        <5> SUFFICES ASSUME d = day PROVE Cardinality(Letters(d)) + 1 <= Cardinality(Letters(d)')
          OBVIOUS
        <5>1. PICK i \in Letters(d)' : i \notin Letters(d)
          BY <3>3
        <5>2. Letters(d) \cup {i} \subseteq Letters(d)'
          BY <3>3, <5>1
        <5>3. Cardinality(Letters(d) \cup {i}) <= Cardinality(Letters(d)')
          BY <4>1, <5>2, FS_Subset
        <5>4. Cardinality(Letters(d) \cup {i}) = Cardinality(Letters(d)) + 1
          BY <3>1, <5>1, FS_AddElement
        <5> QED BY <5>3, <5>4
      <4> DEFINE n == Cardinality(Letters(d))
                 m == Cardinality(Letters(d)')
      <4>4. posts[d] <= n + unrecorded[d] /\ n \in Nat /\ m \in Nat /\ n <= m
            /\ (d = day => n + 1 <= m)
        BY <3>1, <4>2, <4>3
      <4> HIDE DEF n, m
      <4>5. posts'[d] <= m + unrecorded[d]
        <5>1. CASE d = day
          BY <1>2, <1>3, <4>4, <5>1
        <5>2. CASE d # day
          BY <1>2, <1>3, <4>4, <5>2
        <5> QED BY <5>1, <5>2
      <4> QED BY <3>3, <4>5 DEF m
    <3> QED BY <3>2, <3>3
  <2> QED BY <2>2, <2>4, <2>5, <2>6
<1> QED BY <1>6, <1>7 DEF WithinLimit

\* What is known of a session that is about to mail.
LEMMA LetterTypes ==
    ASSUME IInv, NEW p \in Sessions, session[p].pc = "send"
    PROVE  /\ session[p] \in Session /\ session[p].email \in Emails
           /\ session[p].quota \in Nat /\ (IsRun(session[p]) => session[p].quota > 0)
           /\ session[p].holds \in SUBSET InviteIds /\ session[p].entry \in BOOLEAN
           /\ ~Makes(session[p])
BY SessionTypes DEF IInv, Places, Placed, Makes, IsRun

LEMMA MailKeeps == ASSUME IInv, NEW p \in Sessions, Mail(p) PROVE IInv'
<1> DEFINE e == Ended(p, 1)
<1>1. /\ e \in Session /\ Placed(e) /\ Plain(e) /\ ~Redeems(e) /\ ~Makes(e) /\ e.pc # "purge"
      /\ (IsRun(e) => IsRun(session[p]) /\ e.quota = session[p].quota - 1)
  BY EndedTypes DEF Mail
<1>2. Set(p, e) /\ session[p].pc = "send"
  BY DEF Mail
<1> HIDE DEF e
<1>3. /\ session[p].email \in Emails /\ session[p].quota \in Nat
      /\ (IsRun(session[p]) => session[p].quota > 0)
      /\ session[p].holds \in SUBSET InviteIds /\ ~Makes(session[p])
  BY <1>2, LetterTypes
<1>4. UNCHANGED <<day, auth, local, issued, left, unrecorded, overlapped, orphaned, doomed>>
  BY DEF Mail
<1>5. left' \in Lefts /\ orphaned \subseteq Subs
  BY <1>4, LeftKeeps DEF IInv, TypeOK
<1>6. CASE UNCHANGED <<tables, posts>>
  <2>1. IsRun(e) => IsRun(session[p]) /\ e.quota <= session[p].quota
    BY <1>1, <1>3
  <2> QED BY <1>1, <1>2, <1>3, <1>4, <1>5, <1>6, <2>1, QuietKeeps DEF tables, IInv, TypeOK
<1>7. CASE /\ \E i \in InviteIds :
                 /\ NextId(i)
                 /\ invites' = Reissued(session[p].holds, i,
                                   New(session[p].email,
                                       IF session[p].entry THEN session[p].email ELSE None, day))
           /\ entries' = IF session[p].entry
                         THEN [entries EXCEPT ![session[p].email] =
                                   [status |-> "invited", sent |-> TRUE]]
                         ELSE entries
           /\ posts' = Counted(p, posts)
  <2> DEFINE revoked == session[p].holds
             link == IF session[p].entry THEN session[p].email ELSE None
             new == New(session[p].email, link, day)
  <2>1. new \in Invite /\ new.made /\ new.entry = link /\ new.day = day
    <3>1. session[p].email \in Emails \cup {None}
      BY <1>3
    <3>2. link \in Emails \cup {None}
      BY <3>1
    <3>3. day \in 1..Days
      BY DEF IInv, TypeOK
    <3>4. day \in Nat
      BY <3>3, InviteLimits
    <3> HIDE DEF link
    <3>5. PICK email : email = session[p].email
      OBVIOUS
    <3>6. email \in Emails \cup {None}
      BY <3>1, <3>5
    <3>7. LET made == New(email, link, day)
          IN  made \in Invite /\ made.made /\ made.entry = link /\ made.day = day
      BY <3>2, <3>4, <3>6, NewOnes
    <3> QED BY <3>5, <3>7
  <2>2. PICK i \in InviteIds : NextId(i) /\ invites' = Reissued(revoked, i, new)
    BY <1>7
  <2>3. new.entry # None => session[p].entry /\ session[p].email = new.entry
    BY <2>1
  <2> HIDE DEF new
  <2>4. \A j \in revoked : Spares(j)
    BY HeldLinks
  <2>5. \A j \in revoked : invites[j].made
    BY HeldLinks
  <2>6. new.entry # None => LiveLinks(new.entry) \subseteq revoked
    BY <1>2, <2>3, HeldLinks
  <2>7. /\ Relinked(revoked, i, new) /\ Blank'
        /\ \A d \in 1..Days : Letters(d) \subseteq Letters(d)'
    BY <1>3, <2>1, <2>2, <2>5, ReissuedTypes
  <2>8. i \in Letters(day)' /\ i \notin Letters(day)
    <3>1. invites'[i].day = day /\ invites[i].day = 0
      BY <2>1, <2>7, InviteTypes, NoInviteTypes DEF Relinked
    <3>2. day # 0 /\ day' = day
      BY <1>4, InviteLimits DEF IInv, TypeOK
    <3> QED BY <3>1, <3>2 DEF Letters
  <2>9. entries' \in [Emails -> Entry]
    BY <1>3, <1>7, EntryTypes DEF IInv, TypeOK
  <2>10. posts' \in [1..Days -> Nat] /\ unrecorded' \in [1..Days -> Nat]
    <3>1. \A d \in 1..Days : posts[d] + 1 \in Nat
      BY CountTypes
    <3> QED BY <1>4, <1>7, <3>1 DEF Counted, IInv, TypeOK
  <2>11. TypeOK'
    BY <1>1, <1>2, <1>4, <1>5, <2>7, <2>9, <2>10, TypesKeep DEF IInv, TypeOK, Relinked
  <2>12. WithinLimit'
    <3>1. CASE IsRun(session[p])
      <4>1. posts' = [posts EXCEPT ![day] = @ + 1]
        BY <1>7, <3>1 DEF Counted, IsRun
      <4> QED BY <1>1, <1>2, <1>3, <1>4, <2>7, <2>8, <3>1, <4>1, PostedLimit
    <3>2. CASE ~IsRun(session[p])
      <4>1. posts' = posts /\ ~IsRun(e)
        BY <1>1, <1>7, <3>2 DEF Counted, IsRun
      <4> QED BY <1>1, <1>2, <1>4, <2>7, <2>11, <4>1, MintLimit
    <3> QED BY <3>1, <3>2
  <2> QED BY <1>1, <1>2, <1>3, <1>4, <1>5, <2>1, <2>3, <2>4, <2>6, <2>7, <2>9, <2>10, <2>12,
             LinkKeeps
<1> QED BY <1>6, <1>7 DEF Mail

LEMMA MailUnrecordedKeeps == ASSUME IInv, NEW p \in Sessions, MailUnrecorded(p) PROVE IInv'
<1>1. PICK s \in {Ended(p, 1), Idle} : Set(p, s)
  BY DEF MailUnrecorded
<1>2. /\ s \in Session /\ Placed(s) /\ Plain(s) /\ ~Redeems(s) /\ ~Makes(s) /\ s.pc # "purge"
      /\ (IsRun(s) => IsRun(session[p]) /\ s.quota = session[p].quota - 1)
  <2>1. CASE s = Ended(p, 1)
    BY <2>1, EndedTypes DEF MailUnrecorded
  <2>2. CASE s = Idle
    BY <2>2, IdleTypes DEF Plain
  <2> QED BY <2>1, <2>2
<1>3. session[p].pc = "send"
  BY DEF MailUnrecorded
<1>4. /\ session[p].quota \in Nat /\ (IsRun(session[p]) => session[p].quota > 0)
      /\ ~Makes(session[p])
  BY <1>3, LetterTypes
<1>5. left' \in Lefts /\ orphaned \subseteq Subs
  BY SpendKeeps DEF MailUnrecorded, Spendings, IInv, TypeOK
<1>6. UNCHANGED <<day, auth, local, issued, entries, invites, overlapped, orphaned, doomed>>
  BY DEF MailUnrecorded, tables
<1>7. CASE IsRun(session[p])
  <2>1. /\ posts' = [posts EXCEPT ![day] = @ + 1]
        /\ unrecorded' = [unrecorded EXCEPT ![day] = @ + 1]
    BY <1>7 DEF MailUnrecorded, Counted, IsRun
  <2>2. WithinLimit'
    <3>1. IsRun(s) => s.quota = session[p].quota - 1
      BY <1>2
    <3> QED BY <1>1, <1>2, <1>4, <1>6, <1>7, <2>1, <3>1, PostedLimit
  <2>3. posts' \in [1..Days -> Nat] /\ unrecorded' \in [1..Days -> Nat]
    <3>1. \A d \in 1..Days : posts[d] + 1 \in Nat /\ unrecorded[d] + 1 \in Nat
      BY CountTypes
    <3> QED BY <2>1, <3>1 DEF IInv, TypeOK
  <2>4. TypeOK' /\ Places'
    BY <1>1, <1>2, <1>5, <1>6, <2>3, TypesKeep DEF IInv, TypeOK
  <2>5. session'[p] = s /\ \A q \in Sessions \ {p} : session'[q] = session[q]
    BY <1>1, <1>2, SetChanges DEF IInv
  <2>6. Blank' /\ RowsApart' /\ EntryHeld' /\ OneLink'
    BY <1>1, <1>2, <1>6, SameInvites, RowsKeep
  <2>7. SubsApart'
    BY <1>2, <1>4, <1>6, <2>5, AccountsStay
  <2> QED BY <2>2, <2>4, <2>6, <2>7 DEF IInv
<1>8. CASE ~IsRun(session[p])
  <2>1. posts' = posts /\ unrecorded' = unrecorded /\ ~IsRun(s)
    BY <1>2, <1>8 DEF MailUnrecorded, Counted, IsRun
  <2>2. entries' \in [Emails -> Entry]
    BY <1>6 DEF IInv, TypeOK
  <2> QED BY <1>1, <1>2, <1>4, <1>5, <1>6, <2>1, <2>2, QuietKeeps
<1> QED BY <1>7, <1>8

LEMMA CreateInviteKeeps == ASSUME IInv, NEW e \in Emails \cup {None}, CreateInvite(e) PROVE IInv'
<1> DEFINE new == New(e, None, 0)
<1>1. new \in Invite /\ new.made /\ new.entry = None
  <2>1. None \in Emails \cup {None} /\ 0 \in Nat
    OBVIOUS
  <2> QED BY <2>1, NewOnes
<1>2. PICK i \in InviteIds : NextId(i) /\ invites' = [invites EXCEPT ![i] = new]
  BY DEF CreateInvite
<1> HIDE DEF new
<1>3. invites' = Reissued({}, i, new)
  <2>1. invites' = [j \in InviteIds |-> IF j = i THEN new ELSE invites[j]]
    BY <1>2 DEF IInv, TypeOK
  <2>2. \A j \in InviteIds : Reissued({}, i, new)[j] = IF j = i THEN new ELSE invites[j]
    BY DEF Reissued
  <2> QED BY <2>1, <2>2 DEF Reissued
<1>4. /\ Relinked({}, i, new) /\ Blank'
      /\ \A d \in 1..Days : Letters(d) \subseteq Letters(d)'
  BY <1>1, <1>2, <1>3, ReissuedTypes
<1>5. UNCHANGED <<session, day, auth, local, issued, entries, history>>
  BY DEF CreateInvite
<1>6. left' \in Lefts
  BY SpendKeeps DEF CreateInvite, Spendings
<1>7. TypeOK' /\ Places'
  BY <1>4, <1>5, <1>6 DEF IInv, TypeOK, Places, Lefts, Relinked, history
<1>8. RowsApart' /\ EntryHeld' /\ OneLink'
  BY <1>1, <1>4, <1>5, NewLink
<1>9. SubsApart'
  BY <1>5, AccountsStay DEF history
<1>10. WithinLimit'
  <2>1. \A q \in Sessions : session[q].quota \in Nat
    BY SessionTypes DEF IInv
  <2> QED BY <1>4, <1>5, <1>7, <2>1, LimitStays DEF history
<1> QED BY <1>4, <1>7, <1>8, <1>9, <1>10 DEF IInv

LEMMA TickKeeps == ASSUME IInv, Tick PROVE IInv'
<1>1. UNCHANGED <<auth, local, issued, entries, invites, session, history>> /\ day' = day + 1
  BY DEF Tick, tables
<1>2. left' \in Lefts
  BY SpendKeeps DEF Tick, Spendings
<1>3. /\ Limit \in Nat /\ day \in 1..Days /\ Days \in Nat /\ day' \in 1..Days
      /\ \A d \in 1..Days : posts[d] \in Nat /\ unrecorded[d] \in Nat
      /\ \A q \in Sessions : session[q].quota \in Nat
  BY <1>1, CountTypes, InviteLimits DEF Tick
<1>4. TypeOK' /\ Places'
  BY <1>1, <1>2, <1>3 DEF IInv, TypeOK, Places, Lefts, history
<1>5. Milder
  BY <1>1, SameInvites
<1>6. Blank' /\ RowsApart' /\ EntryHeld' /\ OneLink'
  BY <1>1, <1>5, RowsRest
<1>7. SubsApart'
  BY <1>1, AccountsStay DEF history
<1>8. NothingAhead' /\ QuotaInLimit'
  BY <1>1, <1>3 DEF IInv, WithinLimit, NothingAhead, QuotaInLimit, history
<1>9. ASSUME ~overlapped PROVE OneRun' /\ PostsInLimit' /\ PostsRecorded' /\ RoomForRun'
  <2>1. OneRun' /\ PostsInLimit' /\ PostsRecorded'
    BY <1>1, <1>9 DEF IInv, WithinLimit, OneRun, PostsInLimit, PostsRecorded, Letters, history
  <2>2. RoomForRun'
    <3>1. posts[day'] = 0
      BY <1>1, <1>3 DEF IInv, WithinLimit, NothingAhead
    <3>2. \A q \in Sessions : IsRun(session[q]) => session[q].quota <= Limit
      BY DEF IInv, WithinLimit, QuotaInLimit
    <3> QED BY <1>1, <1>3, <3>1, <3>2 DEF RoomForRun, history
  <2> QED BY <2>1, <2>2
<1>10. WithinLimit'
  BY <1>1, <1>8, <1>9 DEF WithinLimit, history
<1> QED BY <1>4, <1>6, <1>7, <1>10 DEF IInv

\* What a run may mail keeps the letters of the day within the limit.
LEMMA RemainingTypes ==
    ASSUME IInv
    PROVE  /\ Remaining \in Nat /\ Remaining <= Limit
           /\ ~overlapped => posts[day] + Remaining <= Limit + unrecorded[day]
<1> DEFINE n == Cardinality(Letters(day))
<1>1. Limit \in Nat /\ day \in 1..Days /\ posts[day] \in Nat /\ unrecorded[day] \in Nat /\ n \in Nat
  BY CountTypes
<1>2. Remaining = IF n < Limit THEN Limit - n ELSE 0
  BY DEF Remaining, Letters
<1>3. ~overlapped => /\ posts[day] <= n + unrecorded[day]
                     /\ posts[day] <= Limit + unrecorded[day]
  BY <1>1 DEF IInv, WithinLimit, PostsInLimit, PostsRecorded
<1> HIDE DEF n
<1>4. CASE n < Limit
  <2>1. Remaining = Limit - n
    BY <1>2, <1>4
  <2> QED BY <1>1, <1>3, <1>4, <2>1
<1>5. CASE ~(n < Limit)
  <2>1. Remaining = 0
    BY <1>2, <1>5
  <2> QED BY <1>1, <1>3, <2>1
<1> QED BY <1>4, <1>5

LEMMA StartRunKeeps == ASSUME IInv, NEW p \in Sessions, StartRun(p) PROVE IInv'
<1> DEFINE todo == {e \in Emails : Eligible(e)}
           s == [Begin(p, "auto", None) EXCEPT !.quota = Remaining, !.todo = todo]
<1>1. /\ s \in Session /\ s.pc = "auto" /\ s.task = "auto" /\ ~s.entry /\ s.holds = {}
      /\ s.quota = Remaining
  <2>1. Remaining \in Nat /\ todo \subseteq Emails
    BY RemainingTypes
  <2> HIDE DEF todo
  <2> QED BY <2>1 DEF Begin, Idle, Session
<1>2. Set(p, s) /\ session[p].pc = "idle"
  BY DEF StartRun
<1> HIDE DEF todo, s
<1>3. Placed(s) /\ Plain(s) /\ ~Redeems(s) /\ ~Makes(s) /\ IsRun(s) /\ ~Makes(session[p])
  BY <1>1, <1>2 DEF Placed, Plain, Redeems, Makes, IsRun
<1>4. UNCHANGED <<day, auth, local, issued, entries, invites, posts, unrecorded, orphaned, doomed>>
  BY DEF StartRun, tables
<1>5. left' \in Lefts
  BY SpendKeeps DEF StartRun, Spendings
<1>6. overlapped' \in BOOLEAN
  BY DEF StartRun, IInv, TypeOK
<1>7. TypeOK' /\ Places'
  BY <1>1, <1>2, <1>3, <1>4, <1>5, <1>6, TypesKeep DEF IInv, TypeOK
<1>8. session'[p] = s /\ \A q \in Sessions \ {p} : session'[q] = session[q]
  BY <1>1, <1>2, SetChanges DEF IInv
<1>9. Blank' /\ RowsApart' /\ EntryHeld' /\ OneLink'
  BY <1>1, <1>2, <1>3, <1>4, SameInvites, RowsKeep
<1>10. SubsApart'
  BY <1>1, <1>3, <1>4, <1>8, AccountsStay
<1>11. NothingAhead' /\ QuotaInLimit'
  <2>1. NothingAhead'
    BY <1>4 DEF IInv, WithinLimit, NothingAhead
  <2>2. \A q \in Sessions : IsRun(session[q]) => session[q].quota <= Limit
    BY DEF IInv, WithinLimit, QuotaInLimit
  <2> QED BY <1>1, <1>8, <2>1, <2>2, RemainingTypes DEF QuotaInLimit
<1>12. ASSUME ~overlapped' PROVE OneRun' /\ PostsInLimit' /\ PostsRecorded' /\ RoomForRun'
  <2>1. ~overlapped /\ \A q \in Sessions : ~IsRun(session[q])
    BY <1>12 DEF StartRun, IsRun
  <2>2. \A q \in Sessions : IsRun(session'[q]) => q = p
    BY <1>8, <2>1
  <2>3. PostsInLimit' /\ PostsRecorded'
    BY <1>4, <2>1 DEF IInv, WithinLimit, PostsInLimit, PostsRecorded, Letters
  <2>4. RoomForRun'
    <3>1. posts[day] + Remaining <= Limit + unrecorded[day]
      BY <2>1, RemainingTypes
    <3> QED BY <1>1, <1>4, <1>8, <2>2, <3>1 DEF RoomForRun
  <2> QED BY <2>2, <2>3, <2>4 DEF OneRun
<1>13. WithinLimit'
  BY <1>6, <1>11, <1>12 DEF WithinLimit
<1> QED BY <1>7, <1>9, <1>10, <1>13 DEF IInv

-----------------------------------------------------------------------------
(* Accounts: an Auth user or a users row comes or goes.                    *)

\* Given the accounts, the rest of the invariant.
LEMMA PartsKeep ==
    ASSUME IInv, Milder, NEW p \in Sessions, NEW s \in Session, Set(p, s), Placed(s), Plain(s),
           ~IsRun(s), Redeems(s) => Redeems(session[p]) /\ s.invite = session[p].invite,
           \A i \in InviteIds : invites'[i] # invites[i] =>
                \A q \in Sessions : Redeems(session'[q]) => session'[q].invite # i,
           left' \in Lefts, entries' \in [Emails -> Entry],
           auth' \in [Emails -> Subs \cup {None}], local' \in [Emails -> Subs \cup {None}],
           issued' \subseteq Subs, orphaned' \subseteq Subs, doomed' \subseteq Subs,
           UNCHANGED <<day, posts, unrecorded, overlapped>>,
           SubsApart'
    PROVE  IInv'
<1>1. TypeOK' /\ Places'
  BY TypesKeep DEF IInv, TypeOK, Milder
<1>2. session'[p] = s /\ \A q \in Sessions \ {p} : session'[q] = session[q]
  BY SetChanges DEF IInv
<1>3. Blank' /\ RowsApart' /\ EntryHeld' /\ OneLink'
  BY RowsKeep
<1>4. WithinLimit'
  <2>1. \A q \in Sessions : session[q].quota \in Nat
    BY SessionTypes DEF IInv
  <2>2. \A q \in Sessions : IsRun(session'[q]) =>
            IsRun(session[q]) /\ session'[q].quota <= session[q].quota
    BY <1>2, <2>1
  <2>3. \A d \in 1..Days : Letters(d) \subseteq Letters(d)'
    BY DEF Letters, Milder
  <2> QED BY <1>1, <1>3, <2>2, <2>3, LimitStays
<1> QED BY <1>1, <1>3, <1>4 DEF IInv

\* The same, when no session changes.
LEMMA PartsRest ==
    ASSUME IInv, Milder, session' = session,
           \A i \in InviteIds : invites'[i] # invites[i] => Spares(i),
           left' \in Lefts, entries' \in [Emails -> Entry],
           auth' \in [Emails -> Subs \cup {None}], local' \in [Emails -> Subs \cup {None}],
           issued' \subseteq Subs, orphaned' \subseteq Subs, doomed' \subseteq Subs,
           UNCHANGED <<day, posts, unrecorded, overlapped>>,
           SubsApart'
    PROVE  IInv'
<1>1. TypeOK' /\ Places'
  BY DEF IInv, TypeOK, Places, Milder, Lefts
<1>2. Blank' /\ RowsApart' /\ EntryHeld' /\ OneLink'
  BY RowsRest
<1>3. WithinLimit'
  <2>1. \A q \in Sessions : session[q].quota \in Nat
    BY SessionTypes DEF IInv
  <2>2. \A d \in 1..Days : Letters(d) \subseteq Letters(d)'
    BY DEF Milder, Letters
  <2> QED BY <1>1, <1>2, <2>1, <2>2, LimitStays
<1> QED BY <1>1, <1>2, <1>3 DEF IInv

\* What is known of the Auth user that a session has made or deletes.
LEMMA SubTypes ==
    ASSUME IInv
    PROVE  /\ auth \in [Emails -> Subs \cup {None}] /\ local \in [Emails -> Subs \cup {None}]
           /\ issued \subseteq Subs /\ orphaned \subseteq Subs /\ doomed \subseteq Subs
           /\ None \notin issued
           /\ \A q \in Sessions : Makes(session[q]) => /\ session[q].sub \in issued
                                                       /\ session[q].email \in Emails
           /\ \A q \in Sessions : session[q].pc = "purge" => session[q].sub \in issued
BY NoneIsNothing DEF IInv, TypeOK, SubsApart, SignupsDiffer, PurgesTheGone, Places, Placed, Makes

\* The provider makes an Auth user, for the signup or as an orphan.
LEMMA AuthComes ==
    ASSUME IInv, NEW p \in Sessions, NEW s \in Session, Set(p, s), NEW e \in Emails,
           NEW new \in Subs, new \notin issued, auth[e] = None,
           auth' = [auth EXCEPT ![e] = new], issued' = issued \cup {new},
           UNCHANGED <<local, doomed>>, orphaned \subseteq orphaned',
           ~Makes(session[p]), s.pc \notin {"purge", "undo"},
           s.pc = "insert" => s.sub = new /\ s.email = e,
           s.pc # "insert" => new \in orphaned'
    PROVE  SubsApart'
<1> USE DEF IInv, SubsApart
<1>1. session'[p] = s /\ \A q \in Sessions \ {p} : session'[q] = session[q]
  BY SetChanges
<1>2. auth'[e] = new /\ \A f \in Emails \ {e} : auth'[f] = auth[f]
  BY SubTypes
<1>3. new # None /\ None \notin issued
  BY NoneIsNothing, SubTypes
<1>4. \A f \in Emails : auth[f] # new /\ local[f] # new
  BY <1>3 DEF Issued
<1>5. \A q \in Sessions : Makes(session'[q]) =>
            \/ q # p /\ Makes(session[q])
            \/ q = p /\ session'[q].pc = "insert" /\ session'[q].sub = new /\ session'[q].email = e
  BY <1>1 DEF Makes
<1>6. Issued' /\ RowsDiffer' /\ UserHasAuth'
  BY <1>2 DEF Issued, RowsDiffer, UserHasAuth, Taken
<1>7. SignupsDiffer'
  <2> SUFFICES ASSUME NEW q \in Sessions, Makes(session'[q])
               PROVE  /\ session'[q].sub \in issued'
                      /\ \A f \in Emails : auth'[f] = session'[q].sub => f = session'[q].email
                      /\ \A r \in Sessions \ {q} :
                            Makes(session'[r]) => session'[r].sub # session'[q].sub
    BY DEF SignupsDiffer
  <2>1. CASE q = p
    BY <1>1, <1>2, <1>4, <1>5, <2>1 DEF SignupsDiffer
  <2>2. CASE q # p
    BY <1>1, <1>2, <1>5, <2>2 DEF SignupsDiffer
  <2> QED BY <2>1, <2>2
<1>8. InsertsAnew'
  <2>1. \A q \in Sessions \ {p} : session[q].pc = "insert" =>
            auth'[session[q].email] = session[q].sub \/ session[q].sub \in doomed
    <3>1. \A q \in Sessions : session[q].pc = "insert" =>
                session[q].email \in Emails /\ session[q].sub # None
      BY <1>3, SubTypes DEF Makes
    <3> QED BY <1>2, <3>1 DEF InsertsAnew
  <2> QED BY <1>1, <1>2, <1>4, <1>5, <2>1 DEF InsertsAnew, Makes
<1>9. UndoesItsOwn' /\ PurgesTheGone'
  BY <1>1, <1>2 DEF UndoesItsOwn, PurgesTheGone
<1>10. OrphansAreFaults'
  <2> SUFFICES ASSUME NEW f \in Emails, auth'[f] \notin {None, local[f]} \cup orphaned'
               PROVE  \E q \in Sessions :
                        session'[q].pc \in {"insert", "undo"} /\ session'[q].sub = auth'[f]
    BY DEF OrphansAreFaults
  <2>1. CASE f = e
    BY <1>1, <1>2, <2>1
  <2>2. CASE f # e
    BY <1>1, <1>2, <2>2 DEF OrphansAreFaults, Makes
  <2> QED BY <2>1, <2>2
<1> QED BY <1>6, <1>7, <1>8, <1>9, <1>10

\* The inserts of a signup are committed, or rolled back.
LEMMA RowComes ==
    ASSUME IInv, NEW p \in Sessions, NEW s \in Session, Set(p, s), session[p].pc = "insert",
           s.pc \in {"idle", "undo"},
           s.pc = "undo" => s.sub = session[p].sub /\ s.email = session[p].email,
           UNCHANGED <<auth, issued>>, orphaned' = orphaned, doomed \subseteq doomed',
           \/ local' = local /\ s.pc = "undo"
           \/ /\ local[session[p].email] = None
              /\ local' = [local EXCEPT ![session[p].email] = session[p].sub]
              /\ s.pc = "undo" => s.sub \in doomed'
    PROVE  SubsApart'
<1> USE DEF IInv, SubsApart
<1> DEFINE e == session[p].email
           sub == session[p].sub
<1>1. session'[p] = s /\ \A q \in Sessions \ {p} : session'[q] = session[q]
  BY SetChanges
<1>2. e \in Emails /\ sub \in issued /\ sub # None /\ Makes(session[p])
  BY SubTypes DEF Makes
<1>3. /\ \A f \in Emails \ {e} : local'[f] = local[f]
      /\ local'[e] = local[e] \/ (local[e] = None /\ local'[e] = sub)
      /\ s.pc = "undo" \/ local'[e] = sub
  <2>1. CASE local' = local /\ s.pc = "undo"
    BY <2>1
  <2>2. CASE local[e] = None /\ local' = [local EXCEPT ![e] = sub]
    BY <1>2, <2>2, SubTypes
  <2> QED BY <2>1, <2>2
<1>4. /\ \A f \in Emails : local[f] # sub
      /\ auth[e] = sub \/ sub \in doomed
      /\ \A f \in Emails : auth[f] = sub => f = e
      /\ \A q \in Sessions \ {p} : Makes(session[q]) => session[q].sub # sub
  BY <1>2 DEF InsertsAnew, SignupsDiffer
<1>5. \A q \in Sessions : Makes(session'[q]) =>
            /\ Makes(session[q]) /\ session'[q].sub = session[q].sub
            /\ session'[q].email = session[q].email
            /\ q # p => session'[q] = session[q]
  BY <1>1, <1>2 DEF Makes
<1> HIDE DEF e, sub
<1>6. Issued'
  BY <1>2, <1>3 DEF Issued
<1>7. RowsDiffer'
  BY <1>2, <1>3, <1>4 DEF RowsDiffer
<1>8. SignupsDiffer'
  BY <1>5 DEF SignupsDiffer
<1>9. InsertsAnew'
  <2> SUFFICES ASSUME NEW q \in Sessions, session'[q].pc = "insert"
               PROVE  /\ \A f \in Emails : local'[f] # session'[q].sub
                      /\ \/ auth[session'[q].email] = session'[q].sub
                         \/ session'[q].sub \in doomed'
    BY DEF InsertsAnew
  <2>1. q # p /\ session'[q] = session[q]
    BY <1>1
  <2> QED BY <1>3, <1>4, <2>1 DEF InsertsAnew, Makes
<1>10. UndoesItsOwn'
  <2> SUFFICES ASSUME NEW q \in Sessions, session'[q].pc = "undo"
               PROVE  \/ session'[q].sub \in doomed'
                      \/ \A f \in Emails : local'[f] # session'[q].sub
    BY DEF UndoesItsOwn
  <2>1. CASE q = p
    BY <1>1, <1>4, <2>1 DEF sub
  <2>2. CASE q # p
    BY <1>1, <1>3, <1>4, <2>2 DEF UndoesItsOwn, Makes
  <2> QED BY <2>1, <2>2
<1>11. PurgesTheGone'
  BY <1>1 DEF PurgesTheGone
<1>12. UserHasAuth'
  BY <1>3, <1>4 DEF UserHasAuth, Taken
<1>13. OrphansAreFaults'
  <2> SUFFICES ASSUME NEW f \in Emails, auth[f] \notin {None, local'[f]} \cup orphaned
               PROVE  \E q \in Sessions :
                        session'[q].pc \in {"insert", "undo"} /\ session'[q].sub = auth[f]
    BY DEF OrphansAreFaults
  <2>1. auth[f] \notin {None, local[f]} \cup orphaned
    BY <1>3
  <2>2. PICK q \in Sessions : session[q].pc \in {"insert", "undo"} /\ session[q].sub = auth[f]
    BY <2>1 DEF OrphansAreFaults
  <2>3. CASE q = p
    BY <1>1, <1>3, <1>4, <2>2, <2>3 DEF sub
  <2>4. CASE q # p
    BY <1>1, <2>2, <2>4
  <2> QED BY <2>3, <2>4
<1> QED BY <1>6, <1>7, <1>8, <1>9, <1>10, <1>11, <1>12, <1>13

\* An Auth user goes, and a users row with it or after it.
LEMMA AuthGoes ==
    ASSUME IInv, NEW sub \in Subs, auth' = AuthWithout(sub), issued' = issued,
           local' \in [Emails -> Subs \cup {None}],
           \A e \in Emails :
                local'[e] = local[e] \/ (local'[e] = None /\ auth'[e] # local[e]),
           \/ sub \in doomed'
           \/ /\ \A e \in Emails : local'[e] # sub
              /\ \A q \in Sessions : session'[q].pc = "insert" => session'[q].sub # sub,
           orphaned \subseteq orphaned', doomed \subseteq doomed',
           \A q \in Sessions :
                /\ Makes(session'[q]) => session'[q] = session[q]
                /\ session'[q].pc = "purge" =>
                        session'[q] = session[q] \/ (session'[q].sub = sub /\ sub \in issued)
                /\ Makes(session[q]) =>
                        session'[q] = session[q] \/ session[q].sub \in orphaned' \cup {sub}
    PROVE  SubsApart'
<1> USE DEF IInv, SubsApart
<1>1. \A e \in Emails : auth'[e] = IF auth[e] = sub THEN None ELSE auth[e]
  BY DEF AuthWithout
<1>2. sub # None /\ None \notin issued
  BY NoneIsNothing, SubTypes
<1>3. Issued'
  BY <1>1 DEF Issued
<1>4. RowsDiffer'
  BY DEF RowsDiffer
<1>5. SignupsDiffer'
  <2>1. \A q \in Sessions : Makes(session'[q]) => session'[q].sub # None
    BY <1>2, SubTypes
  <2> QED BY <1>1, <2>1 DEF SignupsDiffer
<1>6. InsertsAnew'
  <2> SUFFICES ASSUME NEW q \in Sessions, session'[q].pc = "insert"
               PROVE  /\ \A f \in Emails : local'[f] # session'[q].sub
                      /\ \/ auth'[session'[q].email] = session'[q].sub
                         \/ session'[q].sub \in doomed'
    BY DEF InsertsAnew
  <2>1. session'[q] = session[q] /\ session[q].email \in Emails /\ session[q].sub # None
    BY <1>2, SubTypes DEF Makes
  <2> QED BY <1>1, <2>1 DEF InsertsAnew
<1>7. UndoesItsOwn'
  <2> SUFFICES ASSUME NEW q \in Sessions, session'[q].pc = "undo"
               PROVE  \/ session'[q].sub \in doomed'
                      \/ \A f \in Emails : local'[f] # session'[q].sub
    BY DEF UndoesItsOwn
  <2>1. session'[q] = session[q] /\ session[q].sub # None
    BY <1>2, SubTypes DEF Makes
  <2> QED BY <2>1 DEF UndoesItsOwn
<1>8. PurgesTheGone'
  <2> SUFFICES ASSUME NEW q \in Sessions, session'[q].pc = "purge"
               PROVE  /\ session'[q].sub \in issued
                      /\ \A e \in Emails : auth'[e] # session'[q].sub
    BY DEF PurgesTheGone
  <2>1. session'[q].sub \in issued
    BY SubTypes
  <2> QED BY <1>1, <1>2, <2>1 DEF PurgesTheGone
<1>9. UserHasAuth'
  <2> SUFFICES ASSUME NEW e \in Emails, local'[e] # None
               PROVE  auth'[e] = local'[e] \/ local'[e] \in doomed'
    BY DEF UserHasAuth, Taken
  <2>1. local'[e] = local[e]
    OBVIOUS
  <2>2. auth[e] = local[e] \/ local[e] \in doomed
    BY <2>1 DEF UserHasAuth, Taken
  <2> QED BY <1>1, <2>1, <2>2
<1>10. OrphansAreFaults'
  <2> SUFFICES ASSUME NEW f \in Emails, auth'[f] \notin {None, local'[f]} \cup orphaned'
               PROVE  \E q \in Sessions :
                        session'[q].pc \in {"insert", "undo"} /\ session'[q].sub = auth'[f]
    BY DEF OrphansAreFaults
  <2>1. auth'[f] = auth[f] /\ auth[f] # sub
    BY <1>1
  <2>2. auth[f] \notin {None, local[f]} \cup orphaned
    BY <2>1
  <2>3. PICK q \in Sessions : session[q].pc \in {"insert", "undo"} /\ session[q].sub = auth[f]
    BY <2>2 DEF OrphansAreFaults
  <2> QED BY <2>1, <2>3 DEF Makes
<1> QED BY <1>3, <1>4, <1>5, <1>6, <1>7, <1>8, <1>9, <1>10

LEMMA CreateAuthKeeps == ASSUME IInv, NEW p \in Sessions, CreateAuth(p) PROVE IInv'
<1> DEFINE e == session[p].email
           one == [session[p] EXCEPT !.pc = "insert"]
           s(new) == [one EXCEPT !.sub = new]
<1>1. /\ session[p] \in Session /\ session[p].pc = "auth" /\ session[p].task # "auto"
      /\ ~session[p].entry /\ session[p].holds = {} /\ e \in Emails
      /\ ~Makes(session[p])
  BY SessionTypes DEF CreateAuth, IInv, Places, Placed, Makes
<1>2. UNCHANGED <<day, local, entries, invites, left, posts, unrecorded, overlapped, orphaned,
                  doomed>>
  BY DEF CreateAuth, tables, history
<1>3. left' \in Lefts /\ entries' \in [Emails -> Entry]
  BY <1>2, LeftKeeps DEF IInv, TypeOK
<1>4. CASE Set(p, Refused(p)) /\ UNCHANGED <<auth, issued>>
  BY <1>1, <1>2, <1>3, <1>4, RestKeeps DEF Refused
<1>5. CASE \E new \in Subs : /\ NextSub(new) /\ auth[e] = None
                             /\ auth' = [auth EXCEPT ![e] = new]
                             /\ issued' = issued \cup {new}
                             /\ Set(p, s(new))
  <2>1. PICK new \in Subs : /\ NextSub(new) /\ auth[e] = None
                            /\ auth' = [auth EXCEPT ![e] = new]
                            /\ issued' = issued \cup {new}
                            /\ Set(p, s(new))
    BY <1>5
  <2>2. /\ one \in Session /\ one.pc = "insert" /\ one.task # "auto" /\ ~one.entry
        /\ one.holds = {} /\ one.email = e /\ one.invite = session[p].invite
    BY <1>1 DEF Session
  <2> DEFINE t == s(new)
  <2>3. /\ t \in Session /\ t.pc = "insert" /\ t.task # "auto" /\ ~t.entry
        /\ t.holds = {} /\ t.email = e /\ t.invite = session[p].invite /\ t.sub = new
    BY <2>2 DEF Session
  <2>4. Set(p, t)
    BY <2>1
  <2> HIDE DEF one, s, t
  <2>5. Placed(t) /\ Plain(t) /\ ~IsRun(t)
        /\ (Redeems(t) => Redeems(session[p]) /\ t.invite = session[p].invite)
    BY <1>1, <2>3 DEF Placed, Plain, IsRun, Redeems
  <2>6. SubsApart'
    BY <1>1, <1>2, <2>1, <2>3, <2>4, AuthComes DEF NextSub
  <2>7. /\ auth' \in [Emails -> Subs \cup {None}] /\ local' \in [Emails -> Subs \cup {None}]
        /\ issued' \subseteq Subs /\ orphaned' \subseteq Subs /\ doomed' \subseteq Subs
    BY <1>1, <1>2, <2>1, SubTypes
  <2> QED BY <1>2, <1>3, <2>3, <2>4, <2>5, <2>6, <2>7, SameInvites, PartsKeep
<1> QED BY <1>4, <1>5 DEF CreateAuth

LEMMA CreateAuthUnansweredKeeps ==
    ASSUME IInv, NEW p \in Sessions, CreateAuthUnanswered(p) PROVE IInv'
<1> DEFINE e == session[p].email
<1>1. session[p].pc = "auth" /\ e \in Emails /\ ~Makes(session[p])
  BY DEF CreateAuthUnanswered, IInv, Places, Placed, Makes
<1>2. UNCHANGED <<day, local, entries, invites, posts, unrecorded, overlapped, doomed>>
  BY DEF CreateAuthUnanswered, tables
<1>3. left' \in Lefts /\ entries' \in [Emails -> Entry]
  BY <1>2, SpendKeeps DEF CreateAuthUnanswered, Spendings, IInv, TypeOK
<1>4. PICK new \in Subs : /\ NextSub(new)
                          /\ auth' = [auth EXCEPT ![e] = new]
                          /\ issued' = issued \cup {new}
                          /\ orphaned' = orphaned \cup {new}
  BY DEF CreateAuthUnanswered
<1>5. Set(p, Idle) /\ auth[e] = None
  BY DEF CreateAuthUnanswered
<1>6. Plain(Idle) /\ Idle.pc = "idle"
  BY IdleTypes DEF Plain
<1>7. SubsApart'
  BY <1>1, <1>2, <1>4, <1>5, <1>6, IdleTypes, AuthComes DEF NextSub
<1>8. /\ auth' \in [Emails -> Subs \cup {None}] /\ local' \in [Emails -> Subs \cup {None}]
      /\ issued' \subseteq Subs /\ orphaned' \subseteq Subs /\ doomed' \subseteq Subs
  BY <1>1, <1>2, <1>4, SubTypes
<1> QED BY <1>2, <1>3, <1>5, <1>6, <1>7, <1>8, IdleTypes, SameInvites, PartsKeep

\* The invites once a signup has used up the one it redeemed.
LEMMA CommittedTypes ==
    ASSUME IInv, NEW p \in Sessions, session[p].pc = "insert", Committed(p)
    PROVE  /\ Milder
           /\ \A i \in InviteIds : invites'[i] # invites[i] =>
                \A q \in Sessions \ {p} : Redeems(session[q]) => session[q].invite # i
           /\ local' \in [Emails -> Subs \cup {None}]
<1>1. session[p].sub \in Subs /\ session[p].email \in Emails
      /\ session[p].invite \in InviteIds \cup {None}
  BY SessionTypes DEF IInv, Places, Placed
<1>2. local' \in [Emails -> Subs \cup {None}]
  BY <1>1, SubTypes DEF Committed
<1>3. CASE session[p].invite = None
  BY <1>2, <1>3, SameInvites DEF Committed
<1>4. CASE session[p].invite # None
  <2> DEFINE i == session[p].invite
             new == [invites[i] EXCEPT !.used = session[p].sub]
  <2>1. i \in InviteIds /\ Redeems(session[p])
    BY <1>1, <1>4 DEF Redeems
  <2>2. invites[i].made /\ invites[i].used = None
    BY <2>1 DEF IInv, RowsApart
  <2>3. /\ new \in Invite /\ new.made = invites[i].made /\ new.day = invites[i].day
        /\ new.revoked = invites[i].revoked /\ new.expired = invites[i].expired
        /\ new.entry = invites[i].entry
    BY <1>1, <2>1, InviteTypes DEF Invite
  <2>4. invites' = [invites EXCEPT ![i] = new]
    BY <1>4, <2>1 DEF Committed, IInv, TypeOK
  <2> HIDE DEF new
  <2>5. invites'[i] = new /\ \A j \in InviteIds \ {i} : invites'[j] = invites[j]
    BY <2>1, <2>4 DEF IInv, TypeOK
  <2>6. invites' \in [InviteIds -> Invite]
    BY <2>3, <2>4 DEF IInv, TypeOK
  <2>7. Milder
    BY <2>2, <2>3, <2>5, <2>6 DEF Milder
  <2>8. \A q \in Sessions \ {p} : Redeems(session[q]) => session[q].invite # i
    BY <2>1 DEF IInv, RowsApart
  <2> QED BY <1>2, <2>5, <2>7, <2>8
<1> QED BY <1>3, <1>4

\* The session after a commit or a rollback.
LEMMA RolledBackTypes ==
    ASSUME IInv, NEW p \in Sessions, session[p].pc = "insert", NEW s \in {Idle, RolledBack(p)}
    PROVE  /\ s \in Session /\ Placed(s) /\ Plain(s) /\ ~Redeems(s) /\ ~IsRun(s)
           /\ s = Idle => s.pc = "idle"
           /\ s = RolledBack(p) => /\ s.pc = "undo" /\ s.sub = session[p].sub
                                   /\ s.email = session[p].email
<1>1. /\ session[p] \in Session /\ session[p].task # "auto"
      /\ ~session[p].entry /\ session[p].holds = {} /\ session[p].email \in Emails
      /\ session[p].sub \in Subs
  BY SessionTypes DEF IInv, Places, Placed
<1>2. CASE s = Idle
  <2>1. Idle.pc = "idle"
    BY IdleTypes
  <2>2. RolledBack(p).pc = "undo"
    BY <1>1 DEF RolledBack, Session
  <2> QED BY <1>2, <2>1, <2>2, IdleTypes DEF Plain
<1>3. CASE s = RolledBack(p)
  <2> DEFINE one == [session[p] EXCEPT !.pc = "undo"]
             t == [one EXCEPT !.invite = None]
  <2>1. /\ one \in Session /\ one.pc = "undo" /\ one.task # "auto" /\ ~one.entry
        /\ one.holds = {} /\ one.email = session[p].email /\ one.sub = session[p].sub
    BY <1>1 DEF Session
  <2>2. /\ t \in Session /\ t.pc = "undo" /\ t.task # "auto" /\ ~t.entry
        /\ t.holds = {} /\ t.email = session[p].email /\ t.sub = session[p].sub
    BY <2>1 DEF Session
  <2>3. s = t
    BY <1>3 DEF RolledBack
  <2> HIDE DEF one, t
  <2>4. s.pc = "undo" /\ Idle.pc = "idle"
    BY <2>2, <2>3, IdleTypes
  <2>5. Placed(s) /\ Plain(s) /\ ~Redeems(s) /\ ~IsRun(s)
    BY <1>1, <2>2, <2>3 DEF Placed, Plain, Redeems, IsRun
  <2> QED BY <2>2, <2>3, <2>4, <2>5
<1> QED BY <1>2, <1>3

\* A commit of a signup, answered or not, or its rollback.
LEMMA EndInsertKeeps ==
    ASSUME IInv, NEW p \in Sessions, session[p].pc = "insert",
           NEW s \in {Idle, RolledBack(p)}, Set(p, s),
           \/ UNCHANGED <<local, invites>> /\ s = RolledBack(p)
           \/ /\ ~Taken(session[p].email) /\ Committed(p)
              /\ s = RolledBack(p) => session[p].sub \in doomed',
           left' \in Lefts, doomed \subseteq doomed', doomed' \subseteq Subs,
           UNCHANGED <<day, auth, issued, entries, posts, unrecorded, overlapped, orphaned>>
    PROVE  IInv'
<1>1. /\ s \in Session /\ Placed(s) /\ Plain(s) /\ ~Redeems(s) /\ ~IsRun(s)
      /\ s.pc \in {"idle", "undo"}
      /\ s.pc = "undo" => s.sub = session[p].sub /\ s.email = session[p].email
      /\ s = RolledBack(p) => s.pc = "undo"
      /\ s = Idle => s.pc = "idle"
  BY RolledBackTypes
<1>2. session'[p] = s /\ \A q \in Sessions \ {p} : session'[q] = session[q]
  BY <1>1, SetChanges DEF IInv
<1>3. /\ Milder /\ local' \in [Emails -> Subs \cup {None}]
      /\ \A i \in InviteIds : invites'[i] # invites[i] =>
            \A q \in Sessions : Redeems(session'[q]) => session'[q].invite # i
  <2>1. CASE UNCHANGED <<local, invites>>
    BY <2>1, SameInvites, SubTypes
  <2>2. CASE Committed(p)
    BY <1>1, <1>2, <2>2, CommittedTypes
  <2> QED BY <2>1, <2>2
<1>4. SubsApart'
  <2>1. CASE UNCHANGED <<local, invites>> /\ s = RolledBack(p)
    BY <1>1, <2>1, RowComes
  <2>2. CASE /\ ~Taken(session[p].email) /\ Committed(p)
             /\ s = RolledBack(p) => session[p].sub \in doomed'
    <3>1. /\ local[session[p].email] = None
          /\ local' = [local EXCEPT ![session[p].email] = session[p].sub]
      BY <2>2 DEF Taken, Committed
    <3>2. s.pc = "undo" => s.sub \in doomed'
      BY <1>1, <2>2
    <3> QED BY <1>1, <3>1, <3>2, RowComes
  <2> QED BY <2>1, <2>2
<1>5. /\ entries' \in [Emails -> Entry] /\ auth' \in [Emails -> Subs \cup {None}]
      /\ issued' \subseteq Subs /\ orphaned' \subseteq Subs
  BY DEF IInv, TypeOK
<1> QED BY <1>1, <1>3, <1>4, <1>5, PartsKeep

LEMMA CommitSignupKeeps == ASSUME IInv, NEW p \in Sessions, CommitSignup(p) PROVE IInv'
<1>1. /\ session[p].pc = "insert"
      /\ UNCHANGED <<day, auth, issued, entries, posts, unrecorded, overlapped, orphaned, doomed>>
  BY DEF CommitSignup, history
<1>2. left' \in Lefts /\ doomed' \subseteq Subs
  BY LeftKeeps DEF CommitSignup, history, IInv, TypeOK
<1>3. CASE ~Taken(session[p].email) /\ Committed(p) /\ Set(p, Idle)
  <2>1. Idle # RolledBack(p)
    BY <1>1, RolledBackTypes
  <2> QED BY <1>1, <1>2, <1>3, <2>1, EndInsertKeeps
<1>4. CASE UNCHANGED <<local, invites>> /\ Set(p, RolledBack(p))
  BY <1>1, <1>2, <1>4, EndInsertKeeps
<1> QED BY <1>3, <1>4 DEF CommitSignup

LEMMA CommitUnansweredKeeps == ASSUME IInv, NEW p \in Sessions, CommitUnanswered(p) PROVE IInv'
<1>1. /\ session[p].pc = "insert" /\ ~Taken(session[p].email) /\ Committed(p)
      /\ Set(p, RolledBack(p)) /\ doomed' = doomed \cup {session[p].sub}
      /\ UNCHANGED <<day, auth, issued, entries, posts, unrecorded, overlapped, orphaned>>
  BY DEF CommitUnanswered
<1>2. left' \in Lefts
  BY SpendKeeps DEF CommitUnanswered, Spendings
<1>3. session[p].sub \in Subs
  BY <1>1 DEF IInv, Places, Placed
<1>4. doomed' \subseteq Subs
  BY <1>1, <1>3, SubTypes
<1> QED BY <1>1, <1>2, <1>4, EndInsertKeeps

-----------------------------------------------------------------------------
(* Accounts are taken away.                                                *)

LEMMA WithoutTypes == ASSUME IInv, NEW sub PROVE AuthWithout(sub) \in [Emails -> Subs \cup {None}]
BY SubTypes DEF AuthWithout

\* Without an answer the Auth user stays; Ops is told.
LEMMA CompensateKeeps == ASSUME IInv, NEW p \in Sessions, Compensate(p) PROVE IInv'
<1>1. /\ session[p].pc = "undo" /\ session[p].sub \in Subs /\ Makes(session[p])
      /\ Set(p, Idle)
      /\ UNCHANGED <<day, local, issued, entries, invites, posts, unrecorded, overlapped, doomed>>
  BY DEF Compensate, tables, IInv, Places, Placed, Makes
<1>2. left' \in Lefts
  BY LeftKeeps, SpendKeeps DEF Compensate, Spendings
<1>3. entries' \in [Emails -> Entry]
  BY <1>1 DEF IInv, TypeOK
<1>4. Plain(Idle) /\ Idle.pc # "purge"
  BY IdleTypes DEF Plain
<1>5. CASE auth' = AuthWithout(session[p].sub) /\ UNCHANGED orphaned
  <2>1. session'[p] = Idle /\ \A q \in Sessions \ {p} : session'[q] = session[q]
    BY <1>1, IdleTypes, SetChanges DEF IInv
  <2>2. \A q \in Sessions : Makes(session'[q]) => session'[q] = session[q]
    BY <2>1, IdleTypes
  <2>3. \A q \in Sessions : session'[q].pc = "purge" => session'[q] = session[q]
    BY <1>4, <2>1
  <2>4. \A q \in Sessions : session'[q].pc = "insert" => session'[q].sub # session[p].sub
    BY <1>1, <2>1, IdleTypes DEF Makes, IInv, SubsApart, SignupsDiffer
  <2>5. session[p].sub \in doomed \/ \A e \in Emails : local[e] # session[p].sub
    BY <1>1 DEF IInv, SubsApart, UndoesItsOwn
  <2>6. local' \in [Emails -> Subs \cup {None}]
    BY <1>1, SubTypes
  <2>7. SubsApart'
    BY <1>1, <1>5, <2>1, <2>2, <2>3, <2>4, <2>5, <2>6, AuthGoes
  <2>8. /\ auth' \in [Emails -> Subs \cup {None}]
        /\ issued' \subseteq Subs /\ orphaned' \subseteq Subs /\ doomed' \subseteq Subs
    BY <1>1, <1>5, SubTypes, WithoutTypes
  <2> QED BY <1>1, <1>2, <1>3, <1>4, <2>6, <2>7, <2>8, IdleTypes, SameInvites, PartsKeep
<1>6. CASE orphaned' = orphaned \cup {session[p].sub} /\ UNCHANGED auth
  <2>1. session[p].sub \in orphaned' /\ orphaned \subseteq orphaned' /\ orphaned' \subseteq Subs
    BY <1>1, <1>6, SubTypes
  <2> QED BY <1>1, <1>2, <1>3, <1>4, <1>6, <2>1, IdleTypes, QuietKeeps
<1> QED BY <1>5, <1>6 DEF Compensate

LEMMA DeleteAuthKeeps ==
    ASSUME IInv, NEW p \in Sessions, NEW e \in Emails, DeleteAuth(p, e) PROVE IInv'
<1> DEFINE s == [Begin(p, "delete", e) EXCEPT !.pc = "purge", !.sub = local[e]]
<1>1. /\ session[p].pc = "idle" /\ local[e] \in Subs /\ local[e] \in issued
      /\ auth' = AuthWithout(local[e]) /\ doomed' = doomed \cup {local[e]} /\ Set(p, s)
      /\ UNCHANGED <<day, local, issued, entries, invites, posts, unrecorded, overlapped, orphaned>>
  BY DEF DeleteAuth, Taken, tables, IInv, TypeOK, SubsApart, Issued
<1>2. /\ s \in Session /\ s.pc = "purge" /\ s.task = "delete" /\ s.email = e
      /\ s.sub = local[e] /\ ~s.entry /\ s.holds = {}
  BY <1>1 DEF Begin, Idle, Session
<1> HIDE DEF s
<1>3. Placed(s) /\ Plain(s) /\ ~Redeems(s) /\ ~Makes(s) /\ ~IsRun(s) /\ ~Makes(session[p])
  BY <1>1, <1>2 DEF Placed, Plain, Redeems, Makes, IsRun
<1>4. left' \in Lefts
  BY SpendKeeps DEF DeleteAuth, Spendings
<1>5. session'[p] = s /\ \A q \in Sessions \ {p} : session'[q] = session[q]
  BY <1>1, <1>2, SetChanges DEF IInv
<1>6. SubsApart'
  <2>1. local' \in [Emails -> Subs \cup {None}]
    BY <1>1, SubTypes
  <2> QED BY <1>1, <1>2, <1>3, <1>5, <2>1, AuthGoes
<1>7. /\ auth' \in [Emails -> Subs \cup {None}] /\ local' \in [Emails -> Subs \cup {None}]
      /\ issued' \subseteq Subs /\ orphaned' \subseteq Subs /\ doomed' \subseteq Subs
      /\ entries' \in [Emails -> Entry]
  <2>1. entries' \in [Emails -> Entry]
    BY <1>1 DEF IInv, TypeOK
  <2> QED BY <1>1, <2>1, SubTypes, WithoutTypes
<1> QED BY <1>1, <1>2, <1>3, <1>4, <1>6, <1>7, SameInvites, PartsKeep

\* What the purge of an address does to the tables.
LEMMA PurgedTypes ==
    ASSUME IInv, NEW e \in Emails, Purgeable(e), Purged(e)
    PROVE  /\ Milder /\ \A i \in InviteIds : invites'[i] # invites[i] => Spares(i)
           /\ entries' \in [Emails -> Entry] /\ local' \in [Emails -> Subs \cup {None}]
           /\ local'[e] = None /\ \A f \in Emails \ {e} : local'[f] = local[f]
<1>1. entries' \in [Emails -> Entry]
  <2>1. NoEntry \in Entry
    BY DEF NoEntry, Entry
  <2> QED BY <2>1 DEF Purged, IInv, TypeOK
<1>2. /\ local' \in [Emails -> Subs \cup {None}]
      /\ local'[e] = None /\ \A f \in Emails \ {e} : local'[f] = local[f]
  BY SubTypes DEF Purged
<1> DEFINE one(i) == [invites[i] EXCEPT !.email = None]
           bare(i) == [one(i) EXCEPT !.entry = None]
<1>3. \A i \in InviteIds :
        /\ one(i) \in Invite /\ one(i).made = invites[i].made /\ one(i).day = invites[i].day
        /\ one(i).used = invites[i].used /\ one(i).revoked = invites[i].revoked
        /\ one(i).expired = invites[i].expired
  BY InviteTypes DEF Invite
<1>4. \A i \in InviteIds :
        /\ bare(i) \in Invite /\ bare(i).made = invites[i].made /\ bare(i).day = invites[i].day
        /\ bare(i).used = invites[i].used /\ bare(i).revoked = invites[i].revoked
        /\ bare(i).expired = invites[i].expired /\ bare(i).entry = None
  BY <1>3 DEF Invite
<1>5. invites' = [i \in InviteIds |-> IF e \in {invites[i].email, invites[i].entry}
                                      THEN bare(i) ELSE invites[i]]
  BY DEF Purged
<1> HIDE DEF one, bare
<1>6. invites' \in [InviteIds -> Invite]
  BY <1>4, <1>5, InviteTypes
<1>7. \A i \in InviteIds : ~invites[i].made => invites[i].email = None /\ invites[i].entry = None
  <2>1. NoInvite.email = None /\ NoInvite.entry = None
    BY DEF NoInvite
  <2> QED BY <2>1, InviteTypes
<1>8. Milder
  BY <1>4, <1>5, <1>6, <1>7, NoneIsNothing DEF Milder
<1>9. \A i \in InviteIds : invites'[i] # invites[i] => Spares(i)
  BY <1>5, UnlockedSpares DEF Purgeable
<1> QED BY <1>1, <1>2, <1>8, <1>9

LEMMA DeleteLocalKeeps == ASSUME IInv, NEW p \in Sessions, DeleteLocal(p) PROVE IInv'
<1> DEFINE e == session[p].email
           sub == session[p].sub
<1>1. /\ session[p].pc = "purge" /\ sub \in Subs /\ e \in Emails /\ ~Makes(session[p])
      /\ Set(p, Idle)
      /\ UNCHANGED <<day, auth, issued, left, posts, unrecorded, overlapped, orphaned, doomed>>
  BY DEF DeleteLocal, history, IInv, Places, Placed, Makes
<1>2. left' \in Lefts
  BY <1>1, LeftKeeps
<1>3. CASE UNCHANGED <<local, tables>>
  BY <1>1, <1>2, <1>3, RestKeeps DEF tables, IInv, TypeOK
<1>4. CASE local[e] = sub /\ Purgeable(e) /\ Purged(e)
  <2>1. /\ Milder /\ \A i \in InviteIds : invites'[i] # invites[i] => Spares(i)
        /\ entries' \in [Emails -> Entry] /\ local' \in [Emails -> Subs \cup {None}]
        /\ local'[e] = None /\ \A f \in Emails \ {e} : local'[f] = local[f]
    BY <1>1, <1>4, PurgedTypes
  <2>2. session'[p] = Idle /\ \A q \in Sessions \ {p} : session'[q] = session[q]
    BY <1>1, IdleTypes, SetChanges DEF IInv
  <2>3. Plain(Idle) /\ Idle.pc = "idle"
    BY IdleTypes DEF Plain
  <2>4. \A f \in Emails : auth[f] # sub
    BY <1>1 DEF IInv, SubsApart, PurgesTheGone
  <2>5. auth' = AuthWithout(sub)
    BY <1>1, <2>4, SubTypes DEF AuthWithout
  <2>6. \A f \in Emails : local'[f] # sub
    BY <1>1, <1>4, <2>1, NoneIsNothing DEF IInv, SubsApart, RowsDiffer
  <2>7. \A q \in Sessions : session'[q].pc = "insert" => session'[q].sub # sub
    BY <1>1, <1>4, <2>2, <2>3 DEF IInv, SubsApart, InsertsAnew
  <2>8. \A q \in Sessions : /\ Makes(session'[q]) => session'[q] = session[q]
                            /\ session'[q].pc = "purge" => session'[q] = session[q]
                            /\ Makes(session[q]) => session'[q] = session[q]
    BY <1>1, <2>2, <2>3, IdleTypes
  <2>9. SubsApart'
    <3>1. \A f \in Emails :
            local'[f] = local[f] \/ (local'[f] = None /\ auth'[f] # local[f])
      BY <1>1, <1>4, <2>1, <2>4
    <3> HIDE DEF sub, e
    <3> QED BY <1>1, <2>1, <2>5, <2>6, <2>7, <2>8, <3>1, AuthGoes
  <2>10. /\ auth' \in [Emails -> Subs \cup {None}]
         /\ issued' \subseteq Subs /\ orphaned' \subseteq Subs /\ doomed' \subseteq Subs
    BY <1>1, SubTypes
  <2>11. \A i \in InviteIds : invites'[i] # invites[i] =>
            \A q \in Sessions : Redeems(session'[q]) => session'[q].invite # i
    BY <2>1, <2>2, IdleTypes DEF Spares
  <2> QED BY <1>1, <1>2, <2>1, <2>3, <2>9, <2>10, <2>11, IdleTypes, PartsKeep
<1> QED BY <1>3, <1>4 DEF DeleteLocal

LEMMA SelfDeleteKeeps ==
    ASSUME IInv, NEW p \in Sessions, NEW e \in Emails, SelfDelete(p, e) PROVE IInv'
<1> DEFINE sub == local[e]
<1>1. /\ sub \in Subs /\ auth' = AuthWithout(sub) /\ Purgeable(e) /\ Purged(e)
      /\ UNCHANGED <<session, day, issued, posts, unrecorded, overlapped, orphaned, doomed>>
  BY DEF SelfDelete, Taken, history, IInv, TypeOK
<1>2. left' \in Lefts
  BY SpendKeeps DEF SelfDelete, Spendings
<1>3. /\ Milder /\ \A i \in InviteIds : invites'[i] # invites[i] => Spares(i)
      /\ entries' \in [Emails -> Entry] /\ local' \in [Emails -> Subs \cup {None}]
      /\ local'[e] = None /\ \A f \in Emails \ {e} : local'[f] = local[f]
  BY <1>1, PurgedTypes
<1>4. \A f \in Emails : local'[f] # sub
  BY <1>1, <1>3, NoneIsNothing DEF IInv, SubsApart, RowsDiffer
<1>5. \A q \in Sessions : session'[q].pc = "insert" => session'[q].sub # sub
  BY <1>1 DEF IInv, SubsApart, InsertsAnew
<1>6. SubsApart'
  <2>1. \A f \in Emails :
            local'[f] = local[f] \/ (local'[f] = None /\ auth'[f] # local[f])
    BY <1>1, <1>3, NoneIsNothing DEF AuthWithout
  <2> HIDE DEF sub
  <2> QED BY <1>1, <1>3, <1>4, <1>5, <2>1, AuthGoes
<1>7. /\ auth' \in [Emails -> Subs \cup {None}]
      /\ issued' \subseteq Subs /\ orphaned' \subseteq Subs /\ doomed' \subseteq Subs
  BY <1>1, SubTypes, WithoutTypes
<1> QED BY <1>1, <1>2, <1>3, <1>6, <1>7, PartsRest

LEMMA SelfDeleteFailsKeeps ==
    ASSUME IInv, NEW p \in Sessions, NEW e \in Emails, SelfDeleteFails(p, e) PROVE IInv'
<1>1. /\ local[e] \in Subs /\ auth' = AuthWithout(local[e]) /\ doomed' = doomed \cup {local[e]}
      /\ UNCHANGED <<session, day, local, issued, entries, invites, posts, unrecorded, overlapped,
                     orphaned>>
  BY DEF SelfDeleteFails, Taken, tables, IInv, TypeOK
<1>2. left' \in Lefts
  BY SpendKeeps DEF SelfDeleteFails, Spendings
<1>3. /\ auth' \in [Emails -> Subs \cup {None}] /\ local' \in [Emails -> Subs \cup {None}]
      /\ issued' \subseteq Subs /\ orphaned' \subseteq Subs /\ doomed' \subseteq Subs
      /\ entries' \in [Emails -> Entry]
  <2>1. entries' \in [Emails -> Entry]
    BY <1>1 DEF IInv, TypeOK
  <2> QED BY <1>1, <2>1, SubTypes, WithoutTypes
<1>4. SubsApart'
  BY <1>1, <1>3, AuthGoes
<1> QED BY <1>1, <1>2, <1>3, <1>4, SameInvites, PartsRest

LEMMA DeleteOrphanKeeps == ASSUME IInv, NEW p \in Sessions, DeleteOrphan(p) PROVE IInv'
<1>1. /\ session[p].pc = "orphan" /\ session[p].sub \in Subs /\ ~Makes(session[p])
      /\ Set(p, Idle) /\ auth' = AuthWithout(session[p].sub)
      /\ doomed' = doomed \cup {session[p].sub}
      /\ UNCHANGED <<day, local, issued, entries, invites, left, posts, unrecorded, overlapped,
                     orphaned>>
  BY DEF DeleteOrphan, tables, IInv, Places, Placed, Makes
<1>2. left' \in Lefts
  BY <1>1, LeftKeeps
<1>3. /\ auth' \in [Emails -> Subs \cup {None}] /\ local' \in [Emails -> Subs \cup {None}]
      /\ issued' \subseteq Subs /\ orphaned' \subseteq Subs /\ doomed' \subseteq Subs
      /\ entries' \in [Emails -> Entry]
  <2>1. entries' \in [Emails -> Entry]
    BY <1>1 DEF IInv, TypeOK
  <2> QED BY <1>1, <2>1, SubTypes, WithoutTypes
<1>4. Plain(Idle) /\ Idle.pc = "idle"
  BY IdleTypes DEF Plain
<1>5. session'[p] = Idle /\ \A q \in Sessions \ {p} : session'[q] = session[q]
  BY <1>1, IdleTypes, SetChanges DEF IInv
<1>6. SubsApart'
  <2>1. \A q \in Sessions : /\ Makes(session'[q]) => session'[q] = session[q]
                            /\ session'[q].pc = "purge" => session'[q] = session[q]
                            /\ Makes(session[q]) => session'[q] = session[q]
    BY <1>1, <1>4, <1>5, IdleTypes
  <2> QED BY <1>1, <1>3, <2>1, AuthGoes
<1> QED BY <1>1, <1>2, <1>3, <1>4, <1>6, IdleTypes, SameInvites, PartsKeep

-----------------------------------------------------------------------------
(* The invariant is kept by every step.                                    *)

LEMMA IdleStepKeeps == ASSUME IInv, UNCHANGED vars PROVE IInv'
<1>1. UNCHANGED <<day, auth, local, issued, entries, invites, session, left, posts, unrecorded,
                  overlapped, orphaned, doomed>>
  BY DEF vars, tables, history
<1>2. left' \in Lefts /\ entries' \in [Emails -> Entry]
  BY <1>1, LeftKeeps DEF IInv, TypeOK
<1>3. Milder /\ \A i \in InviteIds : invites'[i] = invites[i]
  BY <1>1, SameInvites
<1> QED BY <1>1, <1>2, <1>3, TablesKeep

LEMMA SignupKeeps == ASSUME IInv, NEW p \in Sessions, Signup(p) PROVE IInv'
BY SubmitKeeps, RedeemKeeps, CreateAuthKeeps, CreateAuthUnansweredKeeps, CommitSignupKeeps,
   CommitUnansweredKeeps, CompensateKeeps DEF Signup

LEMMA OpsKeep == ASSUME IInv, NEW p \in Sessions, Ops(p) PROVE IInv'
BY AskForEntryKeeps, LockEntryKeeps, IssueKeeps, MailKeeps, MailUnrecordedKeeps, MarkSentKeeps,
   RevokeInviteKeeps, StartRunKeeps, EndRunKeeps, NextLetterKeeps DEF Ops

LEMMA DeletionKeeps == ASSUME IInv, NEW p \in Sessions, Deletion(p) PROVE IInv'
BY DeleteAuthKeeps, SelfDeleteKeeps, SelfDeleteFailsKeeps, FindOrphanKeeps, DeleteLocalKeeps,
   DeleteFailsKeeps, DeleteOrphanKeeps DEF Deletion

LEMMA StepKeeps == ASSUME IInv, [Next]_vars PROVE IInv'
<1>1. CASE \E p \in Sessions : Signup(p) \/ Ops(p) \/ Deletion(p) \/ Die(p)
  BY <1>1, SignupKeeps, OpsKeep, DeletionKeeps, DieKeeps
<1>2. CASE \E e \in Emails \cup {None} : CreateInvite(e)
  BY <1>2, CreateInviteKeeps
<1>3. CASE \E e \in Emails : Refer(e)
  BY <1>3, ReferKeeps
<1>4. CASE \E i \in InviteIds : Unsubscribe(i) \/ Expire(i)
  BY <1>4, UnsubscribeKeeps, ExpireKeeps
<1>5. CASE Tick
  BY <1>5, TickKeeps
<1>6. CASE UNCHANGED vars
  BY <1>6, IdleStepKeeps
<1> QED BY <1>1, <1>2, <1>3, <1>4, <1>5, <1>6 DEF Next

LEMMA InvariantHolds == Spec => []IInv
<1>1. Init => IInv
  BY InitIInv
<1>2. IInv /\ [Next]_vars => IInv'
  BY StepKeeps
<1> QED BY <1>1, <1>2, PTL DEF Spec

-----------------------------------------------------------------------------
(* Who uses up an invite.                                                  *)

UsedStays == \A i \in InviteIds : invites'[i].used = invites[i].used

LEMMA FlagsUseNothing ==
    ASSUME IInv, NEW i \in InviteIds,
           \/ invites' = [invites EXCEPT ![i].revoked = TRUE]
           \/ invites' = [invites EXCEPT ![i].expired = TRUE]
           \/ invites' = [invites EXCEPT ![i].unsub = TRUE]
    PROVE  UsedStays
<1>1. invites[i] \in Invite
  BY InviteTypes
<1>2. /\ [invites[i] EXCEPT !.revoked = TRUE].used = invites[i].used
      /\ [invites[i] EXCEPT !.expired = TRUE].used = invites[i].used
      /\ [invites[i] EXCEPT !.unsub = TRUE].used = invites[i].used
  BY <1>1 DEF Invite
<1> QED BY <1>2 DEF IInv, TypeOK, UsedStays

\* Neither the invites that are revoked nor the one that is made.
LEMMA LinksUseNothing ==
    ASSUME IInv, NEW revoked, NEW i \in InviteIds, NextId(i), NEW new, new.used = None,
           invites' = Reissued(revoked, i, new)
    PROVE  UsedStays
<1>1. \A j \in InviteIds : [invites[j] EXCEPT !.revoked = TRUE].used = invites[j].used
  BY InviteTypes DEF Invite
<1>2. invites[i].used = None
  BY InviteTypes, NoInviteTypes DEF NextId
<1>3. SUFFICES ASSUME NEW j \in InviteIds PROVE invites'[j].used = invites[j].used
  BY DEF UsedStays
<1>4. CASE j = i /\ j \notin revoked
  BY <1>2, <1>4 DEF Reissued
<1>5. CASE j # i /\ j \in revoked
  BY <1>1, <1>5 DEF Reissued
<1>6. CASE j # i /\ j \notin revoked
  BY <1>6 DEF Reissued
<1>7. CASE j = i /\ j \in revoked
  BY <1>1, <1>2, <1>7 DEF Reissued
<1> QED BY <1>4, <1>5, <1>6, <1>7

LEMMA IssueUsesNothing == ASSUME IInv, NEW p \in Sessions, Issue(p) PROVE UsedStays
<1> DEFINE urls == IF session[p].entry THEN LiveLinks(session[p].email) ELSE {}
<1>1. CASE invites' = [i \in InviteIds |->
                         IF i \in urls THEN [invites[i] EXCEPT !.revoked = TRUE]
                         ELSE invites[i]]
  <2> HIDE DEF urls
  <2>1. \A j \in InviteIds : [invites[j] EXCEPT !.revoked = TRUE].used = invites[j].used
    BY InviteTypes DEF Invite
  <2> QED BY <1>1, <2>1 DEF UsedStays
<1>2. CASE \E i \in InviteIds :
              /\ NextId(i)
              /\ invites' = Reissued(urls, i, New(session[p].email, session[p].email, 0))
  <2> DEFINE new == New(session[p].email, session[p].email, 0)
  <2>1. new.used = None
    BY DEF New, NoInvite
  <2> HIDE DEF urls, new
  <2> QED BY <1>2, <2>1, LinksUseNothing DEF new
<1>3. CASE UNCHANGED invites
  BY <1>3 DEF UsedStays
<1>4. CASE session[p].task = "status"
  BY <1>1, <1>4 DEF Issue
<1>5. CASE session[p].task # "status" /\ Taken(session[p].email)
  BY <1>3, <1>5 DEF Issue, tables
<1>6. CASE session[p].task = "mint" /\ ~Taken(session[p].email)
  BY <1>2, <1>6 DEF Issue
<1>7. CASE session[p].task \notin {"status", "mint"} /\ ~Taken(session[p].email)
  BY <1>3, <1>7 DEF Issue, tables
<1> QED BY <1>4, <1>5, <1>6, <1>7

LEMMA MailUsesNothing == ASSUME IInv, NEW p \in Sessions, Mail(p) PROVE UsedStays
<1>1. CASE UNCHANGED invites
  BY <1>1 DEF UsedStays
<1>2. CASE \E i \in InviteIds :
              /\ NextId(i)
              /\ invites' = Reissued(session[p].holds, i,
                                New(session[p].email,
                                    IF session[p].entry THEN session[p].email ELSE None, day))
  <2> DEFINE new == New(session[p].email,
                        IF session[p].entry THEN session[p].email ELSE None, day)
  <2>1. new.used = None
    BY DEF New, NoInvite
  <2> HIDE DEF new
  <2> QED BY <1>2, <2>1, LinksUseNothing DEF new
<1> QED BY <1>1, <1>2 DEF Mail, tables

LEMMA CreateInviteUsesNothing ==
    ASSUME IInv, NEW e \in Emails \cup {None}, CreateInvite(e) PROVE UsedStays
<1> DEFINE new == New(e, None, 0)
<1>1. new.used = None
  <2>1. None \in Emails \cup {None} /\ 0 \in Nat
    OBVIOUS
  <2> QED BY <2>1, NewOnes
<1>2. PICK i \in InviteIds : NextId(i) /\ invites' = [invites EXCEPT ![i] = new]
  BY DEF CreateInvite
<1> HIDE DEF new
<1>3. invites[i].used = None
  BY <1>2, InviteTypes, NoInviteTypes DEF NextId
<1> QED BY <1>1, <1>2, <1>3 DEF UsedStays, IInv, TypeOK

LEMMA PurgeUsesNothing == ASSUME IInv, NEW e \in Emails, Purged(e) PROVE UsedStays
<1>1. \A i \in InviteIds :
            [[invites[i] EXCEPT !.email = None] EXCEPT !.entry = None].used = invites[i].used
  BY InviteTypes DEF Invite
<1>2. \A i \in InviteIds :
            [invites[i] EXCEPT !.email = None, !.entry = None].used = invites[i].used
  BY <1>1
<1> QED BY <1>2 DEF Purged, UsedStays

LEMMA CommitUsesItsOwn ==
    ASSUME IInv, NEW p \in Sessions, session[p].pc = "insert", Committed(p), NEW i \in InviteIds,
           invites'[i].used # invites[i].used
    PROVE  invites[i].used = None /\ ~invites[i].revoked
<1>1. session[p].invite # None /\ i = session[p].invite
  BY DEF Committed, IInv, TypeOK
<1>2. Redeems(session[p])
  BY <1>1 DEF Redeems
<1> QED BY <1>1, <1>2 DEF IInv, RowsApart

LEMMA StepUsesLive ==
    ASSUME IInv, [Next]_vars
    PROVE  \A i \in InviteIds : invites'[i].used # invites[i].used
                => invites[i].used = None /\ ~invites[i].revoked
<1> DEFINE Goal == \A i \in InviteIds : invites'[i].used # invites[i].used
                        => invites[i].used = None /\ ~invites[i].revoked
<1>1. UsedStays => Goal
  BY DEF UsedStays
<1>2. UNCHANGED invites => Goal
  OBVIOUS
<1>3. ASSUME NEW p \in Sessions, Signup(p) PROVE Goal
  <2>1. CASE CommitSignup(p) \/ CommitUnanswered(p)
    BY <1>2, <2>1, CommitUsesItsOwn DEF CommitSignup, CommitUnanswered
  <2>2. CASE ~(CommitSignup(p) \/ CommitUnanswered(p))
    <3>1. UNCHANGED invites
      BY <1>3, <2>2 DEF Signup, Submit, Redeem, CreateAuth, CreateAuthUnanswered, Compensate,
                        tables
    <3> QED BY <1>2, <3>1
  <2> QED BY <2>1, <2>2
<1>4. ASSUME NEW p \in Sessions, Ops(p) PROVE Goal
  <2>1. CASE Issue(p) \/ Mail(p)
    BY <1>1, <2>1, IssueUsesNothing, MailUsesNothing
  <2>2. CASE \E i \in InviteIds : Revoke(p, i)
    BY <1>1, <2>2, FlagsUseNothing DEF Revoke
  <2>3. CASE \/ LockEntry(p) \/ MailUnrecorded(p) \/ StartRun(p) \/ EndRun(p)
             \/ \E e \in Emails : NextLetter(p, e) \/ MarkSent(p, e)
             \/ \E t \in {"mint", "status", "letter"}, e \in Emails : Ask(p, t, e)
    <3>1. UNCHANGED invites
      BY <2>3 DEF LockEntry, MailUnrecorded, StartRun, EndRun, NextLetter, MarkSent, Ask, tables
    <3> QED BY <1>2, <3>1
  <2> QED BY <1>4, <2>1, <2>2, <2>3 DEF Ops
<1>5. ASSUME NEW p \in Sessions, Deletion(p) PROVE Goal
  <2>1. CASE \E e \in Emails : SelfDelete(p, e)
    BY <1>1, <2>1, PurgeUsesNothing DEF SelfDelete
  <2>2. CASE DeleteLocal(p)
    <3>1. session[p].email \in Emails
      BY <2>2 DEF DeleteLocal, IInv, Places, Placed
    <3> QED BY <1>1, <1>2, <2>2, <3>1, PurgeUsesNothing DEF DeleteLocal, tables
  <2>3. CASE \/ DeleteLocalFails(p) \/ DeleteOrphan(p)
             \/ \E e \in Emails : DeleteAuth(p, e) \/ SelfDeleteFails(p, e) \/ FindOrphan(p, e)
    <3>1. UNCHANGED invites
      BY <2>3 DEF DeleteLocalFails, DeleteOrphan, DeleteAuth, SelfDeleteFails, FindOrphan, tables
    <3> QED BY <1>2, <3>1
  <2> QED BY <1>5, <2>1, <2>2, <2>3 DEF Deletion
<1>6. ASSUME NEW e \in Emails \cup {None}, CreateInvite(e) PROVE Goal
  BY <1>1, <1>6, CreateInviteUsesNothing
<1>7. ASSUME NEW i \in InviteIds, Unsubscribe(i) \/ Expire(i) PROVE Goal
  BY <1>1, <1>7, FlagsUseNothing DEF Unsubscribe, Expire
<1>8. ASSUME \/ \E p \in Sessions : Die(p)
             \/ \E e \in Emails : Refer(e)
             \/ Tick \/ UNCHANGED vars
      PROVE  Goal
  <2>1. UNCHANGED invites
    BY <1>8 DEF Die, Refer, Tick, vars, tables
  <2> QED BY <1>2, <2>1
<1> HIDE DEF Goal
<1>9. Goal
  BY <1>3, <1>4, <1>5, <1>6, <1>7, <1>8 DEF Next
<1> QED BY <1>9 DEF Goal

-----------------------------------------------------------------------------
(* Theorems.                                                               *)

\* Every variable keeps its type, whatever signups, Ops, letters and deletions
\* do: routers/auth.py, services/invites.py and tasks/waitlist_tasks.py.
THEOREM InvitesTypes == Spec => []TypeOK
<1>1. IInv => TypeOK
  BY DEF IInv
<1> QED BY <1>1, InvariantHolds, PTL

\* "Keep at most one active invite per entry across concurrent requests": with
\* any number of requests, letters and runs, and signups that redeem while an
\* entry is locked, _revoke_waitlist_links leaves an entry one link at most.
THEOREM OneLinkAtATime == Spec => []OneLiveInvite
<1>1. IInv => OneLiveInvite
  <2> SUFFICES ASSUME IInv, NEW e \in Emails PROVE Cardinality(LiveLinks(e)) <= 1
    BY DEF IInv, OneLiveInvite
  <2>1. CASE LiveLinks(e) = {}
    BY <2>1, FS_EmptySet
  <2>2. CASE LiveLinks(e) # {}
    <3>1. PICK i \in LiveLinks(e) : TRUE
      BY <2>2
    <3>2. LiveLinks(e) = {i}
      BY <3>1 DEF IInv, OneLink
    <3>3. Cardinality(LiveLinks(e)) = 1
      BY <3>2, FS_Singleton
    <3> QED BY <3>3
  <2> QED BY <2>1, <2>2
<1> QED BY <1>1, InvariantHolds, PTL

\* What redeem_invite checked still holds when the signup commits, seconds and
\* a call of the provider later: its invite was used by nobody else and was not
\* revoked, although it may have expired meanwhile.
THEOREM RedeemedInvitesWereLive == Spec => RedeemedWasLive
<1>1. ASSUME IInv, [Next]_vars
      PROVE  [\A i \in InviteIds : invites'[i].used # invites[i].used
                  => invites[i].used = None /\ ~invites[i].revoked]_vars
  BY <1>1, StepUsesLive
<1> QED BY <1>1, InvariantHolds, PTL DEF Spec, RedeemedWasLive

\* The provider and the users table agree on who has an account, whatever order
\* signups, compensations, purges and the orphan cleanup of Ops come in, but for
\* the faults that the history names.
THEOREM TheTwoSystemsAgree == Spec => []UsersMatchAuth
<1>1. IInv => UsersMatchAuth
  BY DEF IInv, SubsApart, UsersMatchAuth
<1> QED BY <1>1, InvariantHolds, PTL

\* auto_invite_waitlist keeps the daily limit over any number of runs of a day,
\* restarted or stopped half way, as long as no two of them overlap and but for
\* the letters whose record was lost.
THEOREM DailyLimitHolds == Spec => []AutoLimit
<1>1. IInv => AutoLimit
  BY DEF IInv, WithinLimit, PostsInLimit, AutoLimit
<1> QED BY <1>1, InvariantHolds, PTL

-----------------------------------------------------------------------------
(* AgentTokens.  Who is between the count and the insert holds the row of  *)
(* the user, and while it is held no other adds a token: the room that was *)
(* counted is still there.  A late last use revives a token without the    *)
(* lock, and is what the property leaves out.                              *)

\* The tokens that were ever created, and those that count against the cap.
Created == {t \in Tokens : token[t].state # "none"}
CountedTokens == ActiveTokens \ revived

\* Who counts holds the row, and nobody else adds a token meanwhile.
HolderIsLocked == \A c \in Callers : caller[c].at \in {"locked", "room"} => rowLock = c
RoomIsLeft == \A c \in Callers : caller[c].at = "room" => Cardinality(CountedTokens) < TokenCap
ReadsToken == \A c \in Callers : caller[c].at = "read" => caller[c].token \in Tokens

TInv ==
    /\ TokensTypeOK
    /\ IsFiniteSet(Created)
    /\ HolderIsLocked /\ RoomIsLeft /\ ReadsToken
    /\ Cardinality(CountedTokens) <= TokenCap

LEMMA TokenLimits == TokenCap \in Nat /\ Lapse \in Nat /\ LastDate \in Nat /\ Endless \in Nat
                     /\ Nobody \notin Callers
BY AgentTokensAssumption

LEMMA CountedIsFinite == ASSUME TInv
                         PROVE  /\ IsFiniteSet(CountedTokens) /\ IsFiniteSet(ActiveTokens)
                                /\ Cardinality(CountedTokens) \in Nat
                                /\ Cardinality(CountedTokens) <= Cardinality(ActiveTokens)
                                /\ Cardinality(ActiveTokens) \in Nat
<1>1. ActiveTokens \subseteq Created
  BY DEF ActiveTokens, IsActive, Created
<1>2. CountedTokens \subseteq ActiveTokens
  BY DEF CountedTokens
<1> QED BY <1>1, <1>2, FS_Subset, FS_CardinalityType DEF TInv

\* Whatever makes no token count anew keeps the cap.
LEMMA FewerCount == ASSUME TInv, CountedTokens' \subseteq CountedTokens
                    PROVE  /\ Cardinality(CountedTokens)' <= Cardinality(CountedTokens)
                           /\ Cardinality(CountedTokens)' <= TokenCap
                           /\ Cardinality(CountedTokens)' \in Nat
<1>1. Cardinality(CountedTokens') <= Cardinality(CountedTokens) /\ Cardinality(CountedTokens') \in Nat
  BY CountedIsFinite, FS_Subset, FS_CardinalityType
<1> QED BY <1>1, CountedIsFinite, TokenLimits DEF TInv

LEMMA TInvInit == TokensInit => TInv
<1> SUFFICES ASSUME TokensInit PROVE TInv
  OBVIOUS
<1>1. TokensTypeOK
  <2>1. NoToken \in Token /\ NoCaller \in Caller /\ 0 \in 0 .. LastDate
    BY TokenLimits DEF NoToken, Token, NoCaller, Caller
  <2> QED BY <2>1 DEF TokensInit, TokensTypeOK
<1>2. Created = {} /\ CountedTokens = {}
  BY DEF TokensInit, Created, CountedTokens, ActiveTokens, IsActive, NoToken
<1>3. Cardinality(CountedTokens) <= TokenCap /\ IsFiniteSet(Created)
  BY <1>2, FS_EmptySet, TokenLimits
<1>4. HolderIsLocked /\ RoomIsLeft /\ ReadsToken
  BY DEF TokensInit, HolderIsLocked, RoomIsLeft, ReadsToken, NoCaller
<1> QED BY <1>1, <1>3, <1>4 DEF TInv

\* A step that leaves the tokens and the date alone.
LEMMA SameTokens == ASSUME TInv, UNCHANGED <<date, token, revived>>
                    PROVE  CountedTokens' = CountedTokens /\ Created' = Created
                           /\ ActiveTokens' = ActiveTokens
BY DEF CountedTokens, Created, ActiveTokens, IsActive, Lapsed

LEMMA AskKeeps == ASSUME TInv, NEW c \in Callers, NEW until \in Int, AskToken(c, until) PROVE TInv'
<1>1. TokensTypeOK'
  <2>1. caller[c] \in Caller
    BY DEF TInv, TokensTypeOK
  <2>2. [[caller[c] EXCEPT !.at = "waits"] EXCEPT !.until = until] \in Caller
    BY <2>1 DEF Caller
  <2>3. caller' \in [Callers -> Caller]
    BY <2>2 DEF AskToken, TInv, TokensTypeOK
  <2> QED BY <2>3 DEF AskToken, TInv, TokensTypeOK
<1>2. HolderIsLocked' /\ RoomIsLeft' /\ ReadsToken'
  BY SameTokens, SMTT(30)
  DEF AskToken, TInv, TokensTypeOK, HolderIsLocked, RoomIsLeft, ReadsToken
<1> QED BY <1>1, <1>2, SameTokens DEF AskToken, TInv

LEMMA LockKeeps == ASSUME TInv, NEW c \in Callers, LockUser(c) PROVE TInv'
<1>1. TokensTypeOK'
  BY SMTT(30) DEF LockUser, TInv, TokensTypeOK, Caller
<1>2. HolderIsLocked' /\ RoomIsLeft' /\ ReadsToken'
  BY SameTokens, TokenLimits, SMTT(30)
  DEF LockUser, TInv, TokensTypeOK, HolderIsLocked, RoomIsLeft, ReadsToken
<1> QED BY <1>1, <1>2, SameTokens DEF LockUser, TInv

LEMMA CountKeeps == ASSUME TInv, NEW c \in Callers, CountTokens(c) PROVE TInv'
<1>1. TokensTypeOK'
  BY SMTT(30) DEF CountTokens, Leave, NoCaller, TInv, TokensTypeOK, Caller
<1>2. rowLock = c /\ \A d \in Callers \ {c} : caller[d].at \notin {"locked", "room"}
  BY DEF CountTokens, TInv, HolderIsLocked
<1>3. /\ \A d \in Callers \ {c} : caller'[d] = caller[d]
      /\ caller'[c].at \in {"out", "room"}
      /\ ReadsToken'
  <2>1. \A d \in Callers \ {c} : caller'[d] = caller[d]
    BY DEF CountTokens, Leave, TInv, TokensTypeOK
  <2>2. caller'[c].at \in {"out", "room"}
    BY SMTT(30) DEF CountTokens, Leave, NoCaller, TInv, TokensTypeOK, Caller
  <2> QED BY <2>1, <2>2, SMTT(30) DEF ReadsToken, TInv
<1>4. HolderIsLocked'
  <2>1. CASE caller'[c].at = "out"
    BY <1>2, <1>3, <2>1 DEF HolderIsLocked
  <2>2. CASE rowLock' = c
    BY <1>2, <1>3, <2>2 DEF HolderIsLocked
  <2> QED BY <1>2, <2>1, <2>2 DEF CountTokens, Leave, NoCaller, TInv, TokensTypeOK
<1>5. RoomIsLeft'
  BY SameTokens, CountedIsFinite, TokenLimits, SMTT(30)
  DEF CountTokens, Leave, NoCaller, TInv, TokensTypeOK, HolderIsLocked, RoomIsLeft
<1> QED BY <1>1, <1>3, <1>4, <1>5, SameTokens DEF CountTokens, TInv

LEMMA NewKeeps == ASSUME TInv, NEW c \in Callers, NEW t \in Tokens, NewToken(c, t) PROVE TInv'
<1>1. TokensTypeOK'
  BY SMTT(30) DEF NewToken, Leave, NoCaller, TInv, TokensTypeOK, Caller, Token
<1>2. HolderIsLocked' /\ RoomIsLeft' /\ ReadsToken'
  BY TokenLimits, SMTT(30)
  DEF NewToken, Leave, NoCaller, TInv, TokensTypeOK, HolderIsLocked, RoomIsLeft, ReadsToken
<1>3. Created' \subseteq Created \cup {t}
  BY DEF NewToken, TInv, TokensTypeOK, Created
<1>4. IsFiniteSet(Created')
  BY <1>3, FS_AddElement, FS_Subset DEF TInv
<1>5. CountedTokens' \subseteq CountedTokens \cup {t}
  BY DEF NewToken, TInv, TokensTypeOK, CountedTokens, ActiveTokens, IsActive, Lapsed
<1>6. Cardinality(CountedTokens) < TokenCap
  BY DEF NewToken, TInv, RoomIsLeft
<1> DEFINE C == CountedTokens
<1> HIDE DEF C
<1>7. Cardinality(C \cup {t}) <= Cardinality(C) + 1 /\ IsFiniteSet(C \cup {t})
  <2>1. IsFiniteSet(C) /\ Cardinality(C) \in Nat
    BY CountedIsFinite DEF C
  <2> QED BY <2>1, FS_AddElement
<1>8. Cardinality(CountedTokens') <= Cardinality(C \cup {t})
      /\ Cardinality(CountedTokens') \in Nat /\ Cardinality(C \cup {t}) \in Nat
  BY <1>5, <1>7, FS_Subset, FS_CardinalityType DEF C
<1>9. Cardinality(CountedTokens)' <= TokenCap
  BY <1>6, <1>7, <1>8, CountedIsFinite, TokenLimits DEF C
<1> QED BY <1>1, <1>2, <1>4, <1>9 DEF TInv

LEMMA ReadKeeps == ASSUME TInv, NEW c \in Callers, NEW t \in Tokens, ReadToken(c, t) PROVE TInv'
<1>1. TokensTypeOK'
  <2>1. caller[c] \in Caller /\ date \in Int
    BY DEF TInv, TokensTypeOK
  <2>2. [[[caller[c] EXCEPT !.at = "read"] EXCEPT !.token = t] EXCEPT !.now = date] \in Caller
    BY <2>1 DEF Caller
  <2>3. caller' \in [Callers -> Caller]
    BY <2>2 DEF ReadToken, TInv, TokensTypeOK
  <2> QED BY <2>3 DEF ReadToken, TInv, TokensTypeOK
<1>2. HolderIsLocked' /\ RoomIsLeft' /\ ReadsToken'
  BY SameTokens, SMTT(30)
  DEF ReadToken, TInv, TokensTypeOK, HolderIsLocked, RoomIsLeft, ReadsToken
<1> QED BY <1>1, <1>2, SameTokens DEF ReadToken, TInv

\* What neither creates a token nor makes one count keeps the invariant.
LEMMA FewerKeeps == ASSUME TInv, TokensTypeOK', Created' \subseteq Created, CountedTokens' \subseteq CountedTokens,
                           rowLock' = rowLock,
                           \A c \in Callers : caller'[c] = caller[c] \/ caller'[c] = NoCaller
                    PROVE  TInv'
<1>1. IsFiniteSet(Created')
  BY FS_Subset DEF TInv
<1>2. HolderIsLocked' /\ ReadsToken'
  BY SMTT(30) DEF TInv, NoCaller, HolderIsLocked, ReadsToken
<1>3. RoomIsLeft'
  BY FewerCount, CountedIsFinite, TokenLimits, SMTT(30) DEF TInv, NoCaller, RoomIsLeft
<1> QED BY <1>1, <1>2, <1>3, FewerCount DEF TInv

LEMMA WriteKeeps == ASSUME TInv, NEW c \in Callers, WriteLastUsed(c) PROVE TInv'
<1> DEFINE t == caller[c].token
<1>0. t \in Tokens /\ caller[c] \in Caller
  BY DEF WriteLastUsed, TInv, ReadsToken, TokensTypeOK
<1>1. /\ token' = [token EXCEPT ![t].used = caller[c].now]
      /\ revived' = IF Lapsed(t) THEN revived \cup {t} ELSE revived
      /\ caller' = [caller EXCEPT ![c] = NoCaller]
      /\ UNCHANGED <<date, rowLock>>
  BY DEF WriteLastUsed, Leave
<1> HIDE DEF t
<1>2. TokensTypeOK'
  BY <1>0, <1>1, SMTT(30) DEF TInv, TokensTypeOK, NoCaller, Caller, Token
<1>3. Created' \subseteq Created
  BY <1>0, <1>1 DEF TInv, TokensTypeOK, Created, Token
<1>4. CountedTokens' \subseteq CountedTokens
  <2> SUFFICES ASSUME NEW s \in Tokens, IsActive(s)', s \notin revived'
               PROVE  s \in CountedTokens
    BY DEF CountedTokens, ActiveTokens
  <2>1. CASE s = t
    <3>1. ~Lapsed(t) /\ t \notin revived
      BY <1>0, <1>1, <2>1
    <3>2. token[t].state = "live" /\ date < token[t].until
      BY <1>0, <1>1, <2>1 DEF IsActive, TInv, TokensTypeOK, Token
    <3> QED BY <3>1, <3>2, <2>1 DEF CountedTokens, ActiveTokens, IsActive
  <2>2. CASE s # t
    <3>1. token'[s] = token[s] /\ s \notin revived
      BY <1>0, <1>1, <2>2 DEF TInv, TokensTypeOK
    <3> QED BY <1>1, <3>1 DEF CountedTokens, ActiveTokens, IsActive, Lapsed
  <2> QED BY <2>1, <2>2
<1>5. \A d \in Callers : caller'[d] = caller[d] \/ caller'[d] = NoCaller
  BY <1>1 DEF TInv, TokensTypeOK
<1> QED BY <1>1, <1>2, <1>3, <1>4, <1>5, FewerKeeps

LEMMA RevokeKeeps == ASSUME TInv, (\E t \in Tokens : RevokeToken(t)) \/ RevokeAll PROVE TInv'
<1>1. /\ UNCHANGED <<date, rowLock, caller, revived>>
      /\ token' \in [Tokens -> Token]
      /\ \A t \in Tokens : token'[t] = token[t]
                           \/ (token[t].state = "live" /\ token'[t].state = "revoked")
  <2>0. \A t \in Tokens : /\ [token[t] EXCEPT !.state = "revoked"] \in Token
                           /\ [token[t] EXCEPT !.state = "revoked"].state = "revoked"
    BY DEF TInv, TokensTypeOK, Token
  <2>1. CASE \E t \in Tokens : RevokeToken(t)
    <3>1. PICK t \in Tokens : RevokeToken(t)
      BY <2>1
    <3> DEFINE gone == [token[t] EXCEPT !.state = "revoked"]
    <3>2. token' = [token EXCEPT ![t] = gone]
      BY <3>1 DEF RevokeToken
    <3>3. gone \in Token /\ gone.state = "revoked"
      BY <2>0
    <3> HIDE DEF gone
    <3>4. token' \in [Tokens -> Token]
      BY <3>2, <3>3 DEF TInv, TokensTypeOK
    <3>5. token'[t] = gone /\ \A s \in Tokens \ {t} : token'[s] = token[s]
      BY <3>2 DEF TInv, TokensTypeOK
    <3>6. token[t].state = "live" /\ UNCHANGED <<date, rowLock, caller, revived>>
      BY <3>1 DEF RevokeToken
    <3>7. \A s \in Tokens : token'[s] = token[s]
                           \/ (token[s].state = "live" /\ token'[s].state = "revoked")
      BY <3>3, <3>5, <3>6
    <3> QED BY <3>4, <3>6, <3>7
  <2>2. CASE RevokeAll
    <3> DEFINE Gone(t) == [token[t] EXCEPT !.state = "revoked"]
    <3>1. token' = [t \in Tokens |-> IF token[t].state = "live" THEN Gone(t) ELSE token[t]]
      BY <2>2 DEF RevokeAll
    <3>2. \A t \in Tokens : Gone(t) \in Token /\ Gone(t).state = "revoked"
      BY <2>0
    <3>3. UNCHANGED <<date, rowLock, caller, revived>> /\ token \in [Tokens -> Token]
      BY <2>2 DEF RevokeAll, TInv, TokensTypeOK
    <3> HIDE DEF Gone
    <3>4. token' \in [Tokens -> Token]
      BY <3>1, <3>2, <3>3
    <3>5. \A t \in Tokens : token'[t] = IF token[t].state = "live" THEN Gone(t) ELSE token[t]
      BY <3>1
    <3>6. \A s \in Tokens : token'[s] = token[s]
                           \/ (token[s].state = "live" /\ token'[s].state = "revoked")
      BY <3>2, <3>5
    <3> QED BY <3>3, <3>4, <3>6
  <2> QED BY <2>1, <2>2
<1>2. TokensTypeOK' /\ Created' \subseteq Created /\ CountedTokens' \subseteq CountedTokens
  BY <1>1 DEF TInv, TokensTypeOK, Created, CountedTokens, ActiveTokens, IsActive, Lapsed
<1> QED BY <1>1, <1>2, FewerKeeps

LEMMA NextDateKeeps == ASSUME TInv, NextDate PROVE TInv'
<1>1. TokensTypeOK'
  BY TokenLimits, SMTT(30) DEF NextDate, TInv, TokensTypeOK
<1>2. Created' \subseteq Created
  BY DEF NextDate, Created
<1>3. CountedTokens' \subseteq CountedTokens
  BY TokenLimits, SMTT(30)
  DEF NextDate, TInv, TokensTypeOK, Token, CountedTokens, ActiveTokens, IsActive, Lapsed
<1> QED BY <1>1, <1>2, <1>3, FewerKeeps DEF NextDate

LEMMA TInvStep == TInv /\ [TokensNext]_tokenVars => TInv'
<1> SUFFICES ASSUME TInv, [TokensNext]_tokenVars PROVE TInv'
  OBVIOUS
<1>1. CASE UNCHANGED tokenVars
  BY <1>1, SameTokens
  DEF tokenVars, TInv, TokensTypeOK, HolderIsLocked, RoomIsLeft, ReadsToken
<1>2. ASSUME NEW c \in Callers, NEW until \in {date + 1, Endless}, AskToken(c, until) PROVE TInv'
  <2>1. until \in Int
    BY TokenLimits DEF TInv, TokensTypeOK
  <2> QED BY <1>2, <2>1, AskKeeps
<1>3. CASE TokensNext
  BY <1>2, <1>3, LockKeeps, CountKeeps, NewKeeps, ReadKeeps, WriteKeeps, RevokeKeeps, NextDateKeeps
  DEF TokensNext
<1> QED BY <1>1, <1>3

\* No user has more tokens that work than the cap, but for those that a late
\* last use revived (services/api_tokens.py), whatever requests create, use and
\* revoke at once, for any cap, lapse, dates and callers.
THEOREM TokensCapped == TokensSpec => []ActiveTokensCapped
<1>1. TInv => ActiveTokensCapped
  BY DEF TInv, ActiveTokensCapped, CountedTokens
<1> QED BY TInvInit, TInvStep, <1>1, PTL DEF TokensSpec

-----------------------------------------------------------------------------
(* QuietWindows.  A task that nothing went wrong with is in one place and  *)
(* marked as long as it is in flight; a marker has a task in flight, or a  *)
(* task to blame, behind it; the cooldown is set as soon as no end is      *)
(* under way.                                                              *)

UnknownIsAbsent == \A h \in HeavyTasks : heavy[h].known \/ heavy[h] = NoHeavy

\* A task that nothing went wrong with is in one place, and marked meanwhile.
MarkedInFlight ==
    \A h \in HeavyTasks \ blamed :
        /\ heavy[h].sent + heavy[h].runs <= 1
        /\ InFlight(h) => mark[h] = since[h] + MarkKept

\* A marker is never newer than its task, nor there without a reason.
MarkHasReason ==
    \A h \in HeavyTasks : mark[h] > 0 =>
        /\ mark[h] <= since[h] + MarkKept
        /\ InFlight(h) \/ h \in blamed

\* The cooldown after the last end is set as soon as no end is under way.
CooldownIsSet ==
    /\ blamed = {} /\ ended >= 0
    /\ \A h \in HeavyTasks : ~heavy[h].ending
    => cool >= ended + Cooldown

QInv ==
    /\ QuietTypeOK
    /\ ended <= clock /\ \A h \in HeavyTasks : since[h] <= clock
    /\ UnknownIsAbsent /\ MarkedInFlight /\ MarkHasReason /\ CooldownIsSet

LEMMA QuietLimits == MarkKept \in Nat /\ Cooldown \in Nat /\ Margin \in Nat
                     /\ LastMoment \in Nat /\ MaxFlaws \in Nat
BY QuietAssumption

LEMMA QInvInit == QuietInit => QInv
<1> SUFFICES ASSUME QuietInit PROVE QInv
  OBVIOUS
<1>1. QuietTypeOK
  <2>1. NoHeavy \in Heavy /\ 0 \in 0 .. LastMoment /\ -1 \in -1 .. LastMoment /\ 0 \in 0 .. MaxFlaws
    BY QuietLimits DEF NoHeavy, Heavy
  <2> QED BY <2>1 DEF QuietInit, QuietTypeOK
<1>2. \A h \in HeavyTasks : heavy[h].sent = 0 /\ heavy[h].runs = 0 /\ mark[h] = 0 /\ since[h] = 0
  BY DEF QuietInit, NoHeavy
<1>3. MarkedInFlight /\ MarkHasReason
  BY <1>2, SMTT(30) DEF MarkedInFlight, MarkHasReason, InFlight
<1> QED BY <1>1, <1>2, <1>3, SMTT(30) DEF QuietInit, QInv, CooldownIsSet, UnknownIsAbsent

LEMMA HeavyTypes == ASSUME QInv, NEW h \in HeavyTasks
                    PROVE  /\ heavy[h].sent \in Nat /\ heavy[h].runs \in Nat
                           /\ heavy[h].known \in BOOLEAN /\ heavy[h].ending \in BOOLEAN
                           /\ mark[h] \in Nat /\ since[h] \in Nat
BY DEF QInv, QuietTypeOK, Heavy

\* A step of one task h: what it has to show about h, while the others stay.
LEMMA OneTask ==
    ASSUME QInv, NEW h \in HeavyTasks, QuietTypeOK',
           clock' = clock, ended' \in {ended, clock},
           blamed' = blamed \/ blamed' = blamed \cup {h},
           \A g \in HeavyTasks \ {h} : /\ heavy'[g] = heavy[g] /\ mark'[g] = mark[g]
                                       /\ since'[g] = since[g],
           since'[h] \in {since[h], clock},
           heavy'[h].known,
           h \notin blamed' =>
                /\ heavy'[h].sent + heavy'[h].runs <= 1
                /\ InFlight(h)' => mark'[h] = since'[h] + MarkKept,
           mark'[h] > 0 =>
                /\ mark'[h] <= since'[h] + MarkKept
                /\ InFlight(h)' \/ h \in blamed',
           CooldownIsSet'
    PROVE  QInv'
<1>1. ended' <= clock'
  BY SMTT(30) DEF QInv, QuietTypeOK
<1>2. \A g \in HeavyTasks : since'[g] <= clock'
  BY SMTT(30) DEF QInv, QuietTypeOK
<1>3. \A g \in HeavyTasks \ {h} : g \in blamed' <=> g \in blamed
  OBVIOUS
<1>4. MarkedInFlight'
  BY <1>3, SMTT(30) DEF QInv, MarkedInFlight, InFlight
<1>5. MarkHasReason'
  BY <1>3, SMTT(30) DEF QInv, MarkHasReason, InFlight
<1>6. UnknownIsAbsent'
  BY DEF QInv, UnknownIsAbsent, NoHeavy
<1> QED BY <1>1, <1>2, <1>4, <1>5, <1>6 DEF QInv

\* As long as no end begins or is finished, the cooldown is as it should be.
LEMMA CooldownStays == ASSUME QInv, UNCHANGED <<cool, ended>>, blamed \subseteq blamed',
                              \A h \in HeavyTasks : heavy[h].ending => heavy'[h].ending
                       PROVE  CooldownIsSet'
BY DEF QInv, CooldownIsSet

\* What changes the counts of a task.
LEMMA Recount ==
    ASSUME QInv, NEW h \in HeavyTasks, NEW sent \in Nat, NEW runs \in Nat,
           heavy[h].sent > 0 \/ heavy[h].runs > 0,
           heavy' = [heavy EXCEPT ![h].sent = sent, ![h].runs = runs]
    PROVE  /\ heavy' \in [HeavyTasks -> Heavy]
           /\ \A g \in HeavyTasks \ {h} : heavy'[g] = heavy[g]
           /\ heavy'[h].sent = sent /\ heavy'[h].runs = runs
           /\ heavy'[h].known /\ heavy'[h].ending = heavy[h].ending
<1> DEFINE one == [[heavy[h] EXCEPT !.sent = sent] EXCEPT !.runs = runs]
<1>1. heavy[h] \in Heavy /\ heavy \in [HeavyTasks -> Heavy]
  BY DEF QInv, QuietTypeOK
<1>2. one \in Heavy /\ one.sent = sent /\ one.runs = runs
      /\ one.known = heavy[h].known /\ one.ending = heavy[h].ending
  BY <1>1 DEF Heavy
<1>3. heavy[h].known
  BY SMTT(30) DEF QInv, UnknownIsAbsent, NoHeavy
<1>4. heavy' = [heavy EXCEPT ![h] = one]
  OBVIOUS
<1> HIDE DEF one
<1> QED BY <1>1, <1>2, <1>3, <1>4, ZenonT(40)

LEMMA PublishKeeps == ASSUME QInv, NEW h \in HeavyTasks, Publish(h) \/ Retry(h) PROVE QInv'
<1>1. /\ heavy' \in [HeavyTasks -> Heavy]
      /\ \A g \in HeavyTasks \ {h} : heavy'[g] = heavy[g]
      /\ h \notin blamed => heavy'[h].sent = 1 /\ heavy'[h].runs = 0
      /\ heavy'[h].sent > 0
      /\ heavy'[h].known /\ (heavy[h].ending => heavy'[h].ending)
  <2>1. CASE Publish(h)
    <3> DEFINE one == [NoHeavy EXCEPT !.known = TRUE, !.sent = 1]
    <3>1. one \in Heavy /\ one.sent = 1 /\ one.runs = 0 /\ one.known = TRUE
      BY DEF NoHeavy, Heavy
    <3>2. heavy' = [heavy EXCEPT ![h] = one] /\ ~heavy[h].known
      BY <2>1 DEF Publish
    <3>3. ~heavy[h].ending
      BY <3>2 DEF QInv, UnknownIsAbsent, NoHeavy
    <3> HIDE DEF one
    <3>4. heavy'[h] = one /\ heavy' \in [HeavyTasks -> Heavy]
          /\ \A g \in HeavyTasks \ {h} : heavy'[g] = heavy[g]
      BY <3>1, <3>2 DEF QInv, QuietTypeOK
    <3> QED BY <3>1, <3>3, <3>4
  <2>2. CASE Retry(h)
    <3>1. heavy[h].runs > 0
          /\ heavy' = [heavy EXCEPT ![h].sent = heavy[h].sent + 1, ![h].runs = heavy[h].runs - 1]
      BY <2>2 DEF Retry, QInv, QuietTypeOK
    <3>2. h \notin blamed => heavy[h].sent = 0 /\ heavy[h].runs = 1
      BY <3>1, HeavyTypes, SMTT(30) DEF QInv, MarkedInFlight
    <3>3. heavy[h].sent + 1 \in Nat /\ heavy[h].runs - 1 \in Nat
      BY <3>1, HeavyTypes
    <3>4. /\ heavy' \in [HeavyTasks -> Heavy]
          /\ \A g \in HeavyTasks \ {h} : heavy'[g] = heavy[g]
          /\ heavy'[h].sent = heavy[h].sent + 1 /\ heavy'[h].runs = heavy[h].runs - 1
          /\ heavy'[h].known /\ heavy'[h].ending = heavy[h].ending
      BY <3>1, <3>3, Recount
    <3> QED BY <3>2, <3>4, HeavyTypes
  <2> QED BY <2>1, <2>2
<1>2. UNCHANGED <<clock, cool, ended>> /\ Published(h)
  BY DEF Publish, Retry
<1>3. QuietTypeOK'
  BY <1>1, <1>2, QuietLimits, SMTT(30) DEF Published, Flaw, Fine, QInv, QuietTypeOK
<1>4. \A g \in HeavyTasks \ {h} : /\ heavy'[g] = heavy[g] /\ mark'[g] = mark[g]
                                  /\ since'[g] = since[g]
  BY <1>1, <1>2 DEF Published, QInv, QuietTypeOK
<1>5. since'[h] = clock
  BY <1>2 DEF Published, QInv, QuietTypeOK
<1>6. \/ mark'[h] = clock + MarkKept /\ blamed' = blamed
      \/ mark'[h] = mark[h] /\ blamed' = blamed \cup {h}
  BY <1>2 DEF Published, Flaw, Fine, QInv, QuietTypeOK
<1>7. CooldownIsSet'
  BY <1>1, <1>2, <1>4, <1>6, CooldownStays
<1>8. mark'[h] > 0 => mark'[h] <= since'[h] + MarkKept
  BY <1>5, <1>6, HeavyTypes, QuietLimits, SMTT(30) DEF QInv, QuietTypeOK, MarkHasReason
<1> QED BY <1>1, <1>2, <1>3, <1>4, <1>5, <1>6, <1>7, <1>8, OneTask, SMTT(30) DEF InFlight

\* Its workers and messages change, and what is unusual about it is blamed.
LEMMA MoveKeeps == ASSUME QInv, NEW h \in HeavyTasks,
                          StartHeavy(h) \/ HeavyDies(h) \/ DeliverAgain(h)
                   PROVE  QInv'
<1>1. UNCHANGED <<clock, mark, cool, since, ended>>
      /\ (flaws' \in 0 .. MaxFlaws)
      /\ (blamed' = blamed \/ blamed' = blamed \cup {h})
  BY QuietLimits, SMTT(30)
  DEF StartHeavy, HeavyDies, DeliverAgain, Fine, Flaw, QInv, QuietTypeOK
<1>2. /\ heavy' \in [HeavyTasks -> Heavy]
      /\ \A g \in HeavyTasks \ {h} : heavy'[g] = heavy[g]
      /\ heavy'[h].known /\ heavy'[h].ending = heavy[h].ending
      /\ h \notin blamed' => heavy'[h].sent + heavy'[h].runs = heavy[h].sent + heavy[h].runs
                             /\ InFlight(h)'
      /\ InFlight(h)
  <2>1. CASE StartHeavy(h)
    <3>1. heavy[h].sent > 0
          /\ heavy' = [heavy EXCEPT ![h].sent = heavy[h].sent - 1, ![h].runs = heavy[h].runs + 1]
      BY <2>1 DEF StartHeavy, QInv, QuietTypeOK
    <3>2. heavy[h].sent - 1 \in Nat /\ heavy[h].runs + 1 \in Nat
      BY <3>1, HeavyTypes
    <3>3. /\ heavy' \in [HeavyTasks -> Heavy]
          /\ \A g \in HeavyTasks \ {h} : heavy'[g] = heavy[g]
          /\ heavy'[h].sent = heavy[h].sent - 1 /\ heavy'[h].runs = heavy[h].runs + 1
          /\ heavy'[h].known /\ heavy'[h].ending = heavy[h].ending
      BY <3>1, <3>2, Recount
    <3> QED BY <3>1, <3>3, HeavyTypes DEF InFlight
  <2>2. CASE HeavyDies(h) \/ DeliverAgain(h)
    <3>1. heavy[h].runs > 0 /\ h \in blamed'
      BY <2>2 DEF HeavyDies, DeliverAgain, Flaw
    <3>2. PICK sent \in Nat, runs \in Nat :
            heavy' = [heavy EXCEPT ![h].sent = sent, ![h].runs = runs]
      <4>1. heavy[h].runs - 1 \in Nat /\ heavy[h].runs \in Nat
            /\ heavy[h].sent \in Nat /\ heavy[h].sent + 1 \in Nat
        BY <3>1, HeavyTypes
      <4>2. \/ heavy' = [heavy EXCEPT ![h].sent = heavy[h].sent + 1, ![h].runs = heavy[h].runs - 1]
            \/ heavy' = [heavy EXCEPT ![h].sent = heavy[h].sent, ![h].runs = heavy[h].runs - 1]
            \/ heavy' = [heavy EXCEPT ![h].sent = heavy[h].sent + 1, ![h].runs = heavy[h].runs]
        <5>1. heavy[h] \in Heavy /\ heavy \in [HeavyTasks -> Heavy]
          BY DEF QInv, QuietTypeOK
        <5>2. [heavy[h] EXCEPT !.sent = heavy[h].sent] = heavy[h]
              /\ [[heavy[h] EXCEPT !.sent = heavy[h].sent + 1] EXCEPT !.runs = heavy[h].runs]
                    = [heavy[h] EXCEPT !.sent = heavy[h].sent + 1]
          BY <5>1 DEF Heavy
        <5>3. \/ heavy' = [heavy EXCEPT ![h] = [[heavy[h] EXCEPT !.runs = heavy[h].runs - 1]
                                              EXCEPT !.sent = heavy[h].sent + 1]]
              \/ heavy' = [heavy EXCEPT ![h] = [heavy[h] EXCEPT !.runs = heavy[h].runs - 1]]
              \/ heavy' = [heavy EXCEPT ![h] = [heavy[h] EXCEPT !.sent = heavy[h].sent + 1]]
          BY <2>2, <5>1 DEF HeavyDies, DeliverAgain
        <5>4. [[heavy[h] EXCEPT !.runs = heavy[h].runs - 1] EXCEPT !.sent = heavy[h].sent + 1]
                = [[heavy[h] EXCEPT !.sent = heavy[h].sent + 1] EXCEPT !.runs = heavy[h].runs - 1]
          BY <5>1 DEF Heavy
        <5> QED BY <5>2, <5>3, <5>4, ZenonT(40)
      <4> QED BY <4>1, <4>2
    <3> QED BY <3>1, <3>2, Recount DEF InFlight
  <2> QED BY <2>1, <2>2
<1>3. QuietTypeOK'
  BY <1>1, <1>2 DEF QInv, QuietTypeOK
<1>4. CooldownIsSet'
  BY <1>1, <1>2, CooldownStays
<1>5. h \notin blamed' => heavy'[h].sent + heavy'[h].runs <= 1 /\ mark[h] = since[h] + MarkKept
  BY <1>1, <1>2, SMTT(30) DEF QInv, MarkedInFlight
<1>6. mark[h] > 0 => mark[h] <= since[h] + MarkKept
  BY DEF QInv, MarkHasReason
<1> QED BY <1>1, <1>2, <1>3, <1>4, <1>5, <1>6, OneTask, SMTT(30)

LEMMA EndKeeps == ASSUME QInv, NEW h \in HeavyTasks, EndHeavy(h) PROVE QInv'
<1>0. heavy[h].runs > 0 /\ heavy[h].runs - 1 \in Nat /\ heavy[h] \in Heavy /\ heavy[h].known
  BY HeavyTypes, SMTT(30) DEF EndHeavy, QInv, QuietTypeOK, UnknownIsAbsent, NoHeavy
<1>1. /\ heavy' \in [HeavyTasks -> Heavy]
      /\ \A g \in HeavyTasks \ {h} : heavy'[g] = heavy[g]
      /\ heavy'[h].sent = heavy[h].sent /\ heavy'[h].runs = heavy[h].runs - 1
      /\ heavy'[h].known
      /\ heavy'[h].ending \/ h \in blamed'
  <2> DEFINE one == [heavy[h] EXCEPT !.runs = heavy[h].runs - 1]
             two == [one EXCEPT !.ending = TRUE]
  <2>1. /\ one \in Heavy /\ one.sent = heavy[h].sent /\ one.runs = heavy[h].runs - 1
        /\ one.known = heavy[h].known
    BY <1>0 DEF Heavy
  <2>2. /\ two \in Heavy /\ two.sent = one.sent /\ two.runs = one.runs
        /\ two.known = one.known /\ two.ending = TRUE
    BY <2>1 DEF Heavy
  <2>3. \/ heavy' = [heavy EXCEPT ![h] = two]
        \/ heavy' = [heavy EXCEPT ![h] = one] /\ h \in blamed'
    BY DEF EndHeavy, Flaw, QInv, QuietTypeOK
  <2>4. heavy \in [HeavyTasks -> Heavy]
    BY DEF QInv, QuietTypeOK
  <2> HIDE DEF one, two
  <2> QED BY <1>0, <2>1, <2>2, <2>3, <2>4
<1>2. UNCHANGED <<clock, cool, since>> /\ ended' = clock
  BY DEF EndHeavy
<1>3. \/ mark' = [mark EXCEPT ![h] = 0] /\ blamed' = blamed /\ flaws' = flaws
      \/ mark' = mark /\ blamed' = blamed \cup {h} /\ flaws' \in 0 .. MaxFlaws
  BY QuietLimits, SMTT(30) DEF EndHeavy, Fine, Flaw, QInv, QuietTypeOK
<1>4. QuietTypeOK'
  BY <1>1, <1>2, <1>3, QuietLimits, SMTT(30) DEF QInv, QuietTypeOK
<1>5. CooldownIsSet'
  BY <1>1 DEF CooldownIsSet
<1>6. \A g \in HeavyTasks \ {h} : /\ heavy'[g] = heavy[g] /\ mark'[g] = mark[g]
                                  /\ since'[g] = since[g]
  BY <1>1, <1>2, <1>3 DEF QInv, QuietTypeOK
<1>7. h \notin blamed' => heavy'[h].sent = 0 /\ heavy'[h].runs = 0
  <2>1. h \notin blamed' => h \notin blamed
    BY <1>3
  <2>2. h \notin blamed => heavy[h].sent + heavy[h].runs <= 1
    BY DEF QInv, MarkedInFlight
  <2> QED BY <1>0, <1>1, <2>1, <2>2, HeavyTypes, SMTT(30)
<1>8. mark'[h] > 0 => mark'[h] <= since'[h] + MarkKept /\ h \in blamed'
  BY <1>2, <1>3, HeavyTypes, SMTT(30) DEF QInv, QuietTypeOK, MarkHasReason
<1> QED BY <1>1, <1>2, <1>3, <1>4, <1>5, <1>6, <1>7, <1>8, OneTask, SMTT(30) DEF InFlight

LEMMA SetCooldownKeeps == ASSUME QInv, NEW h \in HeavyTasks, SetCooldown(h) PROVE QInv'
<1> DEFINE one == [heavy[h] EXCEPT !.ending = FALSE]
<1>1. heavy[h] \in Heavy /\ heavy[h].known /\ heavy \in [HeavyTasks -> Heavy]
  BY DEF SetCooldown, QInv, QuietTypeOK, UnknownIsAbsent, NoHeavy
<1>2. one \in Heavy /\ one.sent = heavy[h].sent /\ one.runs = heavy[h].runs /\ one.known = heavy[h].known
  BY <1>1 DEF Heavy
<1>3. heavy' = [heavy EXCEPT ![h] = one]
  BY DEF SetCooldown
<1> HIDE DEF one
<1>4. /\ heavy' \in [HeavyTasks -> Heavy]
      /\ \A g \in HeavyTasks \ {h} : heavy'[g] = heavy[g]
      /\ heavy'[h].sent = heavy[h].sent /\ heavy'[h].runs = heavy[h].runs /\ heavy'[h].known
  BY <1>1, <1>2, <1>3
<1>5. UNCHANGED <<clock, mark, since, ended>>
  BY DEF SetCooldown
<1>6. \/ cool' = clock + Cooldown /\ blamed' = blamed /\ flaws' = flaws
      \/ cool' = cool /\ blamed' = blamed \cup {h} /\ flaws' \in 0 .. MaxFlaws
  BY QuietLimits, SMTT(30) DEF SetCooldown, Fine, Flaw, QInv, QuietTypeOK
<1>7. QuietTypeOK'
  BY <1>4, <1>5, <1>6, QuietLimits, SMTT(30) DEF QInv, QuietTypeOK
<1>8. CooldownIsSet'
  BY <1>5, <1>6, QuietLimits, SMTT(30) DEF QInv, QuietTypeOK, CooldownIsSet
<1>9. h \notin blamed' => /\ heavy'[h].sent + heavy'[h].runs <= 1
                          /\ InFlight(h)' => mark'[h] = since'[h] + MarkKept
  BY <1>4, <1>5, <1>6 DEF QInv, MarkedInFlight, InFlight
<1>10. mark'[h] > 0 => mark'[h] <= since'[h] + MarkKept /\ (InFlight(h)' \/ h \in blamed')
  BY <1>4, <1>5, <1>6 DEF QInv, MarkHasReason, InFlight
<1> QED BY <1>4, <1>5, <1>6, <1>7, <1>8, <1>9, <1>10, OneTask, SMTT(30)

LEMMA MinuteKeeps == ASSUME QInv, Minute PROVE QInv'
<1>1. QuietTypeOK'
  BY QuietLimits, SMTT(30) DEF Minute, QInv, QuietTypeOK
<1>2. clock \in Int /\ clock' = clock + 1 /\ ended \in Int /\ since \in [HeavyTasks -> Nat]
  BY DEF Minute, QInv, QuietTypeOK
<1>3. ended' <= clock' /\ \A h \in HeavyTasks : since'[h] <= clock'
  BY <1>2, SMTT(30) DEF Minute, QInv
<1>4. UnknownIsAbsent' /\ MarkedInFlight' /\ MarkHasReason' /\ CooldownIsSet'
  BY DEF Minute, QInv, UnknownIsAbsent, MarkedInFlight, MarkHasReason, CooldownIsSet, InFlight
<1> QED BY <1>1, <1>3, <1>4 DEF QInv

LEMMA QInvStep == QInv /\ [QuietNext]_quietVars => QInv'
<1> SUFFICES ASSUME QInv, [QuietNext]_quietVars PROVE QInv'
  OBVIOUS
<1>1. CASE UNCHANGED quietVars
  BY <1>1 DEF quietVars, QInv, QuietTypeOK, UnknownIsAbsent, MarkedInFlight, MarkHasReason,
              CooldownIsSet, InFlight
<1>2. CASE QuietNext
  BY <1>2, PublishKeeps, MoveKeeps, EndKeeps, SetCooldownKeeps, MinuteKeeps DEF QuietNext
<1> QED BY <1>1, <1>2

\* Agents are turned away while a heavy task is in flight and let in when none is
\* (core/agent_limits.py, quiet_retry_after), but for the tasks with which
\* something went wrong, for any tasks, schedules and lengths of the marker and
\* of the cooldown.
THEOREM GateIsRight == QuietSpec => []GateMatchesTasks
<1>1. QInv => GateMatchesTasks
  <2> SUFFICES ASSUME QInv PROVE GateMatchesTasks
    OBVIOUS
  <2>1. ASSUME ~TurnedAway, NEW h \in HeavyTasks \ blamed, InFlight(h)
        PROVE  ~Recently(since[h], MarkKept)
    <3>1. mark[h] = since[h] + MarkKept /\ ~(mark[h] > clock)
      BY <2>1 DEF TurnedAway, IsMarked, QInv, MarkedInFlight
    <3> QED BY <3>1, HeavyTypes, QuietLimits, SMTT(30) DEF Recently, QInv, QuietTypeOK
  <2>2. ASSUME ~TurnedAway, Recently(ended, Cooldown)
        PROVE  blamed # {} \/ \E h \in HeavyTasks : heavy[h].ending
    <3>1. ~(cool > clock)
      BY <2>2 DEF TurnedAway, IsCooling
    <3> QED BY <2>2, <3>1, QuietLimits, SMTT(30)
            DEF Recently, QInv, QuietTypeOK, CooldownIsSet
  <2>3. ASSUME TurnedAway, ~IsScheduled, ~IsCooling
        PROVE  \E h \in HeavyTasks :
                    (InFlight(h) \/ h \in blamed) /\ Recently(since[h], MarkKept)
    <3>1. PICK h \in HeavyTasks : mark[h] > clock
      BY <2>3 DEF TurnedAway, IsMarked
    <3>2. mark[h] > 0
      BY <3>1, HeavyTypes, SMTT(30) DEF QInv, QuietTypeOK
    <3>3. Recently(since[h], MarkKept)
      BY <3>1, <3>2, HeavyTypes, QuietLimits, SMTT(30)
      DEF Recently, QInv, QuietTypeOK, MarkHasReason
    <3> QED BY <3>2, <3>3 DEF QInv, MarkHasReason
  <2> QED BY <2>1, <2>2, <2>3 DEF GateMatchesTasks, QInv
<1> QED BY QInvInit, QInvStep, <1>1, PTL DEF QuietSpec

-----------------------------------------------------------------------------
(* Notices.  The one mail of a notice is in one place at a time: with the  *)
(* request that claimed it, in the queue, with a worker, or sent.  The sum *)
(* over these places (Way) is at most one unless a message was repeated,   *)
(* and at least one, once claimed, unless a trouble spent the claim.       *)

One(p) == IF p THEN 1 ELSE 0

\* The messages that wait, with the claim and without.
Sealed == waiting[[claimed |-> TRUE, retries |-> 0]] + waiting[[claimed |-> TRUE, retries |-> 1]]
Unsealed == waiting[[claimed |-> FALSE, retries |-> 0]] + waiting[[claimed |-> FALSE, retries |-> 1]]

\* A worker that holds the claim, and one that may still take it.
Holds(s) == \/ s.at \in {"send", "failed"}
            \/ s.at \in {"judge", "claim"} /\ s.message.claimed
Hopes(s) == s.at \in {"judge", "claim"} /\ ~s.message.claimed
Held(s) == One(Holds(s))
Hoped(s) == One(Hopes(s))
Holders == {w \in Senders : Holds(sender[w])}
Hopers == {w \in Senders : Hopes(sender[w])}

\* Where the one mail is: with a request, in the queue, with a worker, or sent.
Way == asking + Sealed + Cardinality(Holders) + mails
Pending == Unsealed + Cardinality(Hopers)

Arguments ==
    /\ asking <= occasions
    /\ telling = "alert" => asking = 0
    /\ telling # "alert" =>
        /\ Unsealed = 0
        /\ \A w \in Senders : ~Hopes(sender[w])
        /\ \A w \in Senders : sender[w].at # "idle" => sender[w].message.claimed
    /\ \A w \in Senders : sender[w].at = "claim" => ~sender[w].message.claimed

OneWay ==
    ~repeated => /\ Way <= 1
                 /\ ~claimed => Way = 0

Owed ==
    ~spent => /\ claimed => Way >= 1
              /\ Way >= 1 \/ occasions <= dropped + Pending

NInv == NoticesTypeOK /\ Arguments /\ OneWay /\ Owed

LEMMA OneElement ==
    ASSUME NEW S, NEW T, NEW w, IsFiniteSet(S), T \ {w} = S \ {w}
    PROVE  /\ IsFiniteSet(T) /\ Cardinality(S) \in Nat /\ Cardinality(T) \in Nat
           /\ Cardinality(T) = Cardinality(S) + One(w \in T) - One(w \in S)
<1> DEFINE R == S \ {w}
<1>1. IsFiniteSet(R) /\ Cardinality(R) \in Nat
  BY FS_Subset, FS_CardinalityType
<1>2. w \notin R
  OBVIOUS
<1>3. /\ IsFiniteSet(R \cup {w}) /\ Cardinality(R \cup {w}) = Cardinality(R) + 1
  BY <1>1, <1>2, FS_AddElement
<1>4. (w \in S => S = R \cup {w}) /\ (w \notin S => S = R)
  OBVIOUS
<1>5. (w \in T => T = R \cup {w}) /\ (w \notin T => T = R)
  OBVIOUS
<1> HIDE DEF R
<1>6. Cardinality(S) = Cardinality(R) + One(w \in S)
  BY <1>1, <1>3, <1>4 DEF One
<1>7. IsFiniteSet(T) /\ Cardinality(T) = Cardinality(R) + One(w \in T)
  <2>1. CASE w \in T
    BY <2>1, <1>3, <1>5 DEF One
  <2>2. CASE w \notin T
    BY <2>2, <1>1, <1>5 DEF One
  <2> QED BY <2>1, <2>2
<1>8. One(w \in S) \in Nat /\ One(w \in T) \in Nat
  BY DEF One
<1> QED BY <1>1, <1>6, <1>7, <1>8

LEMMA NoticeLimits == Occasions \in Nat /\ MaxTroubles \in Nat /\ IsFiniteSet(Senders)
BY NoticesAssumption

LEMMA FourMessages == /\ [claimed |-> TRUE, retries |-> 0] \in Message
                      /\ [claimed |-> TRUE, retries |-> 1] \in Message
                      /\ [claimed |-> FALSE, retries |-> 0] \in Message
                      /\ [claimed |-> FALSE, retries |-> 1] \in Message
BY DEF Message

LEMMA NoticeTypes ==
    ASSUME NoticesTypeOK
    PROVE  /\ asking \in Nat /\ mails \in Nat /\ occasions \in Nat /\ dropped \in Nat
           /\ troubles \in Nat
           /\ claimed \in BOOLEAN /\ spent \in BOOLEAN /\ repeated \in BOOLEAN
           /\ \A w \in Senders : sender[w] \in Sender
           /\ Sealed \in Nat /\ Unsealed \in Nat
           /\ \A m \in Message : waiting[m] \in Nat
           /\ IsFiniteSet(Holders) /\ IsFiniteSet(Hopers)
           /\ Cardinality(Holders) \in Nat /\ Cardinality(Hopers) \in Nat
           /\ Way \in Nat /\ Pending \in Nat
<1>1. asking \in Nat /\ mails \in Nat /\ occasions \in Nat /\ dropped \in Nat /\ troubles \in Nat
  BY NoticeLimits DEF NoticesTypeOK
<1>2. claimed \in BOOLEAN /\ spent \in BOOLEAN /\ repeated \in BOOLEAN
      /\ \A w \in Senders : sender[w] \in Sender
  BY DEF NoticesTypeOK
<1>4. \A m \in Message : waiting[m] \in Nat
  BY DEF NoticesTypeOK
<1>5. Sealed \in Nat /\ Unsealed \in Nat
  <2>1. /\ waiting[[claimed |-> TRUE, retries |-> 0]] \in Nat
        /\ waiting[[claimed |-> TRUE, retries |-> 1]] \in Nat
        /\ waiting[[claimed |-> FALSE, retries |-> 0]] \in Nat
        /\ waiting[[claimed |-> FALSE, retries |-> 1]] \in Nat
    BY <1>4, FourMessages
  <2> QED BY <2>1 DEF Sealed, Unsealed
<1>6. IsFiniteSet(Holders) /\ IsFiniteSet(Hopers)
  BY NoticeLimits, FS_Subset DEF Holders, Hopers
<1>7. Cardinality(Holders) \in Nat /\ Cardinality(Hopers) \in Nat
  BY <1>6, FS_CardinalityType
<1>8. Way \in Nat /\ Pending \in Nat
  BY <1>1, <1>5, <1>7 DEF Way, Pending
<1> QED BY <1>1, <1>2, <1>4, <1>5, <1>6, <1>7, <1>8

\* A message is queued or taken.
LEMMA WaitingChanges ==
    ASSUME NoticesTypeOK, NEW m \in Message, NEW d \in Int, waiting[m] + d \in Nat,
           waiting' = [waiting EXCEPT ![m] = waiting[m] + d]
    PROVE  /\ waiting' \in [Message -> Nat]
           /\ m.claimed => Sealed' = Sealed + d /\ Unsealed' = Unsealed
           /\ ~m.claimed => Unsealed' = Unsealed + d /\ Sealed' = Sealed
<1> DEFINE M(c, r) == [claimed |-> c, retries |-> r]
<1>1. PICK c \in BOOLEAN, r \in {0, 1} : m = M(c, r) /\ m.claimed = c
  BY DEF Message
<1>2. \A e \in BOOLEAN, q \in {0, 1} : M(e, q) \in Message
  BY DEF Message
<1>3. waiting' \in [Message -> Nat]
  BY DEF NoticesTypeOK
<1>4. \A e \in BOOLEAN, q \in {0, 1} : M(e, q) = m => e = c /\ q = r
  BY <1>1 DEF Message
<1>5. \A n \in Message : waiting'[n] = IF n = m THEN waiting[n] + d ELSE waiting[n]
  BY DEF NoticesTypeOK
<1>6. \A n \in Message : waiting[n] \in Nat
  BY DEF NoticesTypeOK
<1> DEFINE Sum(e) == waiting[M(e, 0)] + waiting[M(e, 1)]
           Then(e) == waiting'[M(e, 0)] + waiting'[M(e, 1)]
<1>7. /\ Sealed = Sum(TRUE) /\ Sealed' = Then(TRUE)
      /\ Unsealed = Sum(FALSE) /\ Unsealed' = Then(FALSE)
  BY DEF Sealed, Unsealed
<1> HIDE DEF M
<1>8. Then(c) = Sum(c) + d
  <2>1. CASE r = 0
    <3>1. waiting'[M(c, 0)] = waiting[M(c, 0)] + d /\ waiting'[M(c, 1)] = waiting[M(c, 1)]
      BY <1>1, <1>2, <1>4, <1>5, <2>1
    <3> QED BY <3>1, <1>2, <1>6
  <2>2. CASE r = 1
    <3>1. waiting'[M(c, 1)] = waiting[M(c, 1)] + d /\ waiting'[M(c, 0)] = waiting[M(c, 0)]
      BY <1>1, <1>2, <1>4, <1>5, <2>2
    <3> QED BY <3>1, <1>2, <1>6
  <2> QED BY <2>1, <2>2
<1>9. \A e \in BOOLEAN : e # c => Then(e) = Sum(e)
  <2> TAKE e \in BOOLEAN
  <2> HAVE e # c
  <2>1. M(e, 0) # m /\ M(e, 1) # m
    BY <1>4
  <2>2. waiting'[M(e, 0)] = waiting[M(e, 0)] /\ waiting'[M(e, 1)] = waiting[M(e, 1)]
    BY <2>1, <1>2, <1>5
  <2> QED BY <2>2
<1> HIDE DEF Sum, Next
<1>10. CASE c = TRUE
  BY <1>1, <1>3, <1>7, <1>8, <1>9, <1>10
<1>11. CASE c = FALSE
  BY <1>1, <1>3, <1>7, <1>8, <1>9, <1>11
<1> QED BY <1>10, <1>11

\* One worker comes to hold another place or message.
LEMMA SenderChanges ==
    ASSUME NoticesTypeOK, NEW w \in Senders, NEW s \in Sender,
           sender' = [sender EXCEPT ![w] = s]
    PROVE  /\ sender' \in [Senders -> Sender]
           /\ sender'[w] = s /\ \A v \in Senders \ {w} : sender'[v] = sender[v]
           /\ Cardinality(Holders') \in Nat /\ Cardinality(Hopers') \in Nat
           /\ Cardinality(Holders') = Cardinality(Holders) + Held(s) - Held(sender[w])
           /\ Cardinality(Hopers') = Cardinality(Hopers) + Hoped(s) - Hoped(sender[w])
<1>1. /\ sender' \in [Senders -> Sender]
      /\ sender'[w] = s /\ \A v \in Senders \ {w} : sender'[v] = sender[v]
  BY DEF NoticesTypeOK
<1>2. Holders' \ {w} = Holders \ {w} /\ Hopers' \ {w} = Hopers \ {w}
  BY <1>1 DEF Holders, Hopers
<1>3. /\ w \in Holders <=> Holds(sender[w])
      /\ w \in Hopers <=> Hopes(sender[w])
      /\ w \in Holders' <=> Holds(s)
      /\ w \in Hopers' <=> Hopes(s)
  BY <1>1 DEF Holders, Hopers
<1>4. IsFiniteSet(Holders) /\ IsFiniteSet(Hopers)
  BY NoticeTypes
<1>5. /\ Cardinality(Holders') \in Nat
      /\ Cardinality(Holders') = Cardinality(Holders) + One(w \in Holders') - One(w \in Holders)
  BY <1>2, <1>4, OneElement
<1>6. /\ Cardinality(Hopers') \in Nat
      /\ Cardinality(Hopers') = Cardinality(Hopers) + One(w \in Hopers') - One(w \in Hopers)
  BY <1>2, <1>4, OneElement
<1> QED BY <1>1, <1>3, <1>5, <1>6 DEF One, Held, Hoped

LEMMA NInvInit == NoticesInit => NInv
<1> SUFFICES ASSUME NoticesInit PROVE NInv
  OBVIOUS
<1>1. NoticesTypeOK
  <2>1. sender \in [Senders -> Sender] /\ waiting \in [Message -> Nat]
    <3>1. IdleSender \in Sender
      BY DEF IdleSender, Sender, Message
    <3> QED BY <3>1 DEF NoticesInit
  <2>2. 0 \in 0 .. Occasions /\ 0 \in 0 .. MaxTroubles
    BY NoticeLimits
  <2> QED BY <2>1, <2>2 DEF NoticesInit, NoticesTypeOK
<1>2. \A w \in Senders : ~Holds(sender[w]) /\ ~Hopes(sender[w]) /\ sender[w].at = "idle"
  BY DEF NoticesInit, IdleSender, Holds, Hopes
<1>3. Holders = {} /\ Hopers = {}
  BY <1>2 DEF Holders, Hopers
<1>4. Cardinality(Holders) = 0 /\ Cardinality(Hopers) = 0
  BY <1>3, FS_EmptySet
<1>5. Sealed = 0 /\ Unsealed = 0
  <2>1. \A m \in Message : waiting[m] = 0
    BY DEF NoticesInit
  <2>2. /\ waiting[[claimed |-> TRUE, retries |-> 0]] = 0
        /\ waiting[[claimed |-> TRUE, retries |-> 1]] = 0
        /\ waiting[[claimed |-> FALSE, retries |-> 0]] = 0
        /\ waiting[[claimed |-> FALSE, retries |-> 1]] = 0
    BY <2>1, FourMessages
  <2> QED BY <2>2 DEF Sealed, Unsealed
<1>6. Way = 0 /\ Pending = 0
  BY <1>4, <1>5 DEF Way, Pending, NoticesInit
<1>7. Arguments
  BY <1>2, <1>5, SMTT(30) DEF Arguments, NoticesInit
<1>8. OneWay /\ Owed
  BY <1>6 DEF OneWay, Owed, NoticesInit
<1> QED BY <1>1, <1>7, <1>8 DEF NInv

LEMMA SameWaiting == waiting' = waiting => Sealed' = Sealed /\ Unsealed' = Unsealed
BY DEF Sealed, Unsealed

LEMMA SameSender == sender' = sender => Holders' = Holders /\ Hopers' = Hopers
BY DEF Holders, Hopers

\* What the arguments say does not depend on how many messages there are, unless
\* one without a claim comes.
LEMMA ArgumentsStay ==
    ASSUME NInv, NoticesTypeOK', telling' = telling, sender' = sender,
           Unsealed' = Unsealed, asking' <= occasions', telling = "alert" => asking' = 0
    PROVE  Arguments'
BY DEF NInv, Arguments

LEMMA ClaimKeeps == ASSUME NInv, Claim PROVE NInv'
<1>0. /\ telling # "alert" /\ telling' = telling
      /\ occasions' = occasions + 1 /\ occasions' \in 0 .. Occasions
      /\ UNCHANGED <<waiting, sender, mails>>
  BY NoticeTypes, NoticeLimits DEF Claim, Occasion, NInv
<1>1. Sealed' = Sealed /\ Unsealed' = Unsealed /\ Holders' = Holders /\ Hopers' = Hopers
  BY <1>0, SameWaiting, SameSender
<1>2. asking \in Nat /\ asking <= occasions
  BY NoticeTypes DEF NInv, Arguments
<1>3. NoticesTypeOK'
  <2>1. claimed' \in BOOLEAN /\ spent' = spent /\ repeated' = repeated
    BY DEF Claim, NInv, NoticesTypeOK, NoHarm, Dropped
  <2>2. asking' \in 0 .. Occasions /\ dropped' \in Nat
    BY <1>0, <1>2, NoticeTypes, NoticeLimits DEF Claim, NInv, NoHarm, Dropped
  <2>3. troubles' \in 0 .. MaxTroubles
    BY NoticeTypes, NoticeLimits DEF Claim, NInv, NoticesTypeOK, Trouble
  <2> QED BY <1>0, <2>1, <2>2, <2>3 DEF NInv, NoticesTypeOK
<1>4. Arguments'
  BY <1>0, <1>1, <1>2, <1>3, NoticeTypes, ArgumentsStay, SMTT(30) DEF Claim, NInv
<1>5. Way' = Way + (asking' - asking) /\ Pending' = Pending
  BY <1>0, <1>1, <1>2, <1>3, NoticeTypes, SMTT(30) DEF Way, Pending, NInv, NoticesTypeOK
<1>6. OneWay' /\ Owed'
  BY <1>0, <1>2, <1>3, <1>5, NoticeTypes, SMTT(30)
  DEF Claim, NInv, OneWay, Owed, Trouble, NoHarm, Dropped
<1> QED BY <1>3, <1>4, <1>6 DEF NInv

\* The message of a notice and the message of an alert.
LEMMA FreshTypes == /\ Fresh \in Message
                    /\ telling # "alert" => Fresh.claimed
                    /\ telling = "alert" => ~Fresh.claimed
BY DEF Fresh, Message

LEMMA QueueCounts ==
    ASSUME NoticesTypeOK, NEW m \in Message, Queue(m)
    PROVE  /\ waiting' \in [Message -> Nat]
           /\ m.claimed => Sealed' = Sealed + 1 /\ Unsealed' = Unsealed
           /\ ~m.claimed => Unsealed' = Unsealed + 1 /\ Sealed' = Sealed
<1>1. waiting[m] \in Nat /\ waiting[m] + 1 \in Nat
  BY NoticeTypes
<1>2. waiting' = [waiting EXCEPT ![m] = waiting[m] + 1]
  BY DEF Queue, NoticesTypeOK
<1>3. 1 \in Int
  OBVIOUS
<1> QED BY <1>1, <1>2, <1>3, WaitingChanges

\* A request leaves the place between the claim and the queue.
LEMMA RequestKeeps == ASSUME NInv, QueueNotice \/ NoticeFails \/ RequestDies PROVE NInv'
<1>0. /\ asking > 0 /\ asking' = asking - 1 /\ telling' = telling
      /\ UNCHANGED <<sender, mails, occasions>>
  BY DEF QueueNotice, NoticeFails, RequestDies
<1>1. asking \in Nat /\ asking <= occasions /\ telling # "alert"
  BY <1>0, NoticeTypes DEF NInv, Arguments
<1>2. Fresh \in Message /\ Fresh.claimed
  BY <1>1, FreshTypes
<1>3. /\ waiting' \in [Message -> Nat]
      /\ \/ Queue(Fresh) /\ Sealed' = Sealed + 1
         \/ UNCHANGED waiting /\ Sealed' = Sealed
      /\ Unsealed' = Unsealed
  <2>1. CASE Queue(Fresh)
    BY <1>2, <2>1, QueueCounts DEF NInv
  <2>2. CASE waiting' = waiting
    BY <2>2, SameWaiting DEF NInv, NoticesTypeOK
  <2> QED BY <2>1, <2>2 DEF QueueNotice, NoticeFails, RequestDies
<1>4. claimed' \in BOOLEAN /\ spent' \in BOOLEAN /\ repeated' \in BOOLEAN
  BY <1>1 DEF QueueNotice, NoticeFails, RequestDies, NoHarm, Spent, Repeated, AllDropped,
              NInv, NoticesTypeOK
<1>5. NoticesTypeOK'
  <2>1. dropped' \in Nat /\ troubles' \in 0 .. MaxTroubles
    BY NoticeTypes, NoticeLimits, SMTT(30)
    DEF QueueNotice, NoticeFails, RequestDies, Trouble, NoHarm, Spent, Repeated, AllDropped,
        NInv, NoticesTypeOK
  <2>2. asking' \in 0 .. Occasions
    BY <1>0, <1>1, NoticeLimits DEF NInv, NoticesTypeOK
  <2> QED BY <1>0, <1>3, <1>4, <2>1, <2>2 DEF NInv, NoticesTypeOK
<1>6. Arguments'
  BY <1>0, <1>1, <1>3, <1>5, NoticeTypes, ArgumentsStay, SMTT(30) DEF NInv
<1>7. Way' = Way - 1 + (Sealed' - Sealed) /\ Pending' = Pending /\ Way >= 1
  BY <1>0, <1>1, <1>3, SameSender, NoticeTypes, SMTT(30) DEF Way, Pending, NInv
<1>8. /\ Way \in Nat /\ Pending \in Nat /\ Sealed \in Nat
      /\ occasions \in Nat /\ dropped \in Nat
  BY NoticeTypes DEF NInv
<1>9. CASE Queue(Fresh) /\ (NoHarm \/ Repeated) /\ (claimed' = claimed \/ claimed' \/ Repeated)
  <2>1. Way' = Way
    BY <1>2, <1>7, <1>8, <1>9, QueueCounts DEF NInv
  <2>2. OneWay'
    BY <1>7, <1>8, <1>9, <2>1 DEF NInv, OneWay, NoHarm, Repeated
  <2>3. Owed'
    <3>1. Way' >= 1
      BY <1>7, <2>1
    <3> QED BY <3>1 DEF Owed
  <2> QED BY <1>5, <1>6, <2>2, <2>3 DEF NInv
<1>10. CASE waiting' = waiting /\ (Spent \/ (AllDropped /\ ~claimed'))
  <2>1. Way' = Way - 1
    BY <1>7, <1>8, <1>10, SameWaiting
  <2>2. Way <= 1 => Way' <= 1 /\ Way' = 0
    BY <1>7, <1>8, <2>1
  <2>3. OneWay'
    BY <1>10, <2>2 DEF NInv, OneWay, Spent, AllDropped
  <2>4. AllDropped => occasions' <= dropped' + Pending'
    BY <1>0, <1>7, <1>8 DEF AllDropped
  <2>5. Owed'
    <3>1. CASE Spent
      BY <3>1 DEF Owed, Spent
    <3>2. CASE AllDropped /\ ~claimed'
      BY <2>4, <3>2 DEF Owed
    <3> QED BY <1>10, <3>1, <3>2
  <2> QED BY <1>5, <1>6, <2>3, <2>5 DEF NInv
<1>11. QueueNotice => Queue(Fresh) /\ NoHarm /\ claimed' = claimed
  BY DEF QueueNotice
<1>12. NoticeFails => \/ waiting' = waiting /\ (Spent \/ (AllDropped /\ ~claimed'))
                      \/ Queue(Fresh) /\ (Repeated \/ (NoHarm /\ claimed' = claimed))
  BY DEF NoticeFails
<1>13. RequestDies => waiting' = waiting /\ Spent
  BY DEF RequestDies
<1> QED BY <1>9, <1>10, <1>11, <1>12, <1>13
LEMMA PrimedCounts == ASSUME waiting' \in [Message -> Nat]
                      PROVE  Sealed' \in Nat /\ Unsealed' \in Nat
<1>1. /\ waiting'[[claimed |-> TRUE, retries |-> 0]] \in Nat
      /\ waiting'[[claimed |-> TRUE, retries |-> 1]] \in Nat
      /\ waiting'[[claimed |-> FALSE, retries |-> 0]] \in Nat
      /\ waiting'[[claimed |-> FALSE, retries |-> 1]] \in Nat
  BY FourMessages
<1> QED BY <1>1 DEF Sealed, Unsealed

\* The ways in which a step may change the counts while the claim stays.
LEMMA Settle ==
    ASSUME NInv, NoticesTypeOK', Arguments', UNCHANGED <<claimed, occasions>>,
           Way' \in Nat, Pending' \in Nat,
           \/ NoHarm /\ Way' = Way /\ Pending' = Pending
           \/ Spent /\ Way' <= Way
           \/ Dropped /\ Way' = Way /\ Pending' + 1 = Pending
           \/ Repeated /\ Way' = Way + 1
    PROVE  NInv'
<1>0. Way \in Nat /\ Pending \in Nat /\ occasions \in Nat /\ dropped \in Nat
  BY NoticeTypes DEF NInv
<1>1. CASE NoHarm /\ Way' = Way /\ Pending' = Pending
  BY <1>1 DEF NInv, OneWay, Owed, NoHarm
<1>2. CASE Spent /\ Way' <= Way
  <2>1. (Way <= 1 => Way' <= 1) /\ (Way = 0 => Way' = 0)
    BY <1>0, <1>2
  <2>2. OneWay'
    BY <1>2, <2>1 DEF NInv, OneWay, Spent
  <2>3. Owed'
    BY <1>2 DEF Owed, Spent
  <2> QED BY <2>2, <2>3 DEF NInv
<1>3. CASE Dropped /\ Way' = Way /\ Pending' + 1 = Pending
  <2>1. dropped' + Pending' = dropped + Pending
    <3>1. dropped' = dropped + 1 /\ Pending = Pending' + 1 /\ Pending' \in Nat
      BY <1>3 DEF Dropped
    <3> QED BY <1>0, <3>1
  <2>2. OneWay'
    BY <1>3 DEF NInv, OneWay, Dropped
  <2>3. Owed'
    BY <1>3, <2>1 DEF NInv, Owed, Dropped
  <2> QED BY <2>2, <2>3 DEF NInv
<1>4. CASE Repeated /\ Way' = Way + 1
  <2>1. Way' >= 1
    BY <1>0, <1>4
  <2>2. OneWay'
    BY <1>4 DEF OneWay, Repeated
  <2>3. Owed'
    BY <2>1 DEF Owed
  <2> QED BY <2>2, <2>3 DEF NInv
<1> QED BY <1>1, <1>2, <1>3, <1>4

LEMMA HoldingsChangeKeeps == ASSUME NInv, HoldingsChange PROVE NInv'
<1>0. /\ telling = "alert" /\ telling' = telling
      /\ occasions' = occasions + 1 /\ occasions' \in 0 .. Occasions
      /\ UNCHANGED <<claimed, asking, sender, mails>>
  BY NoticeTypes, NoticeLimits DEF HoldingsChange, Occasion, NInv
<1>1. /\ Way \in Nat /\ Pending \in Nat /\ occasions \in Nat /\ dropped \in Nat
      /\ asking <= occasions /\ asking \in Nat /\ mails \in Nat
      /\ Sealed \in Nat /\ Unsealed \in Nat
      /\ Cardinality(Holders) \in Nat /\ Cardinality(Hopers) \in Nat
  BY NoticeTypes DEF NInv, Arguments
<1>2. CASE Queue(Fresh) /\ UNCHANGED troubles /\ NoHarm
  <2>1. /\ waiting' \in [Message -> Nat]
        /\ Sealed' = Sealed /\ Unsealed' = Unsealed + 1
    BY <1>0, <1>2, FreshTypes, QueueCounts DEF NInv
  <2>2. Way' = Way /\ Pending' = Pending + 1
    BY <1>0, <1>1, <2>1, SameSender DEF Way, Pending
  <2>3. NoticesTypeOK'
    BY <1>0, <1>2, <2>1 DEF NInv, NoticesTypeOK, NoHarm
  <2>4. Arguments'
    BY <1>0, <1>1 DEF NInv, Arguments
  <2>5. occasions <= dropped + Pending => occasions' <= dropped' + Pending'
    BY <1>0, <1>1, <1>2, <2>2 DEF NoHarm
  <2>6. OneWay' /\ Owed'
    BY <1>0, <1>2, <2>2, <2>5 DEF NInv, OneWay, Owed, NoHarm
  <2> QED BY <2>3, <2>4, <2>6 DEF NInv
<1>3. CASE UNCHANGED waiting /\ Trouble /\ Dropped
  <2>1. Sealed' = Sealed /\ Unsealed' = Unsealed
    BY <1>3, SameWaiting
  <2>2. Way' = Way /\ Pending' = Pending
    BY <1>0, <1>1, <2>1, SameSender DEF Way, Pending
  <2>3. NoticesTypeOK'
    <3>1. troubles' \in 0 .. MaxTroubles
      BY <1>3, NoticeLimits DEF NInv, NoticesTypeOK, Trouble
    <3>2. dropped' \in Nat
      BY <1>1, <1>3 DEF Dropped
    <3> QED BY <1>0, <1>3, <3>1, <3>2 DEF NInv, NoticesTypeOK, Dropped
  <2>4. Arguments'
    BY <1>0, <1>1 DEF NInv, Arguments
  <2>5. occasions <= dropped + Pending => occasions' <= dropped' + Pending'
    BY <1>0, <1>1, <1>3, <2>2 DEF Dropped
  <2>6. OneWay' /\ Owed'
    BY <1>0, <1>3, <2>2, <2>5 DEF NInv, OneWay, Owed, Dropped
  <2> QED BY <2>3, <2>4, <2>6 DEF NInv
<1> QED BY <1>2, <1>3 DEF HoldingsChange

-----------------------------------------------------------------------------
\* A worker takes another place, and messages and mails change with it.
LEMMA WorkerCounts ==
    ASSUME NInv, NEW w \in Senders, NEW s \in Sender, sender' = [sender EXCEPT ![w] = s],
           asking' = asking, waiting' \in [Message -> Nat], mails' \in Nat
    PROVE  /\ sender' \in [Senders -> Sender]
           /\ Sealed' \in Nat /\ Unsealed' \in Nat /\ Way' \in Nat /\ Pending' \in Nat
           /\ Way' = Way + (Held(s) - Held(sender[w])) + (Sealed' - Sealed) + (mails' - mails)
           /\ Pending' = Pending + (Hoped(s) - Hoped(sender[w])) + (Unsealed' - Unsealed)
<1>1. Sealed' \in Nat /\ Unsealed' \in Nat
  BY PrimedCounts
<1>2. /\ asking \in Nat /\ mails \in Nat /\ Sealed \in Nat /\ Unsealed \in Nat
      /\ Cardinality(Holders) \in Nat /\ Cardinality(Hopers) \in Nat
  BY NoticeTypes DEF NInv
<1>3. /\ sender' \in [Senders -> Sender]
      /\ Cardinality(Holders') \in Nat /\ Cardinality(Hopers') \in Nat
      /\ Cardinality(Holders') = Cardinality(Holders) + Held(s) - Held(sender[w])
      /\ Cardinality(Hopers') = Cardinality(Hopers) + Hoped(s) - Hoped(sender[w])
  BY SenderChanges DEF NInv
<1>4. Way' = asking' + Sealed' + Cardinality(Holders') + mails'
      /\ Pending' = Unsealed' + Cardinality(Hopers')
  BY DEF Way, Pending
<1>5. /\ Held(sender[w]) \in Nat /\ Held(s) \in Nat
      /\ Hoped(sender[w]) \in Nat /\ Hoped(s) \in Nat
  BY DEF One, Held, Hoped
<1> QED BY <1>1, <1>2, <1>3, <1>4, <1>5 DEF Way, Pending

LEMMA WorkerArguments ==
    ASSUME NInv, NEW w \in Senders, NEW s \in Sender, sender' = [sender EXCEPT ![w] = s],
           UNCHANGED <<telling, asking, occasions>>,
           s.at = "claim" => ~s.message.claimed,
           telling # "alert" => /\ Unsealed' = 0
                                /\ ~Hopes(s) /\ (s.at # "idle" => s.message.claimed)
    PROVE  Arguments'
<1>1. sender'[w] = s /\ \A v \in Senders \ {w} : sender'[v] = sender[v]
  BY SenderChanges DEF NInv
<1>2. \A v \in Senders : sender'[v].at = "claim" => ~sender'[v].message.claimed
  BY <1>1 DEF NInv, Arguments
<1>3. telling # "alert" => \A v \in Senders : ~Hopes(sender'[v])
  BY <1>1 DEF NInv, Arguments
<1>4. telling # "alert" =>
        \A v \in Senders : sender'[v].at # "idle" => sender'[v].message.claimed
  BY <1>1 DEF NInv, Arguments
<1> QED BY <1>2, <1>3, <1>4 DEF NInv, Arguments

LEMMA SenderTypes ==
    ASSUME NInv, NEW w \in Senders
    PROVE  /\ sender[w] \in Sender /\ sender[w].message \in Message
           /\ sender[w].message.claimed \in BOOLEAN /\ sender[w].message.retries \in {0, 1}
           /\ \A at \in {"idle", "judge", "claim", "send", "failed", "done"} :
                /\ [sender[w] EXCEPT !.at = at] \in Sender
                /\ [sender[w] EXCEPT !.at = at].at = at
                /\ [sender[w] EXCEPT !.at = at].message = sender[w].message
           /\ IdleSender \in Sender /\ ~Holds(IdleSender) /\ ~Hopes(IdleSender)
           /\ IdleSender.at = "idle"
<1>1. sender[w] \in Sender
  BY NoticeTypes DEF NInv
<1>2. sender[w].message \in Message
  BY <1>1 DEF Sender
<1>3. sender[w].message.claimed \in BOOLEAN /\ sender[w].message.retries \in {0, 1}
  BY <1>2 DEF Message
<1>4. ASSUME NEW at \in {"idle", "judge", "claim", "send", "failed", "done"}
      PROVE  /\ [sender[w] EXCEPT !.at = at] \in Sender
             /\ [sender[w] EXCEPT !.at = at].at = at
             /\ [sender[w] EXCEPT !.at = at].message = sender[w].message
  BY <1>1 DEF Sender
<1>5. IdleSender \in Sender /\ ~Holds(IdleSender) /\ ~Hopes(IdleSender) /\ IdleSender.at = "idle"
  BY FourMessages DEF IdleSender, Sender, Holds, Hopes
<1> QED BY <1>1, <1>2, <1>3, <1>4, <1>5

\* A worker that is not idle has a message with a claim, or works on an alert.
LEMMA WorkersMessage ==
    ASSUME NInv, NEW w \in Senders
    PROVE  /\ telling # "alert" => /\ Unsealed = 0
                                   /\ ~Hopes(sender[w])
                                   /\ sender[w].at # "idle" => sender[w].message.claimed
           /\ sender[w].at = "claim" => ~sender[w].message.claimed
BY DEF NInv, Arguments

LEMMA TakeKeeps == ASSUME NInv, NEW w \in Senders, Take(w) PROVE NInv'
<1>1. PICK m \in Message :
        /\ waiting[m] > 0
        /\ waiting' = [waiting EXCEPT ![m] = @ - 1]
        /\ sender' = [sender EXCEPT ![w] =
                        [at |-> IF telling = "alert" THEN "judge" ELSE "send", message |-> m]]
  BY DEF Take
<1>2. /\ sender[w].at = "idle" /\ NoHarm
      /\ UNCHANGED <<telling, claimed, asking, mails, occasions, troubles>>
  BY DEF Take
<1> DEFINE s == [at |-> IF telling = "alert" THEN "judge" ELSE "send", message |-> m]
<1>3. s \in Sender /\ s.message = m /\ s.at = IF telling = "alert" THEN "judge" ELSE "send"
  BY DEF Sender
<1>4. sender' = [sender EXCEPT ![w] = s]
  BY <1>1
<1> HIDE DEF s
<1>5. -1 \in Int /\ waiting[m] + (-1) \in Nat /\ waiting[m] - 1 = waiting[m] + (-1)
  BY <1>1, NoticeTypes DEF NInv
<1>6. /\ waiting' \in [Message -> Nat]
      /\ m.claimed => Sealed' = Sealed + (-1) /\ Unsealed' = Unsealed
      /\ ~m.claimed => Unsealed' = Unsealed + (-1) /\ Sealed' = Sealed
  BY <1>1, <1>5, WaitingChanges DEF NInv
<1>7. mails \in Nat /\ mails' = mails /\ Sealed \in Nat /\ Unsealed \in Nat
      /\ Way \in Nat /\ Pending \in Nat
  BY <1>2, NoticeTypes DEF NInv
<1>8. /\ sender' \in [Senders -> Sender]
      /\ Sealed' \in Nat /\ Unsealed' \in Nat /\ Way' \in Nat /\ Pending' \in Nat
      /\ Way' = Way + (Held(s) - Held(sender[w])) + (Sealed' - Sealed) + (mails' - mails)
      /\ Pending' = Pending + (Hoped(s) - Hoped(sender[w])) + (Unsealed' - Unsealed)
  BY <1>2, <1>3, <1>4, <1>6, <1>7, WorkerCounts
<1>9. ~Holds(sender[w]) /\ ~Hopes(sender[w])
  BY <1>2 DEF Holds, Hopes
<1>10. telling # "alert" => m.claimed
  BY <1>6, <1>7, <1>8, WorkersMessage
<1>11. m.claimed => Holds(s) /\ ~Hopes(s)
  BY <1>3 DEF Holds, Hopes
<1>12. ~m.claimed => ~Holds(s) /\ Hopes(s)
  BY <1>3, <1>10 DEF Holds, Hopes
<1>13. Way' = Way /\ Pending' = Pending
  <2>0. Held(sender[w]) = 0 /\ Hoped(sender[w]) = 0
    BY <1>9 DEF One, Held, Hoped
  <2>1. CASE m.claimed
    <3>1. Held(s) = 1 /\ Hoped(s) = 0
      BY <2>1, <1>11 DEF One, Held, Hoped
    <3>2. Sealed' = Sealed - 1 /\ Unsealed' = Unsealed
      BY <2>1, <1>6, <1>7
    <3> QED BY <1>7, <1>8, <2>0, <3>1, <3>2
  <2>2. CASE ~m.claimed
    <3>1. Held(s) = 0 /\ Hoped(s) = 1
      BY <2>2, <1>12 DEF One, Held, Hoped
    <3>2. Sealed' = Sealed /\ Unsealed' = Unsealed - 1
      BY <2>2, <1>6, <1>7
    <3> QED BY <1>7, <1>8, <2>0, <3>1, <3>2
  <2> QED BY <2>1, <2>2
<1>14. NoticesTypeOK'
  BY <1>2, <1>6, <1>8 DEF NInv, NoticesTypeOK, NoHarm
<1>15. Arguments'
  BY <1>2, <1>3, <1>4, <1>6, <1>10, <1>11, WorkersMessage, WorkerArguments
<1> QED BY <1>2, <1>8, <1>13, <1>14, <1>15, Settle

\* A worker goes from a place to another, or ends, while the queue stays.
LEMMA WorkerMoves ==
    ASSUME NInv, NEW w \in Senders, NEW s \in Sender, sender' = [sender EXCEPT ![w] = s],
           UNCHANGED <<telling, asking, waiting, occasions>>, claimed' \in BOOLEAN,
           mails' \in Nat, troubles' \in 0 .. MaxTroubles,
           NoHarm \/ Spent \/ Dropped \/ Repeated,
           s.at = "claim" => ~s.message.claimed,
           telling # "alert" => ~Hopes(s) /\ (s.at # "idle" => s.message.claimed)
    PROVE  /\ NoticesTypeOK' /\ Arguments'
           /\ Way \in Nat /\ Pending \in Nat /\ Way' \in Nat /\ Pending' \in Nat
           /\ Way' = Way + (Held(s) - Held(sender[w])) + (mails' - mails)
           /\ Pending' = Pending + (Hoped(s) - Hoped(sender[w]))
           /\ mails \in Nat
<1>1. waiting' \in [Message -> Nat] /\ Sealed' = Sealed /\ Unsealed' = Unsealed
  BY SameWaiting DEF NInv, NoticesTypeOK
<1>2. Sealed \in Nat /\ Unsealed \in Nat /\ Way \in Nat /\ Pending \in Nat /\ mails \in Nat
      /\ dropped \in Nat
  BY NoticeTypes DEF NInv
<1>3. /\ sender' \in [Senders -> Sender]
      /\ Way' \in Nat /\ Pending' \in Nat
      /\ Way' = Way + (Held(s) - Held(sender[w])) + (Sealed' - Sealed) + (mails' - mails)
      /\ Pending' = Pending + (Hoped(s) - Hoped(sender[w])) + (Unsealed' - Unsealed)
  BY <1>1, WorkerCounts
<1>4. /\ Held(s) \in Nat /\ Held(sender[w]) \in Nat
      /\ Hoped(s) \in Nat /\ Hoped(sender[w]) \in Nat
  BY DEF One, Held, Hoped
<1>5. /\ Way' = Way + (Held(s) - Held(sender[w])) + (mails' - mails)
      /\ Pending' = Pending + (Hoped(s) - Hoped(sender[w]))
  BY <1>1, <1>2, <1>3, <1>4
<1>6. dropped' \in Nat
  BY <1>2 DEF NoHarm, Spent, Dropped, Repeated
<1>7. spent' \in BOOLEAN /\ repeated' \in BOOLEAN
  BY DEF NoHarm, Spent, Dropped, Repeated, NInv, NoticesTypeOK
<1>8. NoticesTypeOK'
  BY <1>1, <1>3, <1>6, <1>7 DEF NInv, NoticesTypeOK
<1>9. telling # "alert" => Unsealed' = 0
  BY <1>1, WorkersMessage
<1>10. Arguments'
  BY <1>9, WorkerArguments
<1> QED BY <1>2, <1>3, <1>5, <1>8, <1>10

LEMMA TroubleTypes == ASSUME NInv, Trouble \/ UNCHANGED troubles
                      PROVE  troubles' \in 0 .. MaxTroubles
BY NoticeTypes, NoticeLimits DEF NInv, NoticesTypeOK, Trouble

LEMMA WorkerEnds ==
    ASSUME NInv, NEW w \in Senders, Ends(w),
           UNCHANGED <<telling, asking, waiting, mails, occasions>>, claimed' \in BOOLEAN,
           troubles' \in 0 .. MaxTroubles, NoHarm \/ Spent \/ Dropped
    PROVE  /\ NoticesTypeOK' /\ Arguments'
           /\ Way \in Nat /\ Pending \in Nat /\ Way' \in Nat /\ Pending' \in Nat
           /\ Way' = Way - Held(sender[w]) /\ Pending' = Pending - Hoped(sender[w])
<1>1. sender' = [sender EXCEPT ![w] = IdleSender]
  BY DEF Ends
<1>2. mails' \in Nat
  BY NoticeTypes DEF NInv
<1>3. /\ NoticesTypeOK' /\ Arguments'
      /\ Way \in Nat /\ Pending \in Nat /\ Way' \in Nat /\ Pending' \in Nat
      /\ Way' = Way + (Held(IdleSender) - Held(sender[w])) + (mails' - mails)
      /\ Pending' = Pending + (Hoped(IdleSender) - Hoped(sender[w]))
      /\ mails \in Nat
  BY <1>1, <1>2, SenderTypes, WorkerMoves
<1>4. Held(IdleSender) = 0 /\ Hoped(IdleSender) = 0
  BY SenderTypes DEF Held, Hoped, One
<1>5. Held(sender[w]) \in Nat /\ Hoped(sender[w]) \in Nat
  BY DEF One, Held, Hoped
<1> QED BY <1>3, <1>4, <1>5

LEMMA JudgeKeeps == ASSUME NInv, NEW w \in Senders, Judge(w) PROVE NInv'
<1> DEFINE m == sender[w].message
<1>0. /\ sender[w].at = "judge" /\ m.claimed \in BOOLEAN
      /\ UNCHANGED <<telling, claimed, asking, waiting, mails, occasions>>
      /\ claimed' \in BOOLEAN /\ mails' \in Nat
  BY SenderTypes, NoticeTypes DEF Judge, NInv
<1>1. telling # "alert" => m.claimed
  BY <1>0, WorkersMessage
<1>2. CASE At(w, IF m.claimed THEN "send" ELSE "claim") /\ UNCHANGED troubles /\ NoHarm
  <2> DEFINE at == IF m.claimed THEN "send" ELSE "claim"
             s == [sender[w] EXCEPT !.at = at]
  <2>0. at \in {"idle", "judge", "claim", "send", "failed", "done"}
    OBVIOUS
  <2>2. sender' = [sender EXCEPT ![w] = s]
    BY <1>2 DEF At
  <2>1. /\ s \in Sender /\ s.message = m
        /\ s.at = IF m.claimed THEN "send" ELSE "claim"
    <3> HIDE DEF at
    <3>1. s \in Sender /\ s.message = m /\ s.at = at
      BY <2>0, SenderTypes
    <3> QED BY <3>1 DEF at
  <2> HIDE DEF s
  <2>3. Held(s) = Held(sender[w]) /\ Hoped(s) = Hoped(sender[w]) /\ Held(s) \in Nat /\ Hoped(s) \in Nat
    BY <1>0, <2>1 DEF Held, Hoped, Holds, Hopes, One
  <2>4. (s.at = "claim" => ~s.message.claimed) /\ (telling # "alert" => ~Hopes(s) /\ s.message.claimed)
    BY <1>1, <2>1 DEF Hopes
  <2>5. /\ NoticesTypeOK' /\ Arguments'
        /\ Way \in Nat /\ Pending \in Nat /\ Way' \in Nat /\ Pending' \in Nat
        /\ Way' = Way + (Held(s) - Held(sender[w])) + (mails' - mails)
        /\ Pending' = Pending + (Hoped(s) - Hoped(sender[w]))
        /\ mails \in Nat
    BY <1>0, <1>2, <2>1, <2>2, <2>4, TroubleTypes, WorkerMoves
  <2>6. Way' = Way /\ Pending' = Pending
    BY <1>0, <2>3, <2>5
  <2> QED BY <1>0, <1>2, <2>5, <2>6, Settle
<1>3. CASE Ends(w) /\ Trouble /\ (IF m.claimed THEN Spent ELSE Dropped)
  <2>1. /\ NoticesTypeOK' /\ Arguments'
        /\ Way \in Nat /\ Pending \in Nat /\ Way' \in Nat /\ Pending' \in Nat
        /\ Way' = Way - Held(sender[w]) /\ Pending' = Pending - Hoped(sender[w])
    BY <1>0, <1>3, TroubleTypes, WorkerEnds
  <2>4. CASE m.claimed
    <3>1. Held(sender[w]) = 1
      BY <1>0, <2>4 DEF Held, Holds, One
    <3>2. Way' <= Way
      BY <2>1, <3>1
    <3> QED BY <1>0, <1>3, <2>1, <2>4, <3>2, Settle
  <2>5. CASE ~m.claimed
    <3>1. Held(sender[w]) = 0 /\ Hoped(sender[w]) = 1
      BY <1>0, <2>5 DEF Held, Holds, Hoped, Hopes, One
    <3>2. Way' = Way /\ Pending' + 1 = Pending
      BY <2>1, <3>1
    <3> QED BY <1>0, <1>3, <2>1, <2>5, <3>2, Settle
  <2> QED BY <2>4, <2>5
<1> QED BY <1>0, <1>2, <1>3 DEF Judge

LEMMA ClaimAlertKeeps == ASSUME NInv, NEW w \in Senders, ClaimAlert(w) PROVE NInv'
<1>0. /\ sender[w].at = "claim" /\ ~sender[w].message.claimed
      /\ UNCHANGED <<telling, asking, waiting, mails, occasions>>
      /\ mails' \in Nat /\ telling = "alert"
  <2>1. sender[w].at = "claim" /\ UNCHANGED <<telling, asking, waiting, mails, occasions>>
    BY DEF ClaimAlert
  <2>2. ~sender[w].message.claimed
    BY <2>1, WorkersMessage
  <2>3. Hopes(sender[w])
    BY <2>1, <2>2 DEF Hopes
  <2> QED BY <2>1, <2>2, <2>3, WorkersMessage, NoticeTypes DEF NInv
<1>1. Held(sender[w]) = 0 /\ Hoped(sender[w]) = 1
  BY <1>0 DEF Held, Holds, Hoped, Hopes, One
<1>2. CASE ~claimed /\ claimed' = TRUE /\ At(w, "send") /\ UNCHANGED troubles /\ NoHarm
  <2> DEFINE s == [sender[w] EXCEPT !.at = "send"]
  <2>1. s \in Sender /\ s.at = "send"
    BY SenderTypes
  <2>2. sender' = [sender EXCEPT ![w] = s]
    BY <1>2 DEF At
  <2> HIDE DEF s
  <2>3. Held(s) = 1 /\ Hoped(s) = 0
    BY <2>1 DEF Held, Holds, Hoped, Hopes, One
  <2>4. /\ NoticesTypeOK' /\ Arguments'
        /\ Way \in Nat /\ Pending \in Nat /\ Way' \in Nat /\ Pending' \in Nat
        /\ Way' = Way + (Held(s) - Held(sender[w])) + (mails' - mails)
        /\ Pending' = Pending + (Hoped(s) - Hoped(sender[w]))
        /\ mails \in Nat
    BY <1>0, <1>2, <2>1, <2>2, TroubleTypes, WorkerMoves
  <2>5. Way' = Way + 1
    BY <1>0, <1>1, <2>3, <2>4
  <2>6. Way' >= 1 /\ (Way = 0 => Way' <= 1)
    BY <2>4, <2>5
  <2>7. OneWay'
    BY <1>2, <2>6 DEF NInv, OneWay, NoHarm
  <2>8. Owed'
    BY <2>6 DEF Owed
  <2> QED BY <2>4, <2>7, <2>8 DEF NInv
<1>3. CASE claimed /\ UNCHANGED <<claimed, troubles>> /\ Ends(w) /\ NoHarm
  <2>1. claimed' \in BOOLEAN
    BY <1>3, NoticeTypes DEF NInv
  <2>2. /\ NoticesTypeOK' /\ Arguments'
        /\ Way \in Nat /\ Pending \in Nat /\ Way' \in Nat /\ Pending' \in Nat
        /\ Way' = Way - Held(sender[w]) /\ Pending' = Pending - Hoped(sender[w])
    BY <1>0, <1>3, <2>1, TroubleTypes, WorkerEnds
  <2>3. Way' = Way
    BY <1>1, <2>2
  <2>4. OneWay' /\ Owed'
    BY <1>3, <2>3 DEF NInv, OneWay, Owed, NoHarm
  <2> QED BY <2>2, <2>4 DEF NInv
<1>4. CASE UNCHANGED claimed /\ Ends(w) /\ Trouble /\ Dropped
  <2>1. claimed' \in BOOLEAN
    BY <1>4, NoticeTypes DEF NInv
  <2>2. /\ NoticesTypeOK' /\ Arguments'
        /\ Way \in Nat /\ Pending \in Nat /\ Way' \in Nat /\ Pending' \in Nat
        /\ Way' = Way - Held(sender[w]) /\ Pending' = Pending - Hoped(sender[w])
    BY <1>0, <1>4, <2>1, TroubleTypes, WorkerEnds
  <2>3. Way' = Way /\ Pending' + 1 = Pending
    BY <1>1, <2>2
  <2> QED BY <1>0, <1>4, <2>2, <2>3, Settle
<1> QED BY <1>2, <1>3, <1>4 DEF ClaimAlert

LEMMA SendMailKeeps == ASSUME NInv, NEW w \in Senders, SendMail(w) PROVE NInv'
<1>0. /\ sender[w].at = "send" /\ mails \in Nat
      /\ UNCHANGED <<telling, claimed, asking, waiting, occasions>>
      /\ claimed' \in BOOLEAN
  BY NoticeTypes DEF SendMail, NInv
<1>1. Held(sender[w]) = 1 /\ Hoped(sender[w]) = 0
  BY <1>0 DEF Held, Holds, Hoped, Hopes, One
<1>2. ASSUME NEW at \in {"done", "failed"}, At(w, at), mails' \in Nat, Trouble \/ UNCHANGED troubles,
             NoHarm \/ Repeated
      PROVE  /\ NoticesTypeOK' /\ Arguments'
             /\ Way \in Nat /\ Pending \in Nat /\ Way' \in Nat /\ Pending' \in Nat
             /\ Way' = Way - One(at = "done") + (mails' - mails) /\ Pending' = Pending
  <2> DEFINE s == [sender[w] EXCEPT !.at = at]
  <2>1. s \in Sender /\ s.at = at /\ s.message = sender[w].message
    BY SenderTypes, ZenonT(60)
  <2>2. sender' = [sender EXCEPT ![w] = s]
    BY <1>2 DEF At
  <2> HIDE DEF s
  <2>3. Held(s) = 1 - One(at = "done") /\ Hoped(s) = 0 /\ ~Hopes(s)
    BY <2>1 DEF Held, Holds, Hoped, Hopes, One
  <2>4. telling # "alert" => s.message.claimed
    BY <1>0, <2>1, WorkersMessage
  <2>5. /\ NoticesTypeOK' /\ Arguments'
        /\ Way \in Nat /\ Pending \in Nat /\ Way' \in Nat /\ Pending' \in Nat
        /\ Way' = Way + (Held(s) - Held(sender[w])) + (mails' - mails)
        /\ Pending' = Pending + (Hoped(s) - Hoped(sender[w]))
        /\ mails \in Nat
    BY <1>0, <1>2, <2>1, <2>2, <2>3, <2>4, TroubleTypes, WorkerMoves
  <2>6. One(at = "done") \in Nat
    BY DEF One
  <2> QED BY <1>1, <1>2, <2>3, <2>5, <2>6
<1>3. CASE mails' = mails + 1 /\ At(w, "done") /\ UNCHANGED troubles /\ NoHarm
  <2>1. /\ NoticesTypeOK' /\ Arguments'
        /\ Way \in Nat /\ Pending \in Nat /\ Way' \in Nat /\ Pending' \in Nat
        /\ Way' = Way - One("done" = "done") + (mails' - mails) /\ Pending' = Pending
    BY <1>0, <1>2, <1>3
  <2>2. Way' = Way
    BY <1>0, <1>3, <2>1 DEF One
  <2> QED BY <1>0, <1>3, <2>1, <2>2, Settle
<1>4. CASE UNCHANGED mails /\ At(w, "failed") /\ Trouble /\ NoHarm
  <2>1. /\ NoticesTypeOK' /\ Arguments'
        /\ Way \in Nat /\ Pending \in Nat /\ Way' \in Nat /\ Pending' \in Nat
        /\ Way' = Way - One("failed" = "done") + (mails' - mails) /\ Pending' = Pending
    BY <1>0, <1>2, <1>4
  <2>2. Way' = Way
    BY <1>0, <1>4, <2>1 DEF One
  <2> QED BY <1>0, <1>4, <2>1, <2>2, Settle
<1>5. CASE mails' = mails + 1 /\ At(w, "failed") /\ Trouble /\ Repeated
  <2>1. /\ NoticesTypeOK' /\ Arguments'
        /\ Way \in Nat /\ Pending \in Nat /\ Way' \in Nat /\ Pending' \in Nat
        /\ Way' = Way - One("failed" = "done") + (mails' - mails) /\ Pending' = Pending
    BY <1>0, <1>2, <1>5
  <2>2. Way' = Way + 1
    BY <1>0, <1>5, <2>1 DEF One
  <2> QED BY <1>0, <1>5, <2>1, <2>2, Settle
<1> QED BY <1>3, <1>4, <1>5 DEF SendMail

LEMMA EndKeepsNotice == ASSUME NInv, NEW w \in Senders, NoRecipient(w) \/ EndTask(w) PROVE NInv'
<1>1. /\ Ends(w) /\ (Trouble \/ UNCHANGED troubles)
      /\ UNCHANGED <<telling, claimed, asking, waiting, mails, occasions>>
      /\ Spent \/ (NoHarm /\ sender[w].at = "done")
  BY DEF NoRecipient, EndTask
<1>2. claimed' \in BOOLEAN
  BY <1>1, NoticeTypes DEF NInv
<1>3. /\ NoticesTypeOK' /\ Arguments'
      /\ Way \in Nat /\ Pending \in Nat /\ Way' \in Nat /\ Pending' \in Nat
      /\ Way' = Way - Held(sender[w]) /\ Pending' = Pending - Hoped(sender[w])
  BY <1>1, <1>2, TroubleTypes, WorkerEnds
<1>4. CASE Spent
  <2>1. Held(sender[w]) \in Nat
    BY DEF Held, One
  <2>2. Way' <= Way
    BY <1>3, <2>1
  <2> QED BY <1>1, <1>3, <1>4, <2>2, Settle
<1>5. CASE NoHarm /\ sender[w].at = "done"
  <2>1. Held(sender[w]) = 0 /\ Hoped(sender[w]) = 0
    BY <1>5 DEF Held, Holds, Hoped, Hopes, One
  <2>2. Way' = Way /\ Pending' = Pending
    BY <1>3, <2>1
  <2> QED BY <1>1, <1>3, <1>5, <2>2, Settle
<1> QED BY <1>1, <1>4, <1>5

\* A worker ends, and a message is left behind.
LEMMA WorkerRequeues ==
    ASSUME NInv, NEW w \in Senders, Ends(w), NEW m \in Message, Queue(m),
           UNCHANGED <<telling, claimed, asking, mails, occasions>>,
           Trouble \/ UNCHANGED troubles, NoHarm \/ Spent \/ Repeated,
           telling # "alert" => m.claimed
    PROVE  /\ NoticesTypeOK' /\ Arguments'
           /\ Way \in Nat /\ Pending \in Nat /\ Way' \in Nat /\ Pending' \in Nat
           /\ m.claimed => /\ Way' = Way - Held(sender[w]) + 1
                           /\ Pending' = Pending - Hoped(sender[w])
           /\ ~m.claimed => /\ Way' = Way - Held(sender[w])
                            /\ Pending' = Pending - Hoped(sender[w]) + 1
<1>1. sender' = [sender EXCEPT ![w] = IdleSender]
  BY DEF Ends
<1>2. /\ waiting' \in [Message -> Nat]
      /\ m.claimed => Sealed' = Sealed + 1 /\ Unsealed' = Unsealed
      /\ ~m.claimed => Unsealed' = Unsealed + 1 /\ Sealed' = Sealed
  BY QueueCounts DEF NInv
<1>3. mails' \in Nat /\ mails' = mails /\ Sealed \in Nat /\ Unsealed \in Nat
      /\ Way \in Nat /\ Pending \in Nat
  BY NoticeTypes DEF NInv
<1>4. /\ sender' \in [Senders -> Sender]
      /\ Way' \in Nat /\ Pending' \in Nat
      /\ Way' = Way + (Held(IdleSender) - Held(sender[w])) + (Sealed' - Sealed) + (mails' - mails)
      /\ Pending' = Pending + (Hoped(IdleSender) - Hoped(sender[w])) + (Unsealed' - Unsealed)
  BY <1>1, <1>2, <1>3, SenderTypes, WorkerCounts
<1>5. Held(IdleSender) = 0 /\ Hoped(IdleSender) = 0
  BY SenderTypes DEF Held, Hoped, One
<1>6. Held(sender[w]) \in Nat /\ Hoped(sender[w]) \in Nat
  BY DEF One, Held, Hoped
<1>7. m.claimed => /\ Way' = Way - Held(sender[w]) + 1
                   /\ Pending' = Pending - Hoped(sender[w])
  BY <1>2, <1>3, <1>4, <1>5, <1>6
<1>8. ~m.claimed => /\ Way' = Way - Held(sender[w])
                    /\ Pending' = Pending - Hoped(sender[w]) + 1
  BY <1>2, <1>3, <1>4, <1>5, <1>6
<1>9. telling # "alert" => Unsealed' = 0
  BY <1>2, WorkersMessage
<1>10. Arguments'
  BY <1>1, <1>9, SenderTypes, WorkerArguments
<1>11. troubles' \in 0 .. MaxTroubles
  BY TroubleTypes
<1>12. dropped' \in Nat /\ spent' \in BOOLEAN /\ repeated' \in BOOLEAN
  BY DEF NoHarm, Spent, Repeated, NInv, NoticesTypeOK
<1>13. NoticesTypeOK'
  BY <1>2, <1>4, <1>11, <1>12 DEF NInv, NoticesTypeOK
<1> QED BY <1>3, <1>4, <1>7, <1>8, <1>10, <1>13

LEMMA RetryMailKeeps == ASSUME NInv, NEW w \in Senders, RetryMail(w) PROVE NInv'
<1> DEFINE m == sender[w].message
<1>0. /\ sender[w].at = "failed" /\ Ends(w) /\ claimed' \in BOOLEAN
      /\ UNCHANGED <<telling, claimed, asking, mails, occasions>>
  BY NoticeTypes DEF RetryMail, NInv
<1>1. Held(sender[w]) = 1 /\ Hoped(sender[w]) = 0
  BY <1>0 DEF Held, Holds, Hoped, Hopes, One
<1>2. CASE m.retries < MaxRetriesOf(telling)
           /\ Queue([claimed |-> TRUE, retries |-> m.retries + 1])
           /\ UNCHANGED troubles /\ NoHarm
  <2> DEFINE n == [claimed |-> TRUE, retries |-> m.retries + 1]
  <2>1. m.retries + 1 = 1
    <3>1. m.retries \in {0, 1} /\ MaxRetriesOf(telling) \in {0, 1}
      BY SenderTypes DEF MaxRetriesOf
    <3> QED BY <1>2, <3>1
  <2>2. n = [claimed |-> TRUE, retries |-> 1]
    BY <2>1
  <2>3. n \in Message /\ n.claimed
    BY <2>2, FourMessages
  <2> HIDE DEF n
  <2>4. /\ NoticesTypeOK' /\ Arguments'
        /\ Way \in Nat /\ Pending \in Nat /\ Way' \in Nat /\ Pending' \in Nat
        /\ Way' = Way - Held(sender[w]) + 1
        /\ Pending' = Pending - Hoped(sender[w])
    BY <1>0, <1>2, <2>3, WorkerRequeues DEF n
  <2>5. Way' = Way /\ Pending' = Pending
    BY <1>1, <2>4
  <2> QED BY <1>0, <1>2, <2>4, <2>5, Settle
<1>3. CASE UNCHANGED waiting /\ (Trouble \/ UNCHANGED troubles) /\ Spent
  <2>1. /\ NoticesTypeOK' /\ Arguments'
        /\ Way \in Nat /\ Pending \in Nat /\ Way' \in Nat /\ Pending' \in Nat
        /\ Way' = Way - Held(sender[w]) /\ Pending' = Pending - Hoped(sender[w])
    BY <1>0, <1>3, TroubleTypes, WorkerEnds
  <2>2. Way' <= Way
    BY <1>1, <2>1
  <2> QED BY <1>0, <1>3, <2>1, <2>2, Settle
<1> QED BY <1>2, <1>3 DEF RetryMail

LEMMA SenderDiesKeeps == ASSUME NInv, NEW w \in Senders, SenderDies(w) PROVE NInv'
<1> DEFINE m == sender[w].message
<1>0. /\ sender[w].at # "idle" /\ Ends(w) /\ Trouble /\ claimed' \in BOOLEAN
      /\ UNCHANGED <<telling, claimed, asking, mails, occasions>>
      /\ m \in Message /\ m.claimed \in BOOLEAN
      /\ sender[w].at \in {"judge", "claim", "send", "failed", "done"}
      /\ telling # "alert" => m.claimed
  <2>1. sender[w].at # "idle" /\ Ends(w) /\ Trouble
        /\ UNCHANGED <<telling, claimed, asking, mails, occasions>>
    BY DEF SenderDies
  <2>2. sender[w].at \in {"judge", "claim", "send", "failed", "done"}
    BY <2>1, SenderTypes DEF Sender
  <2> QED BY <2>1, <2>2, SenderTypes, NoticeTypes, WorkersMessage DEF NInv
<1>1. Held(sender[w]) \in Nat /\ Hoped(sender[w]) \in Nat
  BY DEF Held, Hoped, One
<1>2. CASE Queue(m) /\ IF ~HasClaimed(w) THEN NoHarm
                       ELSE IF ~m.claimed THEN Spent
                       ELSE IF sender[w].at = "done" THEN Repeated ELSE NoHarm
  <2>1. NoHarm \/ Spent \/ Repeated
    BY <1>2
  <2>2. /\ NoticesTypeOK' /\ Arguments'
        /\ Way \in Nat /\ Pending \in Nat /\ Way' \in Nat /\ Pending' \in Nat
        /\ m.claimed => /\ Way' = Way - Held(sender[w]) + 1
                        /\ Pending' = Pending - Hoped(sender[w])
        /\ ~m.claimed => /\ Way' = Way - Held(sender[w])
                         /\ Pending' = Pending - Hoped(sender[w]) + 1
    BY <1>0, <1>2, <2>1, WorkerRequeues
  <2>3. CASE m.claimed /\ sender[w].at = "done"
    <3>1. Held(sender[w]) = 0 /\ Repeated
      BY <1>2, <2>3 DEF Held, Holds, One, HasClaimed
    <3>2. Way' = Way + 1
      BY <2>2, <2>3, <3>1
    <3> QED BY <1>0, <2>2, <3>1, <3>2, Settle
  <2>4. CASE m.claimed /\ sender[w].at # "done"
    <3>1. Held(sender[w]) = 1 /\ Hoped(sender[w]) = 0 /\ NoHarm
      BY <1>0, <1>2, <2>4 DEF Held, Holds, Hoped, Hopes, One
    <3>2. Way' = Way /\ Pending' = Pending
      BY <2>2, <2>4, <3>1
    <3> QED BY <1>0, <2>2, <3>1, <3>2, Settle
  <2>5. CASE ~m.claimed /\ HasClaimed(w)
    <3>1. Way' <= Way /\ Spent
      BY <1>1, <1>2, <2>2, <2>5
    <3> QED BY <1>0, <2>2, <3>1, Settle
  <2>6. CASE ~m.claimed /\ ~HasClaimed(w)
    <3>1. Held(sender[w]) = 0 /\ Hoped(sender[w]) = 1 /\ NoHarm
      BY <1>0, <1>2, <2>6 DEF Held, Holds, Hoped, Hopes, One, HasClaimed
    <3>2. Way' = Way /\ Pending' = Pending
      BY <2>2, <2>6, <3>1
    <3> QED BY <1>0, <2>2, <3>1, <3>2, Settle
  <2> QED BY <1>0, <2>3, <2>4, <2>5, <2>6
<1>3. CASE UNCHANGED waiting /\ IF m.claimed \/ HasClaimed(w) THEN Spent ELSE Dropped
  <2>1. /\ NoticesTypeOK' /\ Arguments'
        /\ Way \in Nat /\ Pending \in Nat /\ Way' \in Nat /\ Pending' \in Nat
        /\ Way' = Way - Held(sender[w]) /\ Pending' = Pending - Hoped(sender[w])
    BY <1>0, <1>3, TroubleTypes, WorkerEnds
  <2>2. CASE m.claimed \/ HasClaimed(w)
    <3>1. Way' <= Way /\ Spent
      BY <1>1, <1>3, <2>1, <2>2
    <3> QED BY <1>0, <2>1, <3>1, Settle
  <2>3. CASE ~m.claimed /\ ~HasClaimed(w)
    <3>1. Held(sender[w]) = 0 /\ Hoped(sender[w]) = 1 /\ Dropped
      BY <1>0, <1>3, <2>3 DEF Held, Holds, Hoped, Hopes, One, HasClaimed
    <3>2. Way' = Way /\ Pending' + 1 = Pending
      BY <2>1, <3>1
    <3> QED BY <1>0, <2>1, <3>1, <3>2, Settle
  <2> QED BY <2>2, <2>3
<1> QED BY <1>2, <1>3 DEF SenderDies

LEMMA NInvStep == NInv /\ [NoticesNext]_noticeVars => NInv'
<1> SUFFICES ASSUME NInv, [NoticesNext]_noticeVars PROVE NInv'
  OBVIOUS
<1>1. CASE UNCHANGED noticeVars
  <2>1. UNCHANGED <<telling, claimed, asking, waiting, sender, mails, occasions, troubles,
                    dropped, spent, repeated>>
    BY <1>1 DEF noticeVars
  <2>2. Way' = Way /\ Pending' = Pending /\ Unsealed' = Unsealed
    BY <2>1, SameWaiting, SameSender DEF Way, Pending
  <2> QED BY <2>1, <2>2 DEF NInv, NoticesTypeOK, Arguments, OneWay, Owed
<1>2. CASE NoticesNext
  BY <1>2, ClaimKeeps, RequestKeeps, HoldingsChangeKeeps, TakeKeeps, JudgeKeeps, ClaimAlertKeeps,
     SendMailKeeps, EndKeepsNotice, RetryMailKeeps, SenderDiesKeeps DEF NoticesNext
<1> QED BY <1>1, <1>2

\* Whatever there is to tell is told at most once, and told when all is at rest.
\* However often there is something to tell, the user is told in one mail and not
\* in two, and is told when nothing was lost (services/holding_change_alerts.py,
\* tasks/notification_tasks.py), for any number of workers, occasions and
\* troubles.
THEOREM NoticesToldOnce == NoticesSpec => []ToldOnce
<1>1. NInv => ToldOnce
  <2> SUFFICES ASSUME NInv PROVE ToldOnce
    OBVIOUS
  <2>0. /\ mails \in Nat /\ asking \in Nat /\ Sealed \in Nat /\ Cardinality(Holders) \in Nat
        /\ occasions \in Nat /\ dropped \in Nat
    BY NoticeTypes DEF NInv
  <2>1. mails <= Way
    BY <2>0 DEF Way
  <2>2. mails <= 1 \/ repeated
    <3>1. Way <= 1 => mails <= 1
      BY <2>0, <2>1, NoticeTypes DEF NInv
    <3> QED BY <3>1 DEF NInv, OneWay
  <2>3. ASSUME AtRest, occasions > dropped, ~spent PROVE mails >= 1
    <3>1. Sealed = 0 /\ Unsealed = 0
      <4>1. /\ waiting[[claimed |-> TRUE, retries |-> 0]] = 0
            /\ waiting[[claimed |-> TRUE, retries |-> 1]] = 0
            /\ waiting[[claimed |-> FALSE, retries |-> 0]] = 0
            /\ waiting[[claimed |-> FALSE, retries |-> 1]] = 0
        BY <2>3, FourMessages DEF AtRest
      <4> QED BY <4>1 DEF Sealed, Unsealed
    <3>2. Holders = {} /\ Hopers = {}
      BY <2>3 DEF AtRest, Holders, Hopers, Holds, Hopes
    <3>3. Cardinality(Holders) = 0 /\ Cardinality(Hopers) = 0
      BY <3>2, FS_EmptySet
    <3>4. Way = mails /\ Pending = 0
      BY <2>0, <2>3, <3>1, <3>3 DEF AtRest, Way, Pending
    <3>5. ~(occasions <= dropped + Pending)
      BY <2>0, <2>3, <3>4
    <3> QED BY <2>3, <3>4, <3>5 DEF NInv, Owed
  <2> QED BY <2>2, <2>3 DEF NInv, ToldOnce
<1> QED BY NInvInit, NInvStep, <1>1, PTL DEF NoticesSpec

-----------------------------------------------------------------------------
(* Sessions.  Once a start is recorded it stands for StartKept.  A refusal *)
(* leaves behind either a session past its lifetime, or one whose last     *)
(* activity is stale; when that is forgotten, IdleKept has passed since,   *)
(* which is more than the Lifetime.  So the next request is stopped at one *)
(* of its two checks, and none reaches the write that would revive it.     *)

\* The keys that no request has written are empty, and nothing was refused.
Untouched ==
    /\ start = NoKey /\ active = NoKey
    /\ ~refused
    /\ \A c \in Calls : call[c].at # "young"

\* The first start is still there, and no activity is older than it.
Begun ==
    /\ start.until = first + StartKept
    /\ 0 <= start.at /\ start.at <= first /\ first <= time
    /\ active # NoKey =>
        /\ first <= active.at /\ active.at <= time
        /\ active.until = active.at + IdleKept

TooOld == time - start.at > Lifetime
Stale == active # NoKey /\ time - active.at > IdleLimit

\* The session has ended, and who asks again has not passed its second check.
Over ==
    /\ TooOld \/ Stale
    /\ \A c \in Calls : call[c].at # "out" => call[c].at = "fresh" /\ TooOld

Remembered == first >= 0 /\ time < first + StartKept

Moments == \A c \in Calls : call[c].at = "unset" => 0 <= call[c].moment /\ call[c].moment <= time

LateIsLate == ~refused => \A c \in Calls : ~call[c].late

SInv ==
    /\ SessionsTypeOK
    /\ Moments /\ LateIsLate
    /\ outages = 0 /\ first = -1 => Untouched
    /\ outages = 0 /\ Remembered => Begun
    /\ outages = 0 /\ Remembered /\ refused /\ ~crossed => Over

USE DEF Key, NoKey, Call, NoCall

LEMMA SessionLimits ==
    /\ IdleLimit \in Nat /\ Lifetime \in Nat /\ IdleKept \in Nat
    /\ LastTime \in Nat /\ MaxOutages \in Nat
    /\ Lifetime < IdleKept /\ StartKept = Lifetime + IdleKept
BY SessionsAssumption DEF StartKept

\* A refusal ends one request and leaves the others as they are.
LEMMA RefuseTypes == ASSUME SessionsTypeOK, Moments, NEW c \in Calls, Refuse(c), UNCHANGED time
                     PROVE  /\ call' \in [Calls -> Call]
                            /\ refused' = TRUE /\ crossed' \in BOOLEAN
                            /\ Moments' /\ LateIsLate'
                            /\ ~crossed' => \A d \in Calls : call'[d].at = "out"
<1>1. crossed' \in BOOLEAN /\ refused' = TRUE
  BY DEF Refuse
<1>2. ~crossed' => \A d \in Calls \ {c} : call[d].at = "out"
  BY DEF Refuse
<1>3. call' \in [Calls -> Call]
  BY DEF Refuse, SessionsTypeOK
<1>4. call'[c] = NoCall /\ \A d \in Calls \ {c} : call'[d] = call[d]
  BY DEF Refuse, SessionsTypeOK
<1>5. NoCall.at = "out"
  OBVIOUS
<1>6. Moments'
  BY <1>4, <1>5, SMTT(30) DEF Moments
<1>7. LateIsLate'
  BY <1>1 DEF LateIsLate
<1> HIDE DEF NoCall
<1>8. ~crossed' => \A d \in Calls : call'[d].at = "out"
  BY <1>2, <1>4, <1>5
<1> QED BY <1>1, <1>3, <1>6, <1>7, <1>8

-----------------------------------------------------------------------------
LEMMA SInvInit == SessionsInit => SInv
<1> SUFFICES ASSUME SessionsInit PROVE SInv
  OBVIOUS
<1>1. SessionsTypeOK
  <2>1. NoKey \in Key /\ NoCall \in Call /\ 0 \in 0 .. LastTime /\ 0 \in 0 .. MaxOutages
        /\ -1 \in -1 .. LastTime
    BY SessionLimits
  <2> QED BY <2>1 DEF SessionsInit, SessionsTypeOK
<1>2. Moments /\ LateIsLate
  BY DEF SessionsInit, Moments, LateIsLate
<1>3. Untouched /\ ~Remembered
  BY DEF SessionsInit, Untouched, Remembered
<1> QED BY <1>1, <1>2, <1>3 DEF SInv

\* The typed parts of a step that a proof refers to again and again.
LEMMA CheckIdleKeeps == ASSUME SInv, NEW c \in Calls, CheckIdle(c) PROVE SInv'
<1>1. CASE IsIdle /\ Refuse(c) /\ UNCHANGED outages
  <2>0. UNCHANGED <<time, active, start, first, outages>>
    BY <1>1 DEF CheckIdle
  <2>1. SessionsTypeOK'
    BY <2>0, <1>1, RefuseTypes DEF SInv, SessionsTypeOK
  <2>2. Moments' /\ LateIsLate'
    BY <2>0, <1>1, RefuseTypes DEF SInv
  <2>3. active # NoKey
    BY <1>1, SMTT(30) DEF SInv, SessionsTypeOK, IsIdle, IsKept
  <2>4. (outages = 0 /\ Remembered)' => Begun'
    BY <2>0 DEF SInv, Remembered, Begun, StartKept
  <2>5. ~crossed' => Over'
    <3>1. Stale'
      BY <2>0, <2>3, <1>1 DEF Stale, IsIdle
    <3>2. ~crossed' => \A d \in Calls : call'[d].at = "out"
      BY <2>0, <1>1, RefuseTypes DEF SInv
    <3> QED BY <3>1, <3>2 DEF Over
  <2> QED BY <2>0, <2>1, <2>2, <2>3, <2>4, <2>5 DEF SInv, Untouched
<1>2. CASE /\ \/ ~IsIdle /\ UNCHANGED outages
              \/ StoreFails
           /\ call' = [call EXCEPT ![c] = [at |-> "fresh", moment |-> -1, late |-> refused]]
           /\ UNCHANGED <<refused, crossed>>
  <2>1. SessionsTypeOK'
    BY <1>2, SessionLimits, SMTT(30) DEF CheckIdle, SInv, SessionsTypeOK, StoreFails
  <2>2. Moments' /\ LateIsLate'
    BY <1>2, SMTT(30) DEF CheckIdle, SInv, SessionsTypeOK, Moments, LateIsLate
  <2>3. outages' = 0 => outages = 0 /\ ~IsIdle
    BY <1>2, SMTT(30) DEF SInv, SessionsTypeOK, StoreFails
  <2>4. (outages = 0 /\ first = -1)' => Untouched'
    BY <1>2, <2>3, SMTT(30) DEF CheckIdle, SInv, SessionsTypeOK, Untouched
  <2>5. (outages = 0 /\ Remembered)' => Begun'
    BY <1>2, <2>3, SMTT(30) DEF CheckIdle, SInv, SessionsTypeOK, Remembered, Begun, StartKept
  <2>6. (outages = 0 /\ Remembered /\ refused /\ ~crossed)' => Over'
    <3> SUFFICES ASSUME (outages = 0 /\ Remembered /\ refused /\ ~crossed)'
                 PROVE  Over'
      OBVIOUS
    <3>1. Begun /\ Over
      BY <1>2, <2>3 DEF CheckIdle, SInv, Remembered, StartKept
    <3>2. TooOld
      BY <2>3, <3>1, SessionLimits, SMTT(30)
      DEF Begun, Over, Stale, TooOld, IsIdle, IsKept, SInv, SessionsTypeOK
    <3> QED BY <1>2, <3>1, <3>2, SMTT(30) DEF CheckIdle, Over, TooOld, SInv, SessionsTypeOK
  <2> QED BY <2>1, <2>2, <2>4, <2>5, <2>6 DEF SInv
<1> QED BY <1>1, <1>2 DEF CheckIdle

LEMMA ReadStartKeeps == ASSUME SInv, NEW c \in Calls, ReadStart(c) PROVE SInv'
<1> USE DEF SInv
<1>1. CASE IsKept(start) /\ time - start.at > Lifetime /\ Refuse(c) /\ UNCHANGED outages
  <2>0. UNCHANGED <<time, active, start, first, outages>>
    BY <1>1 DEF ReadStart
  <2>1. SessionsTypeOK'
    BY <2>0, <1>1, RefuseTypes DEF SessionsTypeOK
  <2>2. Moments' /\ LateIsLate'
    BY <2>0, <1>1, RefuseTypes
  <2>3. outages = 0 => first # -1
    BY <1>1, SMTT(30) DEF SessionsTypeOK, IsKept, Untouched
  <2>4. (outages = 0 /\ Remembered)' => Begun'
    BY <2>0 DEF Remembered, Begun, StartKept
  <2>5. ~crossed' => Over'
    <3>1. TooOld'
      BY <2>0, <1>1 DEF TooOld
    <3>2. ~crossed' => \A d \in Calls : call'[d].at = "out"
      BY <2>0, <1>1, RefuseTypes
    <3> QED BY <3>1, <3>2 DEF Over
  <2> QED BY <2>0, <2>1, <2>2, <2>3, <2>4, <2>5
<1>2. ASSUME NEW at \in {"young", "unset"}, NEW moment \in Int,
             call' = [call EXCEPT ![c].at = at, ![c].moment = moment],
             at = "unset" => moment = time /\ ~IsKept(start),
             at = "young" => IsKept(start) /\ time - start.at <= Lifetime,
             UNCHANGED <<outages, refused, crossed>>
      PROVE  SInv'
  <2>0. UNCHANGED <<time, active, start, first, outages>>
    BY <1>2 DEF ReadStart
  <2>1. SessionsTypeOK'
    <3>1. call[c] \in Call
      BY DEF SessionsTypeOK
    <3>2. [[call[c] EXCEPT !.at = at] EXCEPT !.moment = moment] \in Call
      BY <3>1
    <3>3. call' \in [Calls -> Call]
      BY <1>2, <3>2 DEF SessionsTypeOK
    <3> QED BY <2>0, <1>2, <3>3 DEF SessionsTypeOK
  <2>2. Moments' /\ LateIsLate'
    BY <2>0, <1>2, SMTT(30) DEF SessionsTypeOK, Moments, LateIsLate
  <2>3. (outages = 0 /\ first = -1)' => Untouched'
    BY <2>0, <1>2, SMTT(30) DEF SessionsTypeOK, IsKept, Untouched
  <2>4. (outages = 0 /\ Remembered)' => Begun'
    BY <2>0 DEF Remembered, Begun, StartKept
  <2>5. (outages = 0 /\ Remembered /\ refused /\ ~crossed)' => FALSE
    <3> SUFFICES ASSUME outages = 0, Remembered, refused, ~crossed PROVE FALSE
      BY <2>0, <1>2 DEF Remembered, StartKept
    <3>1. Begun /\ Over
      OBVIOUS
    <3>2. TooOld
      BY <3>1 DEF Over, ReadStart
    <3>3. IsKept(start)
      BY <3>1 DEF Begun, Remembered, IsKept
    <3> QED BY <1>2, <3>2, <3>3, SessionLimits, SMTT(30) DEF TooOld, SessionsTypeOK
  <2> QED BY <2>1, <2>2, <2>3, <2>4, <2>5
<1>3. CASE StoreFails /\ Goes(c, "young") /\ UNCHANGED <<refused, crossed>>
  <2>0. UNCHANGED <<time, active, start, first>> /\ outages' # 0
    BY <1>3, SMTT(30) DEF ReadStart, StoreFails, SessionsTypeOK
  <2>1. SessionsTypeOK'
    BY <2>0, <1>3, SessionLimits, SMTT(30) DEF SessionsTypeOK, StoreFails, Goes
  <2>2. Moments' /\ LateIsLate'
    BY <2>0, <1>3, SMTT(30) DEF SessionsTypeOK, Moments, LateIsLate, Goes
  <2> QED BY <2>0, <2>1, <2>2
<1>4. CASE IsKept(start) /\ time - start.at <= Lifetime /\ Goes(c, "young")
           /\ UNCHANGED <<outages, refused, crossed>>
  <2>1. call' = [call EXCEPT ![c].at = "young", ![c].moment = call[c].moment]
    BY <1>4 DEF Goes, SessionsTypeOK
  <2>2. call[c].moment \in Int
    BY DEF SessionsTypeOK
  <2> QED BY <1>4, <2>1, <2>2, <1>2
<1>5. CASE ~IsKept(start) /\ call' = [call EXCEPT ![c].at = "unset", ![c].moment = time]
           /\ UNCHANGED <<outages, refused, crossed>>
  <2>1. time \in Int /\ "unset" \in {"young", "unset"}
    BY DEF SessionsTypeOK
  <2> QED BY <2>1, <1>5, <1>2
<1> QED BY <1>1, <1>3, <1>4, <1>5 DEF ReadStart

LEMMA WriteStartKeeps == ASSUME SInv, NEW c \in Calls, WriteStart(c) PROVE SInv'
<1>1. SessionsTypeOK'
  BY SessionLimits, SMTT(30)
  DEF WriteStart, SInv, SessionsTypeOK, Goes, StoreFails, StartKept
<1>2. Moments' /\ LateIsLate'
  BY SMTT(30) DEF WriteStart, SInv, SessionsTypeOK, Goes, Moments, LateIsLate
<1>3. outages' = 0 => outages = 0 /\ UNCHANGED outages
  BY SMTT(30) DEF WriteStart, SInv, SessionsTypeOK, StoreFails
<1>4. (outages = 0 /\ first = -1)' => Untouched'
  BY <1>3, SMTT(30)
  DEF WriteStart, SInv, SessionsTypeOK, Goes, StoreFails, IsKept, Untouched
<1>5. (outages = 0 /\ Remembered)' => Begun'
  <2> SUFFICES ASSUME (outages = 0 /\ Remembered)' PROVE Begun'
    OBVIOUS
  <2>1. CASE first = -1
    BY <1>3, <2>1, SMTT(30)
    DEF WriteStart, SInv, SessionsTypeOK, StoreFails, IsKept, Untouched, Remembered, Begun,
        StartKept, Moments
  <2>2. CASE first # -1
    <3>1. Begun /\ Remembered
      BY <1>3, <2>2, SMTT(30) DEF WriteStart, SInv, SessionsTypeOK, Remembered, StartKept
    <3>2. IsKept(start)
      BY <3>1 DEF Begun, Remembered, IsKept
    <3> QED BY <1>3, <3>1, <3>2, SMTT(30)
            DEF WriteStart, StoreFails, Begun, StartKept, SInv, SessionsTypeOK
  <2> QED BY <2>1, <2>2
<1>6. (outages = 0 /\ Remembered /\ refused /\ ~crossed)' => Over'
  <2> SUFFICES ASSUME (outages = 0 /\ Remembered /\ refused /\ ~crossed)'
               PROVE  FALSE
    OBVIOUS
  <2>1. first # -1
    BY <1>3, SMTT(30) DEF WriteStart, SInv, Untouched
  <2>2. Over
    BY <1>3, <2>1, SMTT(30) DEF WriteStart, SInv, SessionsTypeOK, Remembered, StartKept
  <2> QED BY <2>2 DEF Over, WriteStart
<1> QED BY <1>1, <1>2, <1>4, <1>5, <1>6 DEF SInv

LEMMA TouchKeeps == ASSUME SInv, NEW c \in Calls, Touch(c) PROVE SInv'
<1>1. SessionsTypeOK'
  BY SessionLimits, SMTT(30) DEF Touch, SInv, SessionsTypeOK, StoreFails
<1>2. Moments' /\ LateIsLate'
  BY SMTT(30) DEF Touch, SInv, SessionsTypeOK, Moments, LateIsLate
<1>3. outages' = 0 => outages = 0 /\ UNCHANGED outages
  BY SMTT(30) DEF Touch, SInv, SessionsTypeOK, StoreFails
<1>4. (outages = 0 /\ first = -1)' => FALSE
  BY <1>3, SMTT(30) DEF Touch, SInv, Untouched
<1>5. (outages = 0 /\ Remembered)' => Begun'
  BY <1>3, SMTT(30) DEF Touch, SInv, SessionsTypeOK, StoreFails, Remembered, Begun, StartKept
<1>6. (outages = 0 /\ Remembered /\ refused /\ ~crossed)' => FALSE
  BY <1>3, SMTT(30) DEF Touch, SInv, SessionsTypeOK, Remembered, StartKept, Over
<1> QED BY <1>1, <1>2, <1>4, <1>5, <1>6 DEF SInv

LEMMA PassTimeKeeps == ASSUME SInv, PassTime PROVE SInv'
<1>1. SessionsTypeOK'
  BY SessionLimits, SMTT(30) DEF PassTime, SInv, SessionsTypeOK
<1>2. Moments' /\ LateIsLate'
  BY SessionLimits, SMTT(30) DEF PassTime, SInv, SessionsTypeOK, Moments, LateIsLate
<1>3. (outages = 0 /\ first = -1)' => Untouched'
  BY SessionLimits, SMTT(30) DEF PassTime, SInv, Untouched
<1>4. (outages = 0 /\ Remembered)' => Remembered /\ Begun'
  BY SessionLimits, SMTT(30) DEF PassTime, SInv, SessionsTypeOK, Remembered, Begun, StartKept
<1>5. (outages = 0 /\ Remembered /\ refused /\ ~crossed)' => Over'
  BY <1>4, SessionLimits, SMTT(30) DEF PassTime, SInv, SessionsTypeOK, Over, TooOld, Stale
<1> QED BY <1>1, <1>2, <1>3, <1>4, <1>5 DEF SInv

LEMMA SInvStep == SInv /\ [SessionsNext]_sessionVars => SInv'
<1> SUFFICES ASSUME SInv, [SessionsNext]_sessionVars PROVE SInv'
  OBVIOUS
<1>1. CASE UNCHANGED sessionVars
  BY <1>1 DEF sessionVars, SInv, SessionsTypeOK, Moments, LateIsLate, Untouched, Begun, Over,
              TooOld, Stale, Remembered, StartKept
<1>2. CASE SessionsNext
  BY <1>2, CheckIdleKeeps, ReadStartKeeps, WriteStartKeeps, TouchKeeps, PassTimeKeeps
  DEF SessionsNext
<1> QED BY <1>1, <1>2

-----------------------------------------------------------------------------
\* Every reachable state of Sessions is well typed.
THEOREM SessionsTypes == SessionsSpec => []SessionsTypeOK
<1>1. SInv => SessionsTypeOK
  BY DEF SInv
<1> QED BY SInvInit, SInvStep, <1>1, PTL DEF SessionsSpec

\* A session that was refused is not served again before its keys may have
\* been forgotten (core/idle_activity.py), for any limits with a Lifetime
\* shorter than IdleKept and any number of requests at once.
THEOREM RefusedStaysRefused == SessionsSpec => []EndedStaysEnded
<1>1. SInv => EndedStaysEnded
  <2> SUFFICES ASSUME SInv, NEW c \in Calls,
                      call[c].at = "young", call[c].late, outages = 0, ~crossed,
                      ~(time >= first + StartKept)
               PROVE  FALSE
    BY DEF EndedStaysEnded, SInv
  <2>1. refused /\ first # -1
    BY DEF SInv, LateIsLate, Untouched
  <2>2. Remembered
    BY <2>1, SessionLimits, SMTT(30) DEF SInv, SessionsTypeOK, Remembered, StartKept
  <2> QED BY <2>1, <2>2 DEF SInv, Over
<1> QED BY SInvInit, SInvStep, <1>1, PTL DEF SessionsSpec

HIDE DEF Key, NoKey, Call, NoCall

-----------------------------------------------------------------------------
(* The accounts: Invites goes on beside the verification links, and what   *)
(* these take for their account is the owner's users row, which never      *)
(* passes from one Auth user to another without being gone in between.     *)

\* The theorems of Verification, for the account of the owner.
VP == INSTANCE VerificationProofs
        WITH Users <- Subs, Home <- Owner, Addresses <- Others \cup {Owner},
             account <- local[Owner]

LEMMA LocalComesAndGoes ==
    ASSUME IInv, Next, NEW e \in Emails
    PROVE  local'[e] = local[e] \/ local[e] = None \/ local'[e] = None
<1> DEFINE Goal == local'[e] = local[e] \/ local[e] = None \/ local'[e] = None
<1>1. UNCHANGED local => Goal
  OBVIOUS
<1>2. ASSUME NEW p \in Sessions, ~Taken(session[p].email), Committed(p) PROVE Goal
  BY <1>2, SubTypes DEF Committed, Taken
<1>3. ASSUME NEW f, Purged(f) PROVE Goal
  BY <1>3, SubTypes DEF Purged
<1>4. ASSUME NEW p \in Sessions, Signup(p) PROVE Goal
  <2>1. CASE CommitSignup(p) \/ CommitUnanswered(p)
    BY <1>1, <1>2, <2>1 DEF CommitSignup, CommitUnanswered
  <2>2. CASE ~(CommitSignup(p) \/ CommitUnanswered(p))
    <3>1. UNCHANGED local
      BY <1>4, <2>2 DEF Signup, Submit, Redeem, CreateAuth, CreateAuthUnanswered, Compensate
    <3> QED BY <1>1, <3>1
  <2> QED BY <2>1, <2>2
<1>5. ASSUME NEW p \in Sessions, Ops(p) PROVE Goal
  <2>1. UNCHANGED local
    BY <1>5 DEF Ops, Ask, LockEntry, Issue, Mail, MailUnrecorded, MarkSent, Revoke, StartRun,
                EndRun, NextLetter
  <2> QED BY <1>1, <2>1
<1>6. ASSUME NEW p \in Sessions, Deletion(p) PROVE Goal
  <2>1. CASE DeleteLocal(p) \/ \E f \in Emails : SelfDelete(p, f)
    BY <1>1, <1>3, <2>1 DEF DeleteLocal, SelfDelete
  <2>2. CASE ~(DeleteLocal(p) \/ \E f \in Emails : SelfDelete(p, f))
    <3>1. UNCHANGED local
      BY <1>6, <2>2 DEF Deletion, DeleteAuth, SelfDeleteFails, FindOrphan, DeleteLocalFails,
                        DeleteOrphan
    <3> QED BY <1>1, <3>1
  <2> QED BY <2>1, <2>2
<1>7. ASSUME ~(\E p \in Sessions : Signup(p) \/ Ops(p) \/ Deletion(p)) PROVE Goal
  <2>1. UNCHANGED local
    BY <1>7 DEF Next, Die, CreateInvite, Refer, Unsubscribe, Expire, Tick
  <2> QED BY <1>1, <2>1
<1> HIDE DEF Goal
<1>8. Goal
  BY <1>4, <1>5, <1>6, <1>7
<1> QED BY <1>8 DEF Goal

LEMMA LinksFollow == ASSUME IInv, IInv', [AccountsNext]_accountVars PROVE [V!Next]_V!vars
<1>1. Owner \in Emails
  BY AccountsAssumption
<1>2. local[Owner] \in Subs \cup {None} /\ local'[Owner] \in Subs \cup {None}
  BY <1>1, SubTypes DEF IInv, TypeOK
<1>3. CASE AccountStep
  <2>1. local'[Owner] = local[Owner] \/ local[Owner] = None \/ local'[Owner] = None
    BY <1>1, <1>3, LocalComesAndGoes DEF AccountStep
  <2>2. CASE local'[Owner] = local[Owner]
    BY <1>3, <2>2 DEF AccountStep, V!vars, verification
  <2>3. CASE local[Owner] = None /\ local'[Owner] # None
    BY <1>2, <1>3, <2>3 DEF AccountStep, V!Next
  <2>4. CASE local[Owner] # None /\ local'[Owner] = None
    BY <1>3, <2>4 DEF AccountStep, V!Next
  <2> QED BY <2>1, <2>2, <2>3, <2>4
<1>4. CASE LinkStep
  BY <1>4 DEF LinkStep, V!Next
<1>5. CASE UNCHANGED accountVars
  BY <1>5 DEF accountVars, V!vars, vars, verification
<1> QED BY <1>3, <1>4, <1>5 DEF AccountsNext

\* V and VP are one module, instantiated twice.
LEMMA SameConstants == V!ConstantsOK => VP!ConstantsOK
BY DEF V!ConstantsOK, VP!ConstantsOK

LEMMA SameInit == V!Init => VP!Init
BY DEF V!Init, VP!Init, V!NoColumns, VP!NoColumns, V!NoLink, VP!NoLink, V!NoTask, VP!NoTask, V!Idle, VP!Idle

LEMMA SameNext == [V!Next]_V!vars => [VP!Next]_VP!vars
<1>1. V!Next => VP!Next
  BY DEF V!Scopes, VP!Scopes, V!Link, VP!Link, V!NoLink, VP!NoLink, V!Columns, VP!Columns,
       V!NoColumns, VP!NoColumns, V!Clerk, VP!Clerk, V!Idle, VP!Idle, V!Task, VP!Task,
       V!NoTask, VP!NoTask, V!Hire, VP!Hire, V!Use, VP!Use, V!Pending, VP!Pending,
       V!NextId, VP!NextId, V!Moved, VP!Moved, V!Found, VP!Found, V!TooSoon, VP!TooSoon,
       V!Asked, VP!Asked, V!Request, VP!Request, V!StartTask, VP!StartTask,
       V!Superseded, VP!Superseded, V!TaskAfter, VP!TaskAfter, V!Sent, VP!Sent,
       V!NotSent, VP!NotSent, V!NotStored, VP!NotStored, V!Click, VP!Click, V!Verified,
       VP!Verified, V!Confirm, VP!Confirm, V!PollRead, VP!PollRead, V!PollWrite,
       VP!PollWrite, V!Age, VP!Age, V!Break, VP!Break, V!Withdraw, VP!Withdraw,
       V!Appear, VP!Appear, V!Remove, VP!Remove, V!Step, VP!Step, V!Next, VP!Next
<1>2. UNCHANGED V!vars => UNCHANGED VP!vars
  BY DEF V!vars, VP!vars
<1> QED BY <1>1, <1>2

LEMMA SameProperties == (VP!VerifiedByLink => V!VerifiedByLink)
                        /\ (VP!TerminalStays => V!TerminalStays)
<1>1. VP!VerifiedByLink => V!VerifiedByLink
  BY DEF V!VerifiedByLink, VP!VerifiedByLink, V!Pending, VP!Pending, V!vars, VP!vars
<1>2. VP!TerminalStays => V!TerminalStays
  BY DEF V!TerminalStays, VP!TerminalStays, V!vars, VP!vars
<1> QED BY <1>1, <1>2

LEMMA AccountsSpecs == AccessSpec => Spec /\ VP!Spec
<1>1. AccessInit => Init /\ VP!Init
  BY SameInit DEF AccessInit, AccountsInit
<1>2. [AccountsStep \/ SessionStep \/ TokenStep \/ QuietStep \/ NoticeStep]_accessVars
      => [AccountsNext]_accountVars
  BY DEF AccountsStep, SessionStep, TokenStep, QuietStep, NoticeStep, accessVars
<1>3. [AccountsNext]_accountVars => [Next]_vars
  BY DEF AccountsNext, AccountStep, LinkStep, accountVars
<1>4. IInv /\ IInv' /\ [AccountsNext]_accountVars => [VP!Next]_VP!vars
  BY LinksFollow, SameNext
<1>5. AccessSpec => Spec
  BY <1>1, <1>2, <1>3, PTL DEF AccessSpec, Spec
<1> QED BY <1>1, <1>2, <1>4, <1>5, InvariantHolds, PTL DEF AccessSpec, VP!Spec

-----------------------------------------------------------------------------
(* The parts together: a step of one leaves the others as they are.        *)

LEMMA AccessSpecs == AccessSpec => SessionsSpec /\ TokensSpec /\ QuietSpec /\ NoticesSpec
<1>1. AccessInit => SessionsInit /\ TokensInit /\ QuietInit /\ NoticesInit
  BY DEF AccessInit
<1>2. [AccountsStep \/ SessionStep \/ TokenStep \/ QuietStep \/ NoticeStep]_accessVars
      => /\ [SessionsNext]_sessionVars /\ [TokensNext]_tokenVars
         /\ [QuietNext]_quietVars /\ [NoticesNext]_noticeVars
  BY DEF AccountsStep, SessionStep, TokenStep, QuietStep, NoticeStep, accessVars,
         sessionVars, tokenVars, quietVars, noticeVars
<1> QED BY <1>1, <1>2, PTL DEF AccessSpec, SessionsSpec, TokensSpec, QuietSpec, NoticesSpec

\* Whatever is proved of a part holds of Access, which is what the run checks:
\* signups, invites, letters and deletions (routers/auth.py,
\* services/invites.py, tasks/waitlist_tasks.py) with verification links that
\* come and go with the account (services/email_verification.py), the session
\* limits, the cap on tokens, the quiet windows and the notices.
THEOREM AccessKeepsItsWord ==
    AccessSpec => /\ []OneLiveInvite /\ []UsersMatchAuth /\ []AutoLimit /\ RedeemedWasLive
                  /\ VerifiedByLink /\ TerminalStays
                  /\ []EndedStaysEnded /\ []ActiveTokensCapped
                  /\ []GateMatchesTasks /\ []ToldOnce
<1>1. VP!ConstantsOK
  BY AccountsAssumption, SameConstants
<1>2. VP!Spec => VerifiedByLink /\ TerminalStays
  <2>1. VP!Spec => VP!VerifiedByLink
    BY <1>1, VP!VerifiedThroughLinks
  <2>2. VP!Spec => VP!TerminalStays
    BY <1>1, VP!TerminalForEver
  <2> QED BY <2>1, <2>2, SameProperties DEF VerifiedByLink, TerminalStays
<1>3. AccessSpec => /\ []OneLiveInvite /\ []UsersMatchAuth /\ []AutoLimit /\ RedeemedWasLive
                    /\ VerifiedByLink /\ TerminalStays
  BY <1>2, AccountsSpecs, OneLinkAtATime, TheTwoSystemsAgree, DailyLimitHolds,
     RedeemedInvitesWereLive, PTL
<1>4. AccessSpec => /\ []EndedStaysEnded /\ []ActiveTokensCapped
                    /\ []GateMatchesTasks /\ []ToldOnce
  BY AccessSpecs, RefusedStaysRefused, TokensCapped, GateIsRight, NoticesToldOnce, PTL
<1> QED BY <1>3, <1>4

=============================================================================
