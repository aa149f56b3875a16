------------------------- MODULE VerificationProofs -------------------------
(***************************************************************************)
(* Verification keeps its type, never moves a link that has left pending,  *)
(* and verifies an address only through a pending link to it, for any      *)
(* accounts, links and addresses.                                          *)
(***************************************************************************)
EXTENDS Verification, TLAPS

\* What a click has read is still what the link says, while it is pending.
Clicked ==
    \A c \in Clerks :
        clerk[c].pc = "confirm" =>
            /\ clerk[c].link \in LinkIds
            /\ links[clerk[c].link].status # "none"
            /\ Pending(clerk[c].link) =>
                   /\ links[clerk[c].link].scope = clerk[c].scope
                   /\ links[clerk[c].link].email = clerk[c].email
                   /\ clerk[c].scope = "account_email" /\ ~clerk[c].late =>
                          clerk[c].email = Home

IInv == TypeOK /\ Clicked

-----------------------------------------------------------------------------
\* The values that mean nothing have their types, and a budget stays one.
LEMMA Blanks == ConstantsOK => NoTask \in Task /\ NoLink \in Link /\ Idle \in Clerk
    BY DEF ConstantsOK, NoTask, Task, NoLink, Link, Idle, Clerk, Scopes

LEMMA UseKeeps ==
    ASSUME TypeOK, NEW kind \in {"asks", "clicks", "ages", "breaks"}, Use(kind)
    PROVE  spare' \in [asks : Nat, clicks : Nat, ages : Nat, breaks : Nat]
<1>1. spare[kind] \in Nat /\ spare[kind] > 0
    BY DEF TypeOK, Use
<1>2. spare[kind] - 1 \in Nat
    BY <1>1
<1> QED
    BY <1>2 DEF TypeOK, Use

\* Of these links only the pending ones change, and only by leaving it.
KeptBy(after, ids) ==
    \A k \in ids : /\ after[k].scope = links[k].scope /\ after[k].email = links[k].email
                   /\ \/ after[k].status = links[k].status
                      \/ Pending(k) /\ after[k].status \in
                             {"verified", "expired", "superseded", "undeliverable"}

\* A link that is moved keeps its address and scope, and was pending.
LEMMA MovedLinks ==
    ASSUME links \in [LinkIds -> Link], NEW l,
           NEW s \in {"verified", "expired", "superseded", "undeliverable"}
    PROVE  Moved(l, s) \in [LinkIds -> Link] /\ KeptBy(Moved(l, s), LinkIds)
<1>1. CASE ~Pending(l)
    BY <1>1 DEF Moved, KeptBy
<1>2. CASE Pending(l)
    <2>1. Moved(l, s) = [links EXCEPT ![l].status = s]
        BY <1>2 DEF Moved
    <2>2. \A k \in LinkIds :
              Moved(l, s)[k] = IF k = l THEN [links[k] EXCEPT !.status = s] ELSE links[k]
        BY <2>1
    <2>3. \A k \in LinkIds :
              /\ links[k] \in Link /\ [links[k] EXCEPT !.status = s] \in Link
              /\ [links[k] EXCEPT !.status = s].status = s
              /\ [links[k] EXCEPT !.status = s].scope = links[k].scope
              /\ [links[k] EXCEPT !.status = s].email = links[k].email
        BY DEF Link
    <2>4. Moved(l, s) \in [LinkIds -> Link]
        BY <2>1, <2>2, <2>3
    <2> QED
        BY <1>2, <2>2, <2>3, <2>4 DEF KeptBy
<1> QED
    BY <1>1, <1>2

\* The new link takes an unused id; of the others, only the prior one changes.
LEMMA SupersededLinks ==
    ASSUME ConstantsOK, TypeOK, NEW c \in Clerks, NEW l \in LinkIds, NextId(l)
    PROVE  /\ Superseded(clerk[c], l) \in [LinkIds -> Link]
           /\ KeptBy(Superseded(clerk[c], l), LinkIds \ {l})
           /\ links[l].status = "none"
<1> DEFINE k == clerk[c]
           base == IF k.link = None THEN links ELSE Moved(k.link, "superseded")
           new == [NoLink EXCEPT !.status = "pending", !.scope = k.scope, !.email = k.email]
<1>1. k \in Clerk /\ links \in [LinkIds -> Link]
    BY DEF TypeOK
<1>2. base \in [LinkIds -> Link] /\ KeptBy(base, LinkIds)
    BY <1>1, MovedLinks DEF KeptBy
<1>3. new \in Link
    BY <1>1 DEF NoLink, Link, Clerk
<1>4. Superseded(k, l) = [base EXCEPT ![l] = new]
    BY DEF Superseded
<1>5. links[l].status = "none"
    BY DEF NextId, NoLink
<1> HIDE DEF base, new, k
<1>6. /\ [base EXCEPT ![l] = new] \in [LinkIds -> Link]
      /\ \A j \in LinkIds \ {l} : [base EXCEPT ![l] = new][j] = base[j]
    BY <1>2, <1>3
<1>7. KeptBy([base EXCEPT ![l] = new], LinkIds \ {l})
    BY <1>2, <1>6 DEF KeptBy
<1> QED
    BY <1>4, <1>5, <1>6, <1>7 DEF k

-----------------------------------------------------------------------------
(* Each action keeps IInv.                                                 *)

LEMMA InitIInv == ConstantsOK /\ Init => IInv
    BY DEF Init, IInv, TypeOK, Clicked, ConstantsOK, NoColumns, Columns, NoLink, Link, Scopes,
           NoTask, Task, Idle, Clerk

\* A clerk is hired, or let go, and the links stay.
LEMMA HireKeeps ==
    ASSUME IInv, NEW c \in Clerks, NEW k \in Clerk, Hire(c, k), UNCHANGED links,
           k.pc = "confirm" =>
               /\ k.link \in LinkIds /\ links[k.link].status # "none"
               /\ links[k.link].scope = k.scope /\ links[k.link].email = k.email
               /\ k.scope = "account_email" /\ ~k.late => k.email = Home
    PROVE  clerk' \in [Clerks -> Clerk] /\ Clicked'
<1>1. clerk \in [Clerks -> Clerk] /\ Clicked
    BY DEF IInv, TypeOK
<1>2. clerk' \in [Clerks -> Clerk] /\ \A d \in Clerks : clerk'[d] = IF d = c THEN k ELSE clerk[d]
    BY <1>1 DEF Hire
<1> QED
    BY <1>1, <1>2 DEF Clicked, Pending

\* A clerk is let go, and the links move as they may.
LEMMA LinksKeep ==
    ASSUME IInv, NEW c \in Clerks, Hire(c, Idle) \/ UNCHANGED clerk, Idle \in Clerk,
           links' \in [LinkIds -> Link],
           KeptBy(links', {l \in LinkIds : links[l].status # "none"})
    PROVE  clerk' \in [Clerks -> Clerk] /\ Clicked'
<1>1. clerk \in [Clerks -> Clerk] /\ Clicked
    BY DEF IInv, TypeOK
<1>2. /\ clerk' \in [Clerks -> Clerk]
      /\ \A d \in Clerks : clerk'[d].pc = "confirm" => clerk'[d] = clerk[d]
    <2>1. CASE UNCHANGED clerk
        BY <1>1, <2>1
    <2>2. CASE clerk' = [clerk EXCEPT ![c] = Idle]
        <3>1. Idle.pc # "confirm"
            BY DEF Idle
        <3> QED
            BY <1>1, <2>2, <3>1
    <2> QED
        BY <2>1, <2>2 DEF Hire
<1> QED
    BY <1>1, <1>2 DEF Clicked, Pending, KeptBy

LEMMA RequestKeeps ==
    ASSUME ConstantsOK, IInv, NEW c \in Clerks,
           (\E scope \in Scopes, email \in Addresses : Request(c, scope, email)) \/ StartTask(c)
    PROVE  IInv'
<1>1. ASSUME NEW scope \in Scopes, NEW email \in Addresses, NEW l \in Found(scope),
             NEW first \in BOOLEAN
      PROVE  Asked(scope, email, l, first) \in Clerk /\ Asked(scope, email, l, first).pc = "send"
    BY <1>1 DEF Asked, Idle, Clerk, Found, IInv, TypeOK, ConstantsOK, Scopes
<1>2. CASE \E scope \in Scopes, email \in Addresses : Request(c, scope, email)
    <2>1. PICK scope \in Scopes, email \in Addresses : Request(c, scope, email)
        BY <1>2
    <2>2. PICK l \in Found(scope) : Hire(c, Asked(scope, email, l, FALSE))
        BY <2>1 DEF Request
    <2>3. UNCHANGED links
        BY <2>1 DEF Request
    <2>4. clerk' \in [Clerks -> Clerk] /\ Clicked'
        BY <1>1, <2>2, <2>3, HireKeeps
    <2>5. spare' \in [asks : Nat, clicks : Nat, ages : Nat, breaks : Nat]
        BY <2>1, UseKeeps DEF Request, IInv
    <2> QED
        BY <2>1, <2>4, <2>5 DEF Request, IInv, TypeOK
<1>3. CASE StartTask(c)
    <2>1. "account_email" \in Scopes /\ Home \in Addresses
        BY DEF Scopes, ConstantsOK
    <2>2. UNCHANGED links /\ task' \in Task
        BY <1>3, Blanks DEF StartTask, IInv, TypeOK
    <2>3. clerk' \in [Clerks -> Clerk] /\ Clicked'
        <3>1. CASE \E l \in Found("account_email") :
                       Hire(c, Asked("account_email", Home, l, TRUE))
            BY <1>1, <2>1, <2>2, <3>1, HireKeeps
        <3>2. CASE UNCHANGED clerk
            BY <2>2, <3>2 DEF IInv, TypeOK, Clicked, Pending
        <3> QED
            BY <1>3, <3>1, <3>2 DEF StartTask
    <2> QED
        BY <1>3, <2>2, <2>3 DEF StartTask, IInv, TypeOK
<1> QED
    BY <1>2, <1>3

\* A mail that was sent, or not, or not stored.
LEMMA SendKeeps ==
    ASSUME ConstantsOK, IInv, NEW c \in Clerks, Sent(c) \/ NotSent(c) \/ NotStored(c)
    PROVE  IInv'
<1>1. Idle \in Clerk /\ Idle.pc = "idle"
    BY DEF Idle, Clerk, ConstantsOK, Scopes
<1>2. \A sent \in BOOLEAN : TaskAfter(clerk[c], sent) \in Task
    BY DEF TaskAfter, Task, NoTask, IInv, TypeOK, ConstantsOK
<1>3. CASE Sent(c)
    <2>1. PICK l \in LinkIds : /\ NextId(l) /\ links' = Superseded(clerk[c], l)
                               /\ polls' \in {polls, polls \cup {l}}
        BY <1>3 DEF Sent
    <2>2. /\ links' \in [LinkIds -> Link] /\ KeptBy(links', LinkIds \ {l})
          /\ links[l].status = "none"
        BY <2>1, SupersededLinks DEF IInv
    <2>3. KeptBy(links', {k \in LinkIds : links[k].status # "none"})
        BY <2>2 DEF KeptBy
    <2>4. clerk' \in [Clerks -> Clerk] /\ Clicked'
        BY <1>1, <1>3, <2>2, <2>3, LinksKeep DEF Sent
    <2> QED
        BY <1>2, <1>3, <2>1, <2>2, <2>4 DEF Sent, IInv, TypeOK
<1>4. CASE NotSent(c) \/ NotStored(c)
    <2>1. UNCHANGED links /\ Hire(c, Idle) /\ task' \in Task
        BY <1>2, <1>4 DEF NotSent, NotStored
    <2>2. clerk' \in [Clerks -> Clerk] /\ Clicked'
        BY <1>1, <2>1, HireKeeps
    <2>3. spare' \in [asks : Nat, clicks : Nat, ages : Nat, breaks : Nat]
        BY <1>4, UseKeeps DEF NotSent, NotStored, IInv, TypeOK
    <2> QED
        BY <1>4, <2>1, <2>2, <2>3 DEF NotSent, NotStored, IInv, TypeOK
<1> QED
    BY <1>3, <1>4

\* A click and its answer.
LEMMA ConfirmKeeps ==
    ASSUME ConstantsOK, IInv, NEW c \in Clerks, (\E l \in LinkIds : Click(c, l)) \/ Confirm(c)
    PROVE  IInv'
<1>1. Idle \in Clerk
    BY DEF Idle, Clerk, ConstantsOK, Scopes
<1>2. ASSUME NEW l \in LinkIds, Click(c, l) PROVE IInv'
    <2> DEFINE k == [Idle EXCEPT !.pc = "confirm", !.user = account, !.scope = links[l].scope,
                                 !.email = links[l].email, !.link = l, !.late = links[l].late]
    <2>1. links[l] \in Link /\ account \in Users \cup {None}
        BY DEF IInv, TypeOK
    <2>2. k \in Clerk
        BY <2>1 DEF Idle, Clerk, Link, Scopes
    <2>3. k.link = l /\ k.scope = links[l].scope
        BY DEF Idle
    <2>4. k.email = links[l].email /\ k.late = links[l].late
        BY DEF Idle
    <2>5. Hire(c, k) /\ UNCHANGED links
          /\ (links[l].late \/ links[l].scope # "account_email" \/ links[l].email = Home)
          /\ links[l].status # "none"
        BY <1>2 DEF Click, Pending
    <2> HIDE DEF k
    <2>6. clerk' \in [Clerks -> Clerk] /\ Clicked'
        BY <2>2, <2>3, <2>4, <2>5, HireKeeps
    <2>7. spare' \in [asks : Nat, clicks : Nat, ages : Nat, breaks : Nat]
        BY <1>2, UseKeeps DEF Click, IInv
    <2> QED
        BY <1>2, <2>6, <2>7 DEF Click, IInv, TypeOK
<1>3. ASSUME Confirm(c) PROVE IInv'
    <2>1. PICK s \in {"verified", "expired"} : links' = Moved(clerk[c].link, s)
        BY <1>3 DEF Confirm
    <2>2. links \in [LinkIds -> Link]
        BY DEF IInv, TypeOK
    <2>3. links' \in [LinkIds -> Link]
          /\ KeptBy(links', {l \in LinkIds : links[l].status # "none"})
        BY <2>1, <2>2, MovedLinks DEF KeptBy
    <2>4. clerk' \in [Clerks -> Clerk] /\ Clicked'
        BY <1>1, <1>3, <2>3, LinksKeep DEF Confirm
    <2>5. clerk[c] \in Clerk
        BY DEF IInv, TypeOK
    <2>6. columns' \in Columns
        BY <1>3, <2>5 DEF Confirm, Verified, Columns, Clerk, IInv, TypeOK
    <2> QED
        BY <1>3, <2>3, <2>4, <2>6 DEF Confirm, IInv, TypeOK
<1> QED
    BY <1>2, <1>3

\* A poll, and a process that dies.
LEMMA PollKeeps ==
    ASSUME ConstantsOK, IInv, NEW c \in Clerks,
           (\E l \in LinkIds : PollRead(c, l)) \/ PollWrite(c) \/ Break(c)
    PROVE  IInv'
<1>1. Idle \in Clerk /\ Idle.pc = "idle"
    BY DEF Idle, Clerk, ConstantsOK, Scopes
<1>2. ASSUME NEW l \in LinkIds, PollRead(c, l) PROVE IInv'
    <2>1. PICK k \in Clerk : Hire(c, k) /\ k.pc # "confirm"
        <3>1. [Idle EXCEPT !.pc = "bounce", !.link = l] \in Clerk
              /\ [Idle EXCEPT !.pc = "bounce", !.link = l].pc = "bounce"
            BY <1>1 DEF Idle, Clerk
        <3> QED
            BY <1>1, <1>2, <3>1 DEF PollRead
    <2>2. clerk' \in [Clerks -> Clerk] /\ Clicked'
        BY <1>2, <2>1, HireKeeps DEF PollRead
    <2> QED
        BY <1>2, <2>2 DEF PollRead, IInv, TypeOK
<1>3. ASSUME PollWrite(c) PROVE IInv'
    <2>1. links' = Moved(clerk[c].link, "undeliverable")
        BY <1>3 DEF PollWrite
    <2>2. links \in [LinkIds -> Link]
        BY DEF IInv, TypeOK
    <2>3. links' \in [LinkIds -> Link]
          /\ KeptBy(links', {l \in LinkIds : links[l].status # "none"})
        BY <2>1, <2>2, MovedLinks DEF KeptBy
    <2>4. clerk' \in [Clerks -> Clerk] /\ Clicked'
        BY <1>1, <1>3, <2>3, LinksKeep DEF PollWrite
    <2> QED
        BY <1>3, <2>3, <2>4 DEF PollWrite, IInv, TypeOK
<1>4. ASSUME Break(c) PROVE IInv'
    <2>1. clerk' \in [Clerks -> Clerk] /\ Clicked'
        BY <1>1, <1>4, HireKeeps DEF Break
    <2>2. spare' \in [asks : Nat, clicks : Nat, ages : Nat, breaks : Nat]
        BY <1>4, UseKeeps DEF Break, IInv
    <2> QED
        BY <1>4, <2>1, <2>2 DEF Break, IInv, TypeOK
<1> QED
    BY <1>2, <1>3, <1>4

\* Time, and what happens to the account.
LEMMA OutsideKeeps ==
    ASSUME ConstantsOK, IInv,
           \/ \E l \in LinkIds : Age(l)
           \/ \E scope \in Scopes : Withdraw(scope)
           \/ \E u \in Users : Appear(u)
           \/ Remove
    PROVE  IInv'
<1>1. ASSUME NEW l \in LinkIds, Age(l) PROVE IInv'
    <2>1. PICK late \in BOOLEAN :
              links' = IF late THEN [links EXCEPT ![l].stale = TRUE, ![l].late = TRUE]
                       ELSE [links EXCEPT ![l].stale = TRUE]
        BY <1>1 DEF Age
    <2>2. /\ links' \in [LinkIds -> Link]
          /\ \A k \in LinkIds : /\ links'[k].status = links[k].status
                                /\ links'[k].scope = links[k].scope
                                /\ links'[k].email = links[k].email
        BY <2>1, ZenonT(40) DEF IInv, TypeOK, Link
    <2>3. Clicked' /\ UNCHANGED clerk
        BY <1>1, <2>2 DEF Age, IInv, Clicked, Pending
    <2>4. spare' \in [asks : Nat, clicks : Nat, ages : Nat, breaks : Nat]
        BY <1>1, UseKeeps DEF Age, IInv
    <2> QED
        BY <1>1, <2>2, <2>3, <2>4 DEF Age, IInv, TypeOK
<1>2. ASSUME NEW scope \in Scopes, Withdraw(scope) PROVE IInv'
    <2>1. columns' \in Columns
        BY <1>2 DEF Withdraw, Columns, IInv, TypeOK
    <2>2. spare' \in [asks : Nat, clicks : Nat, ages : Nat, breaks : Nat]
        BY <1>2, UseKeeps DEF Withdraw, IInv
    <2> QED
        BY <1>2, <2>1, <2>2 DEF Withdraw, IInv, TypeOK, Clicked, Pending
<1>3. ASSUME NEW u \in Users, Appear(u) PROVE IInv'
    <2>1. [NoTask EXCEPT !.user = u] \in Task
        BY Blanks DEF NoTask, Task
    <2> QED
        BY <1>3, <2>1 DEF Appear, IInv, TypeOK, Clicked, Pending
<1>4. ASSUME Remove PROVE IInv'
    <2>1. /\ links' \in [LinkIds -> Link]
          /\ \A l \in LinkIds : links[l].status # "none" => links'[l].status = "deleted"
        <3>1. /\ [NoLink EXCEPT !.status = "deleted"] \in Link
              /\ [NoLink EXCEPT !.status = "deleted"].status = "deleted"
              /\ NoLink \in Link /\ NoLink.status = "none"
            BY Blanks DEF NoLink, Link
        <3>2. \A l \in LinkIds : links'[l] = IF links[l] = NoLink THEN NoLink
                                             ELSE [NoLink EXCEPT !.status = "deleted"]
            BY <1>4 DEF Remove
        <3>3. links' = [l \in LinkIds |-> links'[l]]
            BY <1>4 DEF Remove
        <3> QED
            BY <3>1, <3>2, <3>3
    <2>2. Clicked' /\ UNCHANGED clerk
        BY <1>4, <2>1 DEF Remove, IInv, Clicked, Pending
    <2>3. columns' \in Columns
        BY <1>4 DEF Remove, NoColumns, Columns
    <2> QED
        BY <1>4, <2>1, <2>2, <2>3 DEF Remove, IInv, TypeOK
<1> QED
    BY <1>1, <1>2, <1>3, <1>4

LEMMA NextIInv == ConstantsOK /\ IInv /\ [Next]_vars => IInv'
<1> SUFFICES ASSUME ConstantsOK, IInv, [Next]_vars PROVE IInv'
    OBVIOUS
<1>1. CASE UNCHANGED vars
    BY <1>1 DEF vars, IInv, TypeOK, Clicked, Pending
<1>2. CASE Next
    BY <1>2, RequestKeeps, SendKeeps, ConfirmKeeps, PollKeeps, OutsideKeeps DEF Next, Step
<1> QED
    BY <1>1, <1>2

-----------------------------------------------------------------------------
\* The properties of one step.
TerminalStep ==
    \A l \in LinkIds :
        links[l].status \notin {"none", "pending"} =>
            links'[l].status \in {links[l].status, "deleted"}

VerifiedStep ==
    /\ columns'.home /\ ~columns.home =>
           \E l \in LinkIds : /\ Pending(l) /\ links'[l].status = "verified"
                              /\ links[l].scope = "account_email" /\ links[l].email = Home
    /\ columns'.delivery \notin {None, columns.delivery} =>
           \E l \in LinkIds : /\ Pending(l) /\ links'[l].status = "verified"
                              /\ links[l].scope = "delivery_email"
                              /\ links[l].email = columns'.delivery

\* A link is moved by an UPDATE that looks at its status.
LEMMA TerminalLemma == ConstantsOK /\ IInv /\ [Next]_vars => TerminalStep
<1> SUFFICES ASSUME ConstantsOK, IInv, [Next]_vars PROVE TerminalStep
    OBVIOUS
<1>1. ASSUME UNCHANGED links PROVE TerminalStep
    BY <1>1 DEF TerminalStep
<1>2. ASSUME NEW l, NEW s \in {"verified", "expired", "superseded", "undeliverable"},
             links' = Moved(l, s)
      PROVE  TerminalStep
    BY <1>2, MovedLinks DEF TerminalStep, KeptBy, Pending, IInv, TypeOK
<1>3. ASSUME NEW c \in Clerks, Sent(c) PROVE TerminalStep
    <2>1. PICK l \in LinkIds : NextId(l) /\ links' = Superseded(clerk[c], l)
        BY <1>3 DEF Sent
    <2> QED
        BY <2>1, SupersededLinks DEF TerminalStep, IInv, KeptBy, Pending
<1>4. ASSUME NEW l \in LinkIds, Age(l) PROVE TerminalStep
    BY <1>4 DEF Age, TerminalStep, Pending, IInv, TypeOK
<1>5. ASSUME Remove PROVE TerminalStep
    BY <1>5 DEF Remove, TerminalStep, NoLink
<1>6. ASSUME NEW c \in Clerks, Confirm(c) \/ PollWrite(c) PROVE TerminalStep
    BY <1>2, <1>6 DEF Confirm, PollWrite
<1>7. CASE UNCHANGED vars
    BY <1>1, <1>7 DEF vars
<1>8. CASE Next
    <2>1. ASSUME NEW c \in Clerks,
                 \/ \E scope \in Scopes, email \in Addresses : Request(c, scope, email)
                 \/ StartTask(c) \/ NotSent(c) \/ NotStored(c) \/ Break(c)
                 \/ \E l \in LinkIds : Click(c, l) \/ PollRead(c, l)
          PROVE  UNCHANGED links
        BY <2>1 DEF Request, StartTask, NotSent, NotStored, Break, Click, PollRead
    <2>2. ASSUME (\E scope \in Scopes : Withdraw(scope)) \/ (\E u \in Users : Appear(u))
          PROVE  UNCHANGED links
        BY <2>2 DEF Withdraw, Appear
    <2> QED
        BY <1>1, <1>3, <1>4, <1>5, <1>6, <1>8, <2>1, <2>2 DEF Next, Step
<1> QED
    BY <1>7, <1>8

\* Only a confirmation adds to the columns, and only if it moved its link.
LEMMA VerifiedLemma == ConstantsOK /\ IInv /\ [Next]_vars => VerifiedStep
<1> SUFFICES ASSUME ConstantsOK, IInv, [Next]_vars PROVE VerifiedStep
    OBVIOUS
<1>1. ASSUME UNCHANGED columns \/ (\E scope \in Scopes : Withdraw(scope)) \/ Remove
      PROVE  VerifiedStep
    BY <1>1 DEF VerifiedStep, Withdraw, Remove, NoColumns, Columns, IInv, TypeOK
<1>2. ASSUME NEW c \in Clerks, Confirm(c), ~UNCHANGED columns PROVE VerifiedStep
    <2> DEFINE k == clerk[c]
    <2>1. k \in Clerk /\ columns \in Columns
        BY DEF IInv, TypeOK
    <2>2. ~k.late /\ k.pc = "confirm" /\ links' = Moved(k.link, "verified")
          /\ columns' = Verified(k)
        BY <1>2 DEF Confirm
    <2>3. Pending(k.link)
        BY <1>2, <2>2 DEF Verified
    <2>4. /\ k.link \in LinkIds
          /\ links[k.link].scope = k.scope /\ links[k.link].email = k.email
          /\ k.scope = "account_email" => k.email = Home
        BY <2>2, <2>3 DEF IInv, Clicked
    <2>5. links'[k.link].status = "verified"
        BY <2>2, <2>3, <2>4 DEF Moved, IInv, TypeOK, Link
    <2>6. CASE k.scope = "account_email"
        <3>1. columns' = [columns EXCEPT !.home = TRUE]
            BY <2>2, <2>3, <2>6 DEF Verified
        <3>2. columns'.delivery = columns.delivery
            BY <2>1, <3>1 DEF Columns
        <3> QED
            BY <2>3, <2>4, <2>5, <2>6, <3>2 DEF VerifiedStep
    <2>7. CASE k.scope = "delivery_email"
        <3>1. columns' = [columns EXCEPT !.delivery = k.email]
            BY <2>2, <2>3, <2>7 DEF Verified
        <3>2. columns'.home = columns.home /\ columns'.delivery = k.email
            BY <2>1, <3>1 DEF Columns
        <3> QED
            BY <2>3, <2>4, <2>5, <2>7, <3>2 DEF VerifiedStep
    <2> QED
        BY <2>1, <2>6, <2>7 DEF Clerk, Scopes
<1>3. CASE UNCHANGED vars
    BY <1>1, <1>3 DEF vars
<1>4. CASE Next
    <2>1. ASSUME NEW c \in Clerks,
                 \/ \E scope \in Scopes, email \in Addresses : Request(c, scope, email)
                 \/ StartTask(c) \/ Sent(c) \/ NotSent(c) \/ NotStored(c) \/ Break(c)
                 \/ \E l \in LinkIds : Click(c, l) \/ PollRead(c, l)
                 \/ PollWrite(c)
          PROVE  UNCHANGED columns
        BY <2>1 DEF Request, StartTask, Sent, NotSent, NotStored, Break, Click, PollRead,
                    PollWrite
    <2>2. ASSUME (\E l \in LinkIds : Age(l)) \/ (\E u \in Users : Appear(u))
          PROVE  UNCHANGED columns
        BY <2>2 DEF Age, Appear
    <2> QED
        BY <1>1, <1>2, <1>4, <2>1, <2>2 DEF Next, Step
<1> QED
    BY <1>3, <1>4

-----------------------------------------------------------------------------
\* However requests, clicks, polls, tasks and deletions interleave, links and
\* columns keep their type (services/email_verification.py).
THEOREM VerificationTypes == ASSUME ConstantsOK PROVE Spec => []TypeOK
<1>1. Init => IInv
    BY InitIInv
<1>2. IInv /\ [Next]_vars => IInv'
    BY NextIInv
<1>3. IInv => TypeOK
    BY DEF IInv
<1> QED
    BY <1>1, <1>2, <1>3, PTL DEF Spec

\* A link that has left pending is never moved again (the conditional UPDATEs
\* of services/email_verification.py and tasks/email_verification_tasks.py).
THEOREM TerminalForEver == ASSUME ConstantsOK PROVE Spec => TerminalStays
<1>1. Init => IInv
    BY InitIInv
<1>2. IInv /\ [Next]_vars => IInv'
    BY NextIInv
<1>3. IInv /\ [Next]_vars => TerminalStep
    BY TerminalLemma
<1>4. TerminalStep => [TerminalStep]_vars
    OBVIOUS
<1> QED
    BY <1>1, <1>2, <1>3, PTL DEF Spec, TerminalStays, TerminalStep

\* An address is verified only by a pending link to it, in the step in which
\* the link is (confirm_verification).
THEOREM VerifiedThroughLinks == ASSUME ConstantsOK PROVE Spec => VerifiedByLink
<1>1. Init => IInv
    BY InitIInv
<1>2. IInv /\ [Next]_vars => IInv'
    BY NextIInv
<1>3. IInv /\ [Next]_vars => VerifiedStep
    BY VerifiedLemma
<1> QED
    BY <1>1, <1>2, <1>3, PTL DEF Spec, VerifiedByLink, VerifiedStep

=============================================================================
