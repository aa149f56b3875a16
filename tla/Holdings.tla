------------------------------ MODULE Holdings ------------------------------
(***************************************************************************)
(* The holdings of one user, their version and their history:              *)
(* services/holdings_write.py for the browser, services/agent_holdings.py  *)
(* for an agent with a token, services/holding_changes.py for the history  *)
(* of changes and the way back to it.                                      *)
(*                                                                         *)
(* Every writer locks the users row and then the rows of the book, and     *)
(* commits once: a write is one action.  What interleaves are the requests *)
(* of an agent, which carry the version they were written against and may  *)
(* be lost, repeated or late; the browser's preview of a rollback, three   *)
(* reads without a lock; the retention task; and Ops by hand.  A request   *)
(* that is refused changes nothing: the browser's are left out, an agent's *)
(* only leaves the network.                                                *)
(***************************************************************************)
EXTENDS Integers, FiniteSets, Sequences

CONSTANTS
    Vals,       \* what a row says, of all fields but its position
    Files,      \* the rows of the files a user confirms
    Keys,       \* the Idempotency-Keys an agent uses
    None,
    FirstBook,  \* the rows held before the first change of this history
    FirstPlan,
    Cap(_),     \* how many rows a plan may hold, by holding_cap
    MaxVersion, \* bound: the writes of a run
    Batch,      \* how many groups the retention task deletes at a time
    Allowed     \* bound: how often the things of each kind happen

Plans == {"basic", "jade"}

ASSUME HoldingsAssumption ==
    /\ \A p \in Plans : Cap(p) \in Nat
    /\ Files \subseteq Seq(Vals)
    /\ FirstPlan \in Plans /\ MaxVersion \in Nat /\ Batch \in Nat \ {0}
    /\ IsFiniteSet(DOMAIN FirstBook)
    /\ DOMAIN FirstBook = 1 .. Cardinality(DOMAIN FirstBook)
    /\ \A i \in DOMAIN FirstBook : FirstBook[i] \in [val : Vals, pos : Nat]
    /\ Allowed \subseteq [writes : Nat, asks : Nat, repeats : Nat, previews : Nat,
                           trouble : Nat]

VARIABLES
    book,       \* the holdings rows, by their id
    plan,       \* what the subscription entitles the user to
    version,    \* users.holdings_version
    born,       \* the ids given out so far are 1..born
    groups,     \* holding_change_groups, by their order of creation
    keys,       \* agent_idempotency
    seen,       \* the version and book that the agent has read last
    sent,       \* the requests of the agent that may reach the server
    preview,    \* the rollback that the browser shows
    allowed,    \* how much may still happen
    was,        \* history: was[n] is the book that group n changed
    edited,     \* history: the rows that Ops has changed by hand
    applied     \* history: how often each request of the agent was applied

history == <<was, edited, applied>>
vars == <<book, plan, version, born, groups, keys, seen, sent, preview, allowed, history>>

Row == [val : Vals, pos : Nat]
IsBook(b) == DOMAIN b \subseteq 1 .. born /\ \A i \in DOMAIN b : b[i] \in Row
Size(b) == Cardinality(DOMAIN b)

Spend(kind) == allowed[kind] > 0 /\ allowed' = [allowed EXCEPT ![kind] = @ - 1]

----------------------------------------------------------------------------
(***************************************************************************)
(* holding_changes.py: a group keeps the rows that a write changed, as     *)
(* they were and as they are, and a replay goes back through the groups    *)
(* for as long as the book agrees with what they left.                     *)
(***************************************************************************)
Empty == [i \in {} |-> None]
Restricted(b, S) == [i \in DOMAIN b \cap S |-> b[i]]
Same(a, b, i) == /\ i \in DOMAIN a <=> i \in DOMAIN b
                 /\ i \in DOMAIN a => a[i] = b[i]
\* A mutant: only the rows that are still there are compared.
TouchedAfter(a, b) == {i \in DOMAIN b : ~Same(a, b, i)}
Touched(a, b) == {i \in DOMAIN a \cup DOMAIN b : ~Same(a, b, i)}

IsGroup(g) == IsBook(g.old) /\ IsBook(g.new)

Created(g) == DOMAIN g.new \ DOMAIN g.old
Updated(g) == DOMAIN g.new \cap DOMAIN g.old
Deleted(g) == DOMAIN g.old \ DOMAIN g.new

\* Of an updated row the fields count that the group changed, and no others.
FieldsFit(old, new, now) == /\ old.val # new.val => now.val = new.val
                            /\ old.pos # new.pos => now.pos = new.pos
FieldsUndone(old, new, now) == [val |-> IF old.val # new.val THEN old.val ELSE now.val,
                                pos |-> IF old.pos # new.pos THEN old.pos ELSE now.pos]

Fits(b, g) ==
    /\ \A i \in Created(g) : i \in DOMAIN b /\ b[i] = g.new[i]
    /\ \A i \in Updated(g) : i \in DOMAIN b /\ FieldsFit(g.old[i], g.new[i], b[i])
    /\ \A i \in Deleted(g) : i \notin DOMAIN b

Undone(b, g) ==
    [i \in (DOMAIN b \ Created(g)) \cup Deleted(g) |->
        IF i \in Deleted(g) THEN g.old[i]
        ELSE IF i \in Updated(g) THEN FieldsUndone(g.old[i], g.new[i], b[i]) ELSE b[i]]

\* A replay goes on until it meets a group that does not fit.
Back(state, g) == IF state.ok /\ Fits(state.book, g)
                  THEN [ok |-> TRUE, book |-> Undone(state.book, g)]
                  ELSE [ok |-> FALSE, book |-> state.book]

\* Replay(b)[n] is the book b before group n and all later ones.
Replay(b) ==
    LET before[n \in 1 .. Len(was) + 1] ==
            IF n = Len(was) + 1 THEN [ok |-> TRUE, book |-> b]
            ELSE IF n \in DOMAIN groups THEN Back(before[n + 1], groups[n])
            ELSE before[n + 1]
    IN  before

----------------------------------------------------------------------------
(* Every writer ends like this: _bump, holding_changes.record, commit. *)

\* A mutant: a book over the cap may be replaced by one that is no larger.
MayHoldNoMore(after, introduces) ==
    IF Size(book) <= Cap(plan) THEN after <= Cap(plan) ELSE after <= Size(book)

MayHold(after, introduces) ==
    IF Size(book) <= Cap(plan) \/ introduces THEN after <= Cap(plan) ELSE after <= Size(book)

Recorded(new) ==
    IF Touched(book, new) = {} THEN UNCHANGED <<groups, was>>
    ELSE LET touched == Touched(book, new)
             group == [old |-> Restricted(book, touched), new |-> Restricted(new, touched)]
         IN  /\ groups' = [n \in DOMAIN groups \cup {Len(was) + 1} |->
                            IF n \in DOMAIN groups THEN groups[n] ELSE group]
             /\ was' = Append(was, book)

Write(new) ==
    /\ version < MaxVersion
    /\ version' = version + 1
    /\ book' = new
    /\ Recorded(new)

NextPosition(b) ==
    IF DOMAIN b = {} THEN 0
    ELSE 1 + (CHOOSE p \in {b[i].pos : i \in DOMAIN b} : \A i \in DOMAIN b : b[i].pos <= p)

\* insert_from_rows: the rows get new ids and the positions after the last.
WithRows(b, rows) ==
    [i \in DOMAIN b \cup born + 1 .. born + Len(rows) |->
        IF i \in DOMAIN b THEN b[i]
        ELSE [val |-> rows[i - born], pos |-> NextPosition(b) + (i - born) - 1]]

Without(b, S) == Restricted(b, DOMAIN b \ S)
WithValue(b, i, v) == [b EXCEPT ![i].val = v]
Insert(rows) == born' = born + Len(rows)

----------------------------------------------------------------------------
(* The browser. *)

ByHand == /\ Spend("writes")
          /\ UNCHANGED <<plan, keys, seen, sent, preview, edited, applied>>

\* Two empty books are no change, and neither is an append of nothing.
ConfirmHoldings ==
    \E rows \in Files, mode \in {"append", "replace"} :
        LET before == IF mode = "replace" THEN Empty ELSE book
            changed == Len(rows) > 0 \/ (mode = "replace" /\ Size(book) > 0)
        IN  /\ MayHold(Size(before) + Len(rows), Len(rows) > 0)
            /\ changed
            /\ Write(WithRows(before, rows))
            /\ Insert(rows)
            /\ ByHand

CreateHolding ==
    \E v \in Vals :
        /\ MayHold(Size(book) + 1, TRUE)
        /\ Write(WithRows(book, <<v>>))
        /\ Insert(<<v>>)
        /\ ByHand

\* A mutant: the order is stored and the version forgotten.
ReorderHoldingsQuietly ==
    \E order \in [DOMAIN book -> 0 .. Size(book) - 1] :
        /\ \A i, j \in DOMAIN book : order[i] = order[j] => i = j
        /\ book' = [i \in DOMAIN book |-> [book[i] EXCEPT !.pos = order[i]]]
        /\ Recorded(book')
        /\ UNCHANGED <<born, version>>
        /\ ByHand

\* An order is a bijection of the rows on the first positions.
ReorderHoldings ==
    \E order \in [DOMAIN book -> 0 .. Size(book) - 1] :
        /\ \A i, j \in DOMAIN book : order[i] = order[j] => i = j
        /\ Write([i \in DOMAIN book |-> [book[i] EXCEPT !.pos = order[i]]])
        /\ UNCHANGED born
        /\ ByHand

\* A patch of nothing moves the version as well.
UpdateHolding ==
    \E i \in DOMAIN book, v \in Vals :
        /\ Write(WithValue(book, i, v))
        /\ UNCHANGED born
        /\ ByHand

DeleteHolding ==
    \E i \in DOMAIN book :
        /\ Write(Without(book, {i}))
        /\ UNCHANGED born
        /\ ByHand

----------------------------------------------------------------------------
(***************************************************************************)
(* The preview of a rollback reads the version, the rows and the groups in *)
(* this order, in one READ COMMITTED transaction; the rollback itself runs *)
(* under the lock and takes the version that the preview showed.           *)
(***************************************************************************)
IsPreview(p) == /\ p.phase \in {"none", "version", "rows", "shown"}
                /\ p.n \in 0 .. Len(was) /\ p.version \in 0 .. version
                /\ IsBook(p.book) /\ IsBook(p.target)
NoPreview == [phase |-> "none", n |-> 0, version |-> 0, book |-> Empty, target |-> Empty]

previewUnchanged == UNCHANGED <<book, plan, version, born, groups, keys, seen, sent, history>>

PreviewVersion ==
    \E n \in DOMAIN groups :
        /\ preview.phase \in {"none", "shown"}
        /\ Spend("previews")
        /\ preview' = [NoPreview EXCEPT !.phase = "version", !.n = n, !.version = version]
        /\ previewUnchanged

PreviewRows ==
    /\ preview.phase = "version"
    /\ preview' = [preview EXCEPT !.phase = "rows", !.book = book]
    /\ previewUnchanged /\ UNCHANGED allowed

\* A group that is gone is a 404, one that cannot be reached a 409.
PreviewGroups ==
    /\ preview.phase = "rows"
    /\ LET target == Replay(preview.book)[preview.n]
       IN  preview' = IF preview.n \in DOMAIN groups /\ target.ok
                      THEN [preview EXCEPT !.phase = "shown", !.target = target.book]
                      ELSE NoPreview
    /\ previewUnchanged /\ UNCHANGED allowed

\* A mutant: any version that was once current.
OnceCurrent(v) == v <= version
CurrentVersion(v) == v = version

\* A rollback to the book as it is does nothing.
RollbackHoldings ==
    /\ preview.phase = "shown"
    /\ preview.n \in DOMAIN groups
    /\ CurrentVersion(preview.version)
    /\ LET target == Replay(book)[preview.n]
       IN  /\ target.ok /\ target.book # book
           /\ MayHold(Size(target.book), DOMAIN target.book \ DOMAIN book # {})
           /\ Write(target.book)
    /\ preview' = NoPreview
    /\ UNCHANGED <<plan, born, keys, seen, sent, allowed, edited, applied>>

----------------------------------------------------------------------------
(***************************************************************************)
(* An agent reads the whole book under a shared lock, and writes against   *)
(* the version it has read.  Its request stays in the network for as long  *)
(* as a copy of it may still arrive.                                       *)
(***************************************************************************)
IsView(v) == v.version \in 0 .. version /\ IsBook(v.book)

\* rows: of a whole book, in their order, those without an id are new.
Request == [op : {"create", "update", "delete", "replace"}, n : Nat, version : Nat,
            key : Keys \cup {None}, id : Nat, val : Vals \cup {None},
            rows : Seq([id : Nat, val : Vals]), gone : SUBSET Nat]
NewRow == 0

\* What lookup makes of a record: an expired one stays until its key is used again.
KeyRecord == {"live", "expired"}

GetBook ==
    /\ plan = "jade"
    /\ seen' = [version |-> version, book |-> book]
    /\ seen' # seen
    /\ UNCHANGED <<book, plan, version, born, groups, keys, sent, preview, allowed, history>>

\* An agent may forget to say that a row is to go.
InOrder(S) ==
    CHOOSE s \in [1 .. Cardinality(S) -> S] : \A a, b \in DOMAIN s : a < b => s[a] < s[b]

WholeBook(S, v, more) ==
    [k \in 1 .. Cardinality(S) |-> [id |-> InOrder(S)[k], val |-> v]]
        \o (IF more THEN <<[id |-> NewRow, val |-> v]>> ELSE <<>>)

\* A request against the version read last.
Blank(op) == [op |-> op, n |-> Len(applied) + 1, version |-> seen.version, key |-> None,
              id |-> 0, val |-> None, rows |-> <<>>, gone |-> {}]

Send(r) == sent' = sent \cup {r}

Ask ==
    /\ seen # None
    /\ Spend("asks")
    /\ \/ \E k \in Keys, v \in Vals : Send([Blank("create") EXCEPT !.key = k, !.val = v])
       \/ \E i \in DOMAIN seen.book, v \in Vals :
            Send([Blank("update") EXCEPT !.id = i, !.val = v])
       \/ \E i \in DOMAIN seen.book : Send([Blank("delete") EXCEPT !.id = i])
       \/ \E S \in SUBSET DOMAIN seen.book, v \in Vals, more, all \in BOOLEAN :
            Send([Blank("replace") EXCEPT !.rows = WholeBook(S, v, more),
                                          !.gone = IF all THEN DOMAIN seen.book \ S ELSE {}])
    /\ applied' = Append(applied, 0)
    /\ UNCHANGED <<book, plan, version, born, groups, keys, seen, preview, was, edited>>

\* agent_idempotency.lookup comes before the version is looked at.
Held(r) == r.op = "create" /\ keys[r.key] = "live"

Kept(r) == {r.rows[k].id : k \in DOMAIN r.rows} \ {NewRow}
NewRows(r) == Cardinality({k \in DOMAIN r.rows : r.rows[k].id = NewRow})

Acceptable(r) ==
    CASE r.op = "create" -> TRUE
      [] r.op = "update" -> r.id \in DOMAIN book
      [] r.op = "delete" -> r.id \in DOMAIN book /\ Size(book) > 1
      [] r.op = "replace" -> Len(r.rows) > 0 /\ Kept(r) \cup r.gone = DOMAIN book

\* The positions of a whole book are those of its order.
Replaced(r) ==
    LET index(i) == IF i <= born THEN CHOOSE k \in DOMAIN r.rows : r.rows[k].id = i
                                 ELSE Cardinality(Kept(r)) + (i - born)
    IN  [i \in Kept(r) \cup born + 1 .. born + NewRows(r) |->
            [val |-> r.rows[index(i)].val, pos |-> index(i) - 1]]

Asked(r) ==
    CASE r.op = "create" -> WithRows(book, <<r.val>>)
      [] r.op = "update" -> WithValue(book, r.id, r.val)
      [] r.op = "delete" -> Without(book, {r.id})
      [] r.op = "replace" -> Replaced(r)

\* The book and the reply under the key commit together.
Applied(r) ==
    /\ Write(Asked(r))
    /\ born' = born + Cardinality(DOMAIN Asked(r) \ DOMAIN book)
    /\ keys' = IF r.op = "create" THEN [keys EXCEPT ![r.key] = "live"] ELSE keys
    /\ applied' = [applied EXCEPT ![r.n] = @ + 1]

Accepts(r) ==
    /\ plan = "jade"
    /\ ~Held(r)
    /\ CurrentVersion(r.version)
    /\ Acceptable(r)
    /\ MayHold(Size(Asked(r)), DOMAIN Asked(r) \ DOMAIN book # {})

\* A copy may stay behind; the answer may be lost, and only that of a whole book
\* shows one.  The others tell the agent to read again.
Arrives(r) == \/ sent' = sent \ {r} /\ UNCHANGED allowed
              \/ sent' = sent /\ Spend("repeats")

ServeWrite ==
    \E r \in sent :
        /\ Accepts(r)
        /\ Applied(r)
        /\ Arrives(r)
        /\ \/ UNCHANGED seen
           \/ seen' = IF r.op = "replace" THEN [version |-> version', book |-> book'] ELSE None
        /\ UNCHANGED <<plan, preview, edited>>

\* Refused, or answered under its key: with the first reply, or as a conflict.
ServeWithoutWriting ==
    \E r \in sent :
        /\ ~Accepts(r)
        /\ sent' = sent \ {r}
        /\ UNCHANGED <<book, plan, version, born, groups, keys, seen, preview, allowed, history>>

----------------------------------------------------------------------------
(* Around the book. *)

KeyExpires ==
    \E k \in Keys :
        /\ keys[k] = "live"
        /\ Spend("trouble")
        /\ keys' = [keys EXCEPT ![k] = "expired"]
        /\ UNCHANGED <<book, plan, version, born, groups, seen, sent, preview, history>>

PlanChanges ==
    /\ Spend("trouble")
    /\ plan' \in Plans \ {plan}
    /\ UNCHANGED <<book, version, born, groups, keys, seen, sent, preview, history>>

\* Ops may correct a row in the database: no version, no group.
OpsEdit ==
    \E i \in DOMAIN book :
        /\ Spend("trouble")
        /\ book' \in {Without(book, {i})} \cup {WithValue(book, i, v) : v \in Vals \ {book[i].val}}
        /\ edited' = edited \cup {i}
        /\ UNCHANGED <<plan, version, born, groups, keys, seen, sent, preview, was, applied>>

\* cleanup_holding_changes: up to Batch of the groups before the cutoff, in no
\* order, and a commit; what is left waits for the next round of the loop.
CleanupHoldingChanges ==
    \E cutoff \in DOMAIN groups :
        LET old == {n \in DOMAIN groups : n <= cutoff}
        IN  /\ Spend("trouble")
            /\ \E S \in SUBSET old :
                /\ Cardinality(S) = (IF Cardinality(old) < Batch THEN Cardinality(old) ELSE Batch)
                /\ groups' = Restricted(groups, DOMAIN groups \ S)
            /\ UNCHANGED <<book, plan, version, born, keys, seen, sent, preview, history>>

----------------------------------------------------------------------------
Init ==
    /\ book = FirstBook /\ plan = FirstPlan /\ version = 0
    /\ born = Cardinality(DOMAIN FirstBook)
    /\ groups = Empty /\ keys = [k \in Keys |-> None]
    /\ seen = None /\ sent = {} /\ preview = NoPreview
    /\ allowed \in Allowed
    /\ was = <<>> /\ edited = {} /\ applied = <<>>

Browse == \/ ConfirmHoldings \/ CreateHolding \/ ReorderHoldings \/ UpdateHolding
          \/ DeleteHolding \/ PreviewVersion \/ PreviewRows \/ PreviewGroups
          \/ RollbackHoldings
AgentStep == GetBook \/ Ask \/ ServeWrite \/ ServeWithoutWriting
Around == KeyExpires \/ PlanChanges \/ OpsEdit \/ CleanupHoldingChanges

Next == Browse \/ AgentStep \/ Around
Spec == Init /\ [][Next]_vars

----------------------------------------------------------------------------
Allowance == [writes : Nat, asks : Nat, repeats : Nat, previews : Nat, trouble : Nat]

\* Every variable holds values of its kind; a preview that shows a target shows
\* a book, never the mark of a blocked replay.
TypeOK ==
    /\ IsBook(book) /\ plan \in Plans /\ version \in 0 .. MaxVersion /\ born \in Nat
    /\ DOMAIN groups \subseteq 1 .. Len(was)
    /\ \A n \in DOMAIN groups : IsGroup(groups[n])
    /\ keys \in [Keys -> KeyRecord \cup {None}]
    /\ seen = None \/ IsView(seen)
    /\ sent \subseteq Request
    /\ IsPreview(preview)
    /\ allowed \in Allowance
    /\ \A n \in DOMAIN was : IsBook(was[n])
    /\ edited \subseteq 1 .. born
    /\ applied \in Seq(Nat)

Agree(a, b) == \A i \in (1 .. born) \ edited : Same(a, b, i)

\* Whoever holds the current version holds the current book, but for the rows
\* that Ops has changed by hand: every writer moves the version, so that a write
\* against an older book is refused (agent_holdings.plan).
VersionTellsBook ==
    seen # None /\ seen.version = version => Agree(seen.book, book)

\* The history leads back exactly: with no group missing on the way, the replay
\* of the newest groups gives the book that the oldest of them found, and only an
\* edit by hand can block it (holding_changes.replay).
RollbackExact ==
    \A n \in DOMAIN groups :
        n .. Len(was) \subseteq DOMAIN groups =>
            IF Replay(book)[n].ok THEN Agree(Replay(book)[n].book, was[n]) ELSE edited # {}

\* A rollback does what its preview showed, to the book of which it showed it: no
\* write that came after the preview is undone with it, and no later group alters
\* where it leads, as long as no group is missing on the way
\* (holding_changes.preview_rollback reads the version before it reads the rows).
RollbackAsShown ==
    [][/\ preview.phase = "shown" /\ preview' = NoPreview
       /\ preview.n .. Len(was) \subseteq DOMAIN groups
       => Agree(preview.book, book) /\ Agree(preview.target, book')]_vars

\* A step that adds a row leaves no more rows than the plan of that moment holds,
\* and a book over the cap never grows (_ensure_cap, in every writer).
RowsWithinCap ==
    [][/\ DOMAIN book' \ DOMAIN book # {} => Size(book') <= Cap(plan)
       /\ Size(book') > Size(book) => Size(book') <= Cap(plan)]_vars

\* A request to create is applied once, however often it arrives: its key answers
\* for it, and once the key has expired the version it carries is an old one.
AppliedOnce == \A n \in DOMAIN applied : applied[n] <= 1

=============================================================================
