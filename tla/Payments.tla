------------------------------ MODULE Payments ------------------------------
(***************************************************************************)
(* Buying credits from Paddle and refunding them: the Paddle webhooks      *)
(* (routers/paddle_webhooks.py), the Ops refund, adjustment and purge      *)
(* routes (routers/admin.py), self-service account deletion (routers/me.py *)
(* and services/user_purge.py), over the writers of the credit ledger.     *)
(*                                                                         *)
(* A route that takes the user's row lock first and makes no remote call   *)
(* that decides anything is one action.  An Ops refund keeps the lock      *)
(* across two calls to Paddle and an Ops purge reads the balance without   *)
(* the lock before it calls the Auth provider, so each is several actions. *)
(* Rows of an open transaction are visible to nobody else: the refund      *)
(* posts them in the action that commits.                                  *)
(***************************************************************************)
EXTENDS CreditLedger, FiniteSets, Functions

CONSTANTS
    Txns,           \* Paddle transactions
    Buyer,          \* custom_data.user_id of each
    Credits,        \* the credits each buys
    Total,          \* the money each costs, in the currency's minor unit
    RequestKeys,    \* idempotency keys Ops sends with refunds
    RefundSizes,    \* credits Ops asks to refund
    Workers,        \* server requests for a refund that may run at once
    Adjustments,    \* ids Paddle may give to refund adjustments
    AdjustKeys,     \* idempotency keys of admin adjustments
    AdjustAmounts,  \* their amounts
    RateNum, RateDen,   \* REFERRAL_RECHARGE_RATE
    Opening,        \* the cash each user already holds, from an admin adjustment
    InitialInviter, \* users.invited_by at the start
    Aging,          \* the purchases that may outlive the refund window
    Deletable,      \* the users whose accounts may be deleted
    Faults          \* which failures a run includes

FaultKinds == {"commit_fails", "answer_lost", "early_rejection"}

ASSUME PaymentsAssumption ==
    /\ None \notin Users \cup Workers \cup Adjustments \cup Txns
    /\ Txns \cup Users \cup RequestKeys \cup Adjustments \cup AdjustKeys
           \cup {None} \subseteq Ids
    /\ Buyer \in [Txns -> Users]
    /\ Credits \in [Txns -> Nat \ {0}]
    /\ Total \in [Txns -> Nat \ {0}]
    /\ RefundSizes \subseteq Nat \ {0}
    /\ AdjustAmounts \subseteq Int \ {0}
    /\ RateNum \in Nat /\ RateDen \in Nat \ {0} /\ RateNum <= RateDen
    /\ InitialInviter \in [Users -> Users \cup {None}]
    /\ Opening \in [Users -> Nat]
    /\ Aging \subseteq Txns /\ Deletable \subseteq Users
    /\ Faults \subseteq FaultKinds

VARIABLES
    db,         \* the users and credit_ledger tables, committed
    lock,       \* the refund that holds each users row, or None
    req,        \* the Ops refund each worker runs
    payment,    \* each transaction at Paddle and whether its webhook was taken
    adj,        \* the refund adjustments at Paddle
    late,       \* the transactions older than the refund window
    purging     \* the users an Ops purge has checked and not yet deleted

vars == <<db, lock, req, payment, adj, late, purging>>

Idle == [pc |-> "idle", txn |-> None, key |-> None, credits |-> 0, id |-> None]
NoAdjustment == [status |-> "none", txn |-> None, amount |-> 0,
                 acked |-> FALSE, alerted |-> FALSE]

-----------------------------------------------------------------------------
(* The ledger's writers for payments.                                      *)

\* The amount of referral_recharge_bonus.
BonusAmount(t) == RoundHalfUp(Credits[t] * RateNum, RateDen)

\* record_purchase, then referral_recharge_bonus in the same transaction.
Purchased(d, t) ==
    LET bought == Posted(d, Cash(Buyer[t]), Credits[t], "recharge", PurchaseKey(t), t)
        referrer == Referrer(d, Buyer[t])
    IN  IF referrer = None \/ BonusAmount(t) = 0 \/ HasKey(d, BonusKey(t))
        THEN bought
        ELSE Posted(bought, Cash(referrer), BonusAmount(t), "referral_bonus",
                    BonusKey(t), t)

Remaining(d, t) == Refundable(d, t, Buyer[t], Credits[t])

\* debit_refund's row, with the adjustment id refund_payment writes into it.
Debited(d, t, k, credits, id) ==
    Posted(d, Cash(Buyer[t]), -credits, "refund", RefundKey(t, k), id)

\* The account referral_clawback takes from: the one with the bonus row.
BonusHolders(d, t) ==
    {u \in Users : \E i \in DOMAIN d.rows[Cash(u)] : d.rows[Cash(u)][i].key = BonusKey(t)}
BonusHolder(d, t) == CHOOSE u \in BonusHolders(d, t) : TRUE

\* Mutant: the clawbacks of earlier partial refunds are forgotten.
ClawbackDueFromNothing(d, t) ==
    RoundHalfUp(BonusAmount(t) * (Credits[t] - Remaining(d, t)), Credits[t])

\* target - already: the bonus share of all that is refunded, less what was
\* clawed back before.
ClawbackDue(d, t) ==
    RoundHalfUp(BonusAmount(t) * (Credits[t] - Remaining(d, t)), Credits[t])
        - ClawedBack(d, t, BonusHolder(d, t))

\* referral_clawback.
AfterClawback(d, t, k) ==
    IF \/ BonusHolders(d, t) = {}
       \/ ClawbackDue(d, t) <= 0
       \/ ~d.exists[BonusHolder(d, t)]
       \/ HasKey(d, ClawbackKey(t, k))
    THEN d
    ELSE Posted(d, Cash(BonusHolder(d, t)), -ClawbackDue(d, t), "referral_clawback",
                ClawbackKey(t, k), RefundKey(t, k))

\* The debit reverse_refund finds by its adjustment id.
DebitsOf(d, t, id) ==
    {i \in DOMAIN d.rows[Cash(Buyer[t])] :
        LET row == d.rows[Cash(Buyer[t])][i]
        IN  row.reason = "refund" /\ row.amount < 0 /\ row.ref = id}
DebitOf(d, t, id) == d.rows[Cash(Buyer[t])][CHOOSE i \in DebitsOf(d, t, id) : TRUE]

\* The clawback reverse_referral_clawback finds by the refund's key.
ClawbacksOf(d, t, key) ==
    {i \in DOMAIN d.rows[Cash(BonusHolder(d, t))] :
        LET row == d.rows[Cash(BonusHolder(d, t))][i]
        IN  row.reason = "referral_clawback" /\ row.ref = key /\ row.amount < 0}

\* Mutant: a rejected refund leaves the referrer's clawback in place.
NoClawbackReversal(d, t, key, id) == d

\* reverse_referral_clawback.
AfterClawbackReversal(d, t, key, id) ==
    IF \/ BonusHolders(d, t) = {}
       \/ ClawbacksOf(d, t, key) = {}
       \/ ~d.exists[BonusHolder(d, t)]
       \/ HasKey(d, ClawbackReversalKey(t, id))
    THEN d
    ELSE LET holder == BonusHolder(d, t)
             row == d.rows[Cash(holder)][CHOOSE i \in ClawbacksOf(d, t, key) : TRUE]
         IN  Posted(d, Cash(holder), -row.amount, "referral_clawback",
                    ClawbackReversalKey(t, id), key)

\* reverse_refund.
Restored(d, t, id) ==
    Posted(d, Cash(Buyer[t]), -DebitOf(d, t, id).amount, "refund",
           RefundReversalKey(t, id), id)

\* Mutant: the clawback comes first, and a purchase without one is left as it is.
ReversedWithBonus(d, t, id) ==
    IF BonusHolders(d, t) = {} THEN d
    ELSE AfterClawbackReversal(Restored(d, t, id), t, DebitOf(d, t, id).key, id)

\* reverse_refund, then reverse_referral_clawback in the same transaction.
Reversed(d, t, id) ==
    AfterClawbackReversal(Restored(d, t, id), t, DebitOf(d, t, id).key, id)

\* purge_user, for the tables modelled: the row goes and so does every
\* invited_by that names it; ledger rows stay.
Purged(d, u) ==
    [d EXCEPT !.exists[u] = FALSE,
              !.inviter = [v \in Users |-> IF v # u /\ @[v] = u THEN None ELSE @[v]]]

-----------------------------------------------------------------------------
Init ==
    /\ db = [exists |-> [u \in Users |-> TRUE],
             inviter |-> InitialInviter,
             balance |-> [a \in Accounts |-> IF a[2] = "cash" THEN Opening[a[1]] ELSE 0],
             rows |-> [a \in Accounts |->
                        IF a[2] = "cash" /\ Opening[a[1]] # 0
                        THEN <<[amount |-> Opening[a[1]], after |-> Opening[a[1]],
                                reason |-> "admin_adjustment",
                                key |-> AdjustmentKey(a[1]), ref |-> None]>>
                        ELSE <<>>]]
    /\ lock = [u \in Users |-> None]
    /\ req = [w \in Workers |-> Idle]
    /\ payment = [t \in Txns |-> "open"]
    /\ adj = [a \in Adjustments |-> NoAdjustment]
    /\ late = {}
    /\ purging = {}

Free(u) == lock[u] = None

\* Mutant: a user nobody invited is not provided for.
ReferrerPresentAndFree(u) == \E v \in Users : db.inviter[u] = v /\ Free(v)

\* A bonus waits for the referrer's row, a clawback for the bonus holder's.
ReferrerFree(u) == \A v \in Users : db.inviter[u] = v => Free(v)
HolderFree(t) == \A v \in BonusHolders(db, t) : Free(v)

\* DELETE FROM users waits for the row, clearing invited_by for the invitees'.
PurgeFree(u) == Free(u) /\ \A v \in Users : db.inviter[v] = u => Free(v)

-----------------------------------------------------------------------------
(* Paddle.                                                                 *)

\* The buyer completes a checkout.
PaddleCompletes(t) ==
    /\ payment[t] = "open"
    /\ payment' = [payment EXCEPT ![t] = "completed"]
    /\ UNCHANGED <<db, lock, req, adj, late, purging>>

\* Paddle decides on a pending refund.  It may do so before the request that
\* created the adjustment has committed, if early_rejection is among the faults.
PaddleDecides(a) ==
    /\ adj[a].status = "pending"
    /\ \/ "early_rejection" \in Faults
       \/ \A w \in Workers : req[w].id # a
    /\ \E status \in {"approved", "rejected"} :
          adj' = [adj EXCEPT ![a].status = status]
    /\ UNCHANGED <<db, lock, req, payment, late, purging>>

\* 120 days pass since a purchase.
WindowCloses(t) ==
    /\ HasKey(db, PurchaseKey(t))
    /\ t \notin late
    /\ late' = late \cup {t}
    /\ UNCHANGED <<db, lock, req, payment, adj, purging>>

\* transaction.completed.  Paddle sends it until a 200 arrives, and the 200
\* may be lost after the work was done.  A missing buyer is alerted and taken.
PurchaseWebhook(t) ==
    /\ payment[t] = "completed"
    /\ \/ ~db.exists[Buyer[t]] /\ db' = db
       \/ /\ db.exists[Buyer[t]] /\ Free(Buyer[t])
          /\ \/ HasKey(db, PurchaseKey(t)) /\ db' = db
             \/ /\ ~HasKey(db, PurchaseKey(t)) /\ ReferrerFree(Buyer[t])
                /\ db' = Purchased(db, t)
    /\ \E taken \in {"completed", "acked"} :
          payment' = [payment EXCEPT ![t] = taken]
    /\ UNCHANGED <<lock, req, adj, late, purging>>

\* Mutant: a busy row is skipped (SKIP LOCKED) and the webhook taken.
RejectionWebhookSkipsLocked(a) ==
    LET t == adj[a].txn IN
    /\ adj[a].status = "rejected"
    /\ ~adj[a].acked
    /\ db' = IF /\ DebitsOf(db, t, a) # {} /\ db.exists[Buyer[t]] /\ Free(Buyer[t])
                /\ ~HasKey(db, RefundReversalKey(t, a))
             THEN Reversed(db, t, a) ELSE db
    /\ adj' = [adj EXCEPT ![a].acked = TRUE]
    /\ UNCHANGED <<lock, req, payment, late, purging>>

\* adjustment.updated with status rejected.  No debit with that reference is
\* answered with 200; a debit whose buyer is gone raises, and Paddle retries.
RejectionWebhook(a) ==
    LET t == adj[a].txn IN
    /\ adj[a].status = "rejected"
    /\ ~adj[a].acked
    /\ \/ DebitsOf(db, t, a) = {} /\ db' = db
       \/ /\ DebitsOf(db, t, a) # {}
          /\ db.exists[Buyer[t]] /\ Free(Buyer[t])
          /\ \/ HasKey(db, RefundReversalKey(t, a)) /\ db' = db
             \/ /\ ~HasKey(db, RefundReversalKey(t, a)) /\ HolderFree(t)
                /\ db' = Reversed(db, t, a)
    /\ \E acked \in BOOLEAN : adj' = [adj EXCEPT ![a].acked = acked]
    /\ UNCHANGED <<lock, req, payment, late, purging>>

-----------------------------------------------------------------------------
(* The Ops refund, refund_payment.                                         *)

\* Mutant: the amount is rounded up.
MoneyRoundedUp(t, credits) == -((Total[t] * (-credits)) \div Credits[t])

\* The money Paddle is asked to give back for some credits of a purchase.
MoneyFor(t, credits) == (Total[t] * credits) \div Credits[t]

\* debit_refund reads the key and the purchase before it has the lock: a known
\* key is replayed or refused, an unknown purchase is a 404.
RefundStarts(w, t, k, credits) ==
    /\ req[w].pc = "idle"
    /\ ~HasKey(db, RefundKey(t, k))
    /\ HasKey(db, PurchaseKey(t))
    /\ req' = [req EXCEPT ![w] = [pc |-> "waiting", txn |-> t, key |-> k,
                                  credits |-> credits, id |-> None]]
    /\ UNCHANGED <<db, lock, payment, adj, late, purging>>

\* Mutant: the remainder is not read again under the lock.
RefusableUnread(d, t, k, credits) ==
    \/ t \in late
    \/ ~CanPost(d, Cash(Buyer[t]), -credits, "refund")
    \/ KeyTaken(d, "cash", RefundKey(t, k))

\* Under the lock: the remainder again, the window, the size, then the post,
\* which the balance or the unique key may refuse.
Refusable(d, t, k, credits) ==
    \/ t \in late
    \/ credits > Remaining(d, t)
    \/ ~CanPost(d, Cash(Buyer[t]), -credits, "refund")
    \/ KeyTaken(d, "cash", RefundKey(t, k))

RefundDebits(w) ==
    LET t == req[w].txn IN
    /\ req[w].pc = "waiting"
    /\ db.exists[Buyer[t]] /\ Free(Buyer[t])
    /\ ~Refusable(db, t, req[w].key, req[w].credits)
    /\ lock' = [lock EXCEPT ![Buyer[t]] = w]
    /\ req' = [req EXCEPT ![w].pc = "debited"]
    /\ UNCHANGED <<db, payment, adj, late, purging>>

\* A 404 or a 409: the transaction rolls back and the lock goes with it.
RefundRefused(w) ==
    LET t == req[w].txn IN
    /\ req[w].pc = "waiting"
    /\ \/ ~db.exists[Buyer[t]]
       \/ Free(Buyer[t]) /\ Refusable(db, t, req[w].key, req[w].credits)
    /\ req' = [req EXCEPT ![w] = Idle]
    /\ UNCHANGED <<db, lock, payment, adj, late, purging>>

\* Paddle creates the adjustment and answers with its id.
PaddleAdjusts(w, a) ==
    LET t == req[w].txn IN
    /\ req[w].pc = "debited"
    /\ MoneyFor(t, req[w].credits) # 0
    /\ adj[a] = NoAdjustment
    /\ adj' = [adj EXCEPT ![a] = [NoAdjustment EXCEPT
                    !.status = "pending", !.txn = t,
                    !.amount = MoneyFor(t, req[w].credits)]]
    /\ req' = [req EXCEPT ![w].pc = "adjusted", ![w].id = a]
    /\ UNCHANGED <<db, lock, payment, late, purging>>

\* Mutant: the request ends and its transaction stays open.
EndRequestKeepsLock(w) ==
    /\ req' = [req EXCEPT ![w] = Idle]
    /\ lock' = lock

\* The answer is sent and the transaction closed, which frees the row.
EndRequest(w) ==
    /\ req' = [req EXCEPT ![w] = Idle]
    /\ lock' = [lock EXCEPT ![Buyer[req[w].txn]] = None]

\* Paddle refuses, cannot be reached, or the amount rounds to zero: rollback.
PaddleRefuses(w) ==
    /\ req[w].pc = "debited"
    /\ EndRequest(w)
    /\ UNCHANGED <<db, payment, adj, late, purging>>

\* The adjustment exists but the answer is lost: httpx raises, and the route
\* rolls back as if Paddle had refused.
AnswerLost(w) ==
    /\ "answer_lost" \in Faults
    /\ req[w].pc = "adjusted"
    /\ EndRequest(w)
    /\ UNCHANGED <<db, payment, adj, late, purging>>

\* The reference, the clawback and the commit.
RefundCommits(w) ==
    LET t == req[w].txn IN
    /\ req[w].pc = "adjusted"
    /\ HolderFree(t)
    /\ db' = AfterClawback(
                Debited(db, t, req[w].key, req[w].credits, req[w].id), t, req[w].key)
    /\ EndRequest(w)
    /\ UNCHANGED <<payment, adj, late, purging>>

\* Mutant: the commit fails and nobody is told.
RefundCommitFailsSilently(w) ==
    /\ "commit_fails" \in Faults
    /\ req[w].pc = "adjusted"
    /\ EndRequest(w)
    /\ UNCHANGED <<db, payment, adj, late, purging>>

\* The clawback or the commit fails: rollback, and an alert with the id.
RefundCommitFails(w) ==
    /\ "commit_fails" \in Faults
    /\ req[w].pc = "adjusted"
    /\ adj' = [adj EXCEPT ![req[w].id].alerted = TRUE]
    /\ EndRequest(w)
    /\ UNCHANGED <<db, payment, late, purging>>

-----------------------------------------------------------------------------
(* The other writers of a balance, and deletion.                           *)

\* credit_adjustment_by_email with a key it has not seen; a replay writes nothing.
AdminAdjusts(u, bucket, amount, k) ==
    /\ db.exists[u] /\ Free(u)
    /\ ~HasKey(db, AdjustmentKey(k))
    /\ CanPost(db, <<u, bucket>>, amount, "admin_adjustment")
    /\ db' = Posted(db, <<u, bucket>>, amount, "admin_adjustment", AdjustmentKey(k), None)
    /\ UNCHANGED <<lock, req, payment, adj, late, purging>>

\* delete_account: the user gives up the cash shown to them, under the lock;
\* a negative balance is refused, and a failing Auth call rolls all back.
DeletesAccount(u) ==
    LET cash == db.balance[Cash(u)] IN
    /\ db.exists[u] /\ PurgeFree(u)
    /\ cash >= 0
    /\ db' = Purged(IF cash = 0 THEN db
                    ELSE Posted(db, Cash(u), -cash, "relinquish", RelinquishKey(u), None), u)
    /\ UNCHANGED <<lock, req, payment, adj, late, purging>>

\* _purge_local_user reads the balance without the lock...
OpsPurgeChecks(u) ==
    /\ db.exists[u] /\ u \notin purging
    /\ db.balance[Cash(u)] = 0
    /\ purging' = purging \cup {u}
    /\ UNCHANGED <<db, lock, req, payment, adj, late>>

\* ...and after the Auth call deletes the row, whatever the balance is by then.
OpsPurgeDeletes(u) ==
    /\ u \in purging /\ PurgeFree(u)
    /\ db' = IF db.exists[u] THEN Purged(db, u) ELSE db
    /\ purging' = purging \ {u}
    /\ UNCHANGED <<lock, req, payment, adj, late>>

\* The Auth call fails with a 502.
OpsPurgeFails(u) ==
    /\ u \in purging
    /\ purging' = purging \ {u}
    /\ UNCHANGED <<db, lock, req, payment, adj, late>>

-----------------------------------------------------------------------------
RefundEnds(w) == RefundCommits(w) \/ RefundCommitFails(w) \/ AnswerLost(w)

Next ==
    \/ \E t \in Txns : PaddleCompletes(t) \/ PurchaseWebhook(t)
    \/ \E t \in Aging : WindowCloses(t)
    \/ \E a \in Adjustments : PaddleDecides(a) \/ RejectionWebhook(a)
    \/ \E w \in Workers, t \in Txns, k \in RequestKeys, credits \in RefundSizes :
          RefundStarts(w, t, k, credits)
    \/ \E w \in Workers :
          RefundDebits(w) \/ RefundRefused(w) \/ PaddleRefuses(w) \/ RefundEnds(w)
    \/ \E w \in Workers, a \in Adjustments : PaddleAdjusts(w, a)
    \/ \E u \in Users, bucket \in Buckets, amount \in AdjustAmounts, k \in AdjustKeys :
          AdminAdjusts(u, bucket, amount, k)
    \/ \E u \in Deletable :
          DeletesAccount(u) \/ OpsPurgeChecks(u) \/ OpsPurgeDeletes(u) \/ OpsPurgeFails(u)

Spec == Init /\ [][Next]_vars

(***************************************************************************)
(* Fairness.  Paddle redelivers a webhook until it gets a 200, PostgreSQL  *)
(* grants a row lock in the order of the waiters (so a writer that waits   *)
(* is not passed over for ever: strong fairness), a request runs until it  *)
(* answers and its calls to Paddle end, with an answer or a timeout.       *)
(***************************************************************************)
Fairness ==
    /\ \A t \in Txns : SF_vars(PurchaseWebhook(t))
    /\ \A a \in Adjustments : SF_vars(RejectionWebhook(a))
    /\ \A w \in Workers :
        /\ SF_vars(RefundDebits(w) \/ RefundRefused(w))
        /\ WF_vars((\E a \in Adjustments : PaddleAdjusts(w, a)) \/ PaddleRefuses(w))
        /\ SF_vars(RefundEnds(w))

FairSpec == Spec /\ Fairness

-----------------------------------------------------------------------------
(* Properties.                                                             *)

\* Every variable keeps its type.
TypeOK ==
    /\ db \in Tables
    /\ lock \in [Users -> Workers \cup {None}]
    /\ req \in [Workers ->
                  [pc : {"idle", "waiting", "debited", "adjusted"},
                   txn : Txns \cup {None}, key : RequestKeys \cup {None},
                   credits : Nat, id : Adjustments \cup {None}]]
    /\ payment \in [Txns -> {"open", "completed", "acked"}]
    /\ adj \in [Adjustments ->
                  [status : {"none", "pending", "approved", "rejected"},
                   txn : Txns \cup {None}, amount : Nat,
                   acked : BOOLEAN, alerted : BOOLEAN]]
    /\ late \subseteq Txns
    /\ purging \subseteq Users

\* Each balance column equals the sum of its rows and the balance_after of the
\* last one, zero without rows (services/credit_ledger.py, _post): what the
\* reconciliation export calls consistent.
BalancesMatchLedger == \A account \in Accounts : Reconciled(db, account)

\* However refunds run side by side, are retried, and are rejected by Paddle,
\* what is left of a purchase stays between nothing and all of it.
RefundsWithinPurchase ==
    \A t \in Txns : HasKey(db, PurchaseKey(t)) => Remaining(db, t) \in 0..Credits[t]

\* A purchase's bonus is taken back at most once over: the clawbacks of a
\* purchase stay between nothing and its bonus; they are nothing when no credit
\* of it is refunded, and all of the bonus when every credit is.
ClawbackFollowsRefunds ==
    \A t \in Txns : BonusHolders(db, t) # {} =>
        LET holder == BonusHolder(db, t)
            clawed == ClawedBack(db, t, holder)
        IN  /\ clawed \in 0..BonusAmount(t)
            /\ db.exists[holder] /\ Remaining(db, t) = Credits[t] => clawed = 0
            /\ db.exists[holder] /\ Remaining(db, t) = 0 => clawed = BonusAmount(t)

\* Only clawbacks make a balance negative: a user owes no more than what is
\* still clawed back from them, whatever was spent, refunded or adjusted since.
OverdraftIsClawback ==
    \A u \in Users :
        LET clawed == [i \in DOMAIN db.rows[Cash(u)] |->
                            IF db.rows[Cash(u)][i].reason = "referral_clawback"
                            THEN db.rows[Cash(u)][i].amount ELSE 0]
        IN  db.balance[Cash(u)] >= Sum(clawed) /\ db.balance[Gift(u)] >= 0

\* Is a request still going to write this adjustment's id into its debit?
InFlight(a) == \E w \in Workers : req[w].id = a
IsReversed(t, a) == HasKey(db, RefundReversalKey(t, a))

\* The ledger agrees with Paddle: a refund that Paddle may pay out has its debit,
\* exactly one and not reversed, unless an alert reported it; a debit is for an
\* adjustment Paddle has, and is reversed only if Paddle rejected it.
LedgerMatchesPaddle ==
    /\ \A a \in Adjustments :
         adj[a].status \in {"pending", "approved"} /\ ~adj[a].alerted /\ ~InFlight(a) =>
            /\ Cardinality(DebitsOf(db, adj[a].txn, a)) = 1
            /\ ~IsReversed(adj[a].txn, a)
    /\ \A t \in Txns : \A i \in DOMAIN db.rows[Cash(Buyer[t])] :
         LET row == db.rows[Cash(Buyer[t])][i] IN
         row.reason = "refund" /\ row.amount < 0 /\ row.key[2] = t =>
            /\ adj[row.ref].txn = t
            /\ adj[row.ref].amount = MoneyFor(t, -row.amount)
            /\ IsReversed(t, row.ref) => adj[row.ref].status = "rejected"

\* Once Paddle has a 200 for a rejection, the debit of that refund is restored:
\* nothing will ask for it again.
RejectionRestoresDebit ==
    \A a \in Adjustments :
        adj[a].acked /\ ~InFlight(a) /\ DebitsOf(db, adj[a].txn, a) # {} =>
            IsReversed(adj[a].txn, a)

\* Paddle never gives back more than the buyer paid, unless an alert told Ops to
\* reconcile a refund by hand before it is asked for again.
MoneyWithinPayment ==
    \A t \in Txns :
        LET of == {a \in Adjustments : adj[a].txn = t}
            out == [a \in of |-> IF adj[a].status = "rejected" THEN 0 ELSE adj[a].amount]
        IN  (\A a \in of : ~adj[a].alerted) => FoldFunction(+, 0, out) <= Total[t]

\* The two limits of refunds, in credits and in money.
RefundsWithinPayment == RefundsWithinPurchase /\ MoneyWithinPayment

\* A clawback takes what it should, and nothing else overdraws an account.
ClawbacksAreExact == ClawbackFollowsRefunds /\ OverdraftIsClawback

\* A user that is gone left no cash behind.
PurgedWithoutCash ==
    \A u \in Users : ~db.exists[u] => db.balance[Cash(u)] = 0

\* A completed payment of an existing user is credited in the end.
PaymentsAreCredited ==
    \A t \in Txns :
        payment[t] = "completed" ~> HasKey(db, PurchaseKey(t)) \/ ~db.exists[Buyer[t]]

\* No refund request waits for ever: not for a row lock, not for Paddle.
RefundsEnd == \A w \in Workers : req[w].pc # "idle" ~> req[w].pc = "idle"

\* A rejected refund whose debit is still to be restored to an existing buyer.
RestoreOwed(a) ==
    /\ adj[a].status = "rejected"
    /\ DebitsOf(db, adj[a].txn, a) # {}
    /\ db.exists[Buyer[adj[a].txn]]
    /\ ~IsReversed(adj[a].txn, a)

\* A debit whose refund Paddle rejected comes back, unless the buyer is deleted.
RejectionsRestore == \A a \in Adjustments : RestoreOwed(a) ~> ~RestoreOwed(a)

\* What has been paid, asked to refund, or rejected is settled in the end.
WorkIsSettled == PaymentsAreCredited /\ RefundsEnd /\ RejectionsRestore

=============================================================================
