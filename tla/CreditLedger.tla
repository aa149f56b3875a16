---------------------------- MODULE CreditLedger ----------------------------
(***************************************************************************)
(* The credit ledger of Portfonia: services/credit_ledger.py over the      *)
(* users and credit_ledger tables.  This module has no state of its own:   *)
(* it gives the tables as one value, `db`, and every function of the       *)
(* service as an operator that returns the tables the function leaves.     *)
(* A function that raises has a Can... operator that is FALSE when it      *)
(* raises; its caller rolls back, so the tables stay as they were.         *)
(*                                                                         *)
(* Amounts are cents.  A row carries what later queries read: its amount,  *)
(* balance_after, reason, idempotency key and reference.  Rows are kept    *)
(* per account (a user and a bucket) in id order: every writer holds the   *)
(* user's row lock, and no query reads the order between accounts.         *)
(***************************************************************************)
EXTENDS Integers, Sequences

CONSTANTS
    Users,      \* user ids, never reused
    Ids,        \* what idempotency keys and references name
    None        \* the absence of an id

Buckets == {"cash", "gift"}
Accounts == Users \X Buckets
Cash(u) == <<u, "cash">>
Gift(u) == <<u, "gift">>

\* _REASON_RULES: the reasons that may credit, that may debit, and the
\* buckets each may touch.
CreditReasons == {"recharge", "invite_rebate", "signup_grant", "admin_adjustment",
                  "subscription_return", "refund", "referral_bonus", "referral_clawback"}
DebitReasons == {"admin_adjustment", "subscription", "qa", "refund", "relinquish",
                 "referral_clawback"}
Reasons == CreditReasons \cup DebitReasons
GiftReasons == {"signup_grant", "admin_adjustment", "subscription",
                "subscription_return", "qa", "referral_bonus"}
CashReasons == Reasons \ {"signup_grant"}

\* Idempotency keys: a namespace and the ids the code formats into it.
Namespaces == {"recharge:paddle", "refund", "refund_reversal", "referral_recharge",
               "referral_clawback", "referral_clawback_reversal", "relinquish",
               "admin_adjustment", "signup_grant", "subscription",
               "subscription_return", "referral_subscription"}
Keys == Namespaces \X Ids \X Ids
PurchaseKey(t) == <<"recharge:paddle", t, None>>
RefundKey(t, k) == <<"refund", t, k>>
RefundReversalKey(t, a) == <<"refund_reversal", t, a>>
BonusKey(t) == <<"referral_recharge", t, None>>
ClawbackKey(t, k) == <<"referral_clawback", t, k>>
ClawbackReversalKey(t, a) == <<"referral_clawback_reversal", t, a>>
RelinquishKey(u) == <<"relinquish", u, None>>
AdjustmentKey(k) == <<"admin_adjustment", k, None>>

Row == [amount : Int, after : Int, reason : Reasons, key : Keys, ref : Ids \cup Keys]

(***************************************************************************)
(* The tables.  exists: the users row is there (purge deletes it and keeps *)
(* the ledger rows); inviter: users.invited_by; balance: the two balance   *)
(* columns; rows: the ledger.                                              *)
(***************************************************************************)
Tables == [exists : [Users -> BOOLEAN],
           inviter : [Users -> Users \cup {None}],
           balance : [Accounts -> Int],
           rows : [Accounts -> Seq(Row)]]

-----------------------------------------------------------------------------
(* Queries.                                                                *)

\* _rows_for_key, as every caller but a replay uses it: is there a row?
HasKey(db, key) ==
    \E a \in Accounts : \E i \in DOMAIN db.rows[a] : db.rows[a][i].key = key

\* The UNIQUE (idempotency_key, bucket) constraint refuses a second row.
KeyTaken(db, bucket, key) ==
    \E u \in Users : \E i \in DOMAIN db.rows[<<u, bucket>>] :
        db.rows[<<u, bucket>>][i].key = key

\* The sum of a sequence of integers, by a recursive function: a module with
\* theorems may not declare a RECURSIVE operator.
Sum(q) ==
    LET upTo[i \in 0..Len(q)] == IF i = 0 THEN 0 ELSE upTo[i - 1] + q[i]
    IN  upTo[Len(q)]

Amounts(rows) == [i \in DOMAIN rows |-> rows[i].amount]

\* What the reconciliation of an account checks: its balance column is the sum
\* of its rows and the balance_after of the last of them.
Reconciled(db, account) ==
    LET rows == db.rows[account] IN
    /\ db.balance[account] = Sum(Amounts(rows))
    /\ rows # <<>> => db.balance[account] = rows[Len(rows)].after

IsRefundOf(row, t) ==
    /\ row.reason = "refund"
    /\ row.key[1] \in {"refund", "refund_reversal"}
    /\ row.key[2] = t

IsClawbackOf(row, t) ==
    /\ row.reason = "referral_clawback"
    /\ row.ref[1] = "refund"
    /\ row.ref[2] = t

RefundAmounts(rows, t) ==
    [i \in DOMAIN rows |-> IF IsRefundOf(rows[i], t) THEN rows[i].amount ELSE 0]

ClawbackAmounts(rows, t) ==
    [i \in DOMAIN rows |-> IF IsClawbackOf(rows[i], t) THEN rows[i].amount ELSE 0]

\* purchase_refundable: what is left of a purchase of `credits` by `buyer`
\* after its refunds and their reversals.
Refundable(db, t, buyer, credits) ==
    credits + Sum(RefundAmounts(db.rows[Cash(buyer)], t))

\* What referral_clawback calls `already`.  The clawbacks of a transaction
\* are all on the account that holds its bonus.
ClawedBack(db, t, holder) ==
    -Sum(ClawbackAmounts(db.rows[Cash(holder)], t))

\* Decimal.quantize(..., ROUND_HALF_UP) of n/d cents, n >= 0 and d > 0.
RoundHalfUp(n, d) == (2 * n + d) \div (2 * d)

-----------------------------------------------------------------------------
(* Writers.                                                                *)

\* Mutant: a debit is posted whatever the balance.
CanPostUnchecked(db, account, amount, reason) ==
    /\ amount # 0
    /\ reason \in (IF amount > 0 THEN CreditReasons ELSE DebitReasons)
    /\ reason \in (IF account[2] = "gift" THEN GiftReasons ELSE CashReasons)

\* _post raises unless the reason may move this bucket this way and the
\* balance can bear it; only a referral clawback may leave cash negative.
CanPost(db, account, amount, reason) ==
    /\ amount # 0
    /\ reason \in (IF amount > 0 THEN CreditReasons ELSE DebitReasons)
    /\ reason \in (IF account[2] = "gift" THEN GiftReasons ELSE CashReasons)
    /\ \/ amount > 0
       \/ db.balance[account] + amount >= 0
       \/ account[2] = "cash" /\ reason = "referral_clawback"

\* Mutant: balance_after is read before the amount is added.
PostedBefore(db, account, amount, reason, key, ref) ==
    [db EXCEPT !.balance[account] = @ + amount,
               !.rows[account] =
                    Append(@, [amount |-> amount, after |-> db.balance[account],
                               reason |-> reason, key |-> key, ref |-> ref])]

\* _post: the balance column and a new row, together.
Posted(db, account, amount, reason, key, ref) ==
    [db EXCEPT !.balance[account] = @ + amount,
               !.rows[account] =
                    Append(@, [amount |-> amount,
                               after |-> db.balance[account] + amount,
                               reason |-> reason, key |-> key, ref |-> ref])]

\* consume_credits refuses on the combined balance...
CanConsume(db, u, amount) ==
    db.balance[Gift(u)] + db.balance[Cash(u)] >= amount

\* ...and spends gift first, then cash, under one key.
GiftPart(db, u, amount) ==
    IF db.balance[Gift(u)] < amount THEN db.balance[Gift(u)] ELSE amount

Consumed(db, u, amount, reason, key, ref) ==
    LET gift == GiftPart(db, u, amount)
        cash == amount - gift
        afterGift == IF gift > 0
                     THEN Posted(db, Gift(u), -gift, reason, key, ref)
                     ELSE db
    IN  IF cash > 0
        THEN Posted(afterGift, Cash(u), -cash, reason, key, ref)
        ELSE afterGift

\* return_subscription_credits: cash, then gift, each only when not zero.
Returned(db, u, cash, gift, key, ref) ==
    LET afterCash == IF cash # 0
                     THEN Posted(db, Cash(u), cash, "subscription_return", key, ref)
                     ELSE db
    IN  IF gift # 0
        THEN Posted(afterCash, Gift(u), gift, "subscription_return", key, ref)
        ELSE afterCash

\* _referrer: the inviter's users row, when there is one.
Referrer(db, u) ==
    IF db.inviter[u] # None /\ db.exists[db.inviter[u]] THEN db.inviter[u] ELSE None
=============================================================================
