--------------------------- MODULE PaymentsProofs ---------------------------
(***************************************************************************)
(* What Payments promises, for any users, purchases, refunds and requests: *)
(* its type, reconciled accounts, refunds within the purchase in credits   *)
(* and in money, exact clawbacks, and agreement of the ledger with Paddle. *)
(*                                                                         *)
(* The operators that build the next tables come first, each shown to keep *)
(* tables sound, and IInv is kept by every action (TypeCorrect,            *)
(* AccountsReconciled).  Then what the rows of an account add up to        *)
(* (WellKept), the books these sums make with the balances (Books), each   *)
(* operator shown to keep them, and last the requests and Paddle against   *)
(* the books: PInv is kept by every action and the other theorems follow.  *)
(***************************************************************************)
EXTENDS Payments, CreditLedgerProofs, FiniteSetTheorems

Request == [pc : {"idle", "waiting", "debited", "adjusted"},
            txn : Txns \cup {None}, key : RequestKeys \cup {None},
            credits : Nat, id : Adjustments \cup {None}]
Adjustment == [status : {"none", "pending", "approved", "rejected"},
               txn : Txns \cup {None}, amount : Nat,
               acked : BOOLEAN, alerted : BOOLEAN]

\* What TypeOK and BalancesMatchLedger need to be inductive: a request or an
\* adjustment that exists names its transaction, and an adjusted request names
\* its adjustment.
Requests ==
    /\ req \in [Workers -> Request]
    /\ \A w \in Workers : req[w].pc # "idle" =>
            req[w].txn \in Txns /\ req[w].key \in RequestKeys
    /\ \A w \in Workers : req[w].pc = "adjusted" => req[w].id \in Adjustments
AtPaddle ==
    /\ adj \in [Adjustments -> Adjustment]
    /\ \A a \in Adjustments : adj[a].status # "none" => adj[a].txn \in Txns
Others ==
    /\ lock \in [Users -> Workers \cup {None}]
    /\ payment \in [Txns -> {"open", "completed", "acked"}]
    /\ late \subseteq Txns
    /\ purging \subseteq Users

IInv == Sound(db) /\ Requests /\ AtPaddle /\ Others

-----------------------------------------------------------------------------
\* Every key the code formats is one.
LEMMA KeyTypes ==
    /\ \A t \in Txns : PurchaseKey(t) \in Keys /\ BonusKey(t) \in Keys
    /\ \A t \in Txns, k \in RequestKeys : RefundKey(t, k) \in Keys /\ ClawbackKey(t, k) \in Keys
    /\ \A t \in Txns, a \in Adjustments :
            RefundReversalKey(t, a) \in Keys /\ ClawbackReversalKey(t, a) \in Keys
    /\ \A u \in Users : RelinquishKey(u) \in Keys /\ AdjustmentKey(u) \in Keys
    /\ \A k \in AdjustKeys : AdjustmentKey(k) \in Keys
<1>1. /\ \A t \in Txns : t \in Ids
      /\ \A u \in Users : u \in Ids
      /\ \A k \in RequestKeys : k \in Ids
      /\ \A a \in Adjustments : a \in Ids
      /\ \A k \in AdjustKeys : k \in Ids
      /\ None \in Ids
    BY PaymentsAssumption
<1> QED
    BY <1>1 DEF Keys, Namespaces, PurchaseKey, BonusKey, RefundKey, ClawbackKey,
                RefundReversalKey, ClawbackReversalKey, RelinquishKey, AdjustmentKey

\* Integer division by a positive number: whole, and not negative for naturals.
LEMMA DivType ==
    /\ \A n \in Int, d \in Nat \ {0} : n \div d \in Int
    /\ \A n \in Nat, d \in Nat \ {0} : n \div d \in Nat
    OBVIOUS

\* Rounding half up gives whole cents.
LEMMA RoundType ==
    ASSUME NEW n \in Int, NEW d \in Nat \ {0}
    PROVE  RoundHalfUp(n, d) \in Int /\ (n \in Nat => RoundHalfUp(n, d) \in Nat)
<1>1. 2 * n + d \in Int /\ 2 * d \in Nat \ {0} /\ (n \in Nat => 2 * n + d \in Nat)
    OBVIOUS
<1> QED
    BY <1>1, DivType, Zenon DEF RoundHalfUp

\* referral_recharge_bonus credits whole cents.
LEMMA BonusType ==
    ASSUME NEW t \in Txns
    PROVE  BonusAmount(t) \in Nat
<1>1. Credits[t] \in Nat /\ RateNum \in Nat /\ RateDen \in Nat \ {0}
    BY PaymentsAssumption
<1>2. Credits[t] * RateNum \in Nat /\ Credits[t] * RateNum \in Int
    BY <1>1
<1> QED
    BY <1>1, <1>2, RoundType, Zenon DEF BonusAmount

\* The money asked of Paddle is a natural number of minor units.
LEMMA MoneyType ==
    ASSUME NEW t \in Txns, NEW credits \in Nat
    PROVE  MoneyFor(t, credits) \in Nat
<1>1. Total[t] \in Nat /\ Credits[t] \in Nat \ {0}
    BY PaymentsAssumption
<1>2. Total[t] * credits \in Nat
    BY <1>1
<1> QED
    BY <1>1, <1>2, DivType, Zenon DEF MoneyFor

-----------------------------------------------------------------------------
\* The amounts a query sums are a sequence of integers, whatever it selects.
LEMMA SelectedAmounts ==
    ASSUME NEW rows \in Seq(Row), NEW t
    PROVE  RefundAmounts(rows, t) \in Seq(Int) /\ ClawbackAmounts(rows, t) \in Seq(Int)
<1>1. Len(rows) \in Nat /\ DOMAIN rows = 1..Len(rows)
    BY LenProperties
<1>2. ASSUME NEW i \in 1..Len(rows) PROVE rows[i].amount \in Int
    <2>1. rows[i] \in Row
        BY ElementOfSeq
    <2> QED
        BY <2>1 DEF Row
<1>3. RefundAmounts(rows, t) \in Seq(Int)
    BY <1>1, <1>2, IsASeq DEF RefundAmounts
<1>4. ClawbackAmounts(rows, t) \in Seq(Int)
    BY <1>1, <1>2, IsASeq DEF ClawbackAmounts
<1> QED
    BY <1>3, <1>4

\* What is left of a purchase is a whole number of cents.
LEMMA RemainingType ==
    ASSUME NEW d \in Tables, NEW t \in Txns
    PROVE  Remaining(d, t) \in Int
<1>1. Cash(Buyer[t]) \in Accounts /\ Credits[t] \in Int
    BY PaymentsAssumption DEF Cash, Accounts, Buckets
<1>2. d.rows[Cash(Buyer[t])] \in Seq(Row)
    BY <1>1 DEF Tables
<1>3. Sum(RefundAmounts(d.rows[Cash(Buyer[t])], t)) \in Int
    BY <1>2, SelectedAmounts, SumType
<1> QED
    BY <1>1, <1>3 DEF Remaining, Refundable

\* So is what a refund takes back of a bonus.
LEMMA ClawbackDueType ==
    ASSUME NEW d \in Tables, NEW t \in Txns, BonusHolders(d, t) # {}
    PROVE  BonusHolder(d, t) \in Users /\ ClawbackDue(d, t) \in Int
<1>1. BonusHolder(d, t) \in Users
    BY DEF BonusHolder, BonusHolders
<1>2. d.rows[Cash(BonusHolder(d, t))] \in Seq(Row)
    BY <1>1 DEF Tables, Cash, Accounts, Buckets
<1>3. ClawedBack(d, t, BonusHolder(d, t)) \in Int
    <2>1. Sum(ClawbackAmounts(d.rows[Cash(BonusHolder(d, t))], t)) \in Int
        BY <1>2, SelectedAmounts, SumType
    <2> QED
        BY <2>1 DEF ClawedBack
<1> DEFINE share == BonusAmount(t) * (Credits[t] - Remaining(d, t))
<1>4. Credits[t] \in Nat \ {0}
    BY PaymentsAssumption
<1>5. share \in Int
    <2>1. Credits[t] - Remaining(d, t) \in Int
        BY <1>4, RemainingType
    <2>2. BonusAmount(t) \in Nat
        BY BonusType
    <2> QED
        BY <2>1, <2>2
<1>6. RoundHalfUp(share, Credits[t]) \in Int
    BY <1>4, <1>5, RoundType, Zenon
<1> HIDE DEF share
<1>7. RoundHalfUp(share, Credits[t]) - ClawedBack(d, t, BonusHolder(d, t)) \in Int
    BY <1>3, <1>6
<1> QED
    BY <1>1, <1>7 DEF ClawbackDue, share

-----------------------------------------------------------------------------
(* The writers keep the tables sound.                                      *)

\* record_purchase with its referral bonus.
LEMMA PurchasedSound ==
    ASSUME NEW d, Sound(d), NEW t \in Txns
    PROVE  Sound(Purchased(d, t))
<1> DEFINE bought == Posted(d, Cash(Buyer[t]), Credits[t], "recharge", PurchaseKey(t), t)
           referrer == Referrer(d, Buyer[t])
<1>1. /\ Cash(Buyer[t]) \in Accounts /\ Credits[t] \in Int
      /\ PurchaseKey(t) \in Keys /\ BonusKey(t) \in Keys
      /\ t \in Ids \cup Keys
    BY PaymentsAssumption, KeyTypes DEF Cash, Accounts, Buckets
<1>2. "recharge" \in Reasons /\ "referral_bonus" \in Reasons
    BY DEF Reasons, CreditReasons
<1>3. Sound(bought)
    BY <1>1, <1>2, PostedSound
<1>4. CASE referrer = None \/ BonusAmount(t) = 0 \/ HasKey(d, BonusKey(t))
    BY <1>3, <1>4 DEF Purchased
<1>5. CASE ~(referrer = None \/ BonusAmount(t) = 0 \/ HasKey(d, BonusKey(t)))
    <2>1. referrer \in Users
        <3>1. d.inviter \in [Users -> Users \cup {None}] /\ Buyer[t] \in Users
            BY PaymentsAssumption DEF Sound, Tables
        <3> QED
            BY <1>5, <3>1 DEF Referrer
    <2>2. Cash(referrer) \in Accounts /\ BonusAmount(t) \in Int
        BY <2>1, BonusType DEF Cash, Accounts, Buckets
    <2>3. Sound(Posted(bought, Cash(referrer), BonusAmount(t), "referral_bonus",
                       BonusKey(t), t))
        <3> HIDE DEF bought, referrer
        <3> QED
            BY <1>1, <1>2, <1>3, <2>2, PostedSound
    <2> QED
        BY <1>5, <2>3 DEF Purchased
<1> QED
    BY <1>4, <1>5

\* debit_refund.
LEMMA DebitedSound ==
    ASSUME NEW d, Sound(d), NEW t \in Txns, NEW k \in RequestKeys,
           NEW credits \in Nat, NEW id \in Adjustments
    PROVE  Sound(Debited(d, t, k, credits, id))
<1>1. /\ Cash(Buyer[t]) \in Accounts /\ -credits \in Int
      /\ RefundKey(t, k) \in Keys /\ id \in Ids \cup Keys
    BY PaymentsAssumption, KeyTypes DEF Cash, Accounts, Buckets
<1>2. "refund" \in Reasons
    BY DEF Reasons, CreditReasons
<1> QED
    BY <1>1, <1>2, PostedSound DEF Debited

\* referral_clawback.
LEMMA AfterClawbackSound ==
    ASSUME NEW d, Sound(d), NEW t \in Txns, NEW k \in RequestKeys
    PROVE  Sound(AfterClawback(d, t, k))
<1> DEFINE nothing == \/ BonusHolders(d, t) = {}
                      \/ ClawbackDue(d, t) <= 0
                      \/ ~d.exists[BonusHolder(d, t)]
                      \/ HasKey(d, ClawbackKey(t, k))
<1>1. CASE nothing
    BY <1>1 DEF AfterClawback
<1>2. CASE ~nothing
    <2>1. d \in Tables
        BY DEF Sound
    <2>2. BonusHolder(d, t) \in Users /\ ClawbackDue(d, t) \in Int
        BY <1>2, <2>1, ClawbackDueType
    <2>3. Cash(BonusHolder(d, t)) \in Accounts /\ -ClawbackDue(d, t) \in Int
        BY <2>2 DEF Cash, Accounts, Buckets
    <2>4. ClawbackKey(t, k) \in Keys /\ RefundKey(t, k) \in Ids \cup Keys
        BY KeyTypes
    <2>5. "referral_clawback" \in Reasons
        BY DEF Reasons, CreditReasons
    <2> QED
        BY <1>2, <2>3, <2>4, <2>5, PostedSound DEF AfterClawback
<1> QED
    BY <1>1, <1>2

\* reverse_referral_clawback.
LEMMA AfterClawbackReversalSound ==
    ASSUME NEW d, Sound(d), NEW t \in Txns, NEW key \in Keys, NEW id \in Adjustments
    PROVE  Sound(AfterClawbackReversal(d, t, key, id))
<1> DEFINE nothing == \/ BonusHolders(d, t) = {}
                      \/ ClawbacksOf(d, t, key) = {}
                      \/ ~d.exists[BonusHolder(d, t)]
                      \/ HasKey(d, ClawbackReversalKey(t, id))
           holder == BonusHolder(d, t)
           row == d.rows[Cash(holder)][CHOOSE i \in ClawbacksOf(d, t, key) : TRUE]
<1>1. CASE nothing
    BY <1>1 DEF AfterClawbackReversal
<1>2. CASE ~nothing
    <2>1. holder \in Users
        BY <1>2 DEF BonusHolder, BonusHolders
    <2>2. Cash(holder) \in Accounts
        BY <2>1 DEF Cash, Accounts, Buckets
    <2>3. d.rows[Cash(holder)] \in Seq(Row)
        BY <2>2 DEF Sound, Tables
    <2>4. (CHOOSE i \in ClawbacksOf(d, t, key) : TRUE) \in DOMAIN d.rows[Cash(holder)]
        BY <1>2 DEF ClawbacksOf
    <2>5. row \in Row
        BY <2>3, <2>4, ElementOfSeq, LenProperties
    <2>6. -row.amount \in Int
        BY <2>5 DEF Row
    <2>7. ClawbackReversalKey(t, id) \in Keys /\ key \in Ids \cup Keys
        BY KeyTypes
    <2>8. "referral_clawback" \in Reasons
        BY DEF Reasons, CreditReasons
    <2> HIDE DEF row
    <2>9. Sound(Posted(d, Cash(holder), -row.amount, "referral_clawback",
                       ClawbackReversalKey(t, id), key))
        BY <2>2, <2>6, <2>7, <2>8, PostedSound
    <2> QED
        BY <1>2, <2>9 DEF AfterClawbackReversal, row
<1> QED
    BY <1>1, <1>2

\* reverse_refund with the clawback's reversal.
LEMMA ReversedSound ==
    ASSUME NEW d, Sound(d), NEW t \in Txns, NEW id \in Adjustments,
           DebitsOf(d, t, id) # {}
    PROVE  Sound(Reversed(d, t, id))
<1>1. Cash(Buyer[t]) \in Accounts
    BY PaymentsAssumption DEF Cash, Accounts, Buckets
<1>2. d.rows[Cash(Buyer[t])] \in Seq(Row)
    BY <1>1 DEF Sound, Tables
<1>3. (CHOOSE i \in DebitsOf(d, t, id) : TRUE) \in DOMAIN d.rows[Cash(Buyer[t])]
    BY DEF DebitsOf
<1>4. DebitOf(d, t, id) \in Row
    BY <1>2, <1>3, ElementOfSeq, LenProperties DEF DebitOf
<1>5. -DebitOf(d, t, id).amount \in Int /\ DebitOf(d, t, id).key \in Keys
    BY <1>4 DEF Row
<1>6. RefundReversalKey(t, id) \in Keys /\ id \in Ids \cup Keys
    BY KeyTypes, PaymentsAssumption
<1>7. "refund" \in Reasons
    BY DEF Reasons, CreditReasons
<1>8. Sound(Restored(d, t, id))
    BY <1>1, <1>5, <1>6, <1>7, PostedSound DEF Restored
<1> QED
    BY <1>5, <1>8, AfterClawbackReversalSound DEF Reversed

\* purge_user leaves the ledger as it is.
LEMMA PurgedSound ==
    ASSUME NEW d, Sound(d), NEW u \in Users
    PROVE  Sound(Purged(d, u))
<1> DEFINE e == Purged(d, u)
           exists == [d.exists EXCEPT ![u] = FALSE]
           inviter == [v \in Users |-> IF v # u /\ d.inviter[v] = u THEN None
                                      ELSE d.inviter[v]]
<1>1. d \in Tables
    BY DEF Sound
<1>2. e = [exists |-> exists, inviter |-> inviter, balance |-> d.balance, rows |-> d.rows]
    <2>1. e = [d EXCEPT !.exists = exists, !.inviter = inviter]
        BY <1>1 DEF Purged, Tables
    <2> HIDE DEF e, exists, inviter
    <2> QED
        BY <1>1, <2>1 DEF Tables
<1>3. exists \in [Users -> BOOLEAN] /\ inviter \in [Users -> Users \cup {None}]
    BY <1>1 DEF Tables
<1>4. d.balance \in [Accounts -> Int] /\ d.rows \in [Accounts -> Seq(Row)]
    BY <1>1 DEF Tables
<1> HIDE DEF e, exists, inviter
<1>5. e \in Tables
    BY <1>2, <1>3, <1>4 DEF Tables
<1>6. \A account \in Accounts : Reconciled(e, account)
    BY <1>2 DEF Sound, Reconciled
<1> QED
    BY <1>5, <1>6 DEF Sound, e

\* credit_adjustment_by_email and relinquish_cash.
LEMMA AdjustedSound ==
    ASSUME NEW d, Sound(d), NEW account \in Accounts, NEW amount \in Int
    PROVE  /\ \A k \in AdjustKeys : Sound(Posted(d, account, amount, "admin_adjustment",
                                                AdjustmentKey(k), None))
           /\ \A u \in Users : Sound(Posted(d, account, amount, "relinquish",
                                           RelinquishKey(u), None))
<1>1. "admin_adjustment" \in Reasons /\ "relinquish" \in Reasons
    BY DEF Reasons, CreditReasons, DebitReasons
<1>2. None \in Ids \cup Keys
    BY PaymentsAssumption
<1> QED
    BY <1>1, <1>2, KeyTypes, PostedSound

-----------------------------------------------------------------------------
(* The initial tables, and every action, keep the invariant.               *)

\* An account with no row, or with one opening adjustment, is reconciled.
LEMMA OpeningSound == Init => Sound(db)
<1> SUFFICES ASSUME Init PROVE Sound(db)
    OBVIOUS
<1> DEFINE row(a) == [amount |-> Opening[a[1]], after |-> Opening[a[1]],
                      reason |-> "admin_adjustment",
                      key |-> AdjustmentKey(a[1]), ref |-> None]
           opened(a) == a[2] = "cash" /\ Opening[a[1]] # 0
           rows == [a \in Accounts |-> IF opened(a) THEN <<row(a)>> ELSE <<>>]
           balance == [a \in Accounts |-> IF a[2] = "cash" THEN Opening[a[1]] ELSE 0]
           exists == [u \in Users |-> TRUE]
<1>1. db = [exists |-> exists, inviter |-> InitialInviter, balance |-> balance, rows |-> rows]
    BY DEF Init
<1>2. \A a \in Accounts : a[1] \in Users /\ Opening[a[1]] \in Nat
    BY PaymentsAssumption DEF Accounts
<1>3. "admin_adjustment" \in Reasons
    BY DEF Reasons, CreditReasons
<1>4. \A a \in Accounts : row(a) \in Row /\ row(a).amount = Opening[a[1]]
                                /\ row(a).after = Opening[a[1]]
    BY <1>2, <1>3, KeyTypes, PaymentsAssumption DEF Row
<1> HIDE DEF row
<1>5. rows \in [Accounts -> Seq(Row)]
    BY <1>4
<1>6. balance \in [Accounts -> Int]
    BY <1>2
<1>7. exists \in [Users -> BOOLEAN] /\ InitialInviter \in [Users -> Users \cup {None}]
    BY PaymentsAssumption
<1>8. db \in Tables
    <2> HIDE DEF rows, balance, exists
    <2> QED
        BY <1>1, <1>5, <1>6, <1>7 DEF Tables
<1>9. ASSUME NEW a \in Accounts PROVE Reconciled(db, a)
    <2>1. db.balance[a] = balance[a] /\ db.rows[a] = rows[a]
        <3> HIDE DEF balance, rows
        <3> QED
            BY <1>1
    <2>2. CASE opened(a)
        <3>1. rows[a] = <<row(a)>> /\ balance[a] = Opening[a[1]]
            BY <2>2
        <3>2. Amounts(<<row(a)>>) = <<Opening[a[1]]>>
            BY <1>4 DEF Amounts
        <3>3. Append(<<>>, Opening[a[1]]) = <<Opening[a[1]]>>
            OBVIOUS
        <3>4. Sum(<<Opening[a[1]]>>) = 0 + Opening[a[1]]
            <4>1. <<>> \in Seq(Int) /\ Opening[a[1]] \in Int
                BY <1>2
            <4> QED
                BY <3>3, <4>1, SumAppend, SumEmpty
        <3>5. <<row(a)>>[Len(<<row(a)>>)] = row(a)
            OBVIOUS
        <3> HIDE DEF rows, balance
        <3> QED
            BY <1>2, <1>4, <2>1, <3>1, <3>2, <3>4, <3>5 DEF Reconciled
    <2>3. CASE ~opened(a)
        <3>1. rows[a] = <<>> /\ balance[a] = 0
            BY <1>2, <2>3
        <3>2. Amounts(<<>>) = <<>>
            BY DEF Amounts
        <3> HIDE DEF rows, balance
        <3> QED
            BY <2>1, <3>1, <3>2, SumEmpty DEF Reconciled
    <2> QED
        BY <2>2, <2>3
<1> QED
    BY <1>8, <1>9 DEF Sound

\* The invariant holds at the start.
LEMMA InitIInv == Init => IInv
<1> SUFFICES ASSUME Init PROVE IInv
    OBVIOUS
<1>1. Requests
    BY DEF Init, Idle, Requests, Request
<1>2. AtPaddle
    BY DEF Init, NoAdjustment, AtPaddle, Adjustment
<1>3. Others
    BY DEF Init, Others
<1> QED
    BY <1>1, <1>2, <1>3, OpeningSound DEF IInv

\* What Paddle does on its own changes no table.
LEMMA PaddleStep ==
    ASSUME IInv, \/ \E t \in Txns : PaddleCompletes(t)
                 \/ \E t \in Aging : WindowCloses(t)
                 \/ \E a \in Adjustments : PaddleDecides(a)
    PROVE  IInv'
<1>1. ASSUME NEW t \in Txns, PaddleCompletes(t) PROVE IInv'
    BY <1>1 DEF PaddleCompletes, IInv, Sound, Reconciled, Requests, AtPaddle, Others
<1>2. ASSUME NEW t \in Aging, WindowCloses(t) PROVE IInv'
    <2>1. t \in Txns
        BY PaymentsAssumption
    <2> QED
        BY <1>2, <2>1 DEF WindowCloses, IInv, Sound, Reconciled, Requests, AtPaddle, Others
<1>3. ASSUME NEW a \in Adjustments, PaddleDecides(a) PROVE IInv'
    <2>1. AtPaddle'
        BY <1>3 DEF PaddleDecides, IInv, AtPaddle, Adjustment
    <2> QED
        BY <1>3, <2>1 DEF PaddleDecides, IInv, Sound, Reconciled, Requests, Others
<1> QED
    BY <1>1, <1>2, <1>3

\* A webhook leaves sound tables, whether it finds its work done or does it.
LEMMA WebhookStep ==
    ASSUME IInv, \/ \E t \in Txns : PurchaseWebhook(t)
                 \/ \E a \in Adjustments : RejectionWebhook(a)
    PROVE  IInv'
<1>1. ASSUME NEW t \in Txns, PurchaseWebhook(t) PROVE IInv'
    <2>1. db' = db \/ db' = Purchased(db, t)
        BY <1>1 DEF PurchaseWebhook
    <2>2. Sound(db')
        BY <2>1, PurchasedSound DEF IInv
    <2>3. Others'
        BY <1>1 DEF PurchaseWebhook, IInv, Others
    <2>4. Requests' /\ AtPaddle'
        BY <1>1 DEF PurchaseWebhook, IInv, Requests, AtPaddle
    <2> QED
        BY <2>2, <2>3, <2>4 DEF IInv, Sound, Reconciled
<1>2. ASSUME NEW a \in Adjustments, RejectionWebhook(a) PROVE IInv'
    <2>1. adj[a].txn \in Txns
        BY <1>2 DEF RejectionWebhook, IInv, AtPaddle
    <2>2. \/ db' = db
          \/ DebitsOf(db, adj[a].txn, a) # {} /\ db' = Reversed(db, adj[a].txn, a)
        BY <1>2 DEF RejectionWebhook
    <2>3. Sound(db')
        BY <2>1, <2>2, ReversedSound DEF IInv
    <2>4. AtPaddle'
        BY <1>2 DEF RejectionWebhook, IInv, AtPaddle, Adjustment
    <2>5. Requests' /\ Others'
        BY <1>2 DEF RejectionWebhook, IInv, Requests, Others
    <2> QED
        BY <2>3, <2>4, <2>5 DEF IInv, Sound, Reconciled
<1> QED
    BY <1>1, <1>2

\* A refund request before it commits changes no table.
LEMMA RefundStep ==
    ASSUME IInv, NEW w \in Workers,
           \/ \E t \in Txns, k \in RequestKeys, credits \in RefundSizes :
                  RefundStarts(w, t, k, credits)
           \/ RefundDebits(w) \/ RefundRefused(w) \/ PaddleRefuses(w)
           \/ \E a \in Adjustments : PaddleAdjusts(w, a)
           \/ RefundCommitFails(w) \/ AnswerLost(w)
    PROVE  IInv'
<1>1. ASSUME UNCHANGED db, Requests', AtPaddle', Others' PROVE IInv'
    BY <1>1 DEF IInv, Sound, Reconciled
<1>2. ASSUME NEW t \in Txns, NEW k \in RequestKeys, NEW credits \in RefundSizes,
             RefundStarts(w, t, k, credits)
      PROVE  IInv'
    <2>1. credits \in Nat
        BY PaymentsAssumption
    <2>2. Requests'
        BY <1>2, <2>1 DEF RefundStarts, IInv, Requests, Request
    <2> QED
        BY <1>1, <1>2, <2>2 DEF RefundStarts, IInv, AtPaddle, Others
<1>3. CASE RefundDebits(w)
    <2>1. req[w].txn \in Txns
        BY <1>3 DEF RefundDebits, IInv, Requests
    <2>2. Requests'
        BY <1>3 DEF RefundDebits, IInv, Requests, Request
    <2>3. Others'
        BY <1>3, <2>1 DEF RefundDebits, IInv, Others
    <2> QED
        BY <1>1, <1>3, <2>2, <2>3 DEF RefundDebits, IInv, AtPaddle
<1>4. CASE RefundRefused(w)
    <2>1. Requests'
        BY <1>4 DEF RefundRefused, Idle, IInv, Requests, Request
    <2> QED
        BY <1>1, <1>4, <2>1 DEF RefundRefused, IInv, AtPaddle, Others
<1>5. ASSUME NEW a \in Adjustments, PaddleAdjusts(w, a) PROVE IInv'
    <2>1. req[w].txn \in Txns /\ req[w].credits \in Nat
        BY <1>5 DEF PaddleAdjusts, IInv, Requests, Request
    <2>2. MoneyFor(req[w].txn, req[w].credits) \in Nat
        BY <2>1, MoneyType
    <2>3. Requests'
        BY <1>5, ZenonT(40) DEF PaddleAdjusts, IInv, Requests, Request
    <2>4. AtPaddle'
        BY <1>5, <2>1, <2>2 DEF PaddleAdjusts, NoAdjustment, IInv, AtPaddle, Adjustment
    <2> QED
        BY <1>1, <1>5, <2>3, <2>4 DEF PaddleAdjusts, IInv, Others
<1>6. ASSUME EndRequest(w) PROVE Requests' /\ (UNCHANGED <<payment, late, purging>> => Others')
    BY <1>6 DEF EndRequest, Idle, IInv, Requests, Request, Others
<1>7. CASE PaddleRefuses(w)
    BY <1>1, <1>6, <1>7 DEF PaddleRefuses, IInv, AtPaddle
<1>8. CASE RefundCommitFails(w)
    <2>1. AtPaddle'
        BY <1>8, ZenonT(40) DEF RefundCommitFails, IInv, AtPaddle, Adjustment
    <2> QED
        BY <1>1, <1>6, <1>8, <2>1 DEF RefundCommitFails
<1>9. CASE AnswerLost(w)
    BY <1>1, <1>6, <1>9 DEF AnswerLost, IInv, AtPaddle
<1> QED
    BY <1>2, <1>3, <1>4, <1>5, <1>7, <1>8, <1>9

\* The commit of a refund posts its debit and the clawback.
LEMMA CommitStep ==
    ASSUME IInv, NEW w \in Workers, RefundCommits(w)
    PROVE  IInv'
<1>1. /\ req[w].txn \in Txns /\ req[w].key \in RequestKeys
      /\ req[w].credits \in Nat /\ req[w].id \in Adjustments
    BY DEF RefundCommits, IInv, Requests, Request
<1> DEFINE debited == Debited(db, req[w].txn, req[w].key, req[w].credits, req[w].id)
<1>2. Sound(debited)
    BY <1>1, DebitedSound DEF IInv
<1>3. db' = AfterClawback(debited, req[w].txn, req[w].key)
    BY DEF RefundCommits
<1>4. Sound(db')
    <2> HIDE DEF debited
    <2> QED
        BY <1>1, <1>2, <1>3, AfterClawbackSound
<1>5. Requests' /\ AtPaddle' /\ Others'
    BY DEF RefundCommits, EndRequest, Idle, IInv, Requests, Request, AtPaddle, Others
<1> QED
    BY <1>4, <1>5 DEF IInv, Sound, Reconciled

\* Adjustments and deletions.
LEMMA AccountStep ==
    ASSUME IInv,
           \/ \E u \in Users, bucket \in Buckets, amount \in AdjustAmounts, k \in AdjustKeys :
                  AdminAdjusts(u, bucket, amount, k)
           \/ \E u \in Deletable : \/ DeletesAccount(u) \/ OpsPurgeChecks(u)
                                   \/ OpsPurgeDeletes(u) \/ OpsPurgeFails(u)
    PROVE  IInv'
<1>1. ASSUME Sound(db'), UNCHANGED <<lock, req, payment, adj, late>>, purging' \subseteq Users
      PROVE  IInv'
    BY <1>1 DEF IInv, Sound, Reconciled, Requests, AtPaddle, Others
<1>2. purging \subseteq Users /\ Sound(db)
    BY DEF IInv, Others
<1>3. ASSUME NEW u \in Users, NEW bucket \in Buckets, NEW amount \in AdjustAmounts,
             NEW k \in AdjustKeys, AdminAdjusts(u, bucket, amount, k)
      PROVE  IInv'
    <2>1. <<u, bucket>> \in Accounts /\ amount \in Int
        BY PaymentsAssumption DEF Accounts
    <2>2. Sound(db')
        BY <1>2, <1>3, <2>1, AdjustedSound DEF AdminAdjusts
    <2> QED
        BY <1>1, <1>2, <1>3, <2>2 DEF AdminAdjusts
<1>4. \A u \in Deletable : u \in Users
    BY PaymentsAssumption
<1>5. ASSUME NEW u \in Deletable, DeletesAccount(u) PROVE IInv'
    <2>1. u \in Users /\ Cash(u) \in Accounts
        BY <1>4 DEF Cash, Accounts, Buckets
    <2>2. -db.balance[Cash(u)] \in Int
        BY <1>2, <2>1 DEF Sound, Tables
    <2>3. Sound(Posted(db, Cash(u), -db.balance[Cash(u)], "relinquish",
                       RelinquishKey(u), None))
        BY <1>2, <2>1, <2>2, AdjustedSound
    <2>4. Sound(db')
        BY <1>2, <1>5, <2>1, <2>3, PurgedSound DEF DeletesAccount
    <2> QED
        BY <1>1, <1>2, <1>5, <2>4 DEF DeletesAccount
<1>6. ASSUME NEW u \in Deletable, OpsPurgeChecks(u) PROVE IInv'
    BY <1>1, <1>2, <1>4, <1>6 DEF OpsPurgeChecks, IInv
<1>7. ASSUME NEW u \in Deletable, OpsPurgeDeletes(u) PROVE IInv'
    <2>1. Sound(db')
        BY <1>2, <1>4, <1>7, PurgedSound DEF OpsPurgeDeletes
    <2> QED
        BY <1>1, <1>2, <1>7, <2>1 DEF OpsPurgeDeletes
<1>8. ASSUME NEW u \in Deletable, OpsPurgeFails(u) PROVE IInv'
    BY <1>1, <1>2, <1>8 DEF OpsPurgeFails
<1> QED
    BY <1>3, <1>5, <1>6, <1>7, <1>8

\* Every step keeps the invariant.
LEMMA NextIInv == IInv /\ [Next]_vars => IInv'
<1> SUFFICES ASSUME IInv, [Next]_vars PROVE IInv'
    OBVIOUS
<1>1. CASE UNCHANGED vars
    BY <1>1 DEF vars, IInv, Sound, Reconciled, Requests, AtPaddle, Others
<1>2. CASE Next
    BY <1>2, PaddleStep, WebhookStep, RefundStep, CommitStep, AccountStep DEF Next, RefundEnds
<1> QED
    BY <1>1, <1>2

-----------------------------------------------------------------------------
\* However payments, refunds, rejections, adjustments and deletions interleave,
\* the tables and the requests keep their type (services/credit_ledger.py,
\* routers/paddle_webhooks.py, routers/admin.py).
THEOREM TypeCorrect == Spec => []TypeOK
<1>1. IInv => TypeOK
    BY DEF IInv, Sound, Requests, Request, AtPaddle, Adjustment, Others, TypeOK
<1> QED
    BY <1>1, InitIInv, NextIInv, PTL DEF Spec

\* Every account stays reconciled: what _post writes to the balance column, to
\* balance_after and to the ledger agrees, over the whole history of an account.
THEOREM AccountsReconciled == Spec => []BalancesMatchLedger
<1>1. IInv => BalancesMatchLedger
    BY DEF IInv, Sound, BalancesMatchLedger
<1> QED
    BY <1>1, InitIInv, NextIInv, PTL DEF Spec

-----------------------------------------------------------------------------
(* What the refunds and clawbacks of a purchase add up to.                 *)

\* The rows that count towards a sum: the refunds of a purchase, the clawbacks
\* of a purchase, or all clawbacks of an account.
Of(row, kind, t) ==
    \/ kind = "refund" /\ IsRefundOf(row, t)
    \/ kind = "clawback" /\ IsClawbackOf(row, t)
    \/ kind = "all" /\ row.reason = "referral_clawback"

Counted(rows, kind, t) ==
    [i \in DOMAIN rows |-> IF Of(rows[i], kind, t) THEN rows[i].amount ELSE 0]

\* Was what a row took given back, by a row with the same reference?
Undone(rows, kind, t, ref) ==
    \E j \in DOMAIN rows : Of(rows[j], kind, t) /\ rows[j].amount > 0 /\ rows[j].ref = ref

\* What was taken and not given back, row by row.
Open(rows, kind, t) ==
    [i \in DOMAIN rows |->
        IF Of(rows[i], kind, t) /\ rows[i].amount < 0 /\ ~Undone(rows, kind, t, rows[i].ref)
        THEN rows[i].amount ELSE 0]

\* All that was taken and given back adds up to what is open.
Tallied(rows, kind, t) == Sum(Counted(rows, kind, t)) = Sum(Open(rows, kind, t))

\* The three sums of the ledger's queries and properties.
LEMMA CountedAre ==
    /\ \A rows, t : RefundAmounts(rows, t) = Counted(rows, "refund", t)
    /\ \A rows, t : ClawbackAmounts(rows, t) = Counted(rows, "clawback", t)
    /\ \A rows, t : Counted(rows, "all", t) =
            [i \in DOMAIN rows |-> IF rows[i].reason = "referral_clawback"
                                   THEN rows[i].amount ELSE 0]
    BY DEF RefundAmounts, ClawbackAmounts, Counted, Of

\* Both are sequences of integers, and what is open is never positive.
LEMMA CountedType ==
    ASSUME NEW rows \in Seq(Row), NEW kind, NEW t
    PROVE  /\ Counted(rows, kind, t) \in Seq(Int) /\ Len(Counted(rows, kind, t)) = Len(rows)
           /\ Open(rows, kind, t) \in Seq(Int) /\ Len(Open(rows, kind, t)) = Len(rows)
           /\ \A i \in 1..Len(rows) : Open(rows, kind, t)[i] <= 0
<1>1. Len(rows) \in Nat /\ DOMAIN rows = 1..Len(rows)
    BY LenProperties
<1>2. ASSUME NEW i \in 1..Len(rows) PROVE rows[i].amount \in Int
    <2>1. rows[i] \in Row
        BY ElementOfSeq
    <2> QED
        BY <2>1 DEF Row
<1>3. Counted(rows, kind, t) \in Seq(Int) /\ Len(Counted(rows, kind, t)) = Len(rows)
    BY <1>1, <1>2, IsASeq DEF Counted
<1>4. Open(rows, kind, t) \in Seq(Int) /\ Len(Open(rows, kind, t)) = Len(rows)
    BY <1>1, <1>2, IsASeq DEF Open
<1>5. \A i \in 1..Len(rows) : Open(rows, kind, t)[i] <= 0
    BY <1>1, <1>2 DEF Open
<1> QED
    BY <1>3, <1>4, <1>5

\* A row that is appended is the last, and the others stay.
LEMMA Appended ==
    ASSUME NEW rows \in Seq(Row), NEW row \in Row
    PROVE  LET more == Append(rows, row) IN
           /\ more \in Seq(Row) /\ Len(rows) \in Nat
           /\ DOMAIN rows = 1..Len(rows) /\ DOMAIN more = 1..(Len(rows) + 1)
           /\ Len(more) = Len(rows) + 1 /\ more[Len(rows) + 1] = row
           /\ \A i \in 1..Len(rows) : more[i] = rows[i]
    BY AppendProperties, LenProperties

\* A row counts once it is appended.
LEMMA CountedAppend ==
    ASSUME NEW rows \in Seq(Row), NEW row \in Row, NEW kind, NEW t
    PROVE  Sum(Counted(Append(rows, row), kind, t)) =
                Sum(Counted(rows, kind, t)) + (IF Of(row, kind, t) THEN row.amount ELSE 0)
<1> DEFINE n == Len(rows)
           last == IF Of(row, kind, t) THEN row.amount ELSE 0
<1>1. n \in Nat /\ DOMAIN rows = 1..n /\ DOMAIN Append(rows, row) = 1..(n + 1)
          /\ Append(rows, row)[n + 1] = row
          /\ \A i \in 1..n : Append(rows, row)[i] = rows[i]
    BY Appended
<1>2. Counted(rows, kind, t) \in Seq(Int) /\ Len(Counted(rows, kind, t)) = n
    BY CountedType
<1>3. last \in Int
    BY DEF Row
<1>4. Counted(Append(rows, row), kind, t) = Append(Counted(rows, kind, t), last)
    BY <1>1, <1>2, <1>3 DEF Counted
<1> HIDE DEF last
<1>5. Sum(Append(Counted(rows, kind, t), last)) = Sum(Counted(rows, kind, t)) + last
    BY <1>2, <1>3, SumAppend
<1> QED
    BY <1>4, <1>5 DEF last

\* A row of another kind opens and closes nothing.
LEMMA TalliedOther ==
    ASSUME NEW rows \in Seq(Row), NEW row \in Row, NEW kind, NEW t,
           Tallied(rows, kind, t), ~Of(row, kind, t)
    PROVE  Tallied(Append(rows, row), kind, t)
<1> DEFINE n == Len(rows)
           more == Append(rows, row)
<1>1. n \in Nat /\ DOMAIN rows = 1..n /\ DOMAIN more = 1..(n + 1)
          /\ more[n + 1] = row /\ \A i \in 1..n : more[i] = rows[i]
    BY Appended
<1>2. Open(rows, kind, t) \in Seq(Int) /\ Len(Open(rows, kind, t)) = n
    BY CountedType
<1>3. Sum(Counted(more, kind, t)) = Sum(Counted(rows, kind, t)) + 0
    BY CountedAppend
<1> HIDE DEF more
<1>4. \A ref : Undone(more, kind, t, ref) <=> Undone(rows, kind, t, ref)
    <2> TAKE ref
    <2>1. ASSUME NEW j \in DOMAIN more, Of(more[j], kind, t) PROVE j \in DOMAIN rows
        <3>1. j # n + 1
            BY <1>1, <2>1
        <3> QED
            BY <1>1, <3>1
    <2>2. \A j \in DOMAIN rows : j \in DOMAIN more /\ more[j] = rows[j]
        BY <1>1
    <2> QED
        BY <2>1, <2>2 DEF Undone
<1>5. Open(more, kind, t) = Append(Open(rows, kind, t), 0)
    BY <1>1, <1>2, <1>4 DEF Open
<1>6. Sum(Append(Open(rows, kind, t), 0)) = Sum(Open(rows, kind, t)) + 0
    BY <1>2, SumAppend
<1> QED
    BY <1>3, <1>5, <1>6 DEF Tallied, more

\* A row that takes opens its amount, unless its reference was given back before.
LEMMA TalliedTake ==
    ASSUME NEW rows \in Seq(Row), NEW row \in Row, NEW kind, NEW t,
           Tallied(rows, kind, t), Of(row, kind, t), row.amount < 0,
           ~Undone(rows, kind, t, row.ref)
    PROVE  Tallied(Append(rows, row), kind, t)
<1> DEFINE n == Len(rows)
           more == Append(rows, row)
<1>1. n \in Nat /\ DOMAIN rows = 1..n /\ DOMAIN more = 1..(n + 1)
          /\ more[n + 1] = row /\ \A i \in 1..n : more[i] = rows[i]
    BY Appended
<1>2. Open(rows, kind, t) \in Seq(Int) /\ Len(Open(rows, kind, t)) = n
    BY CountedType
<1>3. Sum(Counted(more, kind, t)) = Sum(Counted(rows, kind, t)) + row.amount
    BY CountedAppend
<1>4. row.amount \in Int
    BY DEF Row
<1> HIDE DEF more
<1>5. \A ref : Undone(more, kind, t, ref) <=> Undone(rows, kind, t, ref)
    <2> TAKE ref
    <2>1. ASSUME NEW j \in DOMAIN more, more[j].amount > 0 PROVE j \in DOMAIN rows
        <3>1. j # n + 1
            BY <1>1, <1>4, <2>1
        <3> QED
            BY <1>1, <3>1
    <2>2. \A j \in DOMAIN rows : j \in DOMAIN more /\ more[j] = rows[j]
        BY <1>1
    <2> QED
        BY <2>1, <2>2 DEF Undone
<1>6. Open(more, kind, t) = Append(Open(rows, kind, t), row.amount)
    BY <1>1, <1>2, <1>4, <1>5 DEF Open
<1>7. Sum(Append(Open(rows, kind, t), row.amount)) = Sum(Open(rows, kind, t)) + row.amount
    BY <1>2, <1>4, SumAppend
<1> QED
    BY <1>3, <1>6, <1>7 DEF Tallied, more

\* A row that gives back closes the one row that took under its reference.
LEMMA TalliedBack ==
    ASSUME NEW rows \in Seq(Row), NEW row \in Row, NEW kind, NEW t,
           Tallied(rows, kind, t), Of(row, kind, t), row.amount > 0,
           ~Undone(rows, kind, t, row.ref),
           NEW p \in DOMAIN rows, Of(rows[p], kind, t), rows[p].amount = -row.amount,
           rows[p].ref = row.ref,
           \A i \in DOMAIN rows : Of(rows[i], kind, t) /\ rows[i].amount < 0
                                      /\ rows[i].ref = row.ref => i = p
    PROVE  Tallied(Append(rows, row), kind, t)
<1> DEFINE n == Len(rows)
           more == Append(rows, row)
           open == Open(rows, kind, t)
<1>1. n \in Nat /\ DOMAIN rows = 1..n /\ DOMAIN more = 1..(n + 1)
          /\ more[n + 1] = row /\ \A i \in 1..n : more[i] = rows[i]
    BY Appended
<1>2. open \in Seq(Int) /\ Len(open) = n
    BY CountedType
<1>3. Sum(Counted(more, kind, t)) = Sum(Counted(rows, kind, t)) + row.amount
    BY CountedAppend
<1>4. row.amount \in Int /\ \A i \in 1..n : rows[i].amount \in Int
    <2>1. \A i \in 1..n : rows[i] \in Row
        BY <1>1, ElementOfSeq
    <2> QED
        BY <2>1 DEF Row
<1>5. open[p] = -row.amount
    BY <1>1, <1>4 DEF Open
<1> DEFINE rest == [open EXCEPT ![p] = 0]
<1>6. rest \in Seq(Int) /\ Len(rest) = n /\ rest[p] = 0
          /\ \A i \in 1..n : i # p => rest[i] = open[i]
    BY <1>1, <1>2, ChangedSeq
<1>7. Sum(rest) = Sum(open) - open[p] + 0
    BY <1>1, <1>2, SumChange
<1> HIDE DEF more
<1>8. \A ref : Undone(more, kind, t, ref) <=> Undone(rows, kind, t, ref) \/ ref = row.ref
    <2> TAKE ref
    <2>1. n + 1 \in DOMAIN more /\ more[n + 1] = row
        BY <1>1
    <2>2. \A j \in DOMAIN more : j = n + 1 \/ j \in DOMAIN rows
        BY <1>1
    <2>3. \A j \in DOMAIN rows : j \in DOMAIN more /\ more[j] = rows[j]
        BY <1>1
    <2> QED
        BY <2>1, <2>2, <2>3 DEF Undone
<1>9. Open(more, kind, t) = Append(rest, 0)
    <2>1. ASSUME NEW i \in 1..n PROVE Open(more, kind, t)[i] = rest[i]
        <3>1. more[i] = rows[i] /\ i \in DOMAIN more /\ i \in DOMAIN rows
            BY <1>1
        <3>2. CASE i = p
            <4>1. Undone(more, kind, t, more[i].ref)
                BY <1>8, <3>1, <3>2
            <4> QED
                BY <1>6, <3>1, <3>2, <4>1 DEF Open
        <3>3. CASE i # p
            <4>1. CASE Of(rows[i], kind, t) /\ rows[i].amount < 0
                <5>1. rows[i].ref # row.ref
                    BY <3>1, <3>3, <4>1
                <5>2. Undone(more, kind, t, more[i].ref) <=> Undone(rows, kind, t, rows[i].ref)
                    BY <1>8, <3>1, <5>1
                <5> QED
                    BY <1>6, <3>1, <3>3, <5>2 DEF Open
            <4>2. CASE ~(Of(rows[i], kind, t) /\ rows[i].amount < 0)
                BY <1>6, <3>1, <3>3, <4>2 DEF Open
            <4> QED
                BY <4>1, <4>2
        <3> QED
            BY <3>2, <3>3
    <2>2. Open(more, kind, t)[n + 1] = 0
        <3>1. ~(row.amount < 0) /\ n + 1 \in DOMAIN more
            BY <1>1, <1>4
        <3> QED
            BY <1>1, <3>1 DEF Open
    <2> HIDE DEF rest, open
    <2>3. Append(rest, 0) \in Seq(Int) /\ Len(Append(rest, 0)) = n + 1
              /\ Append(rest, 0)[n + 1] = 0 /\ \A i \in 1..n : Append(rest, 0)[i] = rest[i]
        <3> HIDE DEF n
        <3>1. rest \in Seq(Int) /\ Len(rest) = n /\ 0 \in Int
            BY <1>6
        <3> QED
            BY <3>1, AppendProperties
    <2>4. Open(more, kind, t) \in Seq(Int) /\ Len(Open(more, kind, t)) = n + 1
        <3>1. more \in Seq(Row) /\ Len(more) = n + 1
            BY Appended DEF more
        <3> HIDE DEF n
        <3> QED
            BY <3>1, CountedType
    <2>5. \A i \in 1..(n + 1) : Open(more, kind, t)[i] = Append(rest, 0)[i]
        BY <1>1, <2>1, <2>2, <2>3
    <2> QED
        BY <2>3, <2>4, <2>5, SeqEqual
<1> HIDE DEF rest, open
<1>10. Sum(Append(rest, 0)) = Sum(rest) + 0
    BY <1>6, SumAppend
<1>11. Sum(open) \in Int /\ Sum(rest) \in Int
    BY <1>2, <1>6, SumType
<1>12. Sum(Counted(rows, kind, t)) = Sum(open) /\ Sum(Open(more, kind, t)) = Sum(Append(rest, 0))
    BY <1>9 DEF Tallied, open
<1> QED
    BY <1>3, <1>4, <1>5, <1>7, <1>10, <1>11, <1>12 DEF Tallied, more

\* What is counted never exceeds nothing, and is nothing only when nothing is open.
LEMMA TalliedBounds ==
    ASSUME NEW rows \in Seq(Row), NEW kind, NEW t, Tallied(rows, kind, t)
    PROVE  /\ Sum(Counted(rows, kind, t)) \in Int /\ Sum(Counted(rows, kind, t)) <= 0
           /\ Sum(Counted(rows, kind, t)) = 0 <=>
                \A i \in DOMAIN rows : Of(rows[i], kind, t) /\ rows[i].amount < 0
                                           => Undone(rows, kind, t, rows[i].ref)
<1> DEFINE open == Open(rows, kind, t)
<1>1. Counted(rows, kind, t) \in Seq(Int) /\ open \in Seq(Int) /\ Len(open) = Len(rows)
          /\ DOMAIN rows = 1..Len(rows) /\ \A i \in 1..Len(rows) : open[i] <= 0
    BY CountedType, LenProperties
<1>2. Sum(open) <= 0 /\ (Sum(open) = 0 <=> \A i \in 1..Len(open) : open[i] = 0)
    <2> HIDE DEF open
    <2> QED
        BY <1>1, SumNotPositive
<1>3. Sum(Counted(rows, kind, t)) \in Int /\ Sum(Counted(rows, kind, t)) = Sum(open)
    BY <1>1, SumType DEF Tallied
<1>4. ASSUME NEW i \in DOMAIN rows
      PROVE  open[i] = 0 <=> (Of(rows[i], kind, t) /\ rows[i].amount < 0
                                           => Undone(rows, kind, t, rows[i].ref))
    <2>1. rows[i].amount \in Int
        <3>1. rows[i] \in Row
            BY <1>1, ElementOfSeq
        <3> QED
            BY <3>1 DEF Row
    <2> QED
        BY <2>1 DEF Open
<1> HIDE DEF open
<1> QED
    BY <1>1, <1>2, <1>3, <1>4

-----------------------------------------------------------------------------
(* What is known of the rows of refunds and clawbacks.                     *)

\* The rows of an account, in no order.
Log(d, a) == {d.rows[a][i] : i \in DOMAIN d.rows[a]}

Marked == {"refund", "referral_clawback"}
IsDebit(row) == row.reason = "refund" /\ row.amount < 0

\* A row of the refunds of a purchase: a debit, or the reversal of one.
RefundRow(a, row, t) ==
    /\ a = Cash(Buyer[t]) /\ row.ref \in Adjustments
    /\ \/ row.amount < 0 /\ \E k \in RequestKeys : row.key = RefundKey(t, k)
       \/ row.amount > 0 /\ row.key = RefundReversalKey(t, row.ref)

\* A row of the clawbacks of a purchase: one of a refund, or its reversal.
ClawbackRow(d, a, row, t) ==
    /\ BonusHolders(d, t) # {} /\ a = Cash(BonusHolder(d, t))
    /\ \E k \in RequestKeys :
        /\ row.ref = RefundKey(t, k)
        /\ \/ row.amount < 0 /\ row.key = ClawbackKey(t, k)
           \/ row.amount > 0 /\ \E id \in Adjustments : row.key = ClawbackReversalKey(t, id)

RowShaped(d, a, row) ==
    /\ row.reason = "refund" <=> row.key[1] \in {"refund", "refund_reversal"}
    /\ row.reason = "refund" => \E t \in Txns : RefundRow(a, row, t)
    /\ row.reason = "referral_clawback" <=>
            row.key[1] \in {"referral_clawback", "referral_clawback_reversal"}
    /\ row.reason = "referral_clawback" => \E t \in Txns : ClawbackRow(d, a, row, t)

Shaped(d) == \A a \in Accounts : \A row \in Log(d, a) : RowShaped(d, a, row)

\* A refund and a request are debited once, and a refund is clawed back once.
RefsOnce(d) ==
    \A a \in Accounts : \A i, j \in DOMAIN d.rows[a] :
        (/\ d.rows[a][i].reason \in Marked /\ d.rows[a][j].reason = d.rows[a][i].reason
         /\ d.rows[a][i].amount < 0 /\ d.rows[a][j].amount < 0
         /\ d.rows[a][j].ref = d.rows[a][i].ref) => i = j
DebitsOnce(d) ==
    \A a \in Accounts : \A r, s \in Log(d, a) :
        IsDebit(r) /\ IsDebit(s) /\ r.key = s.key => r.ref = s.ref

\* What gives back has a row that took.
Paired(d) ==
    \A a \in Accounts : \A r \in Log(d, a) :
        r.reason \in Marked /\ r.amount > 0 =>
            \E s \in Log(d, a) : /\ s.reason = r.reason /\ s.amount < 0
                                 /\ s.ref = r.ref /\ s.key[2] = r.key[2]

AllTallied(d) ==
    \A a \in Accounts, t \in Txns \cup {None} : \A kind \in {"refund", "clawback", "all"} :
        Tallied(d.rows[a], kind, t)

WellKept(d) ==
    Sound(d) /\ Shaped(d) /\ RefsOnce(d) /\ DebitsOnce(d) /\ Paired(d) /\ AllTallied(d)

-----------------------------------------------------------------------------
(* One post.                                                               *)

\* e is d with one row more.
Grown(d, e, account, row) ==
    /\ e.exists = d.exists /\ e.inviter = d.inviter
    /\ e.balance[account] = d.balance[account] + row.amount
    /\ e.rows[account] = Append(d.rows[account], row)
    /\ Log(e, account) = Log(d, account) \cup {row}
    /\ \A a \in Accounts \ {account} :
            e.balance[a] = d.balance[a] /\ e.rows[a] = d.rows[a] /\ Log(e, a) = Log(d, a)

\* The fields of a row that a query reads.
Entry(row, amount, reason, key, ref) ==
    row.amount = amount /\ row.reason = reason /\ row.key = key /\ row.ref = ref

\* _post adds one row.
LEMMA PostedGrows ==
    ASSUME NEW d, Sound(d), NEW account \in Accounts, NEW amount \in Int,
           NEW reason \in Reasons, NEW key \in Keys, NEW ref \in Ids \cup Keys,
           NEW e, e = Posted(d, account, amount, reason, key, ref)
    PROVE  /\ Sound(e)
           /\ \E row \in Row : Grown(d, e, account, row) /\ Entry(row, amount, reason, key, ref)
<1> DEFINE row == [amount |-> amount, after |-> d.balance[account] + amount,
                  reason |-> reason, key |-> key, ref |-> ref]
<1>1. Sound(e) /\ d \in Tables
    BY PostedSound DEF Sound
<1>2. /\ e.exists = d.exists /\ e.inviter = d.inviter /\ row \in Row
      /\ e.balance[account] = d.balance[account] + amount
      /\ e.rows[account] = Append(d.rows[account], row)
      /\ \A a \in Accounts \ {account} : e.balance[a] = d.balance[a] /\ e.rows[a] = d.rows[a]
    BY <1>1, PostedFields
<1>3. row.amount = amount /\ Entry(row, amount, reason, key, ref)
    BY DEF Entry
<1> HIDE DEF row
<1>4. d.rows[account] \in Seq(Row)
    BY <1>1 DEF Tables
<1>5. Log(e, account) = Log(d, account) \cup {row}
    <2> DEFINE rows == d.rows[account]
               n == Len(rows)
    <2>1. n \in Nat /\ DOMAIN rows = 1..n /\ DOMAIN Append(rows, row) = 1..(n + 1)
              /\ Append(rows, row)[n + 1] = row
              /\ \A i \in 1..n : Append(rows, row)[i] = rows[i]
        BY <1>2, <1>4, Appended
    <2>2. n + 1 \in 1..(n + 1) /\ 1..(n + 1) = 1..n \cup {n + 1}
        BY <2>1
    <2> HIDE DEF n
    <2> QED
        BY <1>2, <2>1, <2>2 DEF Log
<1>6. \A a \in Accounts \ {account} : Log(e, a) = Log(d, a)
    BY <1>2 DEF Log
<1>7. Grown(d, e, account, row)
    BY <1>2, <1>3, <1>5, <1>6 DEF Grown
<1> QED
    BY <1>1, <1>2, <1>3, <1>7

\* A row gives back what a row with its reference took.
GivesBack(row, kind, t, ref) == Of(row, kind, t) /\ row.amount > 0 /\ row.ref = ref

\* What was given back, asked of the rows of an account in no order.
LEMMA UndoneSays ==
    ASSUME NEW d, NEW a, NEW kind, NEW t, NEW ref
    PROVE  Undone(d.rows[a], kind, t, ref) <=>
                \E r \in Log(d, a) : GivesBack(r, kind, t, ref)
    BY Zenon DEF Log, Undone, GivesBack

\* The queries, asked of the rows of an account in no order.
LEMMA LogSays ==
    /\ \A d, key : HasKey(d, key) <=> \E a \in Accounts : \E r \in Log(d, a) : r.key = key
    /\ \A d, b, key : KeyTaken(d, b, key) <=>
            \E u \in Users : \E r \in Log(d, <<u, b>>) : r.key = key
    /\ \A d, t : BonusHolders(d, t) =
            {u \in Users : \E r \in Log(d, Cash(u)) : r.key = BonusKey(t)}
    /\ \A d, t, id : DebitsOf(d, t, id) # {} <=>
            \E r \in Log(d, Cash(Buyer[t])) : IsDebit(r) /\ r.ref = id
<1>1. \A d, key : HasKey(d, key) <=> \E a \in Accounts : \E r \in Log(d, a) : r.key = key
    BY DEF Log, HasKey
<1>2. \A d, b, key : KeyTaken(d, b, key) <=>
            \E u \in Users : \E r \in Log(d, <<u, b>>) : r.key = key
    BY DEF Log, KeyTaken
<1>3. \A d, t : BonusHolders(d, t) =
            {u \in Users : \E r \in Log(d, Cash(u)) : r.key = BonusKey(t)}
    <2> TAKE d, t
    <2>1. \A u : (\E r \in Log(d, Cash(u)) : r.key = BonusKey(t)) <=>
                 \E i \in DOMAIN d.rows[Cash(u)] : d.rows[Cash(u)][i].key = BonusKey(t)
        BY DEF Log
    <2> QED
        BY <2>1 DEF BonusHolders
<1>4. \A d, t, id : DebitsOf(d, t, id) # {} <=>
            \E r \in Log(d, Cash(Buyer[t])) : IsDebit(r) /\ r.ref = id
    <2> TAKE d, t, id
    <2> QED
        BY Zenon DEF Log, DebitsOf, IsDebit
<1> QED
    BY <1>1, <1>2, <1>3, <1>4

\* Every row is one.
LEMMA LogType ==
    ASSUME NEW d \in Tables, NEW a \in Accounts
    PROVE  d.rows[a] \in Seq(Row) /\ Log(d, a) \subseteq Row
<1>1. d.rows[a] \in Seq(Row)
    BY DEF Tables
<1> QED
    BY <1>1, ElementOfSeq, LenProperties DEF Log

\* The accounts of a purchase.
LEMMA AccountTypes ==
    /\ \A u \in Users : Cash(u) \in Accounts /\ Gift(u) \in Accounts
    /\ \A t \in Txns : Buyer[t] \in Users /\ Cash(Buyer[t]) \in Accounts
    /\ \A d, t : BonusHolders(d, t) # {} =>
            BonusHolder(d, t) \in Users /\ Cash(BonusHolder(d, t)) \in Accounts
<1>1. \A u \in Users : Cash(u) \in Accounts /\ Gift(u) \in Accounts
    BY DEF Cash, Gift, Accounts, Buckets
<1>2. \A t \in Txns : Buyer[t] \in Users
    BY PaymentsAssumption
<1>3. \A d, t : BonusHolders(d, t) # {} => BonusHolder(d, t) \in Users
    BY DEF BonusHolder, BonusHolders
<1> QED
    BY <1>1, <1>2, <1>3

\* One row more counts once, where it belongs.
LEMMA GrownCounts ==
    ASSUME NEW d \in Tables, NEW e, NEW account \in Accounts, NEW row \in Row,
           Grown(d, e, account, row), NEW kind, NEW t
    PROVE  /\ \A a \in Accounts : a # account =>
                 Sum(Counted(e.rows[a], kind, t)) = Sum(Counted(d.rows[a], kind, t))
           /\ Sum(Counted(e.rows[account], kind, t)) =
                 Sum(Counted(d.rows[account], kind, t))
                     + (IF Of(row, kind, t) THEN row.amount ELSE 0)
           /\ \A a \in Accounts : Sum(Counted(d.rows[a], kind, t)) \in Int
<1>1. \A a \in Accounts : d.rows[a] \in Seq(Row)
    BY LogType
<1>2. \A a \in Accounts : Sum(Counted(d.rows[a], kind, t)) \in Int
    BY <1>1, CountedType, SumType
<1> QED
    BY <1>1, <1>2, CountedAppend DEF Grown

\* Who holds a bonus is unchanged by a row that is not that bonus.
LEMMA HoldersStay ==
    ASSUME NEW d, NEW e, NEW account \in Accounts, NEW row,
           Grown(d, e, account, row), NEW t, row.key # BonusKey(t)
    PROVE  BonusHolders(e, t) = BonusHolders(d, t) /\ BonusHolder(e, t) = BonusHolder(d, t)
<1>1. \A u \in Users : (\E r \in Log(e, Cash(u)) : r.key = BonusKey(t))
                            <=> (\E r \in Log(d, Cash(u)) : r.key = BonusKey(t))
    <2> TAKE u \in Users
    <2>1. Cash(u) \in Accounts
        BY AccountTypes
    <2> QED
        BY <2>1 DEF Grown
<1>2. BonusHolders(e, t) = BonusHolders(d, t)
    BY <1>1, LogSays
<1> QED
    BY <1>2 DEF BonusHolder

\* What a post must look like to keep the rows of refunds and clawbacks well
\* kept: it is shaped as one, what it takes is new, and what it gives back was
\* taken once and not given back before.
Fits(d, account, row) ==
    /\ RowShaped(d, account, row)
    /\ \A t \in Txns : row.key = BonusKey(t) => BonusHolders(d, t) = {}
    /\ row.reason \in Marked /\ row.amount < 0 =>
          /\ \A r \in Log(d, account) : r.reason = row.reason => r.ref # row.ref
          /\ \A r \in Log(d, account) : IsDebit(row) /\ IsDebit(r) => r.key # row.key
    /\ row.reason \in Marked /\ row.amount > 0 =>
          /\ \E s \in Log(d, account) : /\ s.reason = row.reason /\ s.amount = -row.amount
                                        /\ s.ref = row.ref /\ s.key[2] = row.key[2]
          /\ \A r \in Log(d, account) :
                r.reason = row.reason /\ r.amount > 0 => r.ref # row.ref

\* A row that fits keeps the books.
LEMMA FitsKeeps ==
    ASSUME NEW d, WellKept(d), NEW e, Sound(e), NEW account \in Accounts, NEW row \in Row,
           Grown(d, e, account, row), Fits(d, account, row)
    PROVE  WellKept(e)
<1> USE DEF Marked
<1>1. d \in Tables /\ e \in Tables
    BY DEF WellKept, Sound
<1>2. \A a \in Accounts : d.rows[a] \in Seq(Row) /\ Log(d, a) \subseteq Row
    BY <1>1, LogType
<1>3. \A t \in Txns : BonusHolders(d, t) # {} =>
            BonusHolders(e, t) = BonusHolders(d, t) /\ BonusHolder(e, t) = BonusHolder(d, t)
    BY HoldersStay DEF Fits
<1>4. \A a \in Accounts : \A r \in Log(e, a) : r \in Log(d, a) \/ (a = account /\ r = row)
    BY DEF Grown
<1>5. \A a \in Accounts : Log(d, a) \subseteq Log(e, a)
    BY DEF Grown
<1>6. Shaped(e)
    <2>1. ASSUME NEW a \in Accounts, NEW r, RowShaped(d, a, r) PROVE RowShaped(e, a, r)
        <3>1. \A t \in Txns : ClawbackRow(d, a, r, t) => ClawbackRow(e, a, r, t)
            BY <1>3 DEF ClawbackRow
        <3> QED
            BY <2>1, <3>1 DEF RowShaped
    <2> QED
        BY <1>4, <2>1 DEF Shaped, WellKept, Fits
<1>7. row.reason \in Marked => row.amount < 0 \/ row.amount > 0
    <2>1. RowShaped(d, account, row)
        BY DEF Fits
    <2> QED
        BY <2>1 DEF RowShaped, RefundRow, ClawbackRow
<1> DEFINE rows == d.rows[account]
           n == Len(rows)
<1>8. n \in Nat /\ DOMAIN rows = 1..n /\ DOMAIN e.rows[account] = 1..(n + 1)
          /\ e.rows[account][n + 1] = row /\ \A i \in 1..n : e.rows[account][i] = rows[i]
    BY <1>2, Appended DEF Grown
<1>9. RefsOnce(e)
    <2> DEFINE Same(r, s) == /\ r.reason \in Marked /\ s.reason = r.reason
                             /\ r.amount < 0 /\ s.amount < 0 /\ s.ref = r.ref
    <2> SUFFICES ASSUME NEW a \in Accounts, NEW i \in DOMAIN e.rows[a],
                        NEW j \in DOMAIN e.rows[a], Same(e.rows[a][i], e.rows[a][j])
                 PROVE  i = j
        BY DEF RefsOnce
    <2>1. \A p, q \in DOMAIN d.rows[a] : Same(d.rows[a][p], d.rows[a][q]) => p = q
        BY DEF WellKept, RefsOnce
    <2>2. CASE a # account
        BY <2>1, <2>2 DEF Grown
    <2>3. CASE a = account
        <3>1. \A p \in 1..n : rows[p] \in Log(d, account)
            BY <1>8 DEF Log
        <3>2. \A p \in 1..n : ~Same(rows[p], row) /\ ~Same(row, rows[p])
            BY <3>1 DEF Fits
        <3>3. i \in 1..n \/ i = n + 1
            BY <1>8, <2>3
        <3>4. j \in 1..n \/ j = n + 1
            BY <1>8, <2>3
        <3> HIDE DEF Same, n
        <3>5. i \in 1..n /\ j = n + 1 => FALSE
            BY <1>8, <2>3, <3>2
        <3>6. j \in 1..n /\ i = n + 1 => FALSE
            BY <1>8, <2>3, <3>2
        <3>7. i \in 1..n /\ j \in 1..n => i = j
            BY <1>8, <2>1, <2>3
        <3> QED
            BY <3>3, <3>4, <3>5, <3>6, <3>7
    <2> QED
        BY <2>2, <2>3
<1>10. DebitsOnce(e)
    <2> SUFFICES ASSUME NEW a \in Accounts, NEW r \in Log(e, a), NEW s \in Log(e, a),
                        IsDebit(r), IsDebit(s), r.key = s.key
                 PROVE  r.ref = s.ref
        BY DEF DebitsOnce
    <2>1. r \in Log(d, a) /\ s \in Log(d, a) => r.ref = s.ref
        BY DEF WellKept, DebitsOnce
    <2>2. ASSUME IsDebit(row) PROVE \A x \in Log(d, account) : IsDebit(x) => x.key # row.key
        BY <2>2 DEF Fits, IsDebit
    <2> QED
        BY <1>4, <2>1, <2>2
<1>11. Paired(e)
    <2> SUFFICES ASSUME NEW a \in Accounts, NEW r \in Log(e, a),
                        r.reason \in Marked, r.amount > 0
                 PROVE  \E s \in Log(e, a) : /\ s.reason = r.reason /\ s.amount < 0
                                             /\ s.ref = r.ref /\ s.key[2] = r.key[2]
        BY DEF Paired
    <2>1. CASE r \in Log(d, a)
        BY <1>5, <2>1 DEF WellKept, Paired
    <2>2. CASE a = account /\ r = row
        <3>1. PICK s \in Log(d, account) : /\ s.reason = row.reason /\ s.amount = -row.amount
                                           /\ s.ref = row.ref /\ s.key[2] = row.key[2]
            BY <2>2 DEF Fits
        <3>2. row.amount \in Int /\ s.amount < 0
            BY <2>2, <3>1 DEF Row
        <3> QED
            BY <1>5, <2>2, <3>1, <3>2
    <2> QED
        BY <1>4, <2>1, <2>2
<1>12. AllTallied(e)
    <2> SUFFICES ASSUME NEW a \in Accounts, NEW t \in Txns \cup {None},
                        NEW kind \in {"refund", "clawback", "all"}
                 PROVE  Tallied(e.rows[a], kind, t)
        BY DEF AllTallied
    <2>1. Tallied(d.rows[a], kind, t)
        BY DEF WellKept, AllTallied
    <2>2. CASE a # account
        BY <2>1, <2>2 DEF Grown
    <2>3. CASE a = account /\ ~Of(row, kind, t)
        BY <1>2, <2>1, <2>3, TalliedOther DEF Grown
    <2>4. CASE a = account /\ Of(row, kind, t)
        <3>1. row.reason \in Marked /\ \A r : Of(r, kind, t) => r.reason = row.reason
            BY <2>4 DEF Of, IsRefundOf, IsClawbackOf
        <3>2. CASE row.amount < 0
            <4>1. ~Undone(d.rows[account], kind, t, row.ref)
                <5>1. \A r \in Log(d, account) : r.reason = row.reason => r.ref # row.ref
                    BY <3>1, <3>2 DEF Fits
                <5>2. Undone(d.rows[account], kind, t, row.ref) <=>
                        \E r \in Log(d, account) : GivesBack(r, kind, t, row.ref)
                    BY UndoneSays
                <5> QED
                    BY <3>1, <5>1, <5>2 DEF GivesBack
            <4> QED
                BY <1>2, <2>1, <2>4, <3>2, <4>1, TalliedTake DEF Grown
        <3>3. CASE row.amount > 0
            <4>1. PICK s \in Log(d, account) :
                      /\ s.reason = row.reason /\ s.amount = -row.amount
                      /\ s.ref = row.ref /\ s.key[2] = row.key[2]
                BY <3>1, <3>3 DEF Fits
            <4>2. PICK p \in DOMAIN rows : rows[p] = s
                BY DEF Log
            <4>3. Of(s, kind, t)
                <5>1. RowShaped(d, account, s)
                    BY DEF WellKept, Shaped
                <5>2. s.reason = "refund" => s.key[1] \in {"refund", "refund_reversal"}
                    BY <5>1 DEF RowShaped
                <5> QED
                    BY <2>4, <4>1, <5>2 DEF Of, IsRefundOf, IsClawbackOf
            <4>4. ~Undone(rows, kind, t, row.ref)
                <5>1. \A r \in Log(d, account) :
                          r.reason = row.reason /\ r.amount > 0 => r.ref # row.ref
                    BY <3>1, <3>3 DEF Fits
                <5>2. Undone(d.rows[account], kind, t, row.ref) <=>
                        \E r \in Log(d, account) : GivesBack(r, kind, t, row.ref)
                    BY UndoneSays
                <5> QED
                    BY <3>1, <5>1, <5>2 DEF GivesBack
            <4>5. row.amount \in Int /\ s.amount < 0
                BY <3>3, <4>1 DEF Row
            <4>6. \A i \in DOMAIN rows : Of(rows[i], kind, t) /\ rows[i].amount < 0
                                             /\ rows[i].ref = row.ref => i = p
                BY <3>1, <4>1, <4>2, <4>5 DEF WellKept, RefsOnce
            <4>7. Tallied(Append(rows, row), kind, t)
                <5> HIDE DEF rows
                <5>1. rows \in Seq(Row) /\ Tallied(rows, kind, t)
                    BY <1>2, <2>1, <2>4 DEF rows
                <5> QED
                    BY <2>4, <3>3, <4>1, <4>2, <4>3, <4>4, <4>6, <5>1, TalliedBack
            <4> QED
                BY <2>4, <4>7 DEF Grown
        <3> QED
            BY <1>7, <3>1, <3>2, <3>3
    <2> QED
        BY <2>2, <2>3, <2>4
<1> QED
    BY <1>6, <1>9, <1>10, <1>11, <1>12 DEF WellKept

\* A row that is neither of a refund nor of a clawback fits, and no bonus is
\* posted twice.
LEMMA PlainFits ==
    ASSUME NEW d, NEW account, NEW row, row.reason \notin Marked,
           row.key[1] \notin {"refund", "refund_reversal", "referral_clawback",
                              "referral_clawback_reversal"},
           \A t \in Txns : row.key = BonusKey(t) => BonusHolders(d, t) = {}
    PROVE  Fits(d, account, row)
    BY DEF Fits, RowShaped, Marked

-----------------------------------------------------------------------------
(* The books: what the rows, the balances and the users say together.      *)

Takes(row, kind, t) == Of(row, kind, t) /\ row.amount < 0

\* A clawback has its refund, and a refund its purchase.
Linked(d) ==
    \A t \in Txns, k \in RequestKeys :
        /\ HasKey(d, ClawbackKey(t, k)) => HasKey(d, RefundKey(t, k))
        /\ HasKey(d, RefundKey(t, k)) => HasKey(d, PurchaseKey(t))

\* No more is refunded than was bought, no more clawed back than was given.
Within(d, t) ==
    /\ Remaining(d, t) >= 0
    /\ BonusHolders(d, t) # {} => ClawedBack(d, t, BonusHolder(d, t)) <= BonusAmount(t)

HolderThere(d, t) == BonusHolders(d, t) # {} /\ d.exists[BonusHolder(d, t)]

\* While the holder of the bonus exists, a refund and its clawback are given
\* back together.
Matched(d, t) ==
    HolderThere(d, t) =>
        /\ \A c \in Log(d, Cash(BonusHolder(d, t))), r \in Log(d, Cash(Buyer[t])) :
              Takes(c, "clawback", t) /\ Takes(r, "refund", t) /\ r.key = c.ref =>
                 (Undone(d.rows[Cash(Buyer[t])], "refund", t, r.ref) <=>
                    Undone(d.rows[Cash(BonusHolder(d, t))], "clawback", t, c.ref))
        /\ \A id \in Adjustments :
              HasKey(d, ClawbackReversalKey(t, id)) => HasKey(d, RefundReversalKey(t, id))

\* When a purchase is refunded whole, so is its bonus clawed back.
Emptied(d, t) ==
    HolderThere(d, t) /\ Remaining(d, t) = 0 =>
        ClawedBack(d, t, BonusHolder(d, t)) = BonusAmount(t)

AllClawed(d, u) == Sum(Counted(d.rows[Cash(u)], "all", None))

\* A user owes no more than what is clawed back.
Overdraft(d) ==
    \A u \in Users : d.balance[Gift(u)] >= 0 /\ d.balance[Cash(u)] >= AllClawed(d, u)

Books(d) ==
    /\ WellKept(d) /\ Linked(d) /\ Overdraft(d)
    /\ \A t \in Txns : Within(d, t) /\ Matched(d, t) /\ Emptied(d, t)

\* A row that is neither of the refunds, of the clawbacks nor the bonus of t.
Foreign(row, t) ==
    ~Of(row, "refund", t) /\ ~Of(row, "clawback", t) /\ row.key # BonusKey(t)

\* A key is there when a row that has it is.
LEMMA GrownKeys ==
    ASSUME NEW d, NEW e, NEW account \in Accounts, NEW row, Grown(d, e, account, row)
    PROVE  \A key : HasKey(e, key) <=> (HasKey(d, key) \/ row.key = key)
<1>1. \A a \in Accounts : \A r : r \in Log(e, a) <=> (r \in Log(d, a) \/ (a = account /\ r = row))
    BY DEF Grown
<1> QED
    BY <1>1, LogSays

\* What is given back is given back by an earlier row or by the new one.
LEMMA GrownUndone ==
    ASSUME NEW d, NEW e, NEW account \in Accounts, NEW row, Grown(d, e, account, row),
           NEW a \in Accounts, NEW kind, NEW t, NEW ref
    PROVE  Undone(e.rows[a], kind, t, ref) <=>
               (Undone(d.rows[a], kind, t, ref) \/ (a = account /\ GivesBack(row, kind, t, ref)))
<1>1. \A r : r \in Log(e, a) <=> (r \in Log(d, a) \/ (a = account /\ r = row))
    BY DEF Grown
<1>2. Undone(e.rows[a], kind, t, ref) <=> \E r \in Log(e, a) : GivesBack(r, kind, t, ref)
    BY UndoneSays
<1>3. Undone(d.rows[a], kind, t, ref) <=> \E r \in Log(d, a) : GivesBack(r, kind, t, ref)
    BY UndoneSays
<1> QED
    BY <1>1, <1>2, <1>3

\* A row that takes gives nothing back.
LEMMA GrownTakes ==
    ASSUME NEW d, NEW e, NEW account \in Accounts, NEW row, Grown(d, e, account, row),
           row.amount \in Int, row.amount < 0
    PROVE  \A a \in Accounts : \A kind, t, ref :
                Undone(e.rows[a], kind, t, ref) <=> Undone(d.rows[a], kind, t, ref)
<1> TAKE a \in Accounts
<1> TAKE kind, t, ref
<1>1. ~GivesBack(row, kind, t, ref)
    BY DEF GivesBack
<1>2. \A r : r \in Log(e, a) <=> (r \in Log(d, a) \/ (a = account /\ r = row))
    BY DEF Grown
<1>3. Undone(e.rows[a], kind, t, ref) <=> \E r \in Log(e, a) : GivesBack(r, kind, t, ref)
    BY UndoneSays
<1>4. Undone(d.rows[a], kind, t, ref) <=> \E r \in Log(d, a) : GivesBack(r, kind, t, ref)
    BY UndoneSays
<1> QED
    BY <1>1, <1>2, <1>3, <1>4

\* What is left of a purchase and what was clawed back of its bonus, as sums.
LEMMA SumsAre ==
    /\ \A d, t : Remaining(d, t) =
            Credits[t] + Sum(Counted(d.rows[Cash(Buyer[t])], "refund", t))
    /\ \A d, t, u : ClawedBack(d, t, u) = -Sum(Counted(d.rows[Cash(u)], "clawback", t))
    BY CountedAre DEF Remaining, Refundable, ClawedBack

\* A row counts towards what is left of its own purchase, if it is a refund.
LEMMA GrownRemaining ==
    ASSUME NEW d \in Tables, NEW e, NEW account \in Accounts, NEW row \in Row,
           Grown(d, e, account, row), NEW t \in Txns
    PROVE  /\ Remaining(d, t) \in Int
           /\ (account # Cash(Buyer[t]) \/ ~Of(row, "refund", t)) =>
                 Remaining(e, t) = Remaining(d, t)
           /\ account = Cash(Buyer[t]) /\ Of(row, "refund", t) =>
                 Remaining(e, t) = Remaining(d, t) + row.amount
<1> DEFINE b == Cash(Buyer[t])
           S(x) == Sum(Counted(x.rows[b], "refund", t))
<1>1. b \in Accounts
    BY AccountTypes
<1>2. /\ b # account => S(e) = S(d)
      /\ b = account => S(e) = S(d) + (IF Of(row, "refund", t) THEN row.amount ELSE 0)
      /\ S(d) \in Int
    <2>1. /\ \A a \in Accounts : a # account =>
                Sum(Counted(e.rows[a], "refund", t)) = Sum(Counted(d.rows[a], "refund", t))
          /\ Sum(Counted(e.rows[account], "refund", t)) =
                Sum(Counted(d.rows[account], "refund", t))
                    + (IF Of(row, "refund", t) THEN row.amount ELSE 0)
          /\ \A a \in Accounts : Sum(Counted(d.rows[a], "refund", t)) \in Int
        BY GrownCounts
    <2> HIDE DEF b
    <2> QED
        BY <1>1, <2>1
<1>3. Remaining(d, t) = Credits[t] + S(d) /\ Remaining(e, t) = Credits[t] + S(e)
    BY SumsAre
<1>4. Credits[t] \in Int /\ row.amount \in Int
    BY PaymentsAssumption DEF Row
<1> HIDE DEF S
<1> QED
    BY <1>2, <1>3, <1>4

\* And towards what is clawed back from its account, if it is a clawback.
LEMMA GrownClawed ==
    ASSUME NEW d \in Tables, NEW e, NEW account \in Accounts, NEW row \in Row,
           Grown(d, e, account, row), NEW t, NEW u \in Users
    PROVE  /\ ClawedBack(d, t, u) \in Int
           /\ (account # Cash(u) \/ ~Of(row, "clawback", t)) =>
                 ClawedBack(e, t, u) = ClawedBack(d, t, u)
           /\ account = Cash(u) /\ Of(row, "clawback", t) =>
                 ClawedBack(e, t, u) = ClawedBack(d, t, u) - row.amount
<1> DEFINE S(x) == Sum(Counted(x.rows[Cash(u)], "clawback", t))
<1>1. Cash(u) \in Accounts
    BY AccountTypes
<1>2. /\ Cash(u) # account => S(e) = S(d)
      /\ Cash(u) = account => S(e) = S(d) + (IF Of(row, "clawback", t) THEN row.amount ELSE 0)
      /\ S(d) \in Int
    <2>1. /\ \A a \in Accounts : a # account =>
                Sum(Counted(e.rows[a], "clawback", t)) = Sum(Counted(d.rows[a], "clawback", t))
          /\ Sum(Counted(e.rows[account], "clawback", t)) =
                Sum(Counted(d.rows[account], "clawback", t))
                    + (IF Of(row, "clawback", t) THEN row.amount ELSE 0)
          /\ \A a \in Accounts : Sum(Counted(d.rows[a], "clawback", t)) \in Int
        BY GrownCounts
    <2> QED
        BY <1>1, <2>1
<1>3. ClawedBack(d, t, u) = -S(d) /\ ClawedBack(e, t, u) = -S(e)
    BY SumsAre
<1>4. row.amount \in Int
    BY DEF Row
<1> HIDE DEF S
<1> QED
    BY <1>2, <1>3, <1>4

\* A row foreign to a purchase leaves its refunds and its bonus as they were.
LEMMA ForeignStays ==
    ASSUME NEW d \in Tables, NEW e, NEW account \in Accounts, NEW row \in Row,
           Grown(d, e, account, row), RowShaped(d, account, row),
           NEW t \in Txns, Foreign(row, t)
    PROVE  /\ BonusHolders(e, t) = BonusHolders(d, t) /\ BonusHolder(e, t) = BonusHolder(d, t)
           /\ HolderThere(e, t) <=> HolderThere(d, t)
           /\ Remaining(e, t) = Remaining(d, t)
           /\ BonusHolders(d, t) # {} =>
                ClawedBack(e, t, BonusHolder(e, t)) = ClawedBack(d, t, BonusHolder(d, t))
           /\ Within(d, t) => Within(e, t)
           /\ Matched(d, t) => Matched(e, t)
           /\ Emptied(d, t) => Emptied(e, t)
<1>1. BonusHolders(e, t) = BonusHolders(d, t) /\ BonusHolder(e, t) = BonusHolder(d, t)
    BY HoldersStay DEF Foreign
<1>2. HolderThere(e, t) <=> HolderThere(d, t)
    BY <1>1 DEF HolderThere, Grown
<1>3. Remaining(e, t) = Remaining(d, t)
    BY GrownRemaining DEF Foreign
<1>4. ASSUME BonusHolders(d, t) # {}
      PROVE  ClawedBack(e, t, BonusHolder(e, t)) = ClawedBack(d, t, BonusHolder(d, t))
    <2>1. BonusHolder(d, t) \in Users
        BY <1>4, AccountTypes
    <2> QED
        BY <1>1, <2>1, GrownClawed DEF Foreign
<1>5. Within(d, t) => Within(e, t)
    BY <1>1, <1>3, <1>4 DEF Within
<1>6. Emptied(d, t) => Emptied(e, t)
    BY <1>1, <1>2, <1>3, <1>4 DEF Emptied, HolderThere
<1>7. ASSUME Matched(d, t), HolderThere(d, t) PROVE Matched(e, t)
    <2> DEFINE b == Cash(Buyer[t])
               h == Cash(BonusHolder(d, t))
    <2>1. b \in Accounts /\ h \in Accounts
        BY <1>7, AccountTypes DEF HolderThere
    <2>2. \A ref : Undone(e.rows[b], "refund", t, ref) <=> Undone(d.rows[b], "refund", t, ref)
        <3> TAKE ref
        <3>1. ~GivesBack(row, "refund", t, ref)
            BY DEF GivesBack, Foreign
        <3> HIDE DEF b
        <3> QED
            BY <2>1, <3>1, GrownUndone
    <2>3. \A ref : Undone(e.rows[h], "clawback", t, ref) <=> Undone(d.rows[h], "clawback", t, ref)
        <3> TAKE ref
        <3>1. ~GivesBack(row, "clawback", t, ref)
            BY DEF GivesBack, Foreign
        <3> HIDE DEF h
        <3> QED
            BY <2>1, <3>1, GrownUndone
    <2>4. ASSUME NEW id \in Adjustments, HasKey(e, ClawbackReversalKey(t, id))
          PROVE  HasKey(e, RefundReversalKey(t, id))
        <3>1. row.key # ClawbackReversalKey(t, id)
            <4> SUFFICES ASSUME row.key = ClawbackReversalKey(t, id) PROVE FALSE
                OBVIOUS
            <4>1. PICK s \in Txns : ClawbackRow(d, account, row, s)
                BY DEF RowShaped, ClawbackReversalKey
            <4>2. Of(row, "clawback", t)
                <5>1. row.reason = "referral_clawback"
                    BY DEF RowShaped, ClawbackReversalKey
                <5>2. s = t
                    BY <4>1 DEF ClawbackRow, ClawbackReversalKey, ClawbackKey
                <5>3. row.ref[1] = "refund" /\ row.ref[2] = s
                    BY <4>1 DEF ClawbackRow, RefundKey
                <5> QED
                    BY <5>1, <5>2, <5>3 DEF Of, IsClawbackOf
            <4> QED
                BY <4>2 DEF Foreign
        <3> QED
            BY <1>7, <2>4, <3>1, GrownKeys DEF Matched
    <2>5. \A a \in Accounts : \A r \in Log(e, a) : r \in Log(d, a) \/ r = row
        BY DEF Grown
    <2>6. ASSUME NEW c \in Log(e, h), NEW r \in Log(e, b), Takes(c, "clawback", t),
                 Takes(r, "refund", t), r.key = c.ref
          PROVE  Undone(e.rows[b], "refund", t, r.ref) <=> Undone(e.rows[h], "clawback", t, c.ref)
        <3>1. c \in Log(d, h) /\ r \in Log(d, b)
            BY <2>1, <2>5, <2>6 DEF Takes, Foreign
        <3>2. Undone(d.rows[b], "refund", t, r.ref) <=> Undone(d.rows[h], "clawback", t, c.ref)
            BY <1>7, <2>6, <3>1 DEF Matched
        <3> QED
            BY <2>2, <2>3, <3>2
    <2> QED
        BY <1>1, <2>4, <2>6 DEF Matched
<1>8. Matched(d, t) => Matched(e, t)
    BY <1>2, <1>7 DEF Matched
<1> QED
    BY <1>1, <1>2, <1>3, <1>4, <1>5, <1>6, <1>8

-----------------------------------------------------------------------------
(* What the shape of a row says.                                           *)

\* A key names the purchase, the request or the adjustment of its row.
LEMMA RowSays ==
    ASSUME NEW d, NEW a, NEW r, RowShaped(d, a, r), NEW t \in Txns
    PROVE  /\ Of(r, "refund", t) => RefundRow(a, r, t)
           /\ Of(r, "clawback", t) => ClawbackRow(d, a, r, t)
           /\ \A k : r.key = RefundKey(t, k) => Takes(r, "refund", t) /\ RefundRow(a, r, t)
           /\ \A id : r.key = RefundReversalKey(t, id) =>
                GivesBack(r, "refund", t, id) /\ RefundRow(a, r, t)
           /\ \A k : r.key = ClawbackKey(t, k) =>
                Takes(r, "clawback", t) /\ r.ref = RefundKey(t, k) /\ ClawbackRow(d, a, r, t)
           /\ \A id : r.key = ClawbackReversalKey(t, id) =>
                Of(r, "clawback", t) /\ r.amount > 0 /\ ClawbackRow(d, a, r, t)
<1>1. ASSUME NEW s \in Txns, RefundRow(a, r, s), Of(r, "refund", t) PROVE s = t
    <2>1. r.key[2] = s
        BY <1>1 DEF RefundRow, RefundKey, RefundReversalKey
    <2> QED
        BY <1>1, <2>1 DEF Of, IsRefundOf
<1>2. Of(r, "refund", t) => RefundRow(a, r, t)
    BY <1>1 DEF RowShaped, Of, IsRefundOf
<1>3. ASSUME NEW s \in Txns, ClawbackRow(d, a, r, s)
      PROVE  r.key[2] = s /\ r.ref[2] = s /\ r.ref[1] = "refund"
    BY <1>3 DEF ClawbackRow, RefundKey, ClawbackKey, ClawbackReversalKey
<1>4. Of(r, "clawback", t) => ClawbackRow(d, a, r, t)
    BY <1>3 DEF RowShaped, Of, IsClawbackOf
<1>5. ASSUME r.key[1] \in {"refund", "refund_reversal"}, r.key[2] = t
      PROVE  Of(r, "refund", t) /\ RefundRow(a, r, t)
    BY <1>2, <1>5 DEF RowShaped, Of, IsRefundOf
<1>6. ASSUME r.key[1] \in {"referral_clawback", "referral_clawback_reversal"}, r.key[2] = t
      PROVE  Of(r, "clawback", t) /\ ClawbackRow(d, a, r, t)
    <2>1. PICK s \in Txns : ClawbackRow(d, a, r, s)
        BY <1>6 DEF RowShaped
    <2> QED
        BY <1>3, <1>6, <2>1 DEF RowShaped, Of, IsClawbackOf
<1>7. ASSUME NEW k, r.key = RefundKey(t, k)
      PROVE  Takes(r, "refund", t) /\ RefundRow(a, r, t)
    <2>1. r.key[1] = "refund" /\ r.key[2] = t
        BY <1>7 DEF RefundKey
    <2>2. Of(r, "refund", t) /\ RefundRow(a, r, t)
        BY <1>5, <2>1
    <2>3. r.amount < 0
        BY <2>1, <2>2 DEF RefundRow, RefundReversalKey
    <2> QED
        BY <2>2, <2>3 DEF Takes
<1>8. ASSUME NEW id, r.key = RefundReversalKey(t, id)
      PROVE  GivesBack(r, "refund", t, id) /\ RefundRow(a, r, t)
    <2>1. r.key[1] = "refund_reversal" /\ r.key[2] = t /\ r.key[3] = id
        BY <1>8 DEF RefundReversalKey
    <2>2. Of(r, "refund", t) /\ RefundRow(a, r, t)
        BY <1>5, <2>1
    <2>3. r.amount > 0 /\ r.ref = id
        BY <2>1, <2>2 DEF RefundRow, RefundReversalKey, RefundKey
    <2> QED
        BY <2>2, <2>3 DEF GivesBack
<1>9. ASSUME NEW k, r.key = ClawbackKey(t, k)
      PROVE  Takes(r, "clawback", t) /\ r.ref = RefundKey(t, k) /\ ClawbackRow(d, a, r, t)
    <2>1. r.key[1] = "referral_clawback" /\ r.key[2] = t /\ r.key[3] = k
        BY <1>9 DEF ClawbackKey
    <2>2. Of(r, "clawback", t) /\ ClawbackRow(d, a, r, t)
        BY <1>6, <2>1
    <2>3. r.amount < 0 /\ r.ref = RefundKey(t, k)
        BY <2>1, <2>2 DEF ClawbackRow, ClawbackKey, ClawbackReversalKey
    <2> QED
        BY <2>2, <2>3 DEF Takes
<1>10. ASSUME NEW id, r.key = ClawbackReversalKey(t, id)
       PROVE  Of(r, "clawback", t) /\ r.amount > 0 /\ ClawbackRow(d, a, r, t)
    <2>1. r.key[1] = "referral_clawback_reversal" /\ r.key[2] = t
        BY <1>10 DEF ClawbackReversalKey
    <2>2. Of(r, "clawback", t) /\ ClawbackRow(d, a, r, t)
        BY <1>6, <2>1
    <2>3. r.amount > 0
        BY <2>1, <2>2 DEF ClawbackRow, ClawbackKey, ClawbackReversalKey
    <2> QED
        BY <2>2, <2>3
<1> QED
    BY <1>2, <1>4, <1>7, <1>8, <1>9, <1>10

\* What is clawed back from an account is never negative, and nothing but a
\* clawback changes it.
LEMMA GrownAll ==
    ASSUME NEW d, WellKept(d), NEW e, NEW account \in Accounts, NEW row \in Row,
           Grown(d, e, account, row), NEW u \in Users
    PROVE  /\ AllClawed(d, u) \in Int /\ AllClawed(d, u) <= 0
           /\ (account # Cash(u) \/ row.reason # "referral_clawback") =>
                 AllClawed(e, u) = AllClawed(d, u)
           /\ account = Cash(u) /\ row.reason = "referral_clawback" =>
                 AllClawed(e, u) = AllClawed(d, u) + row.amount
<1>1. Cash(u) \in Accounts /\ d \in Tables
    BY AccountTypes DEF WellKept, Sound
<1>2. d.rows[Cash(u)] \in Seq(Row) /\ Tallied(d.rows[Cash(u)], "all", None)
    BY <1>1, LogType DEF WellKept, AllTallied
<1>3. AllClawed(d, u) \in Int /\ AllClawed(d, u) <= 0
    BY <1>2, TalliedBounds DEF AllClawed
<1>4. Of(row, "all", None) <=> row.reason = "referral_clawback"
    BY DEF Of
<1>5. /\ \A a \in Accounts : a # account =>
                Sum(Counted(e.rows[a], "all", None)) = Sum(Counted(d.rows[a], "all", None))
      /\ Sum(Counted(e.rows[account], "all", None)) =
                Sum(Counted(d.rows[account], "all", None))
                    + (IF Of(row, "all", None) THEN row.amount ELSE 0)
      /\ \A a \in Accounts : Sum(Counted(d.rows[a], "all", None)) \in Int
    BY <1>1, GrownCounts
<1>6. row.amount \in Int
    BY DEF Row
<1> QED
    BY <1>1, <1>3, <1>4, <1>5, <1>6 DEF AllClawed

\* Only a clawback may leave cash negative, by no more than it takes.
LEMMA OverdraftStays ==
    ASSUME NEW d, WellKept(d), Overdraft(d), NEW e, NEW account \in Accounts, NEW row \in Row,
           Grown(d, e, account, row),
           \/ row.reason # "referral_clawback" /\ row.amount > 0
           \/ row.reason # "referral_clawback" /\ e.balance[account] >= 0
           \/ row.reason = "referral_clawback" /\ \E u \in Users : account = Cash(u)
    PROVE  Overdraft(e)
<1> SUFFICES ASSUME NEW u \in Users
             PROVE  e.balance[Gift(u)] >= 0 /\ e.balance[Cash(u)] >= AllClawed(e, u)
    BY DEF Overdraft
<1>1. Cash(u) \in Accounts /\ Gift(u) \in Accounts /\ \A v : Cash(v) # Gift(u)
    BY AccountTypes DEF Cash, Gift
<1>2. d.balance \in [Accounts -> Int]
    BY DEF WellKept, Sound, Tables
<1>3. row.amount \in Int
    BY DEF Row
<1>4. d.balance[Gift(u)] >= 0 /\ d.balance[Cash(u)] >= AllClawed(d, u)
    BY DEF Overdraft
<1>5. \A a \in Accounts : a # account => e.balance[a] = d.balance[a]
    BY DEF Grown
<1>6. e.balance[account] = d.balance[account] + row.amount
    BY DEF Grown
<1>7. e.balance[Gift(u)] >= 0
    <2>1. CASE account # Gift(u)
        BY <1>1, <1>4, <1>5, <2>1
    <2>2. CASE account = Gift(u)
        <3>1. ~\E v \in Users : account = Cash(v)
            BY <1>1, <2>2
        <3> QED
            BY <1>1, <1>2, <1>3, <1>4, <1>6, <2>2, <3>1
    <2> QED
        BY <2>1, <2>2
<1>8. /\ AllClawed(d, u) \in Int /\ AllClawed(d, u) <= 0
      /\ (account # Cash(u) \/ row.reason # "referral_clawback") =>
            AllClawed(e, u) = AllClawed(d, u)
      /\ account = Cash(u) /\ row.reason = "referral_clawback" =>
            AllClawed(e, u) = AllClawed(d, u) + row.amount
    BY GrownAll
<1>9. d.balance[Cash(u)] \in Int
    BY <1>1, <1>2
<1>10. e.balance[Cash(u)] >= AllClawed(e, u)
    <2>1. CASE account # Cash(u)
        BY <1>1, <1>4, <1>5, <1>8, <2>1
    <2>2. CASE account = Cash(u)
        BY <1>3, <1>4, <1>6, <1>8, <1>9, <2>2
    <2> QED
        BY <2>1, <2>2
<1> QED
    BY <1>7, <1>10

\* A row that is neither a refund nor a clawback keeps the links.
LEMMA LinkedStays ==
    ASSUME NEW d, Linked(d), NEW e, NEW account \in Accounts, NEW row,
           Grown(d, e, account, row), row.key[1] \notin {"refund", "referral_clawback"}
    PROVE  Linked(e)
<1>1. \A key : HasKey(e, key) <=> (HasKey(d, key) \/ row.key = key)
    BY GrownKeys
<1>2. \A t, k : row.key # RefundKey(t, k) /\ row.key # ClawbackKey(t, k)
    BY DEF RefundKey, ClawbackKey
<1> QED
    BY <1>1, <1>2 DEF Linked

-----------------------------------------------------------------------------
(* Posts that leave refunds alone.                                         *)

\* A purchase, an adjustment or a relinquishment keeps the books.
LEMMA PlainBooks ==
    ASSUME NEW d, Books(d), NEW e, Sound(e), NEW account \in Accounts, NEW row \in Row,
           Grown(d, e, account, row), row.reason \notin Marked,
           row.key[1] \notin {"refund", "refund_reversal", "referral_clawback",
                              "referral_clawback_reversal", "referral_recharge"},
           row.amount > 0 \/ e.balance[account] >= 0
    PROVE  Books(e)
<1>1. \A t : row.key # BonusKey(t)
    BY DEF BonusKey
<1>2. Fits(d, account, row)
    BY <1>1, PlainFits
<1>3. WellKept(e)
    BY <1>2, FitsKeeps DEF Books
<1>4. Linked(e)
    BY LinkedStays DEF Books
<1>5. Overdraft(e)
    BY OverdraftStays DEF Books, Marked
<1>6. d \in Tables /\ RowShaped(d, account, row)
    BY <1>2 DEF Books, WellKept, Sound, Fits
<1>7. \A t \in Txns : Foreign(row, t)
    BY <1>1 DEF Foreign, Of, IsRefundOf, IsClawbackOf, Marked
<1>8. \A t \in Txns : Within(e, t) /\ Matched(e, t) /\ Emptied(e, t)
    BY <1>6, <1>7, ForeignStays DEF Books
<1> QED
    BY <1>3, <1>4, <1>5, <1>8 DEF Books

\* Before a purchase there are no refunds of it, and before its bonus no clawbacks.
LEMMA Untouched ==
    ASSUME NEW d, WellKept(d), NEW t \in Txns
    PROVE  /\ (\A k \in RequestKeys : ~HasKey(d, RefundKey(t, k))) => Remaining(d, t) = Credits[t]
           /\ BonusHolders(d, t) = {} =>
                /\ \A a \in Accounts : \A r \in Log(d, a) : ~Of(r, "clawback", t)
                /\ \A u \in Users : ClawedBack(d, t, u) = 0
                /\ \A id : ~HasKey(d, ClawbackReversalKey(t, id))
<1>1. \A a \in Accounts : \A r \in Log(d, a) : RowShaped(d, a, r)
    BY DEF WellKept, Shaped
<1>2. d \in Tables
    BY DEF WellKept, Sound
<1>3. ASSUME \A k \in RequestKeys : ~HasKey(d, RefundKey(t, k))
      PROVE  Remaining(d, t) = Credits[t]
    <2> DEFINE b == Cash(Buyer[t])
    <2>1. b \in Accounts /\ d.rows[b] \in Seq(Row)
        BY <1>2, AccountTypes, LogType
    <2>2. Tallied(d.rows[b], "refund", t)
        BY <2>1 DEF WellKept, AllTallied
    <2>3. \A r \in Log(d, b) : ~Takes(r, "refund", t)
        <3> SUFFICES ASSUME NEW r \in Log(d, b), Takes(r, "refund", t) PROVE FALSE
            OBVIOUS
        <3>1. RowShaped(d, b, r) /\ Of(r, "refund", t) /\ r \in Row
            BY <1>1, <1>2, <2>1, LogType DEF Takes
        <3>2. RefundRow(b, r, t)
            BY <3>1, RowSays
        <3>3. r.amount \in Int /\ r.amount < 0
            BY <3>1 DEF Takes, Row
        <3>4. PICK k \in RequestKeys : r.key = RefundKey(t, k)
            BY <3>2, <3>3 DEF RefundRow
        <3>5. HasKey(d, RefundKey(t, k))
            BY <2>1, <3>4, LogSays
        <3> QED
            BY <1>3, <3>5
    <2>4. \A i \in DOMAIN d.rows[b] : ~(Of(d.rows[b][i], "refund", t) /\ d.rows[b][i].amount < 0)
        BY <2>3 DEF Log, Takes
    <2>5. Sum(Counted(d.rows[b], "refund", t)) = 0
        BY <2>1, <2>2, <2>4, TalliedBounds
    <2>6. Remaining(d, t) = Credits[t] + 0 /\ Credits[t] \in Nat
        BY <2>5, SumsAre, PaymentsAssumption
    <2> QED
        BY <2>6
<1>4. ASSUME BonusHolders(d, t) = {}
      PROVE  /\ \A a \in Accounts : \A r \in Log(d, a) : ~Of(r, "clawback", t)
             /\ \A u \in Users : ClawedBack(d, t, u) = 0
             /\ \A id : ~HasKey(d, ClawbackReversalKey(t, id))
    <2>1. ASSUME NEW a \in Accounts, NEW r \in Log(d, a) PROVE ~Of(r, "clawback", t)
        <3>1. Of(r, "clawback", t) => ClawbackRow(d, a, r, t)
            BY <1>1, RowSays
        <3> QED
            BY <1>4, <3>1 DEF ClawbackRow
    <2>2. ASSUME NEW u \in Users PROVE ClawedBack(d, t, u) = 0
        <3> DEFINE h == Cash(u)
        <3>1. h \in Accounts /\ d.rows[h] \in Seq(Row)
            BY <1>2, AccountTypes, LogType
        <3>2. Tallied(d.rows[h], "clawback", t)
            BY <3>1 DEF WellKept, AllTallied
        <3>3. \A i \in DOMAIN d.rows[h] : ~Of(d.rows[h][i], "clawback", t)
            BY <2>1, <3>1 DEF Log
        <3>4. Sum(Counted(d.rows[h], "clawback", t)) = 0
            BY <3>1, <3>2, <3>3, TalliedBounds
        <3>5. ClawedBack(d, t, u) = -Sum(Counted(d.rows[h], "clawback", t))
            BY SumsAre
        <3> QED
            BY <3>4, <3>5
    <2>3. ASSUME NEW id, HasKey(d, ClawbackReversalKey(t, id)) PROVE FALSE
        <3>1. PICK a \in Accounts : \E r \in Log(d, a) : r.key = ClawbackReversalKey(t, id)
            BY <2>3, LogSays
        <3>2. PICK r \in Log(d, a) : r.key = ClawbackReversalKey(t, id)
            BY <3>1
        <3>3. Of(r, "clawback", t)
            BY <1>1, <3>2, RowSays
        <3> QED
            BY <2>1, <3>3
    <2> QED
        BY <2>1, <2>2, <2>3
<1> QED
    BY <1>3, <1>4

\* referral_recharge_bonus keeps the books.
LEMMA BonusBooks ==
    ASSUME NEW d, Books(d), NEW e, Sound(e), NEW u \in Users, NEW row \in Row,
           Grown(d, e, Cash(u), row), NEW t \in Txns,
           BonusHolders(d, t) = {}, \A k \in RequestKeys : ~HasKey(d, RefundKey(t, k)),
           row.reason = "referral_bonus", row.key = BonusKey(t), row.amount > 0
    PROVE  Books(e)
<1>1. Cash(u) \in Accounts
    BY AccountTypes
<1>2. row.reason \notin Marked
          /\ row.key[1] \notin {"refund", "refund_reversal", "referral_clawback",
                                "referral_clawback_reversal"}
    BY DEF Marked, BonusKey
<1>3. \A s : row.key = BonusKey(s) => s = t
    BY DEF BonusKey
<1>4. Fits(d, Cash(u), row)
    BY <1>2, <1>3, PlainFits
<1>5. WellKept(e)
    BY <1>1, <1>4, FitsKeeps DEF Books
<1>6. Linked(e)
    BY <1>1, <1>2, LinkedStays DEF Books
<1>7. Overdraft(e)
    BY <1>1, OverdraftStays DEF Books
<1>8. d \in Tables /\ RowShaped(d, Cash(u), row) /\ WellKept(d)
    BY <1>4 DEF Books, WellKept, Sound, Fits
<1>9. \A s : ~Of(row, "refund", s) /\ ~Of(row, "clawback", s)
    BY DEF Of, IsRefundOf, IsClawbackOf
<1>10. ASSUME NEW s \in Txns, s # t PROVE Within(e, s) /\ Matched(e, s) /\ Emptied(e, s)
    <2>1. Foreign(row, s)
        BY <1>3, <1>9, <1>10 DEF Foreign
    <2> QED
        BY <1>1, <1>8, <2>1, ForeignStays DEF Books
<1>11. Remaining(e, t) = Credits[t] /\ Credits[t] \in Nat \ {0} /\ BonusAmount(t) \in Nat
    BY <1>1, <1>8, <1>9, Untouched, GrownRemaining, PaymentsAssumption, BonusType
<1>12. ASSUME BonusHolders(e, t) # {} PROVE ClawedBack(e, t, BonusHolder(e, t)) = 0
    <2> DEFINE h == BonusHolder(e, t)
    <2>1. h \in Users
        BY <1>12, AccountTypes
    <2> HIDE DEF h
    <2>2. ClawedBack(e, t, h) = ClawedBack(d, t, h)
        BY <1>1, <1>8, <1>9, <2>1, GrownClawed
    <2>3. ClawedBack(d, t, h) = 0
        BY <1>8, <2>1, Untouched
    <2> QED
        BY <2>2, <2>3 DEF h
<1>13. Within(e, t)
    BY <1>11, <1>12 DEF Within
<1>14. Emptied(e, t)
    BY <1>11 DEF Emptied
<1>15. Matched(e, t)
    <2>1. \A a \in Accounts : \A r \in Log(e, a) : ~Of(r, "clawback", t)
        <3>1. \A a \in Accounts : \A r \in Log(d, a) : ~Of(r, "clawback", t)
            BY <1>8, Untouched
        <3> QED
            BY <1>1, <1>9, <3>1 DEF Grown
    <2>2. \A id : ~HasKey(e, ClawbackReversalKey(t, id))
        <3>1. \A id : ~HasKey(d, ClawbackReversalKey(t, id))
            BY <1>8, Untouched
        <3>2. \A id : row.key # ClawbackReversalKey(t, id)
            BY DEF BonusKey, ClawbackReversalKey
        <3> QED
            BY <1>1, <3>1, <3>2, GrownKeys
    <2>3. HolderThere(e, t) => Cash(BonusHolder(e, t)) \in Accounts
        BY AccountTypes DEF HolderThere
    <2> QED
        BY <2>1, <2>2, <2>3 DEF Matched, Takes
<1> QED
    BY <1>5, <1>6, <1>7, <1>10, <1>13, <1>14, <1>15 DEF Books

-----------------------------------------------------------------------------
(* A refund and its clawback.                                              *)

\* The bonus share of part of a purchase is at most the bonus, and all of it
\* when everything is refunded.
LEMMA ShareBounds ==
    ASSUME NEW bonus \in Nat, NEW bought \in Nat \ {0}, NEW left \in Nat
    PROVE  /\ RoundHalfUp(bonus * (bought - left), bought) \in Int
           /\ RoundHalfUp(bonus * (bought - left), bought) <= bonus
           /\ RoundHalfUp(bonus * (bought - 0), bought) = bonus
<1> DEFINE n == bonus * (bought - left)
           whole == bonus * bought
<1>1. n \in Int /\ whole \in Int
    OBVIOUS
<1>2. n <= whole
    <2>1. bonus * left \in Nat
        OBVIOUS
    <2>2. n = whole - bonus * left
        OBVIOUS
    <2> HIDE DEF n, whole
    <2> DEFINE part == bonus * left
    <2> HIDE DEF part
    <2>3. part \in Nat /\ n = whole - part
        BY <2>1, <2>2 DEF part
    <2> QED
        BY <1>1, <2>3
<1>3. bonus * (2 * bought) = 2 * whole /\ (bonus + 1) * (2 * bought) = 2 * whole + 2 * bought
    OBVIOUS
<1>4. ASSUME NEW x \in Int, NEW y \in Nat \ {0}, NEW b \in Nat, x < (b + 1) * y
      PROVE  x \div y <= b
    BY <1>4
<1>5. ASSUME NEW x \in Int, NEW y \in Nat \ {0}, NEW b \in Nat, x < (b + 1) * y, b * y <= x
      PROVE  x \div y = b
    BY <1>5
<1> HIDE DEF n, whole
<1>6. RoundHalfUp(n, bought) <= bonus
    <2>1. 2 * n + bought \in Int /\ 2 * bought \in Nat \ {0}
        BY <1>1
    <2>2. 2 * n + bought < 2 * whole + 2 * bought
        BY <1>1, <1>2
    <2>3. 2 * n + bought < (bonus + 1) * (2 * bought)
        BY <1>3, <2>2, Zenon
    <2>4. (2 * n + bought) \div (2 * bought) <= bonus
        BY <1>4, <2>1, <2>3, Zenon
    <2> QED
        BY <2>4 DEF RoundHalfUp
<1>7. RoundHalfUp(whole, bought) = bonus
    <2>1. 2 * whole + bought \in Int /\ 2 * bought \in Nat \ {0}
        BY <1>1
    <2>2. 2 * whole + bought < 2 * whole + 2 * bought /\ 2 * whole <= 2 * whole + bought
        BY <1>1
    <2>3. 2 * whole + bought < (bonus + 1) * (2 * bought)
              /\ bonus * (2 * bought) <= 2 * whole + bought
        BY <1>3, <2>2, Zenon
    <2>4. (2 * whole + bought) \div (2 * bought) = bonus
        BY <1>5, <2>1, <2>3, Zenon
    <2> QED
        BY <2>4 DEF RoundHalfUp
<1>8. RoundHalfUp(n, bought) \in Int
    BY <1>1, RoundType
<1>9. bonus * (bought - 0) = whole
    BY DEF whole
<1> QED
    BY <1>6, <1>7, <1>8, <1>9 DEF n

\* The books in the middle of a refund of t, and of a reversal of the refund
\* with this key: the clawback is still to come.
Debiting(d, t) ==
    /\ WellKept(d) /\ Linked(d) /\ Overdraft(d)
    /\ \A s \in Txns : Within(d, s) /\ Matched(d, s) /\ (s # t => Emptied(d, s))

MatchedBut(d, t, key) ==
    HolderThere(d, t) =>
        /\ \A c \in Log(d, Cash(BonusHolder(d, t))), r \in Log(d, Cash(Buyer[t])) :
              Takes(c, "clawback", t) /\ Takes(r, "refund", t) /\ r.key = c.ref /\ r.key # key =>
                 (Undone(d.rows[Cash(Buyer[t])], "refund", t, r.ref) <=>
                    Undone(d.rows[Cash(BonusHolder(d, t))], "clawback", t, c.ref))
        /\ \A id \in Adjustments :
              HasKey(d, ClawbackReversalKey(t, id)) => HasKey(d, RefundReversalKey(t, id))

Restoring(d, t, key) ==
    /\ WellKept(d) /\ Linked(d) /\ Overdraft(d)
    /\ \A s \in Txns : Within(d, s) /\ Emptied(d, s) /\ (s # t => Matched(d, s))
    /\ MatchedBut(d, t, key)

\* A key that is free in cash is nowhere: a debit is in the cash of its buyer.
LEMMA NewRefundKey ==
    ASSUME NEW d, WellKept(d), Linked(d), NEW t \in Txns, NEW k \in RequestKeys,
           ~KeyTaken(d, "cash", RefundKey(t, k))
    PROVE  ~HasKey(d, RefundKey(t, k)) /\ ~HasKey(d, ClawbackKey(t, k))
<1>1. ASSUME HasKey(d, RefundKey(t, k)) PROVE FALSE
    <2>1. PICK a \in Accounts : \E r \in Log(d, a) : r.key = RefundKey(t, k)
        BY <1>1, LogSays
    <2>2. PICK r \in Log(d, a) : r.key = RefundKey(t, k)
        BY <2>1
    <2>3. RowShaped(d, a, r)
        BY DEF WellKept, Shaped
    <2>4. a = Cash(Buyer[t])
        BY <2>2, <2>3, RowSays DEF RefundRow
    <2>5. Buyer[t] \in Users /\ a = <<Buyer[t], "cash">>
        BY <2>4, AccountTypes DEF Cash
    <2>6. KeyTaken(d, "cash", RefundKey(t, k))
        BY <2>2, <2>5, LogSays
    <2> QED
        BY <2>6
<1> QED
    BY <1>1 DEF Linked

\* debit_refund: what is taken is left, paid for, and not yet asked for.
LEMMA DebitBooks ==
    ASSUME NEW d, Books(d), NEW e, Sound(e), NEW t \in Txns, NEW k \in RequestKeys,
           NEW id \in Adjustments, NEW row \in Row, Grown(d, e, Cash(Buyer[t]), row),
           HasKey(d, PurchaseKey(t)), ~KeyTaken(d, "cash", RefundKey(t, k)),
           \A r \in Log(d, Cash(Buyer[t])) : IsDebit(r) => r.ref # id,
           row.reason = "refund", row.key = RefundKey(t, k), row.ref = id, row.amount < 0,
           Remaining(d, t) + row.amount >= 0, d.balance[Cash(Buyer[t])] + row.amount >= 0
    PROVE  /\ Debiting(e, t)
           /\ \A r \in Log(e, Cash(Buyer[t])) :
                 r.key = RefundKey(t, k) => ~Undone(e.rows[Cash(Buyer[t])], "refund", t, r.ref)
           /\ ~HasKey(e, ClawbackKey(t, k)) /\ HasKey(e, RefundKey(t, k))
           /\ BonusHolders(e, t) = BonusHolders(d, t)
<1> DEFINE b == Cash(Buyer[t])
<1>1. b \in Accounts /\ WellKept(d) /\ Linked(d) /\ d \in Tables /\ row.amount \in Int
    BY AccountTypes DEF Books, WellKept, Sound, Row
<1>2. ~HasKey(d, RefundKey(t, k)) /\ ~HasKey(d, ClawbackKey(t, k))
    BY <1>1, NewRefundKey
<1>3. \A s : row.key # BonusKey(s)
    BY DEF RefundKey, BonusKey
<1>4. RefundRow(b, row, t)
    BY DEF RefundRow
<1>5. RowShaped(d, b, row)
    BY <1>4 DEF RowShaped, RefundKey
<1>6. \A r \in Log(d, b) : r.reason = "refund" => r.ref # id
    <2> SUFFICES ASSUME NEW r \in Log(d, b), r.reason = "refund", r.ref = id PROVE FALSE
        OBVIOUS
    <2>1. RowShaped(d, b, r) /\ r \in Row
        BY <1>1, LogType DEF WellKept, Shaped
    <2>2. PICK s \in Txns : RefundRow(b, r, s)
        BY <2>1 DEF RowShaped
    <2>3. r.amount < 0 \/ r.amount > 0
        BY <2>2 DEF RefundRow
    <2>4. CASE r.amount < 0
        BY <2>4 DEF IsDebit
    <2>5. CASE r.amount > 0
        <3>1. r.reason \in Marked
            BY DEF Marked
        <3>2. PICK x \in Log(d, b) : x.reason = r.reason /\ x.amount < 0 /\ x.ref = r.ref
            BY <1>1, <2>5, <3>1 DEF WellKept, Paired
        <3> QED
            BY <3>2 DEF IsDebit
    <2> QED
        BY <2>3, <2>4, <2>5
<1>7. \A r \in Log(d, b) : r.key # row.key
    BY <1>1, <1>2, LogSays
<1>8. Fits(d, b, row)
    BY <1>1, <1>3, <1>5, <1>6, <1>7 DEF Fits
<1>9. WellKept(e)
    BY <1>1, <1>8, FitsKeeps
<1>10. \A key : HasKey(e, key) <=> (HasKey(d, key) \/ row.key = key)
    BY <1>1, GrownKeys
<1>11. Linked(e)
    <2> SUFFICES ASSUME NEW s \in Txns, NEW j \in RequestKeys
                 PROVE  /\ HasKey(e, ClawbackKey(s, j)) => HasKey(e, RefundKey(s, j))
                        /\ HasKey(e, RefundKey(s, j)) => HasKey(e, PurchaseKey(s))
        BY DEF Linked
    <2>1. row.key # ClawbackKey(s, j) /\ (row.key = RefundKey(s, j) => s = t)
        BY DEF RefundKey, ClawbackKey
    <2> QED
        BY <1>1, <1>10, <2>1 DEF Linked
<1>12. Overdraft(e)
    <2>1. e.balance[b] >= 0
        BY DEF Grown
    <2> QED
        BY <1>1, <2>1, OverdraftStays DEF Books
<1>13. \A s : ~Of(row, "clawback", s) /\ (Of(row, "refund", s) => s = t)
    BY DEF Of, IsClawbackOf, IsRefundOf, RefundKey
<1>14. Of(row, "refund", t)
    BY DEF Of, IsRefundOf, RefundKey
<1>15. ASSUME NEW s \in Txns, s # t PROVE Within(e, s) /\ Matched(e, s) /\ Emptied(e, s)
    <2>1. Foreign(row, s)
        BY <1>3, <1>13, <1>15 DEF Foreign
    <2> QED
        BY <1>1, <1>5, <2>1, ForeignStays DEF Books
<1>16. BonusHolders(e, t) = BonusHolders(d, t) /\ BonusHolder(e, t) = BonusHolder(d, t)
    BY <1>1, <1>3, HoldersStay
<1>17. Within(e, t)
    <2>1. Remaining(e, t) = Remaining(d, t) + row.amount
        BY <1>1, <1>14, GrownRemaining
    <2>2. ASSUME BonusHolders(d, t) # {}
          PROVE  ClawedBack(e, t, BonusHolder(e, t)) = ClawedBack(d, t, BonusHolder(d, t))
        <3>1. BonusHolder(d, t) \in Users
            BY <2>2, AccountTypes
        <3> QED
            BY <1>1, <1>13, <1>16, <3>1, GrownClawed
    <2> QED
        BY <1>16, <2>1, <2>2 DEF Within, Books
<1>18. \A a \in Accounts : \A kind, s, ref :
            Undone(e.rows[a], kind, s, ref) <=> Undone(d.rows[a], kind, s, ref)
    BY <1>1, GrownTakes
<1>19. Matched(e, t)
    <2> SUFFICES ASSUME HolderThere(e, t) PROVE Matched(e, t)
        BY DEF Matched
    <2> DEFINE h == Cash(BonusHolder(d, t))
    <2>1. HolderThere(d, t) /\ h \in Accounts
        BY <1>16, AccountTypes DEF HolderThere, Grown
    <2>2. Matched(d, t)
        BY DEF Books
    <2>3. ASSUME NEW c \in Log(e, h), NEW r \in Log(e, b), Takes(c, "clawback", t),
                 Takes(r, "refund", t), r.key = c.ref
          PROVE  Undone(e.rows[b], "refund", t, r.ref) <=> Undone(e.rows[h], "clawback", t, c.ref)
        <3>1. c \in Log(d, h)
            <4>1. c # row
                BY <1>13, <2>3 DEF Takes
            <4> QED
                BY <2>1, <4>1 DEF Grown
        <3>2. CASE r = row
            <4>1. RowShaped(d, h, c) /\ Of(c, "clawback", t)
                BY <1>1, <2>1, <2>3, <3>1 DEF WellKept, Shaped, Takes
            <4>2. ClawbackRow(d, h, c, t)
                BY <4>1, RowSays
            <4>3. c.amount < 0 /\ c.amount \in Int
                BY <1>1, <2>1, <2>3, <3>1, LogType DEF Takes, Row
            <4>4. PICK j \in RequestKeys : c.ref = RefundKey(t, j) /\ c.key = ClawbackKey(t, j)
                BY <4>2, <4>3 DEF ClawbackRow
            <4>5. j = k
                BY <2>3, <3>2, <4>4 DEF RefundKey
            <4> QED
                BY <1>2, <2>1, <3>1, <4>4, <4>5, LogSays
        <3>3. CASE r # row
            <4>1. r \in Log(d, b)
                BY <2>3, <3>3 DEF Grown
            <4>2. Undone(d.rows[b], "refund", t, r.ref) <=> Undone(d.rows[h], "clawback", t, c.ref)
                BY <2>1, <2>2, <2>3, <3>1, <4>1 DEF Matched
            <4> HIDE DEF b, h
            <4> QED
                BY <1>1, <1>18, <2>1, <4>2
        <3> QED
            BY <3>2, <3>3
    <2>4. ASSUME NEW x \in Adjustments, HasKey(e, ClawbackReversalKey(t, x))
          PROVE  HasKey(e, RefundReversalKey(t, x))
        <3>1. row.key # ClawbackReversalKey(t, x)
            BY DEF RefundKey, ClawbackReversalKey
        <3> QED
            BY <1>10, <2>1, <2>2, <2>4, <3>1 DEF Matched
    <2> QED
        BY <1>16, <2>3, <2>4 DEF Matched
<1>20. Debiting(e, t)
    BY <1>9, <1>11, <1>12, <1>15, <1>17, <1>19 DEF Debiting
<1>21. ASSUME NEW r \in Log(e, b), r.key = RefundKey(t, k)
       PROVE  ~Undone(e.rows[b], "refund", t, r.ref)
    <2>1. r = row
        BY <1>7, <1>21 DEF Grown
    <2>2. \A x \in Log(d, b) : ~GivesBack(x, "refund", t, id)
        BY <1>6 DEF GivesBack, Of, IsRefundOf
    <2>3. ~Undone(d.rows[b], "refund", t, id)
        BY <2>2, UndoneSays
    <2> HIDE DEF b
    <2> QED
        BY <1>1, <1>18, <2>1, <2>3
<1>22. ~HasKey(e, ClawbackKey(t, k)) /\ HasKey(e, RefundKey(t, k))
    <2>1. row.key # ClawbackKey(t, k)
        BY DEF RefundKey, ClawbackKey
    <2> QED
        BY <1>2, <1>10, <2>1
<1> QED
    BY <1>16, <1>20, <1>21, <1>22

\* referral_clawback: what is due is taken, once, and the bonus follows the refunds.
LEMMA ClawBooks ==
    ASSUME NEW d, NEW t \in Txns, Debiting(d, t), NEW e, Sound(e), NEW k \in RequestKeys,
           HolderThere(d, t), NEW row \in Row,
           Grown(d, e, Cash(BonusHolder(d, t)), row), HasKey(d, RefundKey(t, k)),
           ~HasKey(d, ClawbackKey(t, k)),
           \A r \in Log(d, Cash(Buyer[t])) :
                 r.key = RefundKey(t, k) => ~Undone(d.rows[Cash(Buyer[t])], "refund", t, r.ref),
           row.reason = "referral_clawback", row.key = ClawbackKey(t, k),
           row.ref = RefundKey(t, k), row.amount < 0, row.amount = -ClawbackDue(d, t)
    PROVE  Books(e)
<1> DEFINE b == Cash(Buyer[t])
           u == BonusHolder(d, t)
           h == Cash(u)
<1>1. b \in Accounts /\ h \in Accounts /\ u \in Users /\ BonusHolders(d, t) # {}
    BY AccountTypes DEF HolderThere
<1>2. WellKept(d) /\ Linked(d) /\ Overdraft(d) /\ d \in Tables /\ row.amount \in Int
    BY DEF Debiting, WellKept, Sound, Row
<1>3. \A s : row.key # BonusKey(s)
    BY DEF ClawbackKey, BonusKey
<1>4. ClawbackRow(d, h, row, t)
    BY <1>1 DEF ClawbackRow
<1>5. RowShaped(d, h, row)
    BY <1>4 DEF RowShaped, ClawbackKey
<1>6. \A r \in Log(d, h) : r.reason = "referral_clawback" => r.ref # row.ref
    <2>1. ASSUME NEW r \in Log(d, h), r.reason = "referral_clawback", r.ref = row.ref,
                 r.amount < 0
          PROVE  FALSE
        <3>1. RowShaped(d, h, r) /\ Of(r, "clawback", t) /\ r \in Row
            BY <1>1, <1>2, <2>1, LogType DEF WellKept, Shaped, Of, IsClawbackOf, RefundKey
        <3>2. ClawbackRow(d, h, r, t)
            BY <3>1, RowSays
        <3>3. r.amount \in Int
            BY <3>1 DEF Row
        <3>4. PICK j \in RequestKeys : r.ref = RefundKey(t, j) /\ r.key = ClawbackKey(t, j)
            BY <2>1, <3>2, <3>3 DEF ClawbackRow
        <3>5. j = k
            BY <2>1, <3>4 DEF RefundKey
        <3> QED
            BY <1>1, <3>4, <3>5, LogSays
    <2> SUFFICES ASSUME NEW r \in Log(d, h), r.reason = "referral_clawback", r.ref = row.ref
                 PROVE  FALSE
        OBVIOUS
    <2>2. r.amount < 0 \/ r.amount > 0
        BY <1>1, <1>2 DEF WellKept, Shaped, RowShaped, ClawbackRow
    <2>3. CASE r.amount > 0
        <3>1. r.reason \in Marked
            BY DEF Marked
        <3>2. PICK x \in Log(d, h) : x.reason = r.reason /\ x.amount < 0 /\ x.ref = r.ref
            BY <1>1, <1>2, <2>3, <3>1 DEF WellKept, Paired
        <3> QED
            BY <2>1, <3>2
    <2> QED
        BY <2>1, <2>2, <2>3
<1>7. Fits(d, h, row)
    BY <1>2, <1>3, <1>5, <1>6 DEF Fits, IsDebit
<1>8. WellKept(e)
    BY <1>1, <1>2, <1>7, FitsKeeps
<1>9. \A key : HasKey(e, key) <=> (HasKey(d, key) \/ row.key = key)
    BY <1>1, GrownKeys
<1>10. Linked(e)
    <2> SUFFICES ASSUME NEW s \in Txns, NEW j \in RequestKeys
                 PROVE  /\ HasKey(e, ClawbackKey(s, j)) => HasKey(e, RefundKey(s, j))
                        /\ HasKey(e, RefundKey(s, j)) => HasKey(e, PurchaseKey(s))
        BY DEF Linked
    <2>1. row.key # RefundKey(s, j) /\ (row.key = ClawbackKey(s, j) => s = t /\ j = k)
        BY DEF RefundKey, ClawbackKey
    <2> QED
        BY <1>2, <1>9, <2>1 DEF Linked
<1>11. Overdraft(e)
    BY <1>1, <1>2, OverdraftStays
<1>12. \A s : ~Of(row, "refund", s) /\ (Of(row, "clawback", s) => s = t)
    BY DEF Of, IsRefundOf, IsClawbackOf, RefundKey
<1>13. Of(row, "clawback", t)
    BY DEF Of, IsClawbackOf, RefundKey
<1>14. ASSUME NEW s \in Txns, s # t PROVE Within(e, s) /\ Matched(e, s) /\ Emptied(e, s)
    <2>1. Foreign(row, s)
        BY <1>3, <1>12, <1>14 DEF Foreign
    <2> QED
        BY <1>1, <1>2, <1>5, <1>14, <2>1, ForeignStays DEF Debiting
<1>15. BonusHolders(e, t) = BonusHolders(d, t) /\ BonusHolder(e, t) = u
    BY <1>1, <1>3, HoldersStay
<1>16. Remaining(e, t) = Remaining(d, t) /\ Remaining(d, t) \in Nat
    <2>1. Remaining(d, t) >= 0
        BY DEF Debiting, Within
    <2> QED
        BY <1>1, <1>2, <1>12, <2>1, GrownRemaining
<1> DEFINE share(left) == RoundHalfUp(BonusAmount(t) * (Credits[t] - left), Credits[t])
<1>17. ClawedBack(e, t, u) = share(Remaining(d, t))
    <2>1. ClawedBack(d, t, u) \in Int /\ ClawedBack(e, t, u) = ClawedBack(d, t, u) - row.amount
        BY <1>1, <1>2, <1>13, GrownClawed
    <2>2. row.amount = -(share(Remaining(d, t)) - ClawedBack(d, t, u))
        BY DEF ClawbackDue
    <2>3. share(Remaining(d, t)) \in Int
        BY <1>16, ShareBounds, BonusType, PaymentsAssumption
    <2> HIDE DEF share, u
    <2> QED
        BY <2>1, <2>2, <2>3
<1>18. BonusAmount(t) \in Nat /\ Credits[t] \in Nat \ {0}
    BY BonusType, PaymentsAssumption
<1>19. share(Remaining(d, t)) <= BonusAmount(t) /\ share(0) = BonusAmount(t)
    BY <1>16, <1>18, ShareBounds
<1>20. Within(e, t) /\ Emptied(e, t)
    <2> HIDE DEF share, u
    <2> QED
        BY <1>15, <1>16, <1>17, <1>19 DEF Within, Emptied
<1>21. \A a \in Accounts : \A kind, s, ref :
            Undone(e.rows[a], kind, s, ref) <=> Undone(d.rows[a], kind, s, ref)
    BY <1>1, <1>2, GrownTakes
<1>22. /\ \A ref : Undone(e.rows[b], "refund", t, ref) <=> Undone(d.rows[b], "refund", t, ref)
       /\ \A ref : Undone(e.rows[h], "clawback", t, ref) <=> Undone(d.rows[h], "clawback", t, ref)
    <2> HIDE DEF b, h
    <2> QED
        BY <1>1, <1>21
<1>23. Matched(e, t)
    <2>1. Matched(d, t)
        BY DEF Debiting
    <2>2. ASSUME NEW c \in Log(e, h), NEW r \in Log(e, b), Takes(c, "clawback", t),
                 Takes(r, "refund", t), r.key = c.ref
          PROVE  Undone(e.rows[b], "refund", t, r.ref) <=> Undone(e.rows[h], "clawback", t, c.ref)
        <3>1. r \in Log(d, b)
            <4>1. r # row
                BY <1>12, <2>2 DEF Takes
            <4> QED
                BY <1>1, <4>1 DEF Grown
        <3>2. CASE c = row
            <4>1. ~Undone(d.rows[b], "refund", t, r.ref)
                BY <2>2, <3>1, <3>2
            <4>2. \A x \in Log(d, h) : ~GivesBack(x, "clawback", t, c.ref)
                BY <1>6, <3>2 DEF GivesBack, Of, IsClawbackOf
            <4>3. ~Undone(d.rows[h], "clawback", t, c.ref)
                BY <4>2, UndoneSays
            <4> QED
                BY <1>22, <4>1, <4>3
        <3>3. CASE c # row
            <4>1. c \in Log(d, h)
                BY <1>1, <2>2, <3>3 DEF Grown
            <4>2. Undone(d.rows[b], "refund", t, r.ref) <=> Undone(d.rows[h], "clawback", t, c.ref)
                BY <2>1, <2>2, <3>1, <4>1 DEF Matched
            <4> QED
                BY <1>22, <4>2
        <3> QED
            BY <3>2, <3>3
    <2>3. ASSUME NEW x \in Adjustments, HasKey(e, ClawbackReversalKey(t, x))
          PROVE  HasKey(e, RefundReversalKey(t, x))
        <3>1. row.key # ClawbackReversalKey(t, x)
            BY DEF ClawbackKey, ClawbackReversalKey
        <3> QED
            BY <1>9, <2>1, <2>3, <3>1 DEF Matched
    <2> QED
        BY <1>15, <2>2, <2>3 DEF Matched
<1> QED
    BY <1>8, <1>10, <1>11, <1>14, <1>20, <1>23 DEF Books

-----------------------------------------------------------------------------
(* A rejected refund and its clawback.                                     *)

\* reverse_refund: the debit comes back, once.
LEMMA RestoreBooks ==
    ASSUME NEW d, Books(d), NEW e, Sound(e), NEW t \in Txns, NEW id \in Adjustments,
           NEW debit \in Log(d, Cash(Buyer[t])), Takes(debit, "refund", t), debit.ref = id,
           NEW row \in Row, Grown(d, e, Cash(Buyer[t]), row), ~HasKey(d, RefundReversalKey(t, id)),
           row.reason = "refund", row.key = RefundReversalKey(t, id), row.ref = id,
           row.amount = -debit.amount
    PROVE  /\ Restoring(e, t, debit.key)
           /\ \E k \in RequestKeys : debit.key = RefundKey(t, k)
           /\ Undone(e.rows[Cash(Buyer[t])], "refund", t, id)
           /\ HasKey(e, RefundReversalKey(t, id)) /\ debit \in Log(e, Cash(Buyer[t]))
           /\ Remaining(e, t) > 0
           /\ HolderThere(e, t) =>
                \A c \in Log(e, Cash(BonusHolder(e, t))) :
                    Takes(c, "clawback", t) /\ c.ref = debit.key =>
                        ~Undone(e.rows[Cash(BonusHolder(e, t))], "clawback", t, debit.key)
<1> DEFINE b == Cash(Buyer[t])
<1>1. b \in Accounts /\ WellKept(d) /\ Linked(d) /\ d \in Tables /\ row.amount \in Int
    BY AccountTypes DEF Books, WellKept, Sound, Row
<1>2. debit.amount < 0 /\ debit.amount \in Int /\ RowShaped(d, b, debit) /\ debit.reason = "refund"
          /\ debit.key[2] = t
    BY <1>1, LogType DEF Takes, Row, WellKept, Shaped, Of, IsRefundOf
<1>3. row.amount > 0
    BY <1>2
<1>4. PICK k \in RequestKeys : debit.key = RefundKey(t, k)
    <2>1. RefundRow(b, debit, t)
        BY <1>2, RowSays DEF Takes
    <2> QED
        BY <1>2, <2>1 DEF RefundRow
<1>5. \A s : row.key # BonusKey(s)
    BY DEF RefundReversalKey, BonusKey
<1>6. RefundRow(b, row, t)
    BY <1>3 DEF RefundRow
<1>7. RowShaped(d, b, row)
    BY <1>6 DEF RowShaped, RefundReversalKey
<1>8. \A r \in Log(d, b) : IsDebit(r) /\ r.ref = id => r = debit
    <2> TAKE r \in Log(d, b)
    <2> HAVE IsDebit(r) /\ r.ref = id
    <2>1. PICK i \in DOMAIN d.rows[b] : d.rows[b][i] = r
        BY DEF Log
    <2>2. PICK j \in DOMAIN d.rows[b] : d.rows[b][j] = debit
        BY DEF Log
    <2>3. i = j
        <3>1. r.reason \in Marked /\ debit.reason = r.reason /\ r.amount < 0 /\ debit.ref = r.ref
            BY <1>2 DEF IsDebit, Marked
        <3> HIDE DEF b
        <3> QED
            BY <1>1, <1>2, <2>1, <2>2, <3>1 DEF WellKept, RefsOnce
    <2> QED
        BY <2>1, <2>2, <2>3
<1>9. \A r \in Log(d, b) : r.reason = "refund" /\ r.amount > 0 => r.ref # id
    <2> SUFFICES ASSUME NEW r \in Log(d, b), r.reason = "refund", r.amount > 0, r.ref = id
                 PROVE  FALSE
        OBVIOUS
    <2>1. r.reason \in Marked /\ r \in Row
        BY <1>1, LogType DEF Marked
    <2>2. PICK x \in Log(d, b) : /\ x.reason = r.reason /\ x.amount < 0
                                 /\ x.ref = r.ref /\ x.key[2] = r.key[2]
        BY <1>1, <2>1 DEF WellKept, Paired
    <2>3. x = debit
        BY <1>8, <2>2 DEF IsDebit
    <2>4. PICK s \in Txns : RefundRow(b, r, s)
        BY <1>1 DEF WellKept, Shaped, RowShaped
    <2>5. ~(r.amount < 0)
        BY <2>1 DEF Row
    <2>6. r.key = RefundReversalKey(s, id)
        BY <2>4, <2>5 DEF RefundRow
    <2>7. s = t
        BY <1>2, <2>2, <2>3, <2>6 DEF RefundReversalKey
    <2> QED
        BY <1>1, <2>6, <2>7, LogSays
<1>10. Fits(d, b, row)
    <2>1. debit.key[2] = row.key[2]
        BY <1>2 DEF RefundReversalKey
    <2>2. debit.amount = -row.amount /\ ~(row.amount < 0)
        BY <1>2, <1>3
    <2>3. debit.reason = row.reason /\ debit.ref = row.ref
        BY <1>2
    <2> QED
        BY <1>5, <1>7, <1>9, <2>1, <2>2, <2>3 DEF Fits
<1>11. WellKept(e)
    BY <1>1, <1>10, FitsKeeps
<1>12. \A key : HasKey(e, key) <=> (HasKey(d, key) \/ row.key = key)
    BY <1>1, GrownKeys
<1>13. Linked(e)
    <2>1. row.key[1] \notin {"refund", "referral_clawback"}
        BY DEF RefundReversalKey
    <2> QED
        BY <1>1, <2>1, LinkedStays
<1>14. Overdraft(e)
    BY <1>1, <1>3, OverdraftStays DEF Books
<1>15. \A s : ~Of(row, "clawback", s) /\ (Of(row, "refund", s) => s = t)
    BY DEF Of, IsClawbackOf, IsRefundOf, RefundReversalKey
<1>16. Of(row, "refund", t)
    BY DEF Of, IsRefundOf, RefundReversalKey
<1>17. ASSUME NEW s \in Txns, s # t PROVE Within(e, s) /\ Matched(e, s) /\ Emptied(e, s)
    <2>1. Foreign(row, s)
        BY <1>5, <1>15, <1>17 DEF Foreign
    <2> QED
        BY <1>1, <1>7, <2>1, ForeignStays DEF Books
<1>18. BonusHolders(e, t) = BonusHolders(d, t) /\ BonusHolder(e, t) = BonusHolder(d, t)
    BY <1>1, <1>5, HoldersStay
<1>19. Remaining(e, t) > 0
    <2>1. Remaining(d, t) \in Int /\ Remaining(e, t) = Remaining(d, t) + row.amount
        BY <1>1, <1>16, GrownRemaining
    <2>2. Remaining(d, t) >= 0
        BY DEF Books, Within
    <2> QED
        BY <1>1, <1>3, <2>1, <2>2
<1>20. Within(e, t) /\ Emptied(e, t)
    <2>1. ASSUME BonusHolders(d, t) # {}
          PROVE  ClawedBack(e, t, BonusHolder(e, t)) = ClawedBack(d, t, BonusHolder(d, t))
        <3>1. BonusHolder(d, t) \in Users
            BY <2>1, AccountTypes
        <3> QED
            BY <1>1, <1>15, <1>18, <3>1, GrownClawed
    <2>2. Remaining(e, t) >= 0 /\ Remaining(e, t) # 0
        BY <1>1, <1>19, <1>11, GrownRemaining
    <2> QED
        BY <1>18, <2>1, <2>2 DEF Within, Emptied, Books
<1>21. HolderThere(e, t) <=> HolderThere(d, t)
    BY <1>18 DEF HolderThere, Grown
<1> DEFINE h == Cash(BonusHolder(d, t))
<1>22. ASSUME HolderThere(d, t)
       PROVE  /\ h \in Accounts /\ Log(e, h) \subseteq Log(d, h) \cup {row}
              /\ \A ref : Undone(e.rows[h], "clawback", t, ref) <=>
                             Undone(d.rows[h], "clawback", t, ref)
    <2>1. h \in Accounts
        BY <1>22, AccountTypes DEF HolderThere
    <2>2. ASSUME NEW ref
          PROVE  Undone(e.rows[h], "clawback", t, ref) <=> Undone(d.rows[h], "clawback", t, ref)
        <3>1. ~GivesBack(row, "clawback", t, ref)
            BY <1>15 DEF GivesBack
        <3> HIDE DEF h
        <3> QED
            BY <1>1, <2>1, <3>1, GrownUndone
    <2>3. Log(e, h) \subseteq Log(d, h) \cup {row}
        BY <2>1 DEF Grown
    <2> QED
        BY <2>1, <2>2, <2>3
<1>23. ASSUME NEW ref
       PROVE  Undone(e.rows[b], "refund", t, ref) <=>
                  (Undone(d.rows[b], "refund", t, ref) \/ ref = id)
    <2>1. GivesBack(row, "refund", t, ref) <=> ref = id
        BY <1>3, <1>16 DEF GivesBack
    <2>2. Undone(e.rows[b], "refund", t, ref) <=>
              (Undone(d.rows[b], "refund", t, ref) \/ (b = b /\ GivesBack(row, "refund", t, ref)))
        BY <1>1, GrownUndone
    <2> QED
        BY <2>1, <2>2
<1>24. ~Undone(d.rows[b], "refund", t, id)
    <2>1. \A r \in Log(d, b) : ~GivesBack(r, "refund", t, id)
        BY <1>9 DEF GivesBack, Of, IsRefundOf
    <2> QED
        BY <2>1, UndoneSays
<1>25. MatchedBut(e, t, debit.key)
    <2> SUFFICES ASSUME HolderThere(d, t) PROVE MatchedBut(e, t, debit.key)
        BY <1>21 DEF MatchedBut
    <2>1. Matched(d, t)
        BY DEF Books
    <2>2. ASSUME NEW c \in Log(e, h), NEW r \in Log(e, b), Takes(c, "clawback", t),
                 Takes(r, "refund", t), r.key = c.ref, r.key # debit.key
          PROVE  Undone(e.rows[b], "refund", t, r.ref) <=> Undone(e.rows[h], "clawback", t, c.ref)
        <3>1. c \in Log(d, h)
            BY <1>15, <1>22, <2>2 DEF Takes
        <3>2. r \in Log(d, b)
            <4>1. ~(row.amount < 0)
                BY <1>1, <1>3
            <4> QED
                BY <2>2, <4>1 DEF Takes, Grown
        <3>3. Undone(d.rows[b], "refund", t, r.ref) <=> Undone(d.rows[h], "clawback", t, c.ref)
            BY <2>1, <2>2, <3>1, <3>2 DEF Matched
        <3>4. r.ref # id
            BY <1>8, <2>2, <3>2 DEF Takes, Of, IsRefundOf, IsDebit
        <3> QED
            BY <1>22, <1>23, <3>3, <3>4
    <2>3. ASSUME NEW x \in Adjustments, HasKey(e, ClawbackReversalKey(t, x))
          PROVE  HasKey(e, RefundReversalKey(t, x))
        <3>1. row.key # ClawbackReversalKey(t, x)
            BY DEF RefundReversalKey, ClawbackReversalKey
        <3> QED
            BY <1>12, <2>1, <2>3, <3>1 DEF Matched
    <2> QED
        BY <1>18, <2>2, <2>3 DEF MatchedBut
<1>26. ASSUME HolderThere(d, t), NEW c \in Log(e, h), Takes(c, "clawback", t), c.ref = debit.key
       PROVE  ~Undone(e.rows[h], "clawback", t, debit.key)
    <2>1. c \in Log(d, h)
        BY <1>15, <1>22, <1>26 DEF Takes
    <2>2. Matched(d, t)
        BY DEF Books
    <2>3. Undone(d.rows[b], "refund", t, debit.ref) <=> Undone(d.rows[h], "clawback", t, c.ref)
        BY <1>26, <2>1, <2>2 DEF Matched
    <2> QED
        BY <1>22, <1>24, <1>26, <2>3
<1>27. Restoring(e, t, debit.key)
    BY <1>11, <1>13, <1>14, <1>17, <1>20, <1>25 DEF Restoring
<1>28. Undone(e.rows[b], "refund", t, id) /\ HasKey(e, RefundReversalKey(t, id)) /\ debit \in Log(e, b)
    BY <1>12, <1>23 DEF Grown
<1> QED
    BY <1>4, <1>18, <1>19, <1>21, <1>26, <1>27, <1>28

\* Without a clawback to give back, or once its holder is gone, that is all.
LEMMA NothingToGiveBack ==
    ASSUME NEW d, NEW t \in Txns, NEW key, Restoring(d, t, key),
           HolderThere(d, t) => \A c \in Log(d, Cash(BonusHolder(d, t))) :
                                    Takes(c, "clawback", t) => c.ref # key
    PROVE  Books(d)
<1>1. Matched(d, t)
    BY DEF Restoring, MatchedBut, Matched
<1> QED
    BY <1>1 DEF Restoring, Books

\* reverse_referral_clawback: the clawback of the refund comes back with it.
LEMMA GiveBackBooks ==
    ASSUME NEW d, NEW t \in Txns, NEW k \in RequestKeys, Restoring(d, t, RefundKey(t, k)),
           NEW e, Sound(e), NEW id \in Adjustments, HolderThere(d, t), Remaining(d, t) > 0,
           NEW debit \in Log(d, Cash(Buyer[t])), Takes(debit, "refund", t), debit.ref = id,
           debit.key = RefundKey(t, k),
           Undone(d.rows[Cash(Buyer[t])], "refund", t, id), HasKey(d, RefundReversalKey(t, id)),
           NEW claw \in Log(d, Cash(BonusHolder(d, t))), Takes(claw, "clawback", t),
           claw.ref = RefundKey(t, k),
           ~Undone(d.rows[Cash(BonusHolder(d, t))], "clawback", t, RefundKey(t, k)),
           NEW row \in Row, Grown(d, e, Cash(BonusHolder(d, t)), row),
           row.reason = "referral_clawback", row.key = ClawbackReversalKey(t, id),
           row.ref = RefundKey(t, k), row.amount = -claw.amount
    PROVE  Books(e)
<1> DEFINE b == Cash(Buyer[t])
           u == BonusHolder(d, t)
           h == Cash(u)
<1>1. b \in Accounts /\ h \in Accounts /\ u \in Users /\ BonusHolders(d, t) # {}
    BY AccountTypes DEF HolderThere
<1>2. WellKept(d) /\ Linked(d) /\ Overdraft(d) /\ d \in Tables /\ row.amount \in Int
    BY DEF Restoring, WellKept, Sound, Row
<1>3. claw.amount < 0 /\ claw.amount \in Int /\ RowShaped(d, h, claw)
          /\ claw.reason = "referral_clawback" /\ ClawbackRow(d, h, claw, t)
    <2>1. claw.amount < 0 /\ claw.amount \in Int /\ RowShaped(d, h, claw) /\ Of(claw, "clawback", t)
        BY <1>1, <1>2, LogType DEF Takes, Row, WellKept, Shaped
    <2> QED
        BY <2>1, RowSays DEF Of, IsClawbackOf
<1>4. row.amount > 0 /\ ~(row.amount < 0)
    BY <1>3
<1>5. \A s : row.key # BonusKey(s)
    BY DEF ClawbackReversalKey, BonusKey
<1>6. ClawbackRow(d, h, row, t)
    BY <1>1, <1>4 DEF ClawbackRow
<1>7. RowShaped(d, h, row)
    BY <1>6 DEF RowShaped, ClawbackReversalKey
<1>8. \A r \in Log(d, h) : r.reason = "referral_clawback" /\ r.amount > 0 => r.ref # row.ref
    <2> SUFFICES ASSUME NEW r \in Log(d, h), r.reason = "referral_clawback", r.amount > 0,
                        r.ref = row.ref
                 PROVE  FALSE
        OBVIOUS
    <2>1. GivesBack(r, "clawback", t, RefundKey(t, k))
        BY DEF GivesBack, Of, IsClawbackOf, RefundKey
    <2> QED
        BY <2>1, UndoneSays
<1>9. Fits(d, h, row)
    <2>1. claw.key[2] = t
        BY <1>3 DEF ClawbackRow, ClawbackKey, ClawbackReversalKey
    <2>2. claw.key[2] = row.key[2] /\ claw.amount = -row.amount
        BY <1>3, <2>1 DEF ClawbackReversalKey
    <2> QED
        BY <1>3, <1>4, <1>5, <1>7, <1>8, <2>2 DEF Fits
<1>10. WellKept(e)
    BY <1>1, <1>2, <1>9, FitsKeeps
<1>11. \A key : HasKey(e, key) <=> (HasKey(d, key) \/ row.key = key)
    BY <1>1, GrownKeys
<1>12. Linked(e)
    <2>1. row.key[1] \notin {"refund", "referral_clawback"}
        BY DEF ClawbackReversalKey
    <2> QED
        BY <1>1, <1>2, <2>1, LinkedStays
<1>13. Overdraft(e)
    BY <1>1, <1>2, OverdraftStays
<1>14. \A s : ~Of(row, "refund", s) /\ (Of(row, "clawback", s) => s = t)
    BY DEF Of, IsRefundOf, IsClawbackOf, RefundKey
<1>15. Of(row, "clawback", t)
    BY DEF Of, IsClawbackOf, RefundKey
<1>16. ASSUME NEW s \in Txns, s # t PROVE Within(e, s) /\ Matched(e, s) /\ Emptied(e, s)
    <2>1. Foreign(row, s)
        BY <1>5, <1>14, <1>16 DEF Foreign
    <2> QED
        BY <1>1, <1>2, <1>7, <1>16, <2>1, ForeignStays DEF Restoring
<1>17. BonusHolders(e, t) = BonusHolders(d, t) /\ BonusHolder(e, t) = u
    BY <1>1, <1>5, HoldersStay
<1>18. Remaining(e, t) = Remaining(d, t) /\ Remaining(d, t) \in Int
    BY <1>1, <1>2, <1>14, GrownRemaining
<1>19. Within(e, t) /\ Emptied(e, t)
    <2>1. ClawedBack(d, t, u) \in Int /\ ClawedBack(e, t, u) = ClawedBack(d, t, u) - row.amount
        BY <1>1, <1>2, <1>15, GrownClawed
    <2>2. ClawedBack(d, t, u) <= BonusAmount(t) /\ BonusAmount(t) \in Nat
        BY <1>1, BonusType DEF Restoring, Within
    <2> HIDE DEF u
    <2>3. ClawedBack(e, t, u) <= BonusAmount(t)
        BY <1>2, <1>4, <2>1, <2>2
    <2> QED
        BY <1>17, <1>18, <2>3 DEF Within, Emptied
<1>20. ASSUME NEW ref
       PROVE  Undone(e.rows[b], "refund", t, ref) <=> Undone(d.rows[b], "refund", t, ref)
    <2>1. ~GivesBack(row, "refund", t, ref)
        BY <1>14 DEF GivesBack
    <2> HIDE DEF b
    <2> QED
        BY <1>1, <2>1, GrownUndone
<1>21. ASSUME NEW ref
       PROVE  Undone(e.rows[h], "clawback", t, ref) <=>
                  (Undone(d.rows[h], "clawback", t, ref) \/ ref = RefundKey(t, k))
    <2>1. GivesBack(row, "clawback", t, ref) <=> ref = RefundKey(t, k)
        BY <1>4, <1>15 DEF GivesBack
    <2>2. Undone(e.rows[h], "clawback", t, ref) <=>
              (Undone(d.rows[h], "clawback", t, ref)
                  \/ (h = h /\ GivesBack(row, "clawback", t, ref)))
        BY <1>1, GrownUndone
    <2> QED
        BY <2>1, <2>2
<1>22. Matched(e, t)
    <2>1. MatchedBut(d, t, RefundKey(t, k))
        BY DEF Restoring
    <2>2. ASSUME NEW c \in Log(e, h), NEW r \in Log(e, b), Takes(c, "clawback", t),
                 Takes(r, "refund", t), r.key = c.ref
          PROVE  Undone(e.rows[b], "refund", t, r.ref) <=> Undone(e.rows[h], "clawback", t, c.ref)
        <3>1. r \in Log(d, b)
            BY <1>1, <1>14, <2>2 DEF Takes, Grown
        <3>2. c \in Log(d, h)
            BY <1>1, <1>4, <2>2 DEF Takes, Grown
        <3>3. CASE r.key = RefundKey(t, k)
            <4>1. IsDebit(r) /\ IsDebit(debit)
                BY <2>2 DEF Takes, Of, IsRefundOf, IsDebit
            <4>2. r.ref = id
                BY <1>1, <1>2, <3>1, <3>3, <4>1 DEF WellKept, DebitsOnce
            <4> QED
                BY <1>20, <1>21, <2>2, <3>3, <4>2
        <3>4. CASE r.key # RefundKey(t, k)
            <4>1. Undone(d.rows[b], "refund", t, r.ref) <=> Undone(d.rows[h], "clawback", t, c.ref)
                BY <2>1, <2>2, <3>1, <3>2, <3>4 DEF MatchedBut
            <4> QED
                BY <1>20, <1>21, <2>2, <3>4, <4>1
        <3> QED
            BY <3>3, <3>4
    <2>3. ASSUME NEW x \in Adjustments, HasKey(e, ClawbackReversalKey(t, x))
          PROVE  HasKey(e, RefundReversalKey(t, x))
        <3>1. row.key = ClawbackReversalKey(t, x) => x = id
            BY DEF ClawbackReversalKey
        <3> QED
            BY <1>11, <2>1, <2>3, <3>1 DEF MatchedBut
    <2> QED
        BY <1>17, <2>2, <2>3 DEF Matched
<1> QED
    BY <1>10, <1>12, <1>13, <1>16, <1>19, <1>22 DEF Books

-----------------------------------------------------------------------------
(* What a transaction on the ledger leaves as it was.                      *)

\* Users outside S keep their row, their rows and their balances; rows stay; a
\* new row of a refund is one of R.
Moves(d, e, S, R) ==
    /\ \A u \in Users : u \notin S => e.exists[u] = d.exists[u]
    /\ \A a \in Accounts : a[1] \notin S =>
            e.rows[a] = d.rows[a] /\ e.balance[a] = d.balance[a] /\ Log(e, a) = Log(d, a)
    /\ \A a \in Accounts : Log(d, a) \subseteq Log(e, a)
    /\ \A a \in Accounts : \A r \in Log(e, a) : r.reason = "refund" => r \in Log(d, a) \cup R

\* One posted row moves only its own user.
LEMMA GrownMoves ==
    ASSUME NEW d, NEW e, NEW account \in Accounts, NEW row, Grown(d, e, account, row),
           NEW S, account[1] \in S, NEW R, row.reason = "refund" => row \in R
    PROVE  Moves(d, e, S, R)
<1>1. \A a \in Accounts : a[1] \notin S => a \in Accounts \ {account}
    OBVIOUS
<1> QED
    BY <1>1 DEF Grown, Moves

\* A transaction that posts twice, as a refund and its clawback do, moves what its
\* steps move.
LEMMA MovesTwice ==
    ASSUME NEW d, NEW e, NEW f, NEW S, NEW R, Moves(d, e, S, R), Moves(e, f, S, R)
    PROVE  Moves(d, f, S, R)
    BY DEF Moves

\* A writer that finds its key taken moves nothing.
LEMMA MovesNot ==
    ASSUME NEW d, NEW S, NEW R
    PROVE  Moves(d, d, S, R)
    BY DEF Moves

\* A key once used stays used.
LEMMA MovesKeys ==
    ASSUME NEW d, NEW e, NEW S, NEW R, Moves(d, e, S, R), NEW key, HasKey(d, key)
    PROVE  HasKey(e, key)
<1>1. PICK a \in Accounts : \E r \in Log(d, a) : r.key = key
    BY LogSays
<1>2. \E r \in Log(e, a) : r.key = key
    BY <1>1 DEF Moves
<1> QED
    BY <1>2, LogSays

\* Every reason a writer of payments uses is one.
LEMMA ReasonTypes ==
    /\ "recharge" \in Reasons /\ "referral_bonus" \in Reasons /\ "refund" \in Reasons
    /\ "referral_clawback" \in Reasons /\ "admin_adjustment" \in Reasons
    /\ "relinquish" \in Reasons
    BY DEF Reasons, CreditReasons, DebitReasons

\* Deleting a user changes no row and no balance.
LEMMA PurgedBooks ==
    ASSUME NEW d, Books(d), NEW u \in Users
    PROVE  Books(Purged(d, u)) /\ \A R : Moves(d, Purged(d, u), {u}, R)
<1> DEFINE e == Purged(d, u)
<1>1. Sound(e)
    BY PurgedSound DEF Books, WellKept
<1>2. d \in Tables
    BY DEF Books, WellKept, Sound
<1>3. e.rows = d.rows /\ e.balance = d.balance /\ e.exists = [d.exists EXCEPT ![u] = FALSE]
    BY <1>2 DEF Purged, Tables
<1>4. d.exists \in [Users -> BOOLEAN]
    BY <1>2 DEF Tables
<1> HIDE DEF e
<1>5. \A v \in Users : (e.exists[v] => d.exists[v]) /\ (v # u => e.exists[v] = d.exists[v])
    BY <1>3, <1>4
<1>6. \A a : Log(e, a) = Log(d, a)
    BY <1>3 DEF Log
<1>7. \A key : HasKey(e, key) <=> HasKey(d, key)
    BY <1>3 DEF HasKey
<1>8. \A t : BonusHolders(e, t) = BonusHolders(d, t) /\ BonusHolder(e, t) = BonusHolder(d, t)
    BY <1>3 DEF BonusHolders, BonusHolder
<1>9. WellKept(e)
    <2>1. \A a, r : RowShaped(d, a, r) => RowShaped(e, a, r)
        BY <1>8 DEF RowShaped, ClawbackRow
    <2>2. Shaped(e)
        BY <1>6, <2>1 DEF Shaped, Books, WellKept
    <2>3. RefsOnce(e) /\ AllTallied(e)
        BY <1>3 DEF RefsOnce, AllTallied, Books, WellKept
    <2>4. DebitsOnce(e)
        BY <1>6 DEF DebitsOnce, Books, WellKept
    <2>5. Paired(e)
        BY <1>6 DEF Paired, Books, WellKept
    <2> QED
        BY <1>1, <2>2, <2>3, <2>4, <2>5 DEF WellKept
<1>10. Linked(e)
    BY <1>7 DEF Linked, Books
<1>11. Overdraft(e)
    BY <1>3 DEF Overdraft, AllClawed, Books
<1>12. ASSUME NEW t \in Txns PROVE Within(e, t) /\ Matched(e, t) /\ Emptied(e, t)
    <2>1. Remaining(e, t) = Remaining(d, t)
        BY <1>3 DEF Remaining, Refundable
    <2>2. \A v : ClawedBack(e, t, v) = ClawedBack(d, t, v)
        BY <1>3 DEF ClawedBack
    <2>3. HolderThere(e, t) => HolderThere(d, t)
        BY <1>5, <1>8, AccountTypes DEF HolderThere
    <2>4. Within(d, t) /\ Matched(d, t) /\ Emptied(d, t)
        BY DEF Books
    <2>5. Within(e, t) /\ Emptied(e, t)
        BY <1>8, <2>1, <2>2, <2>3, <2>4 DEF Within, Emptied
    <2>6. Matched(e, t)
        <3> SUFFICES ASSUME HolderThere(e, t) PROVE Matched(e, t)
            BY DEF Matched
        <3>1. Matched(d, t) /\ HolderThere(d, t)
            BY <2>3, <2>4
        <3> QED
            BY <1>3, <1>6, <1>7, <1>8, <3>1 DEF Matched
    <2> QED
        BY <2>5, <2>6
<1>13. Books(e)
    BY <1>9, <1>10, <1>11, <1>12 DEF Books
<1>14. \A R : Moves(d, e, {u}, R)
    BY <1>3, <1>5, <1>6 DEF Moves
<1> QED
    BY <1>13, <1>14 DEF e

\* credit_adjustment_by_email and relinquish_cash.
LEMMA AdjustedBooks ==
    ASSUME NEW d, Books(d), NEW account \in Accounts, NEW amount \in Int,
           NEW reason \in {"admin_adjustment", "relinquish"}, NEW key \in Keys,
           key[1] \in {"admin_adjustment", "relinquish"},
           amount > 0 \/ d.balance[account] + amount >= 0
    PROVE  /\ Books(Posted(d, account, amount, reason, key, None))
           /\ \A R : Moves(d, Posted(d, account, amount, reason, key, None), {account[1]}, R)
<1> DEFINE e == Posted(d, account, amount, reason, key, None)
<1>1. Sound(d) /\ reason \in Reasons /\ None \in Ids \cup Keys
    BY ReasonTypes, PaymentsAssumption DEF Books, WellKept
<1>2. /\ Sound(e)
      /\ \E row \in Row : /\ Grown(d, e, account, row)
                          /\ Entry(row, amount, reason, key, None)
    <2>1. e = Posted(d, account, amount, reason, key, None)
        OBVIOUS
    <2> HIDE DEF e
    <2> QED
        BY <1>1, <2>1, PostedGrows
<1> HIDE DEF e
<1>3. PICK row \in Row : /\ Grown(d, e, account, row)
                         /\ row.amount = amount /\ row.reason = reason
                         /\ row.key = key /\ row.ref = None
    BY <1>2 DEF Entry
<1>4. row.reason \notin Marked /\ row.reason # "refund"
    BY <1>3 DEF Marked
<1>5. row.amount > 0 \/ e.balance[account] >= 0
    BY <1>3 DEF Grown
<1>6. row.key[1] \notin {"refund", "refund_reversal", "referral_clawback",
                         "referral_clawback_reversal", "referral_recharge"}
    BY <1>3
<1>7. Books(e)
    BY <1>2, <1>3, <1>4, <1>5, <1>6, PlainBooks
<1>8. \A R : Moves(d, e, {account[1]}, R)
    BY <1>3, <1>4, GrownMoves
<1> QED
    BY <1>7, <1>8 DEF e

\* record_purchase with its referral bonus, once for each transaction.
LEMMA PurchasedBooks ==
    ASSUME NEW d, Books(d), NEW t \in Txns, ~HasKey(d, PurchaseKey(t))
    PROVE  LET S == {Buyer[t]} \cup {v \in Users : d.inviter[Buyer[t]] = v} IN
           Books(Purchased(d, t)) /\ Moves(d, Purchased(d, t), S, {})
               /\ HasKey(Purchased(d, t), PurchaseKey(t))
<1> DEFINE S == {Buyer[t]} \cup {v \in Users : d.inviter[Buyer[t]] = v}
           b == Cash(Buyer[t])
           e == Posted(d, b, Credits[t], "recharge", PurchaseKey(t), t)
           v == Referrer(d, Buyer[t])
           f == Posted(e, Cash(v), BonusAmount(t), "referral_bonus", BonusKey(t), t)
<1>1. /\ Sound(d) /\ b \in Accounts /\ b[1] \in S /\ Credits[t] \in Int /\ Credits[t] > 0
      /\ PurchaseKey(t) \in Keys /\ BonusKey(t) \in Keys /\ t \in Ids \cup Keys
    BY PaymentsAssumption, AccountTypes, KeyTypes DEF Books, WellKept, Cash
<1>2. /\ Sound(e)
      /\ \E row \in Row : /\ Grown(d, e, b, row)
                          /\ Entry(row, Credits[t], "recharge", PurchaseKey(t), t)
    <2>1. e = Posted(d, b, Credits[t], "recharge", PurchaseKey(t), t)
        OBVIOUS
    <2> HIDE DEF e, b
    <2> QED
        BY <1>1, <2>1, ReasonTypes, PostedGrows
<1> HIDE DEF e
<1>3. PICK row \in Row : /\ Grown(d, e, b, row)
                         /\ row.amount = Credits[t] /\ row.reason = "recharge"
                         /\ row.key = PurchaseKey(t) /\ row.ref = t
    BY <1>2 DEF Entry
<1>4. Books(e)
    <2>1. row.reason \notin Marked
        BY <1>3 DEF Marked
    <2>2. row.key[1] \notin {"refund", "refund_reversal", "referral_clawback",
                             "referral_clawback_reversal", "referral_recharge"}
        BY <1>3 DEF PurchaseKey
    <2>3. row.amount > 0
        BY <1>1, <1>3
    <2> HIDE DEF b
    <2> QED
        BY <1>1, <1>2, <1>3, <2>1, <2>2, <2>3, PlainBooks
<1>5. Moves(d, e, S, {})
    <2> HIDE DEF S, b
    <2> QED
        BY <1>1, <1>3, GrownMoves
<1>6. \A key : HasKey(e, key) <=> (HasKey(d, key) \/ key = PurchaseKey(t))
    BY <1>1, <1>3, GrownKeys
<1>7. CASE v = None \/ BonusAmount(t) = 0 \/ HasKey(d, BonusKey(t))
    <2>1. Purchased(d, t) = e
        BY <1>7 DEF Purchased, e
    <2> QED
        BY <1>4, <1>5, <1>6, <2>1
<1>8. CASE ~(v = None \/ BonusAmount(t) = 0 \/ HasKey(d, BonusKey(t)))
    <2>1. v \in Users /\ v \in S
        <3>1. d.inviter \in [Users -> Users \cup {None}] /\ Buyer[t] \in Users
            BY <1>1, PaymentsAssumption DEF Sound, Tables
        <3> QED
            BY <1>8, <3>1 DEF Referrer
    <2>2. Cash(v) \in Accounts /\ Cash(v)[1] \in S /\ BonusAmount(t) \in Int /\ BonusAmount(t) > 0
        BY <1>8, <2>1, BonusType, AccountTypes DEF Cash
    <2>3. Purchased(d, t) = f
        BY <1>8 DEF Purchased, e
    <2> HIDE DEF v, S
    <2>4. /\ Sound(f)
          /\ \E x \in Row : /\ Grown(e, f, Cash(v), x)
                            /\ Entry(x, BonusAmount(t), "referral_bonus", BonusKey(t), t)
        <3>1. f = Posted(e, Cash(v), BonusAmount(t), "referral_bonus", BonusKey(t), t)
            OBVIOUS
        <3> HIDE DEF f
        <3> QED
            BY <1>1, <1>2, <2>2, <3>1, ReasonTypes, PostedGrows
    <2> HIDE DEF f
    <2>5. PICK x \in Row : /\ Grown(e, f, Cash(v), x)
                           /\ x.amount = BonusAmount(t) /\ x.reason = "referral_bonus"
                           /\ x.key = BonusKey(t) /\ x.ref = t
        BY <2>4 DEF Entry
    <2>6. BonusHolders(e, t) = {}
        <3>1. ~HasKey(e, BonusKey(t))
            BY <1>6, <1>8 DEF BonusKey, PurchaseKey
        <3>2. \A u \in Users : Cash(u) \in Accounts
            BY AccountTypes
        <3>3. \A u \in Users : ~\E r \in Log(e, Cash(u)) : r.key = BonusKey(t)
            BY <3>1, <3>2, LogSays
        <3>4. BonusHolders(e, t) = {u \in Users : \E r \in Log(e, Cash(u)) : r.key = BonusKey(t)}
            BY LogSays
        <3> QED
            BY <3>3, <3>4
    <2>7. \A k \in RequestKeys : ~HasKey(e, RefundKey(t, k))
        <3>1. \A k \in RequestKeys : ~HasKey(d, RefundKey(t, k))
            BY DEF Books, Linked
        <3> QED
            BY <1>6, <3>1 DEF RefundKey, PurchaseKey
    <2>8. Books(f)
        BY <1>4, <2>1, <2>2, <2>4, <2>5, <2>6, <2>7, BonusBooks
    <2>9. Moves(e, f, S, {})
        BY <2>2, <2>5, GrownMoves
    <2>10. Moves(d, f, S, {})
        BY <1>5, <2>9, MovesTwice
    <2>11. HasKey(f, PurchaseKey(t))
        BY <1>6, <2>9, MovesKeys
    <2> QED
        BY <2>3, <2>8, <2>10, <2>11 DEF S
<1> QED
    BY <1>7, <1>8

\* The row of a refund's debit.
DebitRows(t, k, credits, id) ==
    {r \in Row : /\ r.reason = "refund" /\ r.amount = -credits
                 /\ r.key = RefundKey(t, k) /\ r.ref = id}

\* debit_refund with its clawback, as the commit of a refund leaves them.
LEMMA CommittedBooks ==
    ASSUME NEW d, Books(d), NEW t \in Txns, NEW k \in RequestKeys,
           NEW credits \in Nat \ {0}, NEW id \in Adjustments,
           HasKey(d, PurchaseKey(t)), ~KeyTaken(d, "cash", RefundKey(t, k)),
           \A r \in Log(d, Cash(Buyer[t])) : IsDebit(r) => r.ref # id,
           credits <= Remaining(d, t), credits <= d.balance[Cash(Buyer[t])]
    PROVE  LET f == AfterClawback(Debited(d, t, k, credits, id), t, k) IN
           /\ Books(f)
           /\ Moves(d, f, {Buyer[t]} \cup BonusHolders(d, t), DebitRows(t, k, credits, id))
           /\ \E r \in Log(f, Cash(Buyer[t])) : IsDebit(r) /\ r.ref = id
<1> DEFINE S == {Buyer[t]} \cup BonusHolders(d, t)
           R == DebitRows(t, k, credits, id)
           b == Cash(Buyer[t])
           e == Debited(d, t, k, credits, id)
           f == AfterClawback(e, t, k)
<1>1. /\ Sound(d) /\ b \in Accounts /\ b[1] \in S /\ -credits \in Int /\ -credits < 0
      /\ RefundKey(t, k) \in Keys /\ ClawbackKey(t, k) \in Keys /\ id \in Ids \cup Keys
    BY PaymentsAssumption, AccountTypes, KeyTypes DEF Books, WellKept, Cash
<1>2. /\ Sound(e)
      /\ \E row \in Row : /\ Grown(d, e, b, row)
                          /\ Entry(row, -credits, "refund", RefundKey(t, k), id)
    <2>1. e = Posted(d, b, -credits, "refund", RefundKey(t, k), id)
        BY DEF Debited
    <2> HIDE DEF e, b
    <2> QED
        BY <1>1, <2>1, ReasonTypes, PostedGrows
<1> HIDE DEF e
<1>3. PICK row \in Row : /\ Grown(d, e, b, row)
                         /\ row.amount = -credits /\ row.reason = "refund"
                         /\ row.key = RefundKey(t, k) /\ row.ref = id
    BY <1>2 DEF Entry
<1>4. Remaining(d, t) + row.amount >= 0 /\ d.balance[b] + row.amount >= 0 /\ row.amount < 0
    <2>1. Remaining(d, t) \in Int /\ d.balance[b] \in Int
        BY <1>1, RemainingType DEF Sound, Tables
    <2> HIDE DEF b
    <2> QED
        BY <1>1, <1>3, <2>1 DEF b
<1>5. /\ Debiting(e, t)
      /\ \A r \in Log(e, b) : r.key = RefundKey(t, k) => ~Undone(e.rows[b], "refund", t, r.ref)
      /\ ~HasKey(e, ClawbackKey(t, k)) /\ HasKey(e, RefundKey(t, k))
      /\ BonusHolders(e, t) = BonusHolders(d, t)
    BY <1>2, <1>3, <1>4, DebitBooks
<1>6. Moves(d, e, S, R)
    <2>1. row \in R
        BY <1>3 DEF DebitRows
    <2> HIDE DEF S, R, b
    <2> QED
        BY <1>1, <1>3, <2>1, GrownMoves
<1>7. \E r \in Log(e, b) : IsDebit(r) /\ r.ref = id
    BY <1>3, <1>4 DEF Grown, IsDebit
<1> DEFINE u == BonusHolder(e, t)
           due == ClawbackDue(e, t)
           nothing == \/ BonusHolders(e, t) = {} \/ due <= 0 \/ ~e.exists[u]
                      \/ HasKey(e, ClawbackKey(t, k))
<1>8. CASE nothing
    <2>1. f = e
        BY <1>8 DEF AfterClawback
    <2>2. Emptied(e, t)
        <3> SUFFICES ASSUME HolderThere(e, t), Remaining(e, t) = 0
                     PROVE  ClawedBack(e, t, u) = BonusAmount(t)
            BY DEF Emptied
        <3>1. due <= 0
            BY <1>5, <1>8 DEF HolderThere
        <3>2. RoundHalfUp(BonusAmount(t) * (Credits[t] - 0), Credits[t]) = BonusAmount(t)
                  /\ BonusAmount(t) \in Nat
            BY BonusType, ShareBounds, PaymentsAssumption
        <3>3. due = BonusAmount(t) - ClawedBack(e, t, u)
            BY <3>2 DEF ClawbackDue
        <3>4. ClawedBack(e, t, u) \in Int
            <4>1. u \in Users /\ e \in Tables
                BY <1>2, AccountTypes DEF HolderThere, Sound
            <4>2. e.rows[Cash(u)] \in Seq(Row)
                BY <4>1, AccountTypes, LogType
            <4>3. Sum(Counted(e.rows[Cash(u)], "clawback", t)) \in Int
                BY <4>2, CountedType, SumType
            <4> QED
                BY <4>3, SumsAre
        <3>5. ClawedBack(e, t, u) <= BonusAmount(t)
            BY <1>5 DEF Debiting, Within, HolderThere
        <3> HIDE DEF u, due
        <3> QED
            BY <3>1, <3>2, <3>3, <3>4, <3>5
    <2>3. Books(e)
        BY <1>5, <2>2 DEF Debiting, Books
    <2> QED
        BY <1>6, <1>7, <2>1, <2>3 DEF e
<1>9. CASE ~nothing
    <2>1. HolderThere(e, t) /\ u \in Users /\ Cash(u) \in Accounts
        BY <1>9, AccountTypes DEF HolderThere
    <2>2. Cash(u)[1] \in S
        BY <1>5, <1>9 DEF Cash, BonusHolder
    <2>3. due \in Int /\ due > 0 /\ -due \in Int /\ -due < 0
        <3>1. due \in Int
            BY <1>2, <1>9, ClawbackDueType DEF Sound
        <3> HIDE DEF due
        <3> QED
            BY <1>9, <3>1
    <2>4. f = Posted(e, Cash(u), -due, "referral_clawback", ClawbackKey(t, k), RefundKey(t, k))
        BY <1>9 DEF AfterClawback
    <2> HIDE DEF f, S, R
    <2>5. /\ Sound(f)
          /\ \E x \in Row : /\ Grown(e, f, Cash(u), x)
                            /\ Entry(x, -due, "referral_clawback", ClawbackKey(t, k),
                                     RefundKey(t, k))
        <3>1. RefundKey(t, k) \in Ids \cup Keys
            BY <1>1
        <3> HIDE DEF due, u
        <3> QED
            BY <1>1, <1>2, <2>1, <2>3, <2>4, <3>1, ReasonTypes, PostedGrows
    <2>6. PICK x \in Row : /\ Grown(e, f, Cash(u), x)
                           /\ x.amount = -due /\ x.reason = "referral_clawback"
                           /\ x.key = ClawbackKey(t, k) /\ x.ref = RefundKey(t, k)
        BY <2>5 DEF Entry
    <2>7. Books(f)
        <3>1. x.amount < 0
            BY <2>3, <2>6
        <3> QED
            BY <1>5, <2>1, <2>5, <2>6, <3>1, ClawBooks
    <2>8. Moves(e, f, S, R)
        <3> HIDE DEF u
        <3> QED
            BY <2>1, <2>2, <2>6, GrownMoves
    <2>9. Moves(d, f, S, R)
        BY <1>6, <2>8, MovesTwice
    <2>10. \E r \in Log(f, b) : IsDebit(r) /\ r.ref = id
        BY <1>1, <1>7, <2>8 DEF Moves
    <2> QED
        BY <2>7, <2>9, <2>10 DEF f, S, R, e
<1> QED
    BY <1>8, <1>9

\* The rows of a refund's reversal.
ReversalRows(id) == {r \in Row : r.reason = "refund" /\ r.amount > 0 /\ r.ref = id}

\* reverse_refund with reverse_referral_clawback, once for each refund.
LEMMA ReversedBooks ==
    ASSUME NEW d, Books(d), NEW t \in Txns, NEW id \in Adjustments, DebitsOf(d, t, id) # {},
           ~HasKey(d, RefundReversalKey(t, id)),
           \A r \in Log(d, Cash(Buyer[t])) : IsDebit(r) /\ r.ref = id => r.key[2] = t
    PROVE  LET f == Reversed(d, t, id) IN
           /\ Books(f)
           /\ Moves(d, f, {Buyer[t]} \cup BonusHolders(d, t), ReversalRows(id))
           /\ HasKey(f, RefundReversalKey(t, id))
<1> DEFINE S == {Buyer[t]} \cup BonusHolders(d, t)
           R == ReversalRows(id)
           b == Cash(Buyer[t])
           debit == DebitOf(d, t, id)
           e == Restored(d, t, id)
           f == AfterClawbackReversal(e, t, debit.key, id)
<1>1. /\ Sound(d) /\ b \in Accounts /\ b[1] \in S /\ d \in Tables
      /\ RefundReversalKey(t, id) \in Keys /\ ClawbackReversalKey(t, id) \in Keys
      /\ id \in Ids \cup Keys
    BY PaymentsAssumption, AccountTypes, KeyTypes DEF Books, WellKept, Cash, Sound
<1>2. debit \in Log(d, b) /\ IsDebit(debit) /\ debit.ref = id
    <2> DEFINE i == CHOOSE i \in DebitsOf(d, t, id) : TRUE
    <2>1. i \in DebitsOf(d, t, id)
        OBVIOUS
    <2> HIDE DEF i
    <2>2. i \in DOMAIN d.rows[b] /\ d.rows[b][i].reason = "refund" /\ d.rows[b][i].amount < 0
              /\ d.rows[b][i].ref = id
        BY <2>1 DEF DebitsOf
    <2>3. debit = d.rows[b][i]
        BY DEF DebitOf, i
    <2> HIDE DEF debit, b
    <2> QED
        BY <2>2, <2>3 DEF Log, IsDebit
<1>3. debit \in Row /\ debit.amount < 0 /\ debit.amount \in Int /\ -debit.amount \in Int
          /\ -debit.amount > 0
    <2>1. debit \in Row
        BY <1>1, <1>2, LogType
    <2> HIDE DEF debit
    <2> QED
        BY <1>2, <2>1 DEF Row, IsDebit
<1>4. Takes(debit, "refund", t)
    <2>1. debit.key[2] = t /\ RowShaped(d, b, debit) /\ debit.reason = "refund"
        BY <1>1, <1>2 DEF Books, WellKept, Shaped, IsDebit
    <2> HIDE DEF debit
    <2> QED
        BY <1>3, <2>1 DEF RowShaped, Takes, Of, IsRefundOf
<1>5. e = Posted(d, b, -debit.amount, "refund", RefundReversalKey(t, id), id)
    BY DEF Restored
<1>6. Reversed(d, t, id) = f
    BY DEF Reversed
<1> HIDE DEF debit, e
<1>7. /\ Sound(e)
      /\ \E row \in Row : /\ Grown(d, e, b, row)
                          /\ Entry(row, -debit.amount, "refund", RefundReversalKey(t, id), id)
    <2> HIDE DEF b
    <2> QED
        BY <1>1, <1>3, <1>5, ReasonTypes, PostedGrows
<1>8. PICK row \in Row : /\ Grown(d, e, b, row)
                         /\ row.amount = -debit.amount /\ row.reason = "refund"
                         /\ row.key = RefundReversalKey(t, id) /\ row.ref = id
    BY <1>7 DEF Entry
<1>9. /\ Restoring(e, t, debit.key)
      /\ \E k \in RequestKeys : debit.key = RefundKey(t, k)
      /\ Undone(e.rows[b], "refund", t, id)
      /\ HasKey(e, RefundReversalKey(t, id)) /\ debit \in Log(e, b)
      /\ Remaining(e, t) > 0
      /\ HolderThere(e, t) =>
           \A c \in Log(e, Cash(BonusHolder(e, t))) :
               Takes(c, "clawback", t) /\ c.ref = debit.key =>
                   ~Undone(e.rows[Cash(BonusHolder(e, t))], "clawback", t, debit.key)
    BY <1>2, <1>4, <1>7, <1>8, RestoreBooks
<1>10. PICK k \in RequestKeys : debit.key = RefundKey(t, k)
    BY <1>9
<1>11. Moves(d, e, S, R)
    <2>1. row \in R
        BY <1>3, <1>8 DEF ReversalRows
    <2> HIDE DEF S, R, b
    <2> QED
        BY <1>1, <1>8, <2>1, GrownMoves
<1>12. BonusHolders(e, t) = BonusHolders(d, t)
    <2>1. row.key # BonusKey(t)
        BY <1>8 DEF RefundReversalKey, BonusKey
    <2> QED
        BY <1>1, <1>8, <2>1, HoldersStay
<1> DEFINE u == BonusHolder(e, t)
           h == Cash(u)
           claws == ClawbacksOf(e, t, debit.key)
<1>13. \A c \in Log(e, h) : Takes(c, "clawback", t) /\ c.ref = debit.key => claws # {}
    <2> TAKE c \in Log(e, h)
    <2> HAVE Takes(c, "clawback", t) /\ c.ref = debit.key
    <2>1. PICK i \in DOMAIN e.rows[h] : e.rows[h][i] = c
        BY DEF Log
    <2>2. c.reason = "referral_clawback" /\ c.amount < 0
        BY DEF Takes, Of, IsClawbackOf
    <2>3. i \in claws
        BY <2>1, <2>2 DEF ClawbacksOf
    <2> QED
        BY <2>3
<1>14. HolderThere(e, t) => ~HasKey(e, ClawbackReversalKey(t, id))
    <2> SUFFICES ASSUME HolderThere(e, t), HasKey(e, ClawbackReversalKey(t, id)) PROVE FALSE
        OBVIOUS
    <2>1. HolderThere(d, t)
        <3>1. row.key # BonusKey(t)
            BY <1>8 DEF RefundReversalKey, BonusKey
        <3>2. BonusHolder(e, t) = BonusHolder(d, t)
            BY <1>1, <1>8, <3>1, HoldersStay
        <3> QED
            BY <1>8, <1>12, <3>2 DEF HolderThere, Grown
    <2>2. Matched(d, t)
        BY DEF Books
    <2>3. HasKey(d, ClawbackReversalKey(t, id))
        <3>1. row.key # ClawbackReversalKey(t, id)
            BY <1>8 DEF RefundReversalKey, ClawbackReversalKey
        <3> QED
            BY <1>1, <1>8, <3>1, GrownKeys
    <2> QED
        BY <2>1, <2>2, <2>3 DEF Matched
<1> DEFINE nothing == \/ BonusHolders(e, t) = {} \/ claws = {} \/ ~e.exists[u]
                      \/ HasKey(e, ClawbackReversalKey(t, id))
<1>15. CASE nothing
    <2>1. f = e
        BY <1>15 DEF AfterClawbackReversal
    <2>2. ASSUME HolderThere(e, t), NEW c \in Log(e, h), Takes(c, "clawback", t)
          PROVE  c.ref # debit.key
        BY <1>13, <1>14, <1>15, <2>2 DEF HolderThere
    <2>3. Books(e)
        BY <1>9, <2>2, NothingToGiveBack
    <2> QED
        BY <1>6, <1>9, <1>11, <2>1, <2>3
<1>16. CASE ~nothing
    <2>1. HolderThere(e, t) /\ u \in Users /\ h \in Accounts
        BY <1>16, AccountTypes DEF HolderThere
    <2>2. h[1] \in S
        BY <1>12, <1>16 DEF Cash, BonusHolder
    <2> DEFINE claw == e.rows[h][CHOOSE i \in claws : TRUE]
    <2>3. f = Posted(e, h, -claw.amount, "referral_clawback", ClawbackReversalKey(t, id), debit.key)
        BY <1>16 DEF AfterClawbackReversal
    <2>4. claw \in Log(e, h) /\ claw.reason = "referral_clawback" /\ claw.ref = debit.key
              /\ claw.amount < 0
        <3> DEFINE i == CHOOSE i \in claws : TRUE
        <3>1. i \in claws
            BY <1>16
        <3>2. claw = e.rows[h][i]
            OBVIOUS
        <3> HIDE DEF i, claw
        <3>3. i \in DOMAIN e.rows[h] /\ e.rows[h][i].reason = "referral_clawback"
                  /\ e.rows[h][i].ref = debit.key /\ e.rows[h][i].amount < 0
            BY <3>1 DEF ClawbacksOf
        <3> HIDE DEF h
        <3> QED
            BY <3>2, <3>3 DEF Log
    <2> HIDE DEF f, S, R, claw, h
    <2>5. claw \in Row
        BY <1>7, <2>1, <2>4, LogType DEF Sound
    <2>6. claw.amount \in Int /\ -claw.amount \in Int
        BY <2>5 DEF Row
    <2>7. Takes(claw, "clawback", t)
        BY <1>10, <2>4 DEF Takes, Of, IsClawbackOf, RefundKey
    <2>8. /\ Sound(f)
          /\ \E x \in Row : /\ Grown(e, f, h, x)
                            /\ Entry(x, -claw.amount, "referral_clawback",
                                     ClawbackReversalKey(t, id), debit.key)
        <3>1. debit.key \in Ids \cup Keys
            BY <1>3 DEF Row
        <3> QED
            BY <1>1, <1>7, <2>1, <2>3, <2>6, <3>1, ReasonTypes, PostedGrows
    <2>9. PICK x \in Row : /\ Grown(e, f, h, x)
                           /\ x.amount = -claw.amount /\ x.reason = "referral_clawback"
                           /\ x.key = ClawbackReversalKey(t, id) /\ x.ref = debit.key
        BY <2>8 DEF Entry
    <2>10. Books(f)
        <3>1. ~Undone(e.rows[h], "clawback", t, RefundKey(t, k))
            BY <1>9, <1>10, <2>1, <2>4, <2>7 DEF h
        <3> USE DEF h
        <3> QED
            BY <1>2, <1>4, <1>9, <1>10, <2>1, <2>4, <2>7, <2>8, <2>9, <3>1, GiveBackBooks
    <2>11. Moves(e, f, S, R)
        BY <2>1, <2>2, <2>9, GrownMoves
    <2>12. Moves(d, f, S, R)
        BY <1>11, <2>11, MovesTwice
    <2>13. HasKey(f, RefundReversalKey(t, id))
        BY <1>9, <2>11, MovesKeys
    <2> QED
        BY <1>6, <2>10, <2>12, <2>13 DEF S, R
<1> QED
    BY <1>15, <1>16

-----------------------------------------------------------------------------
(* The requests and Paddle, against the books.                             *)

\* What a request found under the buyer's lock still holds.
Granted(w) ==
    /\ lock[Buyer[req[w].txn]] = w /\ db.exists[Buyer[req[w].txn]]
    /\ req[w].credits <= Remaining(db, req[w].txn)
    /\ req[w].credits <= db.balance[Cash(Buyer[req[w].txn])]
    /\ ~KeyTaken(db, "cash", RefundKey(req[w].txn, req[w].key))

\* No row debits a user for the adjustment.
NoDebit(d, id) == \A a \in Accounts : \A r \in Log(d, a) : IsDebit(r) => r.ref # id

\* The adjustment Paddle created for a request is its own, and has no debit yet.
Created(w) ==
    /\ adj[req[w].id].status # "none" /\ adj[req[w].id].txn = req[w].txn
    /\ adj[req[w].id].amount = MoneyFor(req[w].txn, req[w].credits)
    /\ NoDebit(db, req[w].id)
    /\ \A v \in Workers : v # w => req[v].id # req[w].id

\* The stages at which a request holds the row lock of its buyer.
UnderLock == {"debited", "adjusted"}

\* A request under way asks for credits of a completed purchase, as its stage says.
Asks(w) ==
    /\ req[w].pc # "idle" => req[w].credits > 0 /\ HasKey(db, PurchaseKey(req[w].txn))
    /\ req[w].pc \in UnderLock => Granted(w)
    /\ req[w].pc # "adjusted" => req[w].id = None
    /\ req[w].pc = "adjusted" => Created(w)
Asked == \A w \in Workers : Asks(w)

\* A debit is for the adjustment it names, and only a rejected one is reversed.
Agrees(r) ==
    /\ IsDebit(r) => /\ adj[r.ref].status # "none" /\ adj[r.ref].txn = r.key[2]
                     /\ adj[r.ref].amount = MoneyFor(r.key[2], -r.amount)
    /\ r.reason = "refund" /\ r.amount > 0 => adj[r.ref].status = "rejected"
DebitsAgree == \A a \in Accounts : \A r \in Log(db, a) : Agrees(r)

\* The adjustments Paddle has created: finitely many, so their amounts have a sum.
Existing == {a \in Adjustments : adj[a].status # "none"}

\* What Paddle answered, and what the rows say of it.
Answered ==
    /\ \A a \in Adjustments : adj[a].status = "none" => adj[a] = NoAdjustment
    /\ \A a \in Adjustments : adj[a].acked => adj[a].status = "rejected"
    /\ IsFiniteSet(Existing)
    /\ DebitsAgree

\* Without lost answers every refund at Paddle is debited, in flight or alerted.
Accounted ==
    "answer_lost" \notin Faults =>
        \A a \in Adjustments : adj[a].status # "none" /\ ~adj[a].alerted /\ ~InFlight(a) =>
            DebitsOf(db, adj[a].txn, a) # {}

\* When Paddle decides only what has been committed, a rejection finds its debit.
Patient ==
    "early_rejection" \notin Faults =>
        \A a \in Adjustments :
            /\ adj[a].status \in {"approved", "rejected"} => ~InFlight(a)
            /\ adj[a].acked /\ DebitsOf(db, adj[a].txn, a) # {} => IsReversed(adj[a].txn, a)

\* The inductive invariant of the theorems below.
PInv == IInv /\ Books(db) /\ Asked /\ Answered /\ Accounted /\ Patient

-----------------------------------------------------------------------------
\* An account nobody moved says the same of its purchase as before.
LEMMA MovesElsewhere ==
    ASSUME NEW d, NEW e, NEW S, NEW R, Moves(d, e, S, R), Books(e),
           NEW t \in Txns, Buyer[t] \notin S
    PROVE  /\ e.exists[Buyer[t]] = d.exists[Buyer[t]]
           /\ e.balance[Cash(Buyer[t])] = d.balance[Cash(Buyer[t])]
           /\ Remaining(e, t) = Remaining(d, t)
           /\ \A k : KeyTaken(e, "cash", RefundKey(t, k)) => KeyTaken(d, "cash", RefundKey(t, k))
<1> DEFINE b == Cash(Buyer[t])
<1>1. b \in Accounts /\ b[1] \notin S /\ Buyer[t] \in Users /\ b = <<Buyer[t], "cash">>
    BY AccountTypes DEF Cash
<1>2. e.exists[Buyer[t]] = d.exists[Buyer[t]]
    BY <1>1 DEF Moves
<1>3. e.rows[b] = d.rows[b] /\ e.balance[b] = d.balance[b] /\ Log(e, b) = Log(d, b)
    <2> HIDE DEF b
    <2> QED
        BY <1>1 DEF Moves
<1>4. Remaining(e, t) = Remaining(d, t)
    BY <1>3 DEF Remaining, Refundable
<1>5. ASSUME NEW k, KeyTaken(e, "cash", RefundKey(t, k))
      PROVE  KeyTaken(d, "cash", RefundKey(t, k))
    <2>1. PICK u \in Users : \E r \in Log(e, <<u, "cash">>) : r.key = RefundKey(t, k)
        BY <1>5, LogSays
    <2>2. PICK r \in Log(e, <<u, "cash">>) : r.key = RefundKey(t, k)
        BY <2>1
    <2>3. RowShaped(e, <<u, "cash">>, r)
        BY AccountTypes DEF Books, WellKept, Shaped, Cash
    <2>4. <<u, "cash">> = b
        BY <2>2, <2>3, RowSays DEF RefundRow
    <2>5. r \in Log(d, <<Buyer[t], "cash">>)
        BY <1>1, <1>3, <2>4
    <2> QED
        BY <1>1, <2>2, <2>5, LogSays
<1> QED
    BY <1>2, <1>3, <1>4, <1>5

\* The debits of a purchase stay, and no other comes but those of R.
LEMMA MovesDebits ==
    ASSUME NEW d, NEW e, NEW S, NEW R, Moves(d, e, S, R), NEW t \in Txns, NEW id
    PROVE  /\ DebitsOf(d, t, id) # {} => DebitsOf(e, t, id) # {}
           /\ DebitsOf(e, t, id) # {} =>
                 DebitsOf(d, t, id) # {} \/ \E r \in R : IsDebit(r) /\ r.ref = id
<1> DEFINE b == Cash(Buyer[t])
<1>1. b \in Accounts
    BY AccountTypes
<1>2. DebitsOf(d, t, id) # {} <=> \E r \in Log(d, b) : IsDebit(r) /\ r.ref = id
    BY LogSays
<1>3. DebitsOf(e, t, id) # {} <=> \E r \in Log(e, b) : IsDebit(r) /\ r.ref = id
    BY LogSays
<1>4. Log(d, b) \subseteq Log(e, b)
    BY <1>1 DEF Moves
<1>5. \A r \in Log(e, b) : IsDebit(r) => r \in Log(d, b) \cup R
    BY <1>1 DEF Moves, IsDebit
<1> QED
    BY <1>2, <1>3, <1>4, <1>5

\* An adjustment without a debit gets none but from R.
LEMMA MovesNoDebit ==
    ASSUME NEW d, NEW e, NEW S, NEW R, Moves(d, e, S, R), NEW id, NoDebit(d, id),
           \A r \in R : IsDebit(r) => r.ref # id
    PROVE  NoDebit(e, id)
<1> SUFFICES ASSUME NEW a \in Accounts, NEW r \in Log(e, a), IsDebit(r) PROVE r.ref # id
    BY DEF NoDebit
<1>1. r \in Log(d, a) \cup R
    BY DEF Moves, IsDebit
<1> QED
    BY <1>1 DEF NoDebit

\* What Paddle has of an adjustment, it keeps, and a rejection is final.
Kept(a) ==
    /\ adj[a].status # "none" =>
          adj'[a].status # "none" /\ adj'[a].txn = adj[a].txn /\ adj'[a].amount = adj[a].amount
    /\ adj[a].status = "rejected" => adj'[a].status = "rejected"

\* A request keeps what it was granted while others write.
LEMMA AsksStays ==
    ASSUME IInv, NEW v \in Workers, Asks(v), NEW S, NEW R, Moves(db, db', S, R), Books(db'),
           req'[v] = req[v],
           req[v].pc \in UnderLock =>
              /\ Buyer[req[v].txn] \notin S
              /\ lock'[Buyer[req[v].txn]] = lock[Buyer[req[v].txn]],
           req[v].pc = "adjusted" =>
              /\ \A r \in R : IsDebit(r) => r.ref # req[v].id
              /\ \A u \in Workers : u # v => req'[u].id # req[v].id,
           \A a \in Adjustments : Kept(a)
    PROVE  Asks(v)'
<1>1. ASSUME req[v].pc # "idle" PROVE req[v].txn \in Txns
    BY <1>1 DEF IInv, Requests
<1>2. \A key : HasKey(db, key) => HasKey(db', key)
    BY MovesKeys
<1>3. ASSUME req'[v].pc # "idle"
      PROVE  req'[v].credits > 0 /\ HasKey(db', PurchaseKey(req'[v].txn))
    BY <1>2, <1>3 DEF Asks
<1>4. ASSUME req'[v].pc \in UnderLock PROVE Granted(v)'
    <2> DEFINE t == req[v].txn
               k == req[v].key
    <2>1. Granted(v) /\ t \in Txns /\ Buyer[t] \notin S
              /\ lock'[Buyer[t]] = lock[Buyer[t]]
        BY <1>1, <1>4 DEF Asks, UnderLock
    <2> HIDE DEF t, k
    <2>2. /\ db'.exists[Buyer[t]] = db.exists[Buyer[t]]
          /\ db'.balance[Cash(Buyer[t])] = db.balance[Cash(Buyer[t])]
          /\ Remaining(db', t) = Remaining(db, t)
          /\ KeyTaken(db', "cash", RefundKey(t, k)) => KeyTaken(db, "cash", RefundKey(t, k))
        BY <2>1, MovesElsewhere
    <2> USE DEF t, k
    <2> QED
        BY <2>1, <2>2 DEF Granted
<1>5. ASSUME req'[v].pc = "adjusted" PROVE Created(v)'
    <2>1. Created(v) /\ req[v].id \in Adjustments
        BY <1>5 DEF Asks, IInv, Requests
    <2>2. NoDebit(db', req[v].id)
        BY <1>5, <2>1, MovesNoDebit DEF Created
    <2>3. Kept(req[v].id)
        BY <2>1
    <2> QED
        BY <1>5, <2>1, <2>2, <2>3 DEF Created, Kept
<1>6. req'[v].pc # "adjusted" => req'[v].id = None
    BY DEF Asks
<1> QED
    BY <1>3, <1>4, <1>5, <1>6 DEF Asks

\* Every refund's row names an adjustment.
LEMMA RefundRefs ==
    ASSUME NEW d, Books(d), NEW a \in Accounts, NEW r \in Log(d, a), r.reason = "refund"
    PROVE  r.ref \in Adjustments
<1>1. RowShaped(d, a, r)
    BY DEF Books, WellKept, Shaped
<1> QED
    BY <1>1 DEF RowShaped, RefundRow

\* What Paddle knows agrees with the ledger while others write.
LEMMA AgreesStays ==
    ASSUME Books(db), DebitsAgree, NEW S, NEW R, Moves(db, db', S, R), \A r \in R : Agrees(r)',
           \A a \in Adjustments : Kept(a)
    PROVE  DebitsAgree'
<1> SUFFICES ASSUME NEW a \in Accounts, NEW r \in Log(db', a) PROVE Agrees(r)'
    BY DEF DebitsAgree
<1>1. r.reason = "refund" => r \in Log(db, a) \cup R
    BY DEF Moves
<1>2. CASE r \in R
    BY <1>2
<1>3. CASE r \in Log(db, a) /\ r.reason = "refund"
    <2>1. Agrees(r) /\ Kept(r.ref)
        BY <1>3, RefundRefs DEF DebitsAgree
    <2> QED
        BY <2>1 DEF Agrees, Kept
<1>4. CASE r.reason # "refund"
    BY <1>4 DEF Agrees, IsDebit
<1> QED
    BY <1>1, <1>2, <1>3, <1>4

\* A debit is not given to an adjustment, or taken from it, but by R.
LEMMA DebitedStays ==
    ASSUME IInv, NEW S, NEW R, Moves(db, db', S, R), NEW a \in Adjustments,
           adj[a].status # "none", Kept(a)
    PROVE  /\ adj[a].txn \in Txns
           /\ DebitsOf(db, adj[a].txn, a) # {} => DebitsOf(db', adj'[a].txn, a) # {}
           /\ DebitsOf(db', adj'[a].txn, a) # {} =>
                 DebitsOf(db, adj[a].txn, a) # {} \/ \E r \in R : IsDebit(r) /\ r.ref = a
           /\ IsReversed(adj[a].txn, a) => HasKey(db', RefundReversalKey(adj'[a].txn, a))
<1>1. adj[a].txn \in Txns /\ adj'[a].txn = adj[a].txn
    BY DEF IInv, AtPaddle, Kept
<1>2. /\ DebitsOf(db, adj[a].txn, a) # {} => DebitsOf(db', adj[a].txn, a) # {}
      /\ DebitsOf(db', adj[a].txn, a) # {} =>
            DebitsOf(db, adj[a].txn, a) # {} \/ \E r \in R : IsDebit(r) /\ r.ref = a
    BY <1>1, MovesDebits
<1>3. \A key : HasKey(db, key) => HasKey(db', key)
    BY MovesKeys
<1> QED
    BY <1>1, <1>2, <1>3 DEF IsReversed

\* A writer that moves no refund keeps the whole invariant.
LEMMA WriterStep ==
    ASSUME PInv, IInv', NEW S, Moves(db, db', S, {}), Books(db'), UNCHANGED <<lock, req, adj>>,
           \A u \in S : lock[u] = None
    PROVE  PInv'
<1>1. \A a \in Adjustments : Kept(a)
    BY DEF Kept
<1>2. Asked'
    <2> SUFFICES ASSUME NEW v \in Workers PROVE Asks(v)'
        BY DEF Asked
    <2>1. req[v].pc \in UnderLock => Buyer[req[v].txn] \notin S
        BY PaymentsAssumption DEF PInv, Asked, Asks, Granted
    <2>2. req[v].pc = "adjusted" => \A u \in Workers : u # v => req'[u].id # req[v].id
        BY DEF PInv, Asked, Asks, Created
    <2>3. Asks(v) /\ IInv
        BY DEF PInv, Asked
    <2> QED
        BY <1>1, <2>1, <2>2, <2>3, AsksStays
<1>3. Answered'
    <2>1. Existing' = Existing
        BY DEF Existing
    <2>2. DebitsAgree'
        BY <1>1, AgreesStays DEF PInv, Answered
    <2> QED
        BY <2>1, <2>2 DEF PInv, Answered
<1>4. ASSUME NEW a \in Adjustments, adj[a].status # "none"
      PROVE  /\ DebitsOf(db', adj[a].txn, a) # {} <=> DebitsOf(db, adj[a].txn, a) # {}
             /\ IsReversed(adj[a].txn, a) => HasKey(db', RefundReversalKey(adj[a].txn, a))
    BY <1>1, <1>4, DebitedStays DEF PInv
<1>5. Accounted'
    BY <1>4 DEF PInv, Accounted, InFlight
<1>6. Patient'
    <2>1. \A a \in Adjustments : adj[a].acked => adj[a].status # "none"
        BY DEF PInv, Answered
    <2> QED
        BY <1>4, <2>1 DEF PInv, Patient, InFlight, IsReversed
<1> QED
    BY <1>2, <1>3, <1>5, <1>6 DEF PInv

\* A step that changes no table, no request and no adjustment keeps it too.
LEMMA QuietStep ==
    ASSUME PInv, IInv', UNCHANGED <<db, lock, req, adj>>
    PROVE  PInv'
<1>1. Moves(db, db', {}, {})
    BY MovesNot
<1>2. Books(db')
    BY DEF PInv
<1> QED
    BY <1>1, <1>2, WriterStep

-----------------------------------------------------------------------------
(* The books are in order at the start.                                    *)

\* The users start with their opening balances, and nobody asks Paddle for anything.
LEMMA InitPInv == Init => PInv
<1> SUFFICES ASSUME Init PROVE PInv
    OBVIOUS
<1>1. IInv /\ Sound(db) /\ db \in Tables
    BY InitIInv DEF IInv, Sound
<1>2. \A a \in Accounts : \A i \in DOMAIN db.rows[a] :
            /\ db.rows[a][i].reason = "admin_adjustment"
            /\ db.rows[a][i].key[1] = "admin_adjustment"
    BY DEF Init, AdjustmentKey
<1>3. \A a \in Accounts : \A r \in Log(db, a) :
            r.reason = "admin_adjustment" /\ r.key[1] = "admin_adjustment"
    BY <1>2 DEF Log
<1>4. \A key : key[1] # "admin_adjustment" => ~HasKey(db, key)
    BY <1>2 DEF HasKey
<1>5. \A t \in Txns : BonusHolders(db, t) = {}
    <2> TAKE t \in Txns
    <2>1. BonusKey(t)[1] # "admin_adjustment"
        BY DEF BonusKey
    <2>2. \A u \in Users : \A r \in Log(db, Cash(u)) : r.key # BonusKey(t)
        BY <1>3, <2>1, AccountTypes
    <2> QED
        BY <2>2, LogSays
<1>6. WellKept(db)
    <2>1. Shaped(db)
        BY <1>3 DEF Shaped, RowShaped
    <2>2. RefsOnce(db)
        BY <1>2 DEF RefsOnce, Marked
    <2>3. DebitsOnce(db)
        BY <1>3 DEF DebitsOnce, IsDebit
    <2>4. Paired(db)
        BY <1>3 DEF Paired, Marked
    <2>5. AllTallied(db)
        <3> SUFFICES ASSUME NEW a \in Accounts, NEW t \in Txns \cup {None},
                            NEW kind \in {"refund", "clawback", "all"}
                     PROVE  Tallied(db.rows[a], kind, t)
            BY DEF AllTallied
        <3>1. \A i \in DOMAIN db.rows[a] : ~Of(db.rows[a][i], kind, t)
            BY <1>2 DEF Of, IsRefundOf, IsClawbackOf
        <3>2. Counted(db.rows[a], kind, t) = Open(db.rows[a], kind, t)
            BY <3>1 DEF Counted, Open
        <3> QED
            BY <3>2 DEF Tallied
    <2> QED
        BY <1>1, <2>1, <2>2, <2>3, <2>4, <2>5 DEF WellKept
<1>7. Linked(db)
    BY <1>4 DEF Linked, ClawbackKey, RefundKey
<1>8. Overdraft(db)
    <2> SUFFICES ASSUME NEW u \in Users
                 PROVE  db.balance[Gift(u)] >= 0 /\ db.balance[Cash(u)] >= AllClawed(db, u)
        BY DEF Overdraft
    <2>1. Cash(u) \in Accounts /\ Gift(u) \in Accounts /\ Opening[u] \in Nat
        BY AccountTypes, PaymentsAssumption
    <2>2. db.balance[Gift(u)] = 0
        BY <2>1 DEF Init, Gift
    <2>3. db.balance[Cash(u)] = Opening[u]
        BY <2>1 DEF Init, Cash
    <2>4. AllClawed(db, u) \in Int /\ AllClawed(db, u) <= 0
        <3>1. db.rows[Cash(u)] \in Seq(Row)
            BY <1>1, <2>1, LogType
        <3>2. Tallied(db.rows[Cash(u)], "all", None)
            BY <1>6, <2>1 DEF WellKept, AllTallied
        <3> QED
            BY <3>1, <3>2, TalliedBounds DEF AllClawed
    <2> QED
        BY <2>1, <2>2, <2>3, <2>4
<1>9. ASSUME NEW t \in Txns PROVE Within(db, t) /\ Matched(db, t) /\ Emptied(db, t)
    <2>1. \A k \in RequestKeys : ~HasKey(db, RefundKey(t, k))
        BY <1>4 DEF RefundKey
    <2>2. Remaining(db, t) = Credits[t] /\ Credits[t] \in Nat
        BY <1>6, <2>1, Untouched, PaymentsAssumption
    <2> QED
        BY <1>5, <2>2 DEF Within, Matched, Emptied, HolderThere
<1>10. Books(db)
    BY <1>6, <1>7, <1>8, <1>9 DEF Books
<1>11. Asked
    BY DEF Init, Idle, Asked, Asks, UnderLock
<1>12. Answered
    <2>1. Existing = {}
        BY DEF Init, NoAdjustment, Existing
    <2>2. IsFiniteSet(Existing)
        BY <2>1, FS_EmptySet
    <2>3. DebitsAgree
        BY <1>3 DEF DebitsAgree, Agrees, IsDebit
    <2> QED
        BY <2>2, <2>3 DEF Init, NoAdjustment, Answered
<1>13. Accounted /\ Patient
    BY DEF Init, NoAdjustment, Accounted, Patient
<1> QED
    BY <1>1, <1>10, <1>11, <1>12, <1>13 DEF PInv

-----------------------------------------------------------------------------
(* Every step keeps the books and what is known of them.                   *)

\* The writers that refund nothing: purchases, adjustments and deletions.
LEMMA WriterSteps ==
    ASSUME PInv, IInv',
           \/ \E t \in Txns : PurchaseWebhook(t)
           \/ \E u \in Users, bucket \in Buckets, amount \in AdjustAmounts, k \in AdjustKeys :
                  AdminAdjusts(u, bucket, amount, k)
           \/ \E u \in Deletable : DeletesAccount(u) \/ OpsPurgeDeletes(u)
    PROVE  PInv'
<1>1. Books(db) /\ db \in Tables
    BY DEF PInv, IInv, Sound
<1>2. ASSUME NEW t \in Txns, PurchaseWebhook(t) PROVE PInv'
    <2>1. UNCHANGED <<lock, req, adj>>
        BY <1>2 DEF PurchaseWebhook
    <2>2. CASE db' = db
        BY <2>1, <2>2, QuietStep
    <2>3. CASE db' # db
        <3> DEFINE S == {Buyer[t]} \cup {v \in Users : db.inviter[Buyer[t]] = v}
        <3>1. /\ Free(Buyer[t]) /\ ReferrerFree(Buyer[t]) /\ ~HasKey(db, PurchaseKey(t))
              /\ db' = Purchased(db, t)
            BY <1>2, <2>3 DEF PurchaseWebhook
        <3>2. Books(Purchased(db, t)) /\ Moves(db, Purchased(db, t), S, {})
            BY <1>1, <3>1, PurchasedBooks
        <3>3. \A u \in S : lock[u] = None
            BY <3>1 DEF Free, ReferrerFree
        <3> HIDE DEF S
        <3>4. Books(db') /\ Moves(db, db', S, {})
            BY <3>1, <3>2
        <3> QED
            BY <2>1, <3>3, <3>4, WriterStep
    <2> QED
        BY <2>2, <2>3
<1>3. ASSUME NEW u \in Users, NEW bucket \in Buckets, NEW amount \in AdjustAmounts,
             NEW k \in AdjustKeys, AdminAdjusts(u, bucket, amount, k)
      PROVE  PInv'
    <2> DEFINE account == <<u, bucket>>
    <2>1. account \in Accounts /\ account[1] = u /\ amount \in Int /\ AdjustmentKey(k) \in Keys
              /\ AdjustmentKey(k)[1] = "admin_adjustment"
        BY PaymentsAssumption, KeyTypes DEF Accounts, AdjustmentKey
    <2>2. amount > 0 \/ db.balance[account] + amount >= 0
        BY <1>3 DEF AdminAdjusts, CanPost
    <2>3. db' = Posted(db, account, amount, "admin_adjustment", AdjustmentKey(k), None)
              /\ lock[u] = None /\ UNCHANGED <<lock, req, adj>>
        BY <1>3 DEF AdminAdjusts, Free
    <2> HIDE DEF account
    <2>4. Books(db') /\ Moves(db, db', {account[1]}, {})
        BY <1>1, <2>1, <2>2, <2>3, AdjustedBooks
    <2> QED
        BY <2>1, <2>3, <2>4, WriterStep
<1>4. ASSUME NEW u \in Deletable, DeletesAccount(u) PROVE PInv'
    <2> DEFINE cash == db.balance[Cash(u)]
               paid == Posted(db, Cash(u), -cash, "relinquish", RelinquishKey(u), None)
               before == IF cash = 0 THEN db ELSE paid
    <2>1. u \in Users /\ Cash(u) \in Accounts /\ Cash(u)[1] = u /\ cash \in Int /\ -cash \in Int
              /\ RelinquishKey(u) \in Keys /\ RelinquishKey(u)[1] = "relinquish"
        BY <1>1, PaymentsAssumption, AccountTypes, KeyTypes DEF Tables, Cash, RelinquishKey
    <2>2. db' = Purged(before, u) /\ lock[u] = None /\ UNCHANGED <<lock, req, adj>>
        BY <1>4 DEF DeletesAccount, PurgeFree, Free
    <2>3. Books(before) /\ Moves(db, before, {u}, {})
        <3>1. Books(paid) /\ Moves(db, paid, {Cash(u)[1]}, {})
            <4>1. db.balance[Cash(u)] + -cash >= 0
                BY <2>1
            <4> HIDE DEF cash
            <4> QED
                BY <1>1, <2>1, <4>1, AdjustedBooks
        <3>2. Moves(db, db, {u}, {})
            BY MovesNot
        <3> HIDE DEF paid
        <3> QED
            BY <1>1, <2>1, <3>1, <3>2
    <2> HIDE DEF before
    <2>4. Books(db') /\ Moves(before, db', {u}, {})
        BY <2>1, <2>2, <2>3, PurgedBooks
    <2>5. Moves(db, db', {u}, {})
        BY <2>3, <2>4, MovesTwice
    <2> QED
        BY <2>2, <2>4, <2>5, WriterStep
<1>5. ASSUME NEW u \in Deletable, OpsPurgeDeletes(u) PROVE PInv'
    <2>1. u \in Users
        BY PaymentsAssumption
    <2>2. lock[u] = None /\ UNCHANGED <<lock, req, adj>> /\ (db' = db \/ db' = Purged(db, u))
        BY <1>5 DEF OpsPurgeDeletes, PurgeFree, Free
    <2>3. Books(db') /\ Moves(db, db', {u}, {})
        BY <1>1, <2>1, <2>2, PurgedBooks, MovesNot
    <2> QED
        BY <2>2, <2>3, WriterStep
<1> QED
    BY <1>2, <1>3, <1>4, <1>5

\* The steps that write nothing a refund reads.
LEMMA QuietSteps ==
    ASSUME PInv, IInv',
           \/ \E t \in Txns : PaddleCompletes(t)
           \/ \E t \in Aging : WindowCloses(t)
           \/ \E u \in Deletable : OpsPurgeChecks(u) \/ OpsPurgeFails(u)
           \/ UNCHANGED vars
    PROVE  PInv'
<1>1. UNCHANGED <<db, lock, req, adj>>
    BY DEF PaddleCompletes, WindowCloses, OpsPurgeChecks, OpsPurgeFails, vars
<1> QED
    BY <1>1, QuietStep

\* Paddle decides on an adjustment whose request has ended, or early.
LEMMA DecidesStep ==
    ASSUME PInv, IInv', NEW a \in Adjustments, PaddleDecides(a)
    PROVE  PInv'
<1>1. PICK status \in {"approved", "rejected"} : adj' = [adj EXCEPT ![a].status = status]
    BY DEF PaddleDecides
<1>2. /\ UNCHANGED <<db, lock, req>> /\ adj[a].status = "pending" /\ ~adj[a].acked
      /\ "early_rejection" \in Faults \/ ~InFlight(a)
    BY DEF PaddleDecides, PInv, Answered, InFlight
<1>3. /\ \A b \in Adjustments : b # a => adj'[b] = adj[b]
      /\ adj'[a].status = status /\ adj'[a].txn = adj[a].txn /\ adj'[a].amount = adj[a].amount
      /\ adj'[a].acked = adj[a].acked /\ adj'[a].alerted = adj[a].alerted
    BY <1>1 DEF PInv, IInv, AtPaddle, Adjustment
<1>4. \A b \in Adjustments : Kept(b)
    BY <1>2, <1>3 DEF Kept
<1>5. Moves(db, db', {}, {}) /\ Books(db')
    BY <1>2, MovesNot DEF PInv
<1>6. Asked'
    <2> SUFFICES ASSUME NEW v \in Workers PROVE Asks(v)'
        BY DEF Asked
    <2>1. req[v].pc = "adjusted" => \A u \in Workers : u # v => req'[u].id # req[v].id
        BY <1>2 DEF PInv, Asked, Asks, Created
    <2>2. Asks(v) /\ IInv
        BY DEF PInv, Asked
    <2> QED
        BY <1>2, <1>4, <1>5, <2>1, <2>2, AsksStays
<1>7. Answered'
    <2>1. Existing' = Existing
        BY <1>2, <1>3 DEF Existing
    <2>2. DebitsAgree'
        BY <1>4, <1>5, AgreesStays DEF PInv, Answered
    <2>3. \A b \in Adjustments : /\ adj'[b].status = "none" => adj'[b] = NoAdjustment
                                 /\ adj'[b].acked => adj'[b].status = "rejected"
        BY <1>2, <1>3 DEF PInv, Answered
    <2> QED
        BY <2>1, <2>2, <2>3 DEF PInv, Answered
<1>8. Accounted'
    BY <1>2, <1>3 DEF PInv, Accounted, InFlight
<1>9. Patient'
    BY <1>2, <1>3 DEF PInv, Patient, InFlight, IsReversed
<1> QED
    BY <1>5, <1>6, <1>7, <1>8, <1>9 DEF PInv

\* adjustment.updated: the debit is restored when it is there, once.
LEMMA RejectsStep ==
    ASSUME PInv, IInv', NEW a \in Adjustments, RejectionWebhook(a)
    PROVE  PInv'
<1> DEFINE t == adj[a].txn
<1>1. PICK acked \in BOOLEAN : adj' = [adj EXCEPT ![a].acked = acked]
    BY DEF RejectionWebhook
<1>2. UNCHANGED <<lock, req>> /\ adj[a].status = "rejected" /\ t \in Txns
    BY DEF RejectionWebhook, PInv, IInv, AtPaddle
<1>3. /\ \A b \in Adjustments : b # a => adj'[b] = adj[b]
      /\ adj'[a].status = adj[a].status /\ adj'[a].txn = t /\ adj'[a].amount = adj[a].amount
      /\ adj'[a].alerted = adj[a].alerted
    BY <1>1 DEF PInv, IInv, AtPaddle, Adjustment
<1>4. \A b \in Adjustments : Kept(b)
    BY <1>3 DEF Kept
<1> DEFINE S == {Buyer[t]} \cup BonusHolders(db, t)
           R == ReversalRows(a)
<1>5. /\ Books(db')
      /\ \/ Moves(db, db', {}, {}) /\ db' = db
         \/ Moves(db, db', S, R) /\ \A u \in S : lock[u] = None
      /\ DebitsOf(db, t, a) # {} => HasKey(db', RefundReversalKey(t, a))
    <2>1. CASE db' = db
        <3>1. DebitsOf(db, t, a) # {} => HasKey(db, RefundReversalKey(t, a))
            <4>1. CASE HasKey(db, RefundReversalKey(t, a))
                BY <4>1
            <4>2. CASE ~HasKey(db, RefundReversalKey(t, a)) /\ DebitsOf(db, t, a) # {}
                <5>1. /\ Books(db)
                      /\ \A r \in Log(db, Cash(Buyer[t])) : IsDebit(r) /\ r.ref = a => r.key[2] = t
                    BY <1>2, AccountTypes DEF PInv, Answered, DebitsAgree, Agrees
                <5>2. HasKey(Reversed(db, t, a), RefundReversalKey(t, a))
                    BY <1>2, <4>2, <5>1, ReversedBooks
                <5>3. db' = Reversed(db, t, a)
                    BY <4>2 DEF RejectionWebhook
                <5> QED
                    BY <2>1, <5>2, <5>3
            <4> QED
                BY <4>1, <4>2
        <3>2. Books(db') /\ Moves(db, db', {}, {})
            BY <2>1, MovesNot DEF PInv
        <3> QED
            BY <2>1, <3>1, <3>2
    <2>2. CASE db' # db
        <3>1. /\ DebitsOf(db, t, a) # {} /\ ~HasKey(db, RefundReversalKey(t, a))
              /\ Free(Buyer[t]) /\ HolderFree(t) /\ db' = Reversed(db, t, a)
            BY <2>2 DEF RejectionWebhook
        <3>2. \A r \in Log(db, Cash(Buyer[t])) : IsDebit(r) /\ r.ref = a => r.key[2] = t
            BY <1>2, AccountTypes DEF PInv, Answered, DebitsAgree, Agrees
        <3>3. /\ Books(Reversed(db, t, a)) /\ Moves(db, Reversed(db, t, a), S, R)
              /\ HasKey(Reversed(db, t, a), RefundReversalKey(t, a))
            <4>1. Books(db)
                BY DEF PInv
            <4> HIDE DEF t
            <4> QED
                BY <1>2, <3>1, <3>2, <4>1, ReversedBooks
        <3>4. \A u \in S : lock[u] = None
            BY <3>1 DEF Free, HolderFree
        <3> HIDE DEF S, R, t
        <3> QED
            BY <3>1, <3>3, <3>4
    <2> QED
        BY <2>1, <2>2
<1> HIDE DEF S, R
<1>6. PICK Q, P : /\ Moves(db, db', Q, P) /\ \A u \in Q : lock[u] = None
                  /\ P = {} \/ P = R
    BY <1>5
<1>7. \A r \in P : ~IsDebit(r) /\ r.ref = a /\ r.reason = "refund"
    <2>1. \A r \in R : r.amount \in Int /\ r.amount > 0 /\ r.ref = a /\ r.reason = "refund"
        BY DEF R, ReversalRows, Row
    <2>2. \A r \in R : ~IsDebit(r)
        BY <2>1 DEF IsDebit
    <2> QED
        BY <1>6, <2>1, <2>2
<1>8. Asked'
    <2> SUFFICES ASSUME NEW v \in Workers PROVE Asks(v)'
        BY DEF Asked
    <2>1. req[v].pc \in UnderLock => Buyer[req[v].txn] \notin Q
        BY <1>6, PaymentsAssumption DEF PInv, Asked, Asks, Granted
    <2>2. req[v].pc = "adjusted" => \A u \in Workers : u # v => req'[u].id # req[v].id
        BY <1>2 DEF PInv, Asked, Asks, Created
    <2>3. Asks(v) /\ IInv
        BY DEF PInv, Asked
    <2> QED
        BY <1>2, <1>4, <1>5, <1>6, <1>7, <2>1, <2>2, <2>3, AsksStays
<1>9. Answered'
    <2>1. Existing' = Existing
        BY <1>2, <1>3 DEF Existing
    <2>2. \A r \in P : Agrees(r)'
        BY <1>2, <1>3, <1>7 DEF Agrees
    <2>3. DebitsAgree'
        BY <1>4, <1>6, <2>2, AgreesStays DEF PInv, Answered
    <2>4. \A b \in Adjustments : /\ adj'[b].status = "none" => adj'[b] = NoAdjustment
                                 /\ adj'[b].acked => adj'[b].status = "rejected"
        BY <1>2, <1>3 DEF PInv, Answered
    <2> QED
        BY <2>1, <2>3, <2>4 DEF PInv, Answered
<1>10. ASSUME NEW b \in Adjustments, adj[b].status # "none"
       PROVE  /\ adj'[b].txn = adj[b].txn /\ adj'[b].status = adj[b].status
              /\ adj'[b].alerted = adj[b].alerted /\ (b # a => adj'[b].acked = adj[b].acked)
              /\ DebitsOf(db', adj'[b].txn, b) # {} <=> DebitsOf(db, adj[b].txn, b) # {}
              /\ IsReversed(adj[b].txn, b) => HasKey(db', RefundReversalKey(adj[b].txn, b))
    <2>1. Kept(b) /\ IInv /\ adj'[b].txn = adj[b].txn /\ adj'[b].status = adj[b].status
              /\ adj'[b].alerted = adj[b].alerted /\ (b # a => adj'[b].acked = adj[b].acked)
        BY <1>3, <1>4 DEF PInv
    <2>2. /\ DebitsOf(db, adj[b].txn, b) # {} => DebitsOf(db', adj'[b].txn, b) # {}
          /\ DebitsOf(db', adj'[b].txn, b) # {} =>
                DebitsOf(db, adj[b].txn, b) # {} \/ \E r \in P : IsDebit(r) /\ r.ref = b
          /\ IsReversed(adj[b].txn, b) => HasKey(db', RefundReversalKey(adj'[b].txn, b))
        BY <1>6, <1>10, <2>1, DebitedStays
    <2> QED
        BY <1>7, <2>1, <2>2
<1>11. \A b \in Adjustments : adj[b].status = "none" <=> adj'[b].status = "none"
    BY <1>3
<1>12. Accounted'
    BY <1>2, <1>10, <1>11 DEF PInv, Accounted, InFlight
<1>13. Patient'
    <2> SUFFICES ASSUME "early_rejection" \notin Faults, NEW b \in Adjustments
                 PROVE  /\ adj'[b].status \in {"approved", "rejected"} => ~InFlight(b)'
                        /\ adj'[b].acked /\ DebitsOf(db', adj'[b].txn, b) # {} =>
                              HasKey(db', RefundReversalKey(adj'[b].txn, b))
        BY DEF Patient, IsReversed
    <2>1. adj'[b].status \in {"approved", "rejected"} => ~InFlight(b)'
        BY <1>2, <1>10, <1>11 DEF PInv, Patient, InFlight
    <2>2. adj'[b].acked => adj[b].status # "none"
        BY <1>11, <1>9 DEF Answered
    <2>3. CASE b = a
        BY <1>2, <1>5, <1>10, <2>1, <2>3
    <2>4. CASE b # a
        BY <1>10, <2>1, <2>2, <2>4 DEF PInv, Patient
    <2> QED
        BY <2>3, <2>4
<1> QED
    BY <1>5, <1>8, <1>9, <1>12, <1>13 DEF PInv

\* The other requests keep what they were granted while one ends, commits or
\* goes on: no two hold one row.
LEMMA OthersStay ==
    ASSUME PInv, NEW w \in Workers, NEW v \in Workers, v # w, NEW S, NEW R,
           Moves(db, db', S, R), Books(db'), req'[v] = req[v],
           req[v].pc \in UnderLock =>
              /\ Buyer[req[v].txn] \notin S
              /\ lock'[Buyer[req[v].txn]] = lock[Buyer[req[v].txn]],
           req[v].pc = "adjusted" => \A r \in R : IsDebit(r) => r.ref # req[v].id,
           \A u \in Workers : u # w => req'[u] = req[u],
           req[v].pc = "adjusted" => req'[w].id # req[v].id,
           \A a \in Adjustments : Kept(a)
    PROVE  Asks(v)'
<1>1. Asks(v) /\ IInv
    BY DEF PInv, Asked
<1>2. req[v].pc = "adjusted" => \A u \in Workers : u # v => req'[u].id # req[v].id
    BY DEF PInv, Asked, Asks, Created
<1> QED
    BY <1>1, <1>2, AsksStays

\* A request that has not committed changes no row; the others keep theirs.
LEMMA NoRowStep ==
    ASSUME PInv, NEW w \in Workers, UNCHANGED db, Asks(w)',
           \A u \in Workers : u # w => req'[u] = req[u],
           \A v \in Workers : v # w /\ req[v].pc \in UnderLock =>
              lock'[Buyer[req[v].txn]] = lock[Buyer[req[v].txn]],
           \A v \in Workers : v # w /\ req[v].pc = "adjusted" => req'[w].id # req[v].id,
           \A a \in Adjustments : Kept(a)
    PROVE  Books(db') /\ Asked' /\ DebitsAgree'
<1>1. Books(db') /\ Moves(db, db', {}, {})
    BY MovesNot DEF PInv
<1>2. ASSUME NEW v \in Workers, v # w PROVE Asks(v)'
    BY <1>1, <1>2, OthersStay
<1>3. DebitsAgree'
    BY <1>1, AgreesStays DEF PInv, Answered
<1> QED
    BY <1>1, <1>2, <1>3 DEF Asked

\* A request starts, waits for the row, and is refused or granted.
LEMMA RequestSteps ==
    ASSUME PInv, IInv', NEW w \in Workers,
           \/ \E t \in Txns, k \in RequestKeys, credits \in RefundSizes :
                  RefundStarts(w, t, k, credits)
           \/ RefundDebits(w) \/ RefundRefused(w)
    PROVE  PInv'
<1>1. /\ UNCHANGED <<db, adj>> /\ req[w].pc \in {"idle", "waiting"} /\ req[w].id = None
      /\ \A u \in Workers : u # w => req'[u] = req[u]
    <2>1. UNCHANGED <<db, adj>> /\ req[w].pc \in {"idle", "waiting"}
        BY DEF RefundStarts, RefundDebits, RefundRefused
    <2>2. req[w].id = None
        BY <2>1 DEF PInv, Asked, Asks
    <2>3. \/ \E x : req' = [req EXCEPT ![w] = x]
          \/ req' = [req EXCEPT ![w].pc = "debited"]
        BY DEF RefundStarts, RefundDebits, RefundRefused
    <2>4. \A u \in Workers : u # w => req'[u] = req[u]
        BY <2>3 DEF PInv, IInv, Requests
    <2> QED
        BY <2>1, <2>2, <2>4
<1>2. req'[w].id = None
    <2>1. req \in [Workers -> Request]
        BY DEF PInv, IInv, Requests
    <2>2. ASSUME NEW t \in Txns, NEW k \in RequestKeys, NEW credits \in RefundSizes,
                 RefundStarts(w, t, k, credits)
          PROVE  req'[w].id = None
        BY <2>1, <2>2 DEF RefundStarts
    <2>3. CASE RefundDebits(w)
        BY <1>1, <2>1, <2>3 DEF RefundDebits, Request
    <2>4. CASE RefundRefused(w)
        BY <2>1, <2>4 DEF RefundRefused, Idle
    <2> QED
        BY <2>2, <2>3, <2>4
<1>3. \A a \in Adjustments : Kept(a) /\ (InFlight(a)' <=> InFlight(a))
    <2>1. \A a \in Adjustments : Kept(a)
        BY <1>1 DEF Kept
    <2>2. \A u \in Workers : req'[u].id = req[u].id
        BY <1>1, <1>2
    <2> QED
        BY <2>1, <2>2 DEF InFlight
<1>4. \A v \in Workers : v # w /\ req[v].pc \in UnderLock =>
            lock'[Buyer[req[v].txn]] = lock[Buyer[req[v].txn]]
    <2> SUFFICES ASSUME NEW v \in Workers, v # w, req[v].pc \in UnderLock
                 PROVE  lock'[Buyer[req[v].txn]] = lock[Buyer[req[v].txn]]
        OBVIOUS
    <2>1. lock[Buyer[req[v].txn]] # None
        BY PaymentsAssumption DEF PInv, Asked, Asks, Granted
    <2>2. \/ lock' = lock
          \/ Free(Buyer[req[w].txn]) /\ lock' = [lock EXCEPT ![Buyer[req[w].txn]] = w]
        BY DEF RefundStarts, RefundDebits, RefundRefused
    <2>3. lock \in [Users -> Workers \cup {None}] /\ Buyer[req[v].txn] \in Users
        <3>1. req[v].txn \in Txns
            BY DEF UnderLock, PInv, IInv, Requests
        <3> QED
            BY <3>1, AccountTypes DEF PInv, IInv, Others
    <2> QED
        BY <2>1, <2>2, <2>3 DEF Free
<1>5. \A v \in Workers : v # w /\ req[v].pc = "adjusted" => req'[w].id # req[v].id
    <2>1. \A v \in Workers : req[v].pc = "adjusted" => req[v].id \in Adjustments
        BY DEF PInv, IInv, Requests
    <2> QED
        BY <1>2, <2>1, PaymentsAssumption
<1>6. Asks(w)'
    <2>1. ASSUME NEW t \in Txns, NEW k \in RequestKeys, NEW credits \in RefundSizes,
                 RefundStarts(w, t, k, credits)
          PROVE  Asks(w)'
        <3>1. req'[w] = [pc |-> "waiting", txn |-> t, key |-> k, credits |-> credits, id |-> None]
            BY <2>1 DEF RefundStarts, PInv, IInv, Requests
        <3>2. credits > 0 /\ HasKey(db', PurchaseKey(t))
            BY <1>1, <2>1, PaymentsAssumption DEF RefundStarts
        <3> QED
            BY <3>1, <3>2 DEF Asks, UnderLock
    <2>2. CASE RefundDebits(w)
        <3> DEFINE t == req[w].txn
                   credits == req[w].credits
        <3>1. /\ t \in Txns /\ credits \in Nat /\ credits > 0 /\ HasKey(db, PurchaseKey(t))
              /\ req'[w].pc = "debited" /\ req'[w].txn = t /\ req'[w].credits = credits
              /\ req'[w].key = req[w].key
            BY <2>2 DEF RefundDebits, PInv, IInv, Requests, Request, Asked, Asks
        <3>2. /\ db.exists[Buyer[t]] /\ lock'[Buyer[t]] = w
              /\ ~(credits > Remaining(db, t))
              /\ CanPost(db, Cash(Buyer[t]), -credits, "refund")
              /\ ~KeyTaken(db, "cash", RefundKey(t, req[w].key))
            BY <2>2, <3>1, AccountTypes DEF RefundDebits, Refusable, PInv, IInv, Others
        <3>3. Remaining(db, t) \in Int /\ db.balance[Cash(Buyer[t])] \in Int
            BY <3>1, RemainingType, AccountTypes DEF PInv, IInv, Sound, Tables
        <3>4. -credits > 0 \/ db.balance[Cash(Buyer[t])] + -credits >= 0
            BY <3>2 DEF CanPost
        <3>5. credits <= Remaining(db, t) /\ credits <= db.balance[Cash(Buyer[t])]
            <4> HIDE DEF t, credits
            <4> QED
                BY <3>1, <3>2, <3>3, <3>4
        <3> QED
            BY <1>1, <1>2, <3>1, <3>2, <3>5 DEF Asks, Granted
    <2>3. CASE RefundRefused(w)
        <3>1. req'[w] = Idle
            BY <2>3 DEF RefundRefused, PInv, IInv, Requests
        <3> QED
            BY <3>1 DEF Idle, Asks, UnderLock
    <2> QED
        BY <2>1, <2>2, <2>3
<1>7. Books(db') /\ Asked' /\ DebitsAgree'
    BY <1>1, <1>3, <1>4, <1>5, <1>6, NoRowStep
<1>8. Answered'
    BY <1>1, <1>7 DEF PInv, Answered, Existing
<1>9. Accounted' /\ Patient'
    BY <1>1, <1>3 DEF PInv, Accounted, Patient, IsReversed
<1> QED
    BY <1>7, <1>8, <1>9 DEF PInv

\* Paddle creates an adjustment no debit names and no other request has.
LEMMA AdjustsStep ==
    ASSUME PInv, IInv', NEW w \in Workers, NEW a \in Adjustments, PaddleAdjusts(w, a)
    PROVE  PInv'
<1> DEFINE t == req[w].txn
           money == MoneyFor(t, req[w].credits)
<1>1. /\ UNCHANGED <<db, lock>> /\ req[w].pc = "debited" /\ req[w].id = None /\ None \notin Adjustments
      /\ adj[a] = NoAdjustment /\ Granted(w)
    BY PaymentsAssumption DEF PaddleAdjusts, PInv, Asked, Asks, UnderLock
<1>2. /\ \A u \in Workers : u # w => req'[u] = req[u]
      /\ req'[w].id = a /\ req'[w].pc = "adjusted" /\ req'[w].txn = t
      /\ req'[w].credits = req[w].credits /\ req'[w].key = req[w].key
    BY DEF PaddleAdjusts, PInv, IInv, Requests, Request
<1>3. /\ \A b \in Adjustments : b # a => adj'[b] = adj[b]
      /\ adj'[a].status = "pending" /\ adj'[a].txn = t /\ adj'[a].amount = money
      /\ ~adj'[a].acked
    BY DEF PaddleAdjusts, NoAdjustment, PInv, IInv, AtPaddle
<1>4. adj[a].status = "none" /\ ~adj[a].acked
    BY <1>1 DEF NoAdjustment
<1>5. \A b \in Adjustments : Kept(b)
    BY <1>3, <1>4 DEF Kept
<1>6. \A v \in Workers : req[v].id # a
    BY <1>1, <1>4 DEF PInv, Asked, Asks, Created
<1>7. \A x \in Accounts : \A r \in Log(db, x) : IsDebit(r) => r.ref # a
    BY <1>4 DEF PInv, Answered, DebitsAgree, Agrees
<1>8. Asks(w)'
    <2>1. Created(w)'
        BY <1>1, <1>2, <1>3, <1>6, <1>7 DEF Created, NoDebit
    <2>2. Granted(w)'
        BY <1>1, <1>2 DEF Granted
    <2>3. req[w].credits > 0 /\ HasKey(db, PurchaseKey(t))
        BY <1>1 DEF PInv, Asked, Asks
    <2> QED
        BY <1>1, <1>2, <2>1, <2>2, <2>3 DEF Asks
<1>9. Books(db') /\ Asked' /\ DebitsAgree'
    BY <1>1, <1>2, <1>5, <1>6, <1>8, NoRowStep
<1>10. Answered'
    <2>1. Existing' = Existing \cup {a}
        BY <1>3 DEF Existing
    <2>2. IsFiniteSet(Existing')
        BY <2>1, FS_AddElement DEF PInv, Answered
    <2> QED
        BY <1>3, <1>9, <2>2 DEF PInv, Answered
<1>11. \A b \in Adjustments : InFlight(b)' <=> InFlight(b) \/ b = a
    <2>1. \A u \in Workers : req'[u].id = IF u = w THEN a ELSE req[u].id
        BY <1>2
    <2> QED
        BY <1>1, <2>1 DEF InFlight
<1>12. Accounted'
    BY <1>1, <1>3, <1>11 DEF PInv, Accounted
<1>13. Patient'
    BY <1>1, <1>3, <1>11 DEF PInv, Patient, IsReversed
<1> QED
    BY <1>9, <1>10, <1>12, <1>13 DEF PInv

\* A request ends and gives its row up: nobody else held it.
LEMMA Ended ==
    ASSUME PInv, NEW w \in Workers, req[w].pc \in UnderLock, EndRequest(w)
    PROVE  /\ \A u \in Workers : u # w => req'[u] = req[u]
           /\ req'[w].id = None /\ Asks(w)'
           /\ \A v \in Workers : v # w /\ req[v].pc \in UnderLock =>
                /\ Buyer[req[v].txn] # Buyer[req[w].txn]
                /\ lock'[Buyer[req[v].txn]] = lock[Buyer[req[v].txn]]
           /\ \A v \in Workers : v # w /\ req[v].pc = "adjusted" => req'[w].id # req[v].id
           /\ \A a \in Adjustments : InFlight(a)' <=> InFlight(a) /\ req[w].id # a
<1>1. /\ \A u \in Workers : u # w => req'[u] = req[u]
      /\ req'[w] = Idle /\ lock' = [lock EXCEPT ![Buyer[req[w].txn]] = None]
    BY DEF EndRequest, PInv, IInv, Requests
<1>2. ASSUME NEW v \in Workers, v # w, req[v].pc \in UnderLock
      PROVE  /\ Buyer[req[v].txn] # Buyer[req[w].txn]
             /\ lock'[Buyer[req[v].txn]] = lock[Buyer[req[v].txn]]
    <2>1. lock[Buyer[req[v].txn]] = v /\ lock[Buyer[req[w].txn]] = w
        BY <1>2 DEF PInv, Asked, Asks, Granted
    <2>2. req[v].txn \in Txns /\ lock \in [Users -> Workers \cup {None}]
        BY <1>2 DEF UnderLock, PInv, IInv, Requests, Others
    <2> QED
        BY <1>1, <1>2, <2>1, <2>2, AccountTypes
<1>3. req'[w].id = None /\ Asks(w)'
    BY <1>1 DEF Idle, Asks, UnderLock
<1>4. \A v \in Workers : req[v].pc = "adjusted" => req[v].id \in Adjustments
    BY DEF PInv, IInv, Requests
<1>5. None \notin Adjustments
    BY PaymentsAssumption
<1>6. ASSUME NEW v \in Workers, v # w, req[v].id = req[w].id PROVE req[w].id = None
    BY <1>6 DEF PInv, Asked, Asks, Created
<1>7. \A a \in Adjustments : InFlight(a)' <=> InFlight(a) /\ req[w].id # a
    <2> TAKE a \in Adjustments
    <2>1. \A u \in Workers : req'[u].id = a <=> req[u].id = a /\ req[w].id # a
        BY <1>1, <1>3, <1>5, <1>6
    <2>2. InFlight(a)' <=> \E u \in Workers : req'[u].id = a
        BY DEF InFlight
    <2>3. InFlight(a) <=> \E u \in Workers : req[u].id = a
        BY DEF InFlight
    <2> QED
        BY <2>1, <2>2, <2>3
<1> QED
    BY <1>1, <1>2, <1>3, <1>4, <1>5, <1>7

\* A request ends without a debit: Paddle refused, its answer was lost, or the
\* commit failed and the adjustment was alerted.
LEMMA RollbackSteps ==
    ASSUME PInv, IInv', NEW w \in Workers,
           PaddleRefuses(w) \/ AnswerLost(w) \/ RefundCommitFails(w)
    PROVE  PInv'
<1>1. UNCHANGED db /\ req[w].pc \in UnderLock /\ EndRequest(w)
    BY DEF PaddleRefuses, AnswerLost, RefundCommitFails, UnderLock
<1>2. \A a \in Adjustments :
        /\ adj'[a].status = adj[a].status /\ adj'[a].txn = adj[a].txn
        /\ adj'[a].amount = adj[a].amount /\ adj'[a].acked = adj[a].acked
        /\ adj[a].alerted => adj'[a].alerted
        /\ adj[a].status = "none" => adj'[a] = adj[a]
    <2>1. CASE adj' = adj
        BY <2>1
    <2>2. CASE RefundCommitFails(w)
        <3>1. adj[req[w].id].status # "none"
            BY <2>2 DEF RefundCommitFails, PInv, Asked, Asks, Created
        <3>2. adj' = [adj EXCEPT ![req[w].id].alerted = TRUE]
            BY <2>2 DEF RefundCommitFails
        <3> QED
            BY <3>1, <3>2 DEF PInv, IInv, AtPaddle, Adjustment
    <2> QED
        BY <2>1, <2>2 DEF PaddleRefuses, AnswerLost
<1>3. \A a \in Adjustments : Kept(a)
    BY <1>2 DEF Kept
<1>4. Books(db') /\ Asked' /\ DebitsAgree'
    BY <1>1, <1>3, Ended, NoRowStep
<1>5. Answered'
    <2>1. Existing' = Existing
        BY <1>2 DEF Existing
    <2> QED
        BY <1>2, <1>4, <2>1 DEF PInv, Answered
<1>6. \A a \in Adjustments : InFlight(a)' <=> InFlight(a) /\ req[w].id # a
    BY <1>1, Ended
<1>7. Accounted'
    <2> SUFFICES ASSUME "answer_lost" \notin Faults, NEW a \in Adjustments,
                        adj'[a].status # "none", ~adj'[a].alerted, ~InFlight(a)'
                 PROVE  DebitsOf(db', adj'[a].txn, a) # {}
        BY DEF Accounted
    <2>1. req[w].id # a
        <3>1. CASE PaddleRefuses(w)
            <4>1. req[w].id = None
                BY <3>1 DEF PaddleRefuses, PInv, Asked, Asks
            <4> QED
                BY <4>1, PaymentsAssumption
        <3>2. CASE RefundCommitFails(w)
            BY <3>2 DEF RefundCommitFails, PInv, IInv, AtPaddle, Adjustment
        <3> QED
            BY <3>1, <3>2 DEF AnswerLost
    <2> QED
        BY <1>1, <1>2, <1>6, <2>1 DEF PInv, Accounted
<1>8. Patient'
    BY <1>1, <1>2, <1>6 DEF PInv, Patient, IsReversed
<1> QED
    BY <1>4, <1>5, <1>7, <1>8 DEF PInv

\* A request commits its debit and the clawback: the adjustment has its debit.
LEMMA CommitsStep ==
    ASSUME PInv, IInv', NEW w \in Workers, RefundCommits(w)
    PROVE  PInv'
<1> DEFINE t == req[w].txn
           k == req[w].key
           credits == req[w].credits
           id == req[w].id
           S == {Buyer[t]} \cup BonusHolders(db, t)
           R == DebitRows(t, k, credits, id)
<1>1. /\ req[w].pc = "adjusted" /\ EndRequest(w) /\ HolderFree(t) /\ UNCHANGED adj
      /\ db' = AfterClawback(Debited(db, t, k, credits, id), t, k)
    BY DEF RefundCommits
<1>2. /\ t \in Txns /\ k \in RequestKeys /\ credits \in Nat \ {0} /\ id \in Adjustments
      /\ HasKey(db, PurchaseKey(t)) /\ Granted(w) /\ Created(w) /\ w # None
    BY <1>1, PaymentsAssumption DEF PInv, IInv, Requests, Request, Asked, Asks, UnderLock
<1>3. /\ Books(db') /\ Moves(db, db', S, R)
      /\ \E r \in Log(db', Cash(Buyer[t])) : IsDebit(r) /\ r.ref = id
    <2>1. /\ ~KeyTaken(db, "cash", RefundKey(t, k)) /\ credits <= Remaining(db, t)
          /\ credits <= db.balance[Cash(Buyer[t])] /\ Books(db)
          /\ \A r \in Log(db, Cash(Buyer[t])) : IsDebit(r) => r.ref # id
        BY <1>2, AccountTypes DEF Granted, Created, NoDebit, PInv
    <2> HIDE DEF t, k, credits, id
    <2> QED
        BY <1>1, <1>2, <2>1, CommittedBooks DEF S, R
<1>4. \A a \in Adjustments : Kept(a)
    BY <1>1 DEF Kept
<1>5. /\ \A u \in Workers : u # w => req'[u] = req[u]
      /\ Asks(w)'
      /\ \A v \in Workers : v # w /\ req[v].pc \in UnderLock =>
           /\ Buyer[req[v].txn] # Buyer[t]
           /\ lock'[Buyer[req[v].txn]] = lock[Buyer[req[v].txn]]
      /\ \A v \in Workers : v # w /\ req[v].pc = "adjusted" => req'[w].id # req[v].id
      /\ \A a \in Adjustments : InFlight(a)' <=> InFlight(a) /\ id # a
    BY <1>1, Ended DEF UnderLock
<1>6. \A r \in R : IsDebit(r) /\ r.ref = id /\ r.key[2] = t /\ -r.amount = credits
                        /\ ~(r.amount > 0)
    <2> TAKE r \in R
    <2>1. r.reason = "refund" /\ r.amount = -credits /\ r.key = RefundKey(t, k) /\ r.ref = id
        BY DEF R, DebitRows
    <2>2. r.amount < 0 /\ -r.amount = credits /\ ~(r.amount > 0)
        <3> HIDE DEF credits, R
        <3> QED
            BY <1>2, <2>1
    <2> QED
        BY <2>1, <2>2 DEF IsDebit, RefundKey
<1> HIDE DEF R
<1>7. Asked'
    <2>1. ASSUME NEW v \in Workers, v # w PROVE Asks(v)'
        <3>1. req[v].pc \in UnderLock => Buyer[req[v].txn] \notin S
            <4> SUFFICES ASSUME req[v].pc \in UnderLock, Buyer[req[v].txn] \in BonusHolders(db, t)
                         PROVE  FALSE
                BY <1>5, <2>1
            <4>1. lock[Buyer[req[v].txn]] = None
                BY <1>1 DEF HolderFree, Free
            <4> QED
                BY <4>1, PaymentsAssumption DEF PInv, Asked, Asks, Granted
        <3>2. req[v].pc = "adjusted" => \A r \in R : IsDebit(r) => r.ref # req[v].id
            BY <1>2, <1>6, <2>1 DEF Created
        <3> HIDE DEF S
        <3> QED
            BY <1>3, <1>4, <1>5, <2>1, <3>1, <3>2, OthersStay
    <2> QED
        BY <1>5, <2>1 DEF Asked
<1>8. Answered'
    <2>1. \A r \in R : Agrees(r)'
        BY <1>1, <1>2, <1>6 DEF Agrees, Created
    <2>2. DebitsAgree'
        BY <1>3, <1>4, <2>1, AgreesStays DEF PInv, Answered
    <2> QED
        BY <1>1, <2>2 DEF PInv, Answered, Existing
<1>9. ASSUME NEW a \in Adjustments, adj[a].status # "none"
      PROVE  /\ DebitsOf(db, adj[a].txn, a) # {} => DebitsOf(db', adj[a].txn, a) # {}
             /\ a # id => (DebitsOf(db', adj[a].txn, a) # {} => DebitsOf(db, adj[a].txn, a) # {})
             /\ IsReversed(adj[a].txn, a) => HasKey(db', RefundReversalKey(adj[a].txn, a))
    <2>1. /\ DebitsOf(db, adj[a].txn, a) # {} => DebitsOf(db', adj'[a].txn, a) # {}
          /\ DebitsOf(db', adj'[a].txn, a) # {} =>
                DebitsOf(db, adj[a].txn, a) # {} \/ \E r \in R : IsDebit(r) /\ r.ref = a
          /\ IsReversed(adj[a].txn, a) => HasKey(db', RefundReversalKey(adj'[a].txn, a))
        BY <1>3, <1>4, <1>9, DebitedStays DEF PInv
    <2> QED
        BY <1>1, <1>6, <2>1
<1>10. DebitsOf(db', adj[id].txn, id) # {}
    BY <1>2, <1>3, LogSays DEF Created
<1>11. Accounted'
    BY <1>1, <1>5, <1>9, <1>10 DEF PInv, Accounted
<1>12. Patient'
    <2> SUFFICES ASSUME "early_rejection" \notin Faults, NEW a \in Adjustments
                 PROVE  /\ adj'[a].status \in {"approved", "rejected"} => ~InFlight(a)'
                        /\ adj'[a].acked /\ DebitsOf(db', adj'[a].txn, a) # {} =>
                              HasKey(db', RefundReversalKey(adj'[a].txn, a))
        BY DEF Patient, IsReversed
    <2>1. adj'[a].status \in {"approved", "rejected"} => ~InFlight(a)'
        BY <1>1, <1>5 DEF PInv, Patient
    <2>2. adj[a].acked => adj[a].status = "rejected"
        BY DEF PInv, Answered
    <2>3. CASE a = id
        <3>1. InFlight(id)
            BY DEF InFlight
        <3>2. ~adj[a].acked
            BY <2>2, <2>3, <3>1 DEF PInv, Patient
        <3> QED
            BY <1>1, <2>1, <3>2
    <2>4. CASE a # id
        BY <1>1, <1>9, <2>1, <2>2, <2>4 DEF PInv, Patient
    <2> QED
        BY <2>3, <2>4
<1> QED
    BY <1>3, <1>7, <1>8, <1>11, <1>12 DEF PInv

\* Every step keeps the invariant.
LEMMA NextPInv == PInv /\ [Next]_vars => PInv'
<1> SUFFICES ASSUME PInv, [Next]_vars PROVE PInv'
    OBVIOUS
<1>1. IInv'
    BY NextIInv DEF PInv
<1>2. CASE UNCHANGED vars
    BY <1>1, <1>2, QuietSteps
<1>3. CASE Next
    BY <1>1, <1>3, QuietSteps, WriterSteps, DecidesStep, RejectsStep, RequestSteps, AdjustsStep,
       RollbackSteps, CommitsStep DEF Next, RefundEnds
<1> QED
    BY <1>2, <1>3

-----------------------------------------------------------------------------
(* What the invariant says of the properties.                              *)

\* What is left of a purchase is between nothing and all of it.
LEMMA RemainingBounds ==
    ASSUME NEW d, Books(d), NEW t \in Txns
    PROVE  /\ Remaining(d, t) \in 0..Credits[t]
           /\ Remaining(d, t) = Credits[t] =>
                \A r \in Log(d, Cash(Buyer[t])) :
                    Takes(r, "refund", t) => Undone(d.rows[Cash(Buyer[t])], "refund", t, r.ref)
<1> DEFINE b == Cash(Buyer[t])
           sum == Sum(Counted(d.rows[b], "refund", t))
<1>1. b \in Accounts /\ d.rows[b] \in Seq(Row) /\ Tallied(d.rows[b], "refund", t)
    BY AccountTypes, LogType DEF Books, WellKept, Sound, AllTallied
<1>2. /\ sum \in Int /\ sum <= 0
      /\ sum = 0 => \A i \in DOMAIN d.rows[b] : Of(d.rows[b][i], "refund", t)
                        /\ d.rows[b][i].amount < 0 => Undone(d.rows[b], "refund", t, d.rows[b][i].ref)
    BY <1>1, TalliedBounds
<1>3. sum = 0 => \A r \in Log(d, b) : Takes(r, "refund", t) => Undone(d.rows[b], "refund", t, r.ref)
    BY <1>2 DEF Log, Takes
<1>4. Remaining(d, t) = Credits[t] + sum /\ Credits[t] \in Nat /\ Remaining(d, t) >= 0
    BY SumsAre, PaymentsAssumption DEF Books, Within
<1> HIDE DEF b, sum
<1>5. Remaining(d, t) \in 0..Credits[t] /\ (Remaining(d, t) = Credits[t] => sum = 0)
    BY <1>2, <1>4
<1> QED
    BY <1>3, <1>5 DEF b

\* When nothing is refunded any more, all that was clawed back is given back.
LEMMA ClawbacksFollow ==
    ASSUME NEW d, Books(d), NEW t \in Txns, BonusHolders(d, t) # {}
    PROVE  /\ ClawedBack(d, t, BonusHolder(d, t)) \in 0..BonusAmount(t)
           /\ d.exists[BonusHolder(d, t)] /\ Remaining(d, t) = Credits[t] =>
                ClawedBack(d, t, BonusHolder(d, t)) = 0
           /\ d.exists[BonusHolder(d, t)] /\ Remaining(d, t) = 0 =>
                ClawedBack(d, t, BonusHolder(d, t)) = BonusAmount(t)
<1> DEFINE u == BonusHolder(d, t)
           h == Cash(u)
           b == Cash(Buyer[t])
           sum == Sum(Counted(d.rows[h], "clawback", t))
<1>1. h \in Accounts /\ d.rows[h] \in Seq(Row) /\ Tallied(d.rows[h], "clawback", t) /\ d \in Tables
    BY AccountTypes, LogType DEF Books, WellKept, Sound, AllTallied
<1>2. /\ sum \in Int /\ sum <= 0
      /\ (\A i \in DOMAIN d.rows[h] : Of(d.rows[h][i], "clawback", t)
             /\ d.rows[h][i].amount < 0 => Undone(d.rows[h], "clawback", t, d.rows[h][i].ref))
         => sum = 0
    BY <1>1, TalliedBounds
<1>3. (\A c \in Log(d, h) : Takes(c, "clawback", t) => Undone(d.rows[h], "clawback", t, c.ref))
         => sum = 0
    BY <1>2 DEF Log, Takes
<1>4. ClawedBack(d, t, u) = -sum /\ BonusAmount(t) \in Nat /\ ClawedBack(d, t, u) <= BonusAmount(t)
    BY SumsAre, BonusType DEF Books, Within
<1>5. ClawedBack(d, t, u) \in 0..BonusAmount(t) /\ (sum = 0 => ClawedBack(d, t, u) = 0)
    <2> HIDE DEF sum, u
    <2> QED
        BY <1>2, <1>4
<1>6. ASSUME d.exists[u], Remaining(d, t) = Credits[t] PROVE sum = 0
    <2> SUFFICES ASSUME NEW c \in Log(d, h), Takes(c, "clawback", t)
                 PROVE  Undone(d.rows[h], "clawback", t, c.ref)
        BY <1>3
    <2>1. RowShaped(d, h, c) /\ c \in Row /\ Of(c, "clawback", t)
        BY <1>1, LogType DEF Books, WellKept, Shaped, Takes
    <2>2. ClawbackRow(d, h, c, t) /\ c.amount \in Int /\ c.amount < 0
        BY <2>1, RowSays DEF Takes, Row
    <2>3. PICK k \in RequestKeys : c.ref = RefundKey(t, k) /\ c.key = ClawbackKey(t, k)
        BY <2>2 DEF ClawbackRow
    <2>4. HasKey(d, RefundKey(t, k))
        <3>1. HasKey(d, ClawbackKey(t, k))
            BY <1>1, <2>3, LogSays
        <3> QED
            BY <3>1 DEF Books, Linked
    <2>5. PICK a \in Accounts : \E r \in Log(d, a) : r.key = RefundKey(t, k)
        BY <2>4, LogSays
    <2>6. PICK r \in Log(d, a) : r.key = RefundKey(t, k)
        BY <2>5
    <2>7. Takes(r, "refund", t) /\ a = b
        <3>1. RowShaped(d, a, r)
            BY DEF Books, WellKept, Shaped
        <3> QED
            BY <2>6, <3>1, RowSays DEF RefundRow
    <2>8. Undone(d.rows[b], "refund", t, r.ref)
        BY <1>6, <2>7, RemainingBounds
    <2>9. HolderThere(d, t) /\ Matched(d, t)
        BY <1>6 DEF HolderThere, Books
    <2> QED
        BY <2>3, <2>6, <2>7, <2>8, <2>9 DEF Matched
<1>7. ASSUME d.exists[u], Remaining(d, t) = 0 PROVE ClawedBack(d, t, u) = BonusAmount(t)
    BY <1>7 DEF HolderThere, Emptied, Books
<1> QED
    BY <1>5, <1>6, <1>7

\* A user's balances, against all that is clawed back from them.
LEMMA OverdraftBounds == PInv => OverdraftIsClawback
<1> SUFFICES ASSUME PInv, NEW u \in Users
             PROVE  LET clawed == [i \in DOMAIN db.rows[Cash(u)] |->
                                    IF db.rows[Cash(u)][i].reason = "referral_clawback"
                                    THEN db.rows[Cash(u)][i].amount ELSE 0]
                    IN  db.balance[Cash(u)] >= Sum(clawed) /\ db.balance[Gift(u)] >= 0
    BY DEF OverdraftIsClawback
<1>1. db.balance[Gift(u)] >= 0 /\ db.balance[Cash(u)] >= AllClawed(db, u)
    BY DEF PInv, Books, Overdraft
<1>2. Counted(db.rows[Cash(u)], "all", None) =
            [i \in DOMAIN db.rows[Cash(u)] |->
                IF db.rows[Cash(u)][i].reason = "referral_clawback"
                THEN db.rows[Cash(u)][i].amount ELSE 0]
    BY CountedAre
<1> QED
    BY <1>1, <1>2 DEF AllClawed

\* A reversal is of a rejection.
LEMMA ReversedIsRejected ==
    ASSUME PInv, NEW t \in Txns, NEW a, IsReversed(t, a)
    PROVE  adj[a].status = "rejected"
<1>1. PICK x \in Accounts : \E r \in Log(db, x) : r.key = RefundReversalKey(t, a)
    BY LogSays DEF IsReversed
<1>2. PICK r \in Log(db, x) : r.key = RefundReversalKey(t, a)
    BY <1>1
<1>3. RowShaped(db, x, r)
    BY DEF PInv, Books, WellKept, Shaped
<1>4. GivesBack(r, "refund", t, a)
    BY <1>2, <1>3, RowSays
<1>5. r.reason = "refund" /\ r.amount > 0 /\ r.ref = a
    BY <1>4 DEF GivesBack, Of, IsRefundOf
<1> QED
    BY <1>5 DEF PInv, Answered, DebitsAgree, Agrees

\* An adjustment has one debit at most.
LEMMA OneDebit ==
    ASSUME PInv, NEW t \in Txns, NEW a, DebitsOf(db, t, a) # {}
    PROVE  Cardinality(DebitsOf(db, t, a)) = 1
<1>1. PICK i : i \in DebitsOf(db, t, a)
    OBVIOUS
<1>2. ASSUME NEW j \in DebitsOf(db, t, a) PROVE j = i
    BY <1>1, <1>2, AccountTypes DEF DebitsOf, PInv, Books, WellKept, RefsOnce, Marked
<1>3. DebitsOf(db, t, a) = {i}
    BY <1>1, <1>2
<1> QED
    BY <1>3, FS_Singleton

-----------------------------------------------------------------------------
\* However refunds of a purchase run side by side, are retried, fail half-way
\* and are rejected, what is left of it stays between nothing and all of it
\* (routers/admin.py, refund_payment; services/credit_ledger.py, debit_refund
\* and reverse_refund), whatever faults a run includes.
THEOREM CreditsNeverOverRefunded == Spec => []RefundsWithinPurchase
<1>1. PInv => RefundsWithinPurchase
    BY RemainingBounds DEF PInv, RefundsWithinPurchase
<1> QED
    BY <1>1, InitPInv, NextPInv, PTL DEF Spec

\* What is clawed back of a referral bonus follows what is refunded of the
\* purchase, and nothing else overdraws an account (services/credit_ledger.py,
\* referral_clawback and reverse_referral_clawback), whatever faults there are.
THEOREM ClawbacksExact == Spec => []ClawbacksAreExact
<1>1. PInv => ClawbackFollowsRefunds
    BY ClawbacksFollow DEF PInv, ClawbackFollowsRefunds
<1>2. PInv => ClawbacksAreExact
    BY <1>1, OverdraftBounds DEF ClawbacksAreExact
<1> QED
    BY <1>2, InitPInv, NextPInv, PTL DEF Spec

\* The same, for the clawbacks of each purchase alone.
THEOREM ClawbacksFollowRefunds == Spec => []ClawbackFollowsRefunds
<1>1. PInv => ClawbackFollowsRefunds
    BY ClawbacksFollow DEF PInv, ClawbackFollowsRefunds
<1> QED
    BY <1>1, InitPInv, NextPInv, PTL DEF Spec

\* Where no answer of Paddle is lost after the adjustment was made, the ledger
\* and Paddle agree on every refund (routers/admin.py, refund_payment;
\* routers/paddle_webhooks.py).
THEOREM LedgerAgreesWithPaddle ==
    ASSUME "answer_lost" \notin Faults
    PROVE  Spec => []LedgerMatchesPaddle
<1>1. ASSUME PInv PROVE LedgerMatchesPaddle
    <2>1. ASSUME NEW a \in Adjustments, adj[a].status \in {"pending", "approved"},
                 ~adj[a].alerted, ~InFlight(a)
          PROVE  /\ Cardinality(DebitsOf(db, adj[a].txn, a)) = 1
                 /\ ~IsReversed(adj[a].txn, a)
        <3>1. adj[a].txn \in Txns
            BY <1>1, <2>1 DEF PInv, IInv, AtPaddle
        <3>2. DebitsOf(db, adj[a].txn, a) # {}
            BY <1>1, <2>1 DEF PInv, Accounted
        <3> QED
            BY <1>1, <2>1, <3>1, <3>2, OneDebit, ReversedIsRejected
    <2>2. ASSUME NEW t \in Txns, NEW i \in DOMAIN db.rows[Cash(Buyer[t])],
                 NEW row, row = db.rows[Cash(Buyer[t])][i],
                 row.reason = "refund", row.amount < 0, row.key[2] = t
          PROVE  /\ adj[row.ref].txn = t
                 /\ adj[row.ref].amount = MoneyFor(t, -row.amount)
                 /\ IsReversed(t, row.ref) => adj[row.ref].status = "rejected"
        <3>1. row \in Log(db, Cash(Buyer[t])) /\ IsDebit(row)
            BY <2>2 DEF Log, IsDebit
        <3>2. Agrees(row)
            BY <1>1, <3>1, AccountTypes DEF PInv, Answered, DebitsAgree
        <3> QED
            BY <1>1, <2>2, <3>1, <3>2, ReversedIsRejected DEF Agrees
    <2> QED
        BY <2>1, <2>2 DEF LedgerMatchesPaddle
<1> QED
    BY <1>1, InitPInv, NextPInv, PTL DEF Spec

\* Where Paddle decides only on refunds whose request has committed, a rejection
\* that was answered has restored its debit (routers/paddle_webhooks.py).
THEOREM RejectionsRestoreDebits ==
    ASSUME "early_rejection" \notin Faults
    PROVE  Spec => []RejectionRestoresDebit
<1>1. PInv => RejectionRestoresDebit
    BY DEF PInv, Patient, RejectionRestoresDebit
<1> QED
    BY <1>1, InitPInv, NextPInv, PTL DEF Spec

-----------------------------------------------------------------------------
(* The money, an amount at a time.                                         *)

\* How FoldFunction adds: the entry it picks, then the others.
Pick(s) == CHOOSE x \in s : TRUE
Added(f, s, g) == IF s = {} THEN 0 ELSE f[Pick(s)] + g[s \ {Pick(s)}]
AddsUp(S, f, g) == \A s \in SUBSET S : g[s] = Added(f, s, g)

FoldSum(f) == FoldFunction(+, 0, f)

\* The function that FoldFunction defines exists, by the size of the sets.
LEMMA FoldExists ==
    ASSUME NEW S, IsFiniteSet(S), NEW f \in [S -> Int]
    PROVE  \E g \in [SUBSET S -> Int] : AddsUp(S, f, g)
<1> DEFINE Upto(n) == {g \in [SUBSET S -> Int] :
                          \A s \in SUBSET S : Cardinality(s) <= n => g[s] = Added(f, s, g)}
           N == {n \in Nat : Upto(n) # {}}
<1>1. \A s \in SUBSET S : IsFiniteSet(s) /\ Cardinality(s) \in Nat
    BY FS_Subset, FS_CardinalityType
<1>2. ASSUME NEW s \in SUBSET S, s # {}
      PROVE  /\ Pick(s) \in s /\ s \ {Pick(s)} \in SUBSET S
             /\ Cardinality(s \ {Pick(s)}) = Cardinality(s) - 1
    <2>1. Pick(s) \in s
        BY <1>2 DEF Pick
    <2>2. Cardinality(s \ {Pick(s)}) = Cardinality(s) - 1
        BY <1>1, <2>1, FS_RemoveElement
    <2> QED
        BY <2>1, <2>2
<1>3. 0 \in N
    <2> DEFINE g == [s \in SUBSET S |-> 0]
    <2>1. \A s \in SUBSET S : Cardinality(s) <= 0 => s = {}
        BY <1>1, FS_EmptySet
    <2>2. g \in Upto(0)
        BY <2>1 DEF Added
    <2> QED
        BY <2>2
<1>4. ASSUME NEW n \in N PROVE n + 1 \in N
    <2>1. PICK g \in [SUBSET S -> Int] :
                \A s \in SUBSET S : Cardinality(s) <= n => g[s] = Added(f, s, g)
        BY <1>4
    <2> DEFINE h == [s \in SUBSET S |-> Added(f, s, g)]
    <2>2. h \in [SUBSET S -> Int]
        <3>1. ASSUME NEW s \in SUBSET S PROVE Added(f, s, g) \in Int
            <4>1. CASE s = {}
                BY <4>1 DEF Added
            <4>2. CASE s # {}
                <5>1. f[Pick(s)] \in Int /\ g[s \ {Pick(s)}] \in Int
                    BY <1>2, <4>2
                <5> QED
                    BY <4>2, <5>1 DEF Added
            <4> QED
                BY <4>1, <4>2
        <3> QED
            BY <3>1
    <2>3. ASSUME NEW s \in SUBSET S, Cardinality(s) <= n + 1 PROVE h[s] = Added(f, s, h)
        <3>1. h[s] = Added(f, s, g)
            OBVIOUS
        <3>2. CASE s = {}
            BY <3>1, <3>2 DEF Added
        <3>3. CASE s # {}
            <4> DEFINE r == s \ {Pick(s)}
            <4>1. r \in SUBSET S /\ Cardinality(r) <= n
                BY <1>1, <1>2, <1>4, <2>3, <3>3
            <4>2. h[r] = g[r]
                BY <2>1, <4>1
            <4> HIDE DEF h
            <4> QED
                BY <3>1, <3>3, <4>2 DEF Added
        <3> QED
            BY <3>2, <3>3
    <2> HIDE DEF h
    <2>4. h \in Upto(n + 1)
        BY <2>2, <2>3
    <2> QED
        BY <1>4, <2>4
<1> HIDE DEF N
<1>5. N = Nat
    <2>1. N \in SUBSET Nat
        BY DEF N
    <2> QED
        BY <1>3, <1>4, <2>1, NatSetInduction
<1>6. Cardinality(S) \in N
    BY <1>1, <1>5
<1>7. PICK g \in [SUBSET S -> Int] :
            \A s \in SUBSET S : Cardinality(s) <= Cardinality(S) => g[s] = Added(f, s, g)
    BY <1>6 DEF N
<1>8. \A s \in SUBSET S : Cardinality(s) <= Cardinality(S)
    BY FS_Subset
<1> QED
    BY <1>7, <1>8 DEF AddsUp

\* Two functions that add so are the same.
LEMMA AddedOnce ==
    ASSUME NEW S, IsFiniteSet(S), NEW f, NEW g, NEW h,
           AddsUp(S, f, g), AddsUp(S, f, h)
    PROVE  g[S] = h[S]
<1> USE DEF AddsUp
<1> DEFINE N == {n \in Nat : \A s \in SUBSET S : Cardinality(s) <= n => g[s] = h[s]}
<1>1. \A s \in SUBSET S : IsFiniteSet(s) /\ Cardinality(s) \in Nat
    BY FS_Subset, FS_CardinalityType
<1>2. 0 \in N
    <2>1. \A s \in SUBSET S : Cardinality(s) <= 0 => s = {}
        BY <1>1, FS_EmptySet
    <2> QED
        BY <2>1 DEF Added
<1>3. ASSUME NEW n \in N PROVE n + 1 \in N
    <2> SUFFICES ASSUME NEW s \in SUBSET S, Cardinality(s) <= n + 1 PROVE g[s] = h[s]
        BY <1>3
    <2>1. CASE s = {}
        BY <2>1 DEF Added
    <2>2. CASE s # {}
        <3> DEFINE r == s \ {Pick(s)}
        <3>1. Pick(s) \in s
            BY <2>2 DEF Pick
        <3>2. r \in SUBSET S /\ Cardinality(r) = Cardinality(s) - 1
            BY <1>1, <3>1, FS_RemoveElement
        <3>3. g[r] = h[r]
            BY <1>1, <1>3, <3>2
        <3>4. g[s] = f[Pick(s)] + g[r] /\ h[s] = f[Pick(s)] + h[r]
            BY <2>2 DEF Added
        <3> QED
            BY <3>3, <3>4
    <2> QED
        BY <2>1, <2>2
<1> HIDE DEF N
<1>4. N = Nat
    <2>1. N \in SUBSET Nat
        BY DEF N
    <2> QED
        BY <1>2, <1>3, <2>1, NatSetInduction
<1>5. Cardinality(S) \in N /\ Cardinality(S) <= Cardinality(S)
    BY <1>1, <1>4
<1> QED
    BY <1>5 DEF N

\* FoldFunction adds the entries of a finite function like that.
LEMMA FoldIs ==
    ASSUME NEW S, IsFiniteSet(S), NEW f \in [S -> Int]
    PROVE  \E g \in [SUBSET S -> Int] : AddsUp(S, f, g) /\ FoldSum(f) = g[S]
<1> DEFINE Is(g) == g = [s \in SUBSET S |-> IF s = {} THEN 0
                                           ELSE LET x == CHOOSE x \in s : TRUE
                                                IN  f[x] + g[s \ {x}]]
           iter == CHOOSE g : Is(g)
<1>1. PICK g \in [SUBSET S -> Int] : AddsUp(S, f, g)
    BY FoldExists
<1>2. Is(g)
    BY <1>1 DEF AddsUp, Added, Pick
<1>3. Is(iter)
    BY <1>2
<1>4. FoldSum(f) = iter[S]
    BY DEF FoldSum, FoldFunction, FoldFunctionOnSet, MapThenFoldSet
<1>5. AddsUp(S, f, iter)
    BY <1>3 DEF AddsUp, Added, Pick
<1> HIDE DEF iter
<1>6. iter[S] = g[S]
    BY <1>1, <1>5, AddedOnce
<1> QED
    BY <1>1, <1>4, <1>6

\* An amount, at a rate of c to m, is covered by what an entry takes.
Covered(c, x, m, y) == c * x <= m * (-y)
NotPositive(q) == \A i \in 1..Len(q) : q[i] <= 0

\* An entry that takes something covers no amount.
LEMMA CoveredNone ==
    ASSUME NEW c \in Int, NEW m \in Nat, NEW y \in Int, y <= 0
    PROVE  Covered(c, 0, m, y)
<1>1. c * 0 = 0 /\ -y \in Nat
    OBVIOUS
<1>2. m * (-y) >= 0
    BY <1>1
<1> QED
    BY <1>1, <1>2 DEF Covered

\* Two covered amounts are covered together.
LEMMA CoveredBoth ==
    ASSUME NEW c \in Int, NEW m \in Int, NEW x \in Int, NEW y \in Int, NEW u \in Int, NEW v \in Int,
           Covered(c, x, m, y), Covered(c, u, m, v - y)
    PROVE  Covered(c, x + u, m, v)
<1>1. c * (x + u) = c * x + c * u /\ m * (-v) = m * (-y) + m * (-(v - y))
    OBVIOUS
<1>2. c * x <= m * (-y) /\ c * u <= m * (-(v - y))
    BY DEF Covered
<1>3. c * x \in Int /\ c * u \in Int /\ m * (-y) \in Int /\ m * (-(v - y)) \in Int
    OBVIOUS
<1>4. c * x + c * u <= m * (-y) + m * (-(v - y))
    <2> DEFINE A == c * x
               B == c * u
               D == m * (-y)
               E == m * (-(v - y))
    <2>1. A \in Int /\ B \in Int /\ D \in Int /\ E \in Int /\ A <= D /\ B <= E
        BY <1>2, <1>3
    <2> HIDE DEF A, B, D, E
    <2>2. A + B <= D + E
        BY <2>1
    <2> QED
        BY <2>2 DEF A, B, D, E
<1> QED
    BY <1>1, <1>4 DEF Covered

\* Each amount is covered by an entry of its own.
Matching(S, f, q, p, c, m) ==
    /\ f \in [S -> Nat] /\ p \in [S -> 1..Len(q)] /\ NotPositive(q) /\ q \in Seq(Int)
    /\ \A a, b \in S : p[a] = p[b] => a = b
    /\ \A a \in S : Covered(c, f[a], m, q[p[a]])

\* Without the amount that FoldFunction picks, the others have their entries.
LEMMA MatchingRest ==
    ASSUME NEW S, S # {}, NEW f, NEW q, NEW p, NEW c, NEW m, Matching(S, f, q, p, c, m)
    PROVE  LET a == Pick(S)
               rest == S \ {a}
           IN  \E h, z, e : /\ Matching(rest, h, z, e, c, m) /\ Sum(z) = Sum(q) - q[p[a]]
                            /\ \A b \in rest : h[b] = f[b]
                            /\ a \in S /\ f[a] \in Int /\ q[p[a]] \in Int /\ Sum(q) \in Int
                            /\ Covered(c, f[a], m, q[p[a]])
<1> DEFINE a == Pick(S)
           rest == S \ {a}
           k == p[a]
           z == [q EXCEPT ![k] = 0]
           h == [b \in rest |-> f[b]]
           e == [b \in rest |-> p[b]]
<1>1. a \in S
    BY DEF Pick
<1> HIDE DEF a
<1>2. /\ f[a] \in Nat /\ k \in 1..Len(q) /\ q \in Seq(Int) /\ NotPositive(q)
      /\ Covered(c, f[a], m, q[k])
    BY <1>1 DEF Matching
<1>3. q[k] \in Int /\ Sum(q) \in Int
    <2> HIDE DEF k
    <2> QED
        BY <1>2, ElementOfSeq, SumType
<1>4. z \in Seq(Int) /\ Len(z) = Len(q) /\ z[k] = 0
          /\ \A i \in 1..Len(q) : i # k => z[i] = q[i]
    <2> HIDE DEF k
    <2> QED
        BY <1>2, ChangedSeq
<1>5. Sum(z) = Sum(q) - q[k]
    <2> HIDE DEF k
    <2>1. Sum(z) = Sum(q) - q[k] + 0
        BY <1>2, SumChange
    <2> HIDE DEF z
    <2> QED
        BY <1>3, <2>1
<1> HIDE DEF z
<1>6. NotPositive(z)
    <2>1. \A i \in 1..Len(q) : q[i] <= 0
        BY <1>2 DEF NotPositive
    <2>2. \A i \in 1..Len(q) : z[i] = 0 \/ z[i] = q[i]
        BY <1>4
    <2> SUFFICES ASSUME NEW i \in 1..Len(z) PROVE z[i] <= 0
        BY DEF NotPositive
    <2>3. (z[i] = 0 \/ z[i] = q[i]) /\ q[i] <= 0
        BY <1>4, <2>1, <2>2
    <2> HIDE DEF k
    <2> QED
        BY <2>3
<1>7. Matching(rest, h, z, e, c, m)
    <2>1. h \in [rest -> Nat] /\ e \in [rest -> 1..Len(z)]
        BY <1>4 DEF Matching
    <2>2. \A b, d \in rest : e[b] = e[d] => b = d
        BY DEF Matching
    <2>3. ASSUME NEW b \in rest PROVE Covered(c, h[b], m, z[e[b]])
        <3>1. h[b] = f[b] /\ e[b] = p[b] /\ p[b] # k /\ p[b] \in 1..Len(q)
            BY <1>1, <2>3 DEF Matching
        <3>2. z[e[b]] = q[p[b]]
            BY <1>4, <3>1
        <3>3. Covered(c, f[b], m, q[p[b]])
            BY <2>3 DEF Matching
        <3> QED
            BY <3>1, <3>2, <3>3
    <2> HIDE DEF h, e, rest
    <2> QED
        BY <1>4, <1>6, <2>1, <2>2, <2>3 DEF Matching
<1>8. \A b \in rest : h[b] = f[b]
    OBVIOUS
<1> HIDE DEF h, e, rest
<1>9. f[a] \in Int
    BY <1>2
<1> QED
    BY <1>1, <1>2, <1>3, <1>5, <1>7, <1>8, <1>9 DEF rest, a

\* What FoldFunction adds of a set depends on the entries of that set only.
LEMMA AddsUpPart ==
    ASSUME NEW S, NEW s \in SUBSET S, NEW f, NEW h, NEW g, AddsUp(S, f, g),
           \A b \in s : h[b] = f[b]
    PROVE  AddsUp(s, h, g)
<1> SUFFICES ASSUME NEW r \in SUBSET s PROVE g[r] = Added(h, r, g)
    BY DEF AddsUp
<1>1. g[r] = Added(f, r, g)
    BY DEF AddsUp
<1>2. r # {} => Pick(r) \in s
    BY DEF Pick
<1> QED
    BY <1>1, <1>2 DEF Added

\* Amounts that are each covered by an entry of their own are covered together.
LEMMA FoldCovered ==
    ASSUME NEW S, IsFiniteSet(S), NEW f, NEW q, NEW p, NEW c \in Int, NEW m \in Nat,
           Matching(S, f, q, p, c, m)
    PROVE  FoldSum(f) \in Int /\ Covered(c, FoldSum(f), m, Sum(q))
<1> DEFINE Holds(n) == \A s, h, z, e, g :
                /\ IsFiniteSet(s) /\ Cardinality(s) = n
                /\ Matching(s, h, z, e, c, m) /\ AddsUp(s, h, g)
                => g[s] \in Int /\ Covered(c, g[s], m, Sum(z))
           N == {n \in Nat : Holds(n)}
<1>1. Holds(0)
    <2> SUFFICES ASSUME NEW s, NEW h, NEW z, NEW e, NEW g, IsFiniteSet(s), Cardinality(s) = 0,
                        Matching(s, h, z, e, c, m), AddsUp(s, h, g)
                 PROVE  g[s] \in Int /\ Covered(c, g[s], m, Sum(z))
        OBVIOUS
    <2>1. s = {}
        BY FS_EmptySet
    <2>2. g[s] = 0
        BY <2>1 DEF AddsUp, Added
    <2>3. z \in Seq(Int) /\ \A i \in 1..Len(z) : z[i] <= 0
        BY DEF Matching, NotPositive
    <2>4. Sum(z) \in Int /\ Sum(z) <= 0
        BY <2>3, SumType, SumNotPositive
    <2> QED
        BY <2>2, <2>4, CoveredNone
<1>2. ASSUME NEW n \in Nat, Holds(n) PROVE Holds(n + 1)
    <2> SUFFICES ASSUME NEW s, NEW h, NEW z, NEW e, NEW g, IsFiniteSet(s), Cardinality(s) = n + 1,
                        Matching(s, h, z, e, c, m), AddsUp(s, h, g)
                 PROVE  g[s] \in Int /\ Covered(c, g[s], m, Sum(z))
        OBVIOUS
    <2> DEFINE a == Pick(s)
               rest == s \ {a}
               x == z[e[a]]
    <2>1. s # {}
        BY FS_EmptySet
    <2>2. PICK hr, zr, er : /\ Matching(rest, hr, zr, er, c, m) /\ Sum(zr) = Sum(z) - x
                            /\ \A b \in rest : hr[b] = h[b]
                            /\ a \in s /\ h[a] \in Int /\ x \in Int /\ Sum(z) \in Int
                            /\ Covered(c, h[a], m, x)
        BY <2>1, MatchingRest
    <2>3. IsFiniteSet(rest) /\ Cardinality(rest) = n
        <3>1. a \in s
            BY <2>2
        <3> HIDE DEF a
        <3>2. IsFiniteSet(rest) /\ Cardinality(rest) = Cardinality(s) - 1
            BY <3>1, FS_RemoveElement
        <3> HIDE DEF rest
        <3> QED
            BY <3>2
    <2>4. AddsUp(rest, hr, g)
        <3>1. rest \in SUBSET s
            OBVIOUS
        <3> HIDE DEF rest
        <3> QED
            BY <2>2, <3>1, AddsUpPart
    <2>5. g[rest] \in Int /\ Covered(c, g[rest], m, Sum(zr))
        <3> HIDE DEF rest
        <3> QED
            BY <1>2, <2>2, <2>3, <2>4
    <2>6. g[s] = h[a] + g[rest]
        BY <2>1 DEF AddsUp, Added
    <2>7. Covered(c, h[a] + g[rest], m, Sum(z))
        <3> HIDE DEF rest, a, x
        <3> QED
            BY <2>2, <2>5, CoveredBoth
    <2> HIDE DEF rest, a, x
    <2> QED
        BY <2>2, <2>5, <2>6, <2>7
<1> HIDE DEF Holds
<1>3. N = Nat
    <2>1. N \in SUBSET Nat /\ 0 \in N /\ \A n \in N : n + 1 \in N
        BY <1>1, <1>2
    <2> HIDE DEF N
    <2> QED
        BY <2>1, NatSetInduction
<1>4. Holds(Cardinality(S))
    <2>1. Cardinality(S) \in Nat
        BY FS_CardinalityType
    <2> QED
        BY <1>3, <2>1
<1>5. f \in [S -> Int]
    BY DEF Matching
<1>6. PICK g \in [SUBSET S -> Int] : AddsUp(S, f, g) /\ FoldSum(f) = g[S]
    BY <1>5, FoldIs
<1> QED
    BY <1>4, <1>6 DEF Holds

-----------------------------------------------------------------------------
(* Paddle gives back no more than was paid.                                *)

\* The money asked for some credits is at most their share of the price.
LEMMA MoneyCovered ==
    ASSUME NEW t \in Txns, NEW credits \in Nat
    PROVE  Covered(Credits[t], MoneyFor(t, credits), Total[t], -credits)
<1> DEFINE c == Credits[t]
           n == Total[t] * credits
<1>1. c \in Nat \ {0} /\ Total[t] \in Nat /\ Total[t] * credits \in Nat
    BY PaymentsAssumption
<1>2. c * (n \div c) <= n
    <2> n \in Nat /\ c \in Nat \ {0}
        BY <1>1
    <2> HIDE DEF n, c
    <2> QED
        OBVIOUS
<1>3. Total[t] * (-(-credits)) = n
    BY <1>1
<1> QED
    BY <1>2, <1>3 DEF MoneyFor, Covered

\* At most one request of a purchase is under the lock, and what it asks is left.
LEMMA OneInFlight ==
    ASSUME PInv, NEW t \in Txns, NEW w \in Workers, req[w].pc = "adjusted", req[w].txn = t
    PROVE  /\ req[w].credits \in Nat /\ req[w].credits <= Remaining(db, t)
           /\ \A v \in Workers : req[v].pc = "adjusted" /\ req[v].txn = t => v = w
           /\ req[w].id \in Adjustments /\ NoDebit(db, req[w].id)
           /\ adj[req[w].id].amount = MoneyFor(t, req[w].credits)
<1>1. Granted(w) /\ Created(w)
    BY DEF PInv, Asked, Asks, UnderLock
<1>2. req[w].credits \in Nat /\ req[w].id \in Adjustments
    BY DEF PInv, IInv, Requests, Request
<1>3. ASSUME NEW v \in Workers, req[v].pc = "adjusted", req[v].txn = t PROVE v = w
    <2>1. Granted(v)
        BY <1>3 DEF PInv, Asked, Asks, UnderLock
    <2> QED
        BY <1>1, <1>3, <2>1 DEF Granted
<1> QED
    BY <1>1, <1>2, <1>3 DEF Granted, Created

\* An adjustment that is not alerted is debited or still in flight.
LEMMA DebitedOrInFlight ==
    ASSUME PInv, "answer_lost" \notin Faults, NEW t \in Txns, NEW a \in Adjustments,
           adj[a].txn = t, ~adj[a].alerted
    PROVE  /\ adj[a].status # "none"
           /\ \/ DebitsOf(db, t, a) # {}
              \/ \E w \in Workers : req[w].pc = "adjusted" /\ req[w].txn = t /\ req[w].id = a
<1>1. adj[a].status # "none"
    BY PaymentsAssumption DEF PInv, Answered, NoAdjustment
<1>2. CASE DebitsOf(db, t, a) # {}
    BY <1>1, <1>2
<1>3. CASE DebitsOf(db, t, a) = {}
    <2>1. InFlight(a)
        BY <1>1, <1>3 DEF PInv, Accounted
    <2>2. PICK w \in Workers : req[w].id = a
        BY <2>1 DEF InFlight
    <2>3. req[w].pc = "adjusted"
        BY <2>2, PaymentsAssumption DEF PInv, Asked, Asks
    <2>4. req[w].txn = t
        BY <2>2, <2>3 DEF PInv, Asked, Asks, Created
    <2> QED
        BY <1>1, <2>2, <2>3, <2>4
<1> QED
    BY <1>2, <1>3

\* What an adjustment gave back is covered by its debit, unless it was rejected.
LEMMA DebitCovers ==
    ASSUME PInv, NEW t \in Txns, NEW a \in Adjustments, adj[a].txn = t,
           adj[a].status # "rejected", NEW i \in DebitsOf(db, t, a)
    PROVE  Covered(Credits[t], adj[a].amount, Total[t], Open(db.rows[Cash(Buyer[t])], "refund", t)[i])
<1> DEFINE b == Cash(Buyer[t])
           row == db.rows[b][i]
<1>1. i \in DOMAIN db.rows[b] /\ row.reason = "refund" /\ row.amount < 0 /\ row.ref = a
    BY DEF DebitsOf
<1>2. row \in Log(db, b) /\ b \in Accounts /\ IsDebit(row)
    BY <1>1, AccountTypes DEF Log, IsDebit
<1>3. row \in Row /\ Agrees(row) /\ RowShaped(db, b, row)
    BY <1>2, LogType DEF PInv, IInv, Sound, Answered, DebitsAgree, Books, WellKept, Shaped
<1>4. row.key[2] = t /\ adj[a].amount = MoneyFor(t, -row.amount)
    BY <1>1, <1>2, <1>3 DEF Agrees
<1>5. Of(row, "refund", t)
    BY <1>1, <1>3, <1>4 DEF Of, IsRefundOf, RowShaped
<1>6. ~Undone(db.rows[b], "refund", t, a)
    <2> SUFFICES ASSUME Undone(db.rows[b], "refund", t, a) PROVE FALSE
        OBVIOUS
    <2>1. PICK r \in Log(db, b) : GivesBack(r, "refund", t, a)
        BY UndoneSays
    <2>2. r.reason = "refund" /\ r.amount > 0 /\ r.ref = a
        BY <2>1 DEF GivesBack, Of, IsRefundOf
    <2>3. Agrees(r)
        BY <1>2 DEF PInv, Answered, DebitsAgree
    <2> QED
        BY <2>2, <2>3 DEF Agrees
<1>7. Open(db.rows[b], "refund", t)[i] = row.amount
    BY <1>1, <1>5, <1>6 DEF Open
<1>8. row.amount \in Int /\ -row.amount \in Nat /\ -(-row.amount) = row.amount
    <2> HIDE DEF row
    <2> row.amount \in Int
        BY <1>3 DEF Row
    <2> QED
        BY <1>1
<1>9. Covered(Credits[t], MoneyFor(t, -row.amount), Total[t], -(-row.amount))
    BY <1>8, MoneyCovered
<1> QED
    BY <1>4, <1>7, <1>8, <1>9

\* Without lost answers Paddle never pays back more than the buyer paid, with the
\* refund in flight counted: the debits it committed or is about to cover it.
LEMMA MoneyBounds ==
    ASSUME PInv, "answer_lost" \notin Faults, NEW t \in Txns,
           NEW of, of = {a \in Adjustments : adj[a].txn = t}, \A a \in of : ~adj[a].alerted,
           NEW out, out = [a \in of |-> IF adj[a].status = "rejected" THEN 0 ELSE adj[a].amount]
    PROVE  FoldSum(out) <= Total[t]
<1> DEFINE b == Cash(Buyer[t])
           rows == db.rows[b]
           n == Len(rows)
           open == Open(rows, "refund", t)
           flying == {w \in Workers : req[w].pc = "adjusted" /\ req[w].txn = t}
           x == IF flying = {} THEN 0 ELSE req[CHOOSE w \in flying : TRUE].credits
           q == Append(open, -x)
           p == [a \in of |-> IF DebitsOf(db, t, a) # {} THEN CHOOSE i \in DebitsOf(db, t, a) : TRUE
                              ELSE n + 1]
<1>1. /\ b \in Accounts /\ rows \in Seq(Row) /\ n \in Nat /\ DOMAIN rows = 1..n
      /\ Tallied(rows, "refund", t)
    <2>1. b \in Accounts
        BY AccountTypes
    <2>2. rows \in Seq(Row)
        BY <2>1, LogType DEF PInv, IInv, Sound
    <2>3. Tallied(rows, "refund", t)
        BY <2>1 DEF PInv, Books, WellKept, AllTallied
    <2> QED
        BY <2>1, <2>2, <2>3, LenProperties
<1>2. open \in Seq(Int) /\ Len(open) = n /\ \A i \in 1..n : open[i] <= 0
    BY <1>1, CountedType
<1>3. Remaining(db, t) \in Nat /\ Remaining(db, t) = Credits[t] + Sum(open) /\ Sum(open) \in Int
    <2>1. Remaining(db, t) \in 0..Credits[t]
        BY RemainingBounds DEF PInv
    <2>2. Remaining(db, t) = Credits[t] + Sum(Counted(rows, "refund", t))
        BY SumsAre
    <2> QED
        BY <1>1, <1>2, <2>1, <2>2, SumType, PaymentsAssumption DEF Tallied
<1>4. x \in Nat /\ x <= Remaining(db, t)
    <2>1. CASE flying = {}
        BY <1>3, <2>1
    <2>2. CASE flying # {}
        <3>1. PICK w \in Workers : /\ w = CHOOSE v \in flying : TRUE
                                   /\ req[w].pc = "adjusted" /\ req[w].txn = t
            BY <2>2
        <3>2. x = req[w].credits
            BY <2>2, <3>1
        <3> QED
            BY <3>1, <3>2, OneInFlight
    <2> QED
        BY <2>1, <2>2
<1>5. ASSUME NEW w \in Workers, req[w].pc = "adjusted", req[w].txn = t PROVE x = req[w].credits
    <2>1. \A v \in flying : v = w
        BY <1>5, OneInFlight
    <2>2. w \in flying
        BY <1>5
    <2>3. (CHOOSE v \in flying : TRUE) = w
        BY <2>1, <2>2
    <2> QED
        BY <2>2, <2>3
<1> HIDE DEF x, open, flying
<1>6. q \in Seq(Int) /\ Len(q) = n + 1 /\ q[n + 1] = -x /\ \A i \in 1..n : q[i] = open[i]
    <2> -x \in Int
        BY <1>4
    <2> QED
        BY <1>1, <1>2
<1>7. Sum(q) = Sum(open) + (-x)
    <2> -x \in Int
        BY <1>4
    <2> QED
        BY <1>2, SumAppend
<1> HIDE DEF q, n, rows
<1>8. NotPositive(q)
    <2>1. -x <= 0
        BY <1>4
    <2>2. \A i \in 1..(n + 1) : i \in 1..n \/ i = n + 1
        BY <1>1
    <2> SUFFICES ASSUME NEW i \in 1..(n + 1) PROVE q[i] <= 0
        BY <1>6 DEF NotPositive
    <2>3. (q[i] = open[i] /\ i \in 1..n) \/ q[i] = -x
        BY <1>6, <2>2
    <2> QED
        BY <1>2, <2>1, <2>3
<1>9. ASSUME NEW a \in of
      PROVE  /\ a \in Adjustments /\ adj[a].txn = t /\ ~adj[a].alerted /\ adj[a].status # "none"
             /\ adj[a].amount \in Nat
             /\ \/ p[a] \in DebitsOf(db, t, a) /\ p[a] \in 1..n
                \/ /\ p[a] = n + 1
                   /\ \E w \in Workers : req[w].pc = "adjusted" /\ req[w].txn = t /\ req[w].id = a
    <2>1. a \in Adjustments /\ adj[a].txn = t /\ ~adj[a].alerted
        BY <1>9
    <2>2. adj[a].amount \in Nat
        BY <2>1 DEF PInv, IInv, AtPaddle, Adjustment
    <2>3. /\ adj[a].status # "none"
          /\ \/ DebitsOf(db, t, a) # {}
             \/ \E w \in Workers : req[w].pc = "adjusted" /\ req[w].txn = t /\ req[w].id = a
        BY <2>1, DebitedOrInFlight
    <2>4. DebitsOf(db, t, a) \subseteq 1..n
        BY <1>1 DEF DebitsOf, rows
    <2> QED
        BY <2>1, <2>2, <2>3, <2>4
<1>10. out \in [of -> Nat] /\ p \in [of -> 1..Len(q)]
    <2>1. ASSUME NEW a \in of PROVE p[a] \in 1..(n + 1)
        <3>1. p[a] \in 1..n \/ p[a] = n + 1
            BY <1>9
        <3> HIDE DEF p
        <3> QED
            BY <1>1, <3>1
    <2>2. out \in [of -> Nat]
        BY <1>9
    <2> QED
        BY <1>6, <2>1, <2>2
<1>11. ASSUME NEW a \in of, NEW d \in of, p[a] = p[d] PROVE a = d
    <2>1. CASE p[a] \in 1..n
        <3>1. p[a] # n + 1
            BY <1>1, <2>1
        <3>2. p[a] \in DebitsOf(db, t, a) /\ p[a] \in DebitsOf(db, t, d)
            BY <1>9, <1>11, <3>1
        <3> QED
            BY <3>2 DEF DebitsOf
    <2>2. CASE p[a] \notin 1..n
        <3>1. /\ \E w \in Workers : req[w].pc = "adjusted" /\ req[w].txn = t /\ req[w].id = a
              /\ \E w \in Workers : req[w].pc = "adjusted" /\ req[w].txn = t /\ req[w].id = d
            BY <1>9, <1>11, <2>2
        <3> QED
            BY <3>1, OneInFlight
    <2> QED
        BY <2>1, <2>2
<1>12. ASSUME NEW a \in of PROVE Covered(Credits[t], out[a], Total[t], q[p[a]])
    <2>1. Credits[t] \in Int /\ Total[t] \in Nat
        BY PaymentsAssumption
    <2>2. CASE adj[a].status = "rejected"
        <3>1. out[a] = 0 /\ p[a] \in 1..Len(q)
            BY <1>10, <2>2
        <3>2. q[p[a]] \in Int /\ q[p[a]] <= 0
            BY <1>6, <1>8, <3>1, ElementOfSeq DEF NotPositive
        <3> QED
            BY <2>1, <3>1, <3>2, CoveredNone
    <2>3. CASE adj[a].status # "rejected" /\ p[a] \in DebitsOf(db, t, a) /\ p[a] \in 1..n
        <3>1. out[a] = adj[a].amount /\ q[p[a]] = open[p[a]]
            BY <1>6, <2>3
        <3> HIDE DEF p
        <3>2. Covered(Credits[t], adj[a].amount, Total[t], open[p[a]])
            BY <1>9, <2>3, DebitCovers DEF open, rows
        <3> QED
            BY <3>1, <3>2
    <2>4. CASE adj[a].status # "rejected" /\ p[a] = n + 1
        <3>1. PICK w \in Workers : req[w].pc = "adjusted" /\ req[w].txn = t /\ req[w].id = a
            <4>1. n + 1 \notin 1..n
                BY <1>1
            <4> QED
                BY <1>9, <2>4, <4>1
        <3>2. out[a] = MoneyFor(t, req[w].credits) /\ q[p[a]] = -x /\ x = req[w].credits
            BY <1>5, <1>6, <2>4, <3>1, OneInFlight
        <3>3. Covered(Credits[t], MoneyFor(t, x), Total[t], -x)
            BY <1>4, MoneyCovered
        <3> QED
            BY <3>2, <3>3
    <2> QED
        BY <1>9, <2>2, <2>3, <2>4
<1>13. IsFiniteSet(of)
    <2>1. of \subseteq Existing
        BY <1>9 DEF Existing
    <2> QED
        BY <2>1, FS_Subset DEF PInv, Answered
<1>14. Matching(of, out, q, p, Credits[t], Total[t])
    BY <1>6, <1>8, <1>10, <1>11, <1>12 DEF Matching
<1>15. FoldSum(out) \in Int /\ Covered(Credits[t], FoldSum(out), Total[t], Sum(q))
    <2> Credits[t] \in Int /\ Total[t] \in Nat
        BY PaymentsAssumption
    <2> HIDE DEF p
    <2> QED
        BY <1>13, <1>14, FoldCovered
<1>16. Sum(q) \in Int /\ -Sum(q) <= Credits[t]
    BY <1>3, <1>4, <1>7, PaymentsAssumption
<1> DEFINE F == FoldSum(out)
           y == Sum(q)
<1> HIDE DEF F, y
<1>17. /\ Credits[t] \in Nat \ {0} /\ Total[t] \in Nat /\ F \in Int /\ y \in Int
       /\ Credits[t] * F <= Total[t] * (-y) /\ -y <= Credits[t]
    BY <1>15, <1>16, PaymentsAssumption DEF F, y, Covered
<1>18. Total[t] * (-y) <= Total[t] * Credits[t]
    BY <1>17
<1>19. Credits[t] * F <= Credits[t] * Total[t]
    BY <1>17, <1>18
<1>20. F <= Total[t]
    BY <1>17, <1>19
<1> QED
    BY <1>20 DEF F

\* Where no answer of Paddle is lost, and unless an alert asked Ops to reconcile,
\* Paddle gives back no more than the buyer paid, and no more credits are
\* refunded than were bought (routers/admin.py, refund_payment).
THEOREM RefundsWithinWhatWasPaid ==
    ASSUME "answer_lost" \notin Faults
    PROVE  Spec => []RefundsWithinPayment
<1>1. ASSUME PInv PROVE MoneyWithinPayment
    <2> SUFFICES ASSUME NEW t \in Txns,
                        NEW of, of = {a \in Adjustments : adj[a].txn = t},
                        \A a \in of : ~adj[a].alerted,
                        NEW out,
                        out = [a \in of |-> IF adj[a].status = "rejected" THEN 0 ELSE adj[a].amount]
                 PROVE  FoldFunction(+, 0, out) <= Total[t]
        BY DEF MoneyWithinPayment
    <2>1. FoldSum(out) <= Total[t]
        BY <1>1, MoneyBounds
    <2> QED
        BY <2>1 DEF FoldSum
<1>2. PInv => RefundsWithinPurchase
    BY RemainingBounds DEF PInv, RefundsWithinPurchase
<1>3. PInv => RefundsWithinPayment
    BY <1>1, <1>2 DEF RefundsWithinPayment
<1> QED
    BY <1>3, InitPInv, NextPInv, PTL DEF Spec
=============================================================================
