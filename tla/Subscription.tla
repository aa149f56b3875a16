---------------------------- MODULE Subscription ----------------------------
(***************************************************************************)
(* Monthly subscriptions paid from the credit ledger:                      *)
(* services/subscription.py, called by the routes of routers/me.py, by the *)
(* report batches (tasks/report_tasks.py) and by the launch script, with   *)
(* the unsubscribe link and bounced reports that end verification.         *)
(*                                                                         *)
(* Dates are day numbers, 0 for none; Months gives the lengths of the      *)
(* months, so that a period and its anchor day are computed as in the      *)
(* code.  Each operation takes the user's row lock first and commits once: *)
(* it is one action.  Only two things are older than the lock: the date a  *)
(* request carries, and what the unsubscribe link read.                    *)
(***************************************************************************)
EXTENDS CreditLedger, FiniteSets

CONSTANTS
    Subscribers,    \* the users who subscribe; the others only refer them
    Briefing,       \* BRIEFING_PLANS, which are also the report cadences
    DefaultCadence, \* the cadence of a new Jade subscription, "daily"
    Jade,           \* the plan above them
    Fee,            \* PLAN_FEES
    JadeDiscountFee, JadeDiscountPeriods,
    SignupGrant,    \* gift credits of a new user
    RateNum, RateDen,   \* REFERRAL_FIRST_SUBSCRIPTION_RATE
    Months,         \* the lengths of the months
    LastDay,        \* bound: the day a run ends
    Addresses,      \* a user's account and delivery addresses
    Bouncing,       \* the addresses that reports may bounce from
    TopUps,         \* keys of admin adjustments, how credits come in
    TopUpAmounts,
    InitialInviter,
    LegacyCadence,  \* the cadence a user had before subscriptions existed
    LateDates       \* may a request carry the date of the day before?

Plans == Briefing \cup {Jade}
Days == 1..LastDay

ASSUME SubscriptionAssumption ==
    /\ Subscribers \subseteq Users /\ None \notin Users \cup Plans
    /\ Jade \notin Briefing /\ DefaultCadence \in Briefing
    /\ Fee \in [Plans -> Nat \ {0}] /\ JadeDiscountFee \in Nat \ {0}
    /\ JadeDiscountPeriods \in Nat /\ SignupGrant \in Nat
    /\ RateNum \in Nat /\ RateDen \in Nat \ {0}
    /\ Months \in Seq(Nat \ {0}) /\ LastDay \in Nat \ {0}
    /\ Users \cup Plans \cup TopUps \cup {None} \cup (Users \X Days) \subseteq Ids
    /\ TopUpAmounts \subseteq Nat \ {0}
    /\ InitialInviter \in [Users -> Users \cup {None}]
    /\ \A u \in Users : InitialInviter[u] # u
    /\ LegacyCadence \in [Subscribers -> Briefing \cup {None}]
    /\ Bouncing \subseteq Addresses /\ LateDates \in BOOLEAN

VARIABLES
    db,         \* the users and credit_ledger tables, without subscriptions
    sub,        \* the subscription columns of each subscriber
    verified,   \* the addresses of each subscriber that are verified
    leaving,    \* what an unsubscribe click has read and will write
    today       \* the ET date

vars == <<db, sub, verified, leaving, today>>

Statuses == {"inactive", "active", "expired", "cancelled"}
Subscription == [status : Statuses, type : Plans \cup {None},
                 cadence : Briefing \cup {None},
                 start : Nat, expiry : Nat, anchor : Nat, adjusted : Nat,
                 pending : BOOLEAN, freeUsed : BOOLEAN, discounts : Nat]

-----------------------------------------------------------------------------
(* The calendar.                                                           *)

MonthStart[m \in 1..(Len(Months) + 1)] ==
    IF m = 1 THEN 1 ELSE MonthStart[m - 1] + Months[m - 1]

\* The bound on days leaves a month of the calendar for the periods it begins.
ASSUME CalendarAssumption == Months # <<>> /\ LastDay < MonthStart[Len(Months)]

Month(day) == CHOOSE m \in DOMAIN Months : day \in MonthStart[m]..(MonthStart[m + 1] - 1)
DayOfMonth(day) == day - MonthStart[Month(day)] + 1

\* next_expiry: the anchor day of the next month, or its last day.
NextExpiry(day, anchor) ==
    LET m == Month(day) + 1
    IN  MonthStart[m] - 1 + (IF anchor < Months[m] THEN anchor ELSE Months[m])

\* The dates a request may carry: it reads today_et() before it waits for the
\* lock, and midnight may pass meanwhile.
Dates == IF LateDates /\ today > 1 THEN {today - 1, today} ELSE {today}

-----------------------------------------------------------------------------
(* Queries.                                                                *)

ChargeKey(u, day, plan) == <<"subscription", <<u, day>>, plan>>
ReturnKey(u, day, plan) == <<"subscription_return", <<u, day>>, plan>>
FirstBonusKey(u) == <<"referral_subscription", u, None>>
SignupGrantKey(u) == <<"signup_grant", u, None>>
CurrentCharge(u) == ChargeKey(u, sub[u].start, sub[u].type)
CurrentReturn(u) == ReturnKey(u, sub[u].start, sub[u].type)

\* What one key moved on one account, and in all.
Under(d, account, key) ==
    Sum([i \in DOMAIN d.rows[account] |->
            IF d.rows[account][i].key = key THEN d.rows[account][i].amount ELSE 0])
UnderBoth(d, u, key) == Under(d, Cash(u), key) + Under(d, Gift(u), key)

\* The distinct keys of a user's subscription charges.
ChargeKeys(d, u) ==
    UNION {{d.rows[a][i].key : i \in {j \in DOMAIN d.rows[a] :
                d.rows[a][j].reason = "subscription"}} : a \in {Cash(u), Gift(u)}}

Credits(u) == db.balance[Cash(u)] + db.balance[Gift(u)]
HasVerifiedEmail(u) == verified[u] # {}
IsJade(s) == s.status = "active" /\ s.type = Jade
Overdue(s, day) == s.status = "active" /\ day > s.expiry

PlanFee(s, plan) ==
    IF plan = Jade /\ s.discounts < JadeDiscountPeriods THEN JadeDiscountFee ELSE Fee[plan]

\* Mutant: the cadence is the plan, Jade or not.
ResultingCadencePlan(s, plan) == plan

ResultingCadence(s, plan) ==
    IF plan # Jade THEN plan
    ELSE IF s.cadence \in Briefing /\ (s.status = "active" \/ s.type = Jade)
         THEN s.cadence ELSE DefaultCadence

\* _plan_change: what asking for a plan means.
PlanAction(s, day, plan) ==
    IF s.status # "active" THEN "subscribe"
    ELSE IF plan = s.type /\ ~s.pending THEN "none"
    ELSE IF day > s.expiry THEN "subscribe"
    ELSE IF plan = s.type THEN "resume" ELSE "change"

\* The first change to Jade is free, and nothing is returned for it.
FreeUpgrade(s, action, plan) == action = "change" /\ plan = Jade /\ ~s.freeUsed

\* Mutant: the return is rounded up past what was paid.
ReturnOfDays(paid, unused, total) == (paid * unused + total) \div total

\* The unused days' share of what was paid, rounded up to the cent.
ReturnOf(paid, unused, total) ==
    LET up == (paid * unused + total - 1) \div total
    IN  IF up < paid THEN up ELSE paid

\* The return of the current charge on a change: cash first.
ReturnParts(u, day) ==
    LET s == sub[u]
        cashPaid == -Under(db, Cash(u), CurrentCharge(u))
        paid == -UnderBoth(db, u, CurrentCharge(u))
        returned == ReturnOf(paid, s.expiry - day + 1, s.expiry - s.start + 1)
        cash == IF returned < cashPaid THEN returned ELSE cashPaid
    IN  [cash |-> cash, gift |-> returned - cash]

-----------------------------------------------------------------------------
(* The ledger's writers for subscriptions.                                 *)

\* consume_credits: a known key of the same amount is a replay and charges
\* nothing, of another amount an IdempotencyConflict; else the balance decides.
CanCharge(d, u, fee, key) ==
    IF HasKey(d, key) THEN UnderBoth(d, u, key) = -fee ELSE CanConsume(d, u, fee)
Charged(d, u, fee, key, plan) ==
    IF HasKey(d, key) THEN d ELSE Consumed(d, u, fee, "subscription", key, plan)

\* return_subscription_credits, with the same two answers to a known key.
CanReturn(d, u, parts, key) ==
    HasKey(d, key) => UnderBoth(d, u, key) = parts.cash + parts.gift
AfterReturn(d, u, parts, key, ref) ==
    IF HasKey(d, key) THEN d ELSE Returned(d, u, parts.cash, parts.gift, key, ref)

FirstBonus == RoundHalfUp(SignupGrant * RateNum, RateDen)

\* Mutant: the bonus is for a charge whose key is new, first or not.
WithBonusEachTime(d, u) ==
    IF FirstBonus = 0 \/ Referrer(d, u) = None THEN d
    ELSE Posted(d, Gift(Referrer(d, u)), FirstBonus, "referral_bonus", FirstBonusKey(u), u)

\* referral_subscription_bonus: for the only charge so far.
WithFirstBonus(d, u) ==
    IF \/ Cardinality(ChargeKeys(d, u)) # 1
       \/ HasKey(d, FirstBonusKey(u))
       \/ Referrer(d, u) = None
       \/ FirstBonus = 0
    THEN d
    ELSE Posted(d, Gift(Referrer(d, u)), FirstBonus, "referral_bonus", FirstBonusKey(u), u)

\* Mutant: every charge of Jade uses up a discounted period.
AfterAnyCharge(s, plan) ==
    [s EXCEPT !.freeUsed = @ \/ plan = Jade,
              !.discounts = IF plan = Jade THEN @ + 1 ELSE @]

\* _charge_period's columns.
AfterCharge(s, plan) ==
    [s EXCEPT !.freeUsed = @ \/ plan = Jade,
              !.discounts = IF plan = Jade /\ PlanFee(s, plan) = JadeDiscountFee
                            THEN @ + 1 ELSE @]

\* _fresh_subscribe's columns: a full period from a day.
Fresh(s, day, plan) ==
    [s EXCEPT !.status = "active", !.type = plan, !.cadence = ResultingCadence(s, plan),
              !.start = day, !.anchor = DayOfMonth(day),
              !.expiry = NextExpiry(day, DayOfMonth(day)), !.pending = FALSE]

\* _fresh_subscribe with a charge: the charge, the referrer's bonus, the columns.
Subscribe(d, u, day, plan, adjusted) ==
    LET fee == PlanFee(sub[u], plan)
        key == ChargeKey(u, day, plan)
    IN  /\ CanCharge(d, u, fee, key)
        /\ db' = WithFirstBonus(Charged(d, u, fee, key, plan), u)
        /\ sub' = [sub EXCEPT ![u] =
                     [Fresh(AfterCharge(@, plan), day, plan) EXCEPT !.adjusted = adjusted]]

-----------------------------------------------------------------------------
Init ==
    /\ db = [exists |-> [u \in Users |-> TRUE],
             inviter |-> InitialInviter,
             balance |-> [a \in Accounts |-> IF a[2] = "gift" THEN SignupGrant ELSE 0],
             rows |-> [a \in Accounts |->
                        IF a[2] = "gift" /\ SignupGrant # 0
                        THEN <<[amount |-> SignupGrant, after |-> SignupGrant,
                                reason |-> "signup_grant", key |-> SignupGrantKey(a[1]),
                                ref |-> None]>>
                        ELSE <<>>]]
    /\ sub = [u \in Subscribers |->
                [status |-> "inactive", type |-> None, cadence |-> LegacyCadence[u],
                 start |-> 0, expiry |-> 0, anchor |-> 0, adjusted |-> 0,
                 pending |-> FALSE, freeUsed |-> FALSE, discounts |-> 0]]
    /\ verified = [u \in Subscribers |-> {}]
    /\ leaving = [u \in Subscribers |-> [a \in Addresses |-> "no"]]
    /\ today = 1

Midnight ==
    /\ today < LastDay
    /\ today' = today + 1
    /\ UNCHANGED <<db, sub, verified, leaving>>

-----------------------------------------------------------------------------
(* What a user asks for: at most one adjustment that succeeds a day.       *)

MayAdjust(u, day) == sub[u].adjusted # day

\* set_plan, same plan with a pending cancellation: the cancellation is undone.
SetPlanResumes(u, plan, day) ==
    /\ MayAdjust(u, day) /\ HasVerifiedEmail(u)
    /\ PlanAction(sub[u], day, plan) = "resume"
    /\ sub' = [sub EXCEPT ![u].pending = FALSE, ![u].adjusted = day]
    /\ UNCHANGED <<db, verified, leaving, today>>

\* set_plan, the first change to Jade: a period for nothing.
SetPlanUpgrades(u, plan, day) ==
    /\ MayAdjust(u, day) /\ HasVerifiedEmail(u)
    /\ FreeUpgrade(sub[u], PlanAction(sub[u], day, plan), plan)
    /\ Credits(u) >= 0
    /\ sub' = [sub EXCEPT ![u] =
                 [Fresh([@ EXCEPT !.freeUsed = TRUE], day, plan) EXCEPT !.adjusted = day]]
    /\ UNCHANGED <<db, verified, leaving, today>>

\* set_plan, without a period to return: a fresh one is charged.
SetPlanSubscribes(u, plan, day) ==
    /\ MayAdjust(u, day) /\ HasVerifiedEmail(u)
    /\ IsJade(sub[u]) => plan = Jade
    /\ PlanAction(sub[u], day, plan) = "subscribe"
    /\ Credits(u) >= PlanFee(sub[u], plan)
    /\ Subscribe(db, u, day, plan, day)
    /\ UNCHANGED <<verified, leaving, today>>

\* set_plan, another plan: the unused days are returned, then a fresh period is
\* charged.
SetPlanChanges(u, plan, day) ==
    LET parts == ReturnParts(u, day) IN
    /\ MayAdjust(u, day) /\ HasVerifiedEmail(u)
    /\ ~IsJade(sub[u])
    /\ PlanAction(sub[u], day, plan) = "change"
    /\ ~FreeUpgrade(sub[u], "change", plan)
    /\ Credits(u) + parts.cash + parts.gift >= PlanFee(sub[u], plan)
    /\ CanReturn(db, u, parts, CurrentReturn(u))
    /\ Subscribe(AfterReturn(db, u, parts, CurrentReturn(u), CurrentCharge(u)),
                 u, day, plan, day)
    /\ UNCHANGED <<verified, leaving, today>>

\* cancel.
Cancel(u, day) ==
    /\ MayAdjust(u, day)
    /\ sub[u].status = "active" /\ ~sub[u].pending
    /\ sub' = [sub EXCEPT ![u].pending = TRUE, ![u].adjusted = day]
    /\ UNCHANGED <<db, verified, leaving, today>>

\* resume.
Resume(u, day) ==
    /\ MayAdjust(u, day)
    /\ sub[u].status = "active" /\ ~Overdue(sub[u], day)
    /\ sub[u].pending /\ HasVerifiedEmail(u)
    /\ sub' = [sub EXCEPT ![u].pending = FALSE, ![u].adjusted = day]
    /\ UNCHANGED <<db, verified, leaving, today>>

\* set_jade_cadence.
SetJadeCadence(u, cadence) ==
    /\ IsJade(sub[u])
    /\ sub' = [sub EXCEPT ![u].cadence = cadence]
    /\ UNCHANGED <<db, verified, leaving, today>>

\* credit_adjustment_by_email, gift credits, once for each key.
TopsUp(u, amount, k) ==
    /\ ~HasKey(db, AdjustmentKey(k))
    /\ db' = Posted(db, Gift(u), amount, "admin_adjustment", AdjustmentKey(k), None)
    /\ UNCHANGED <<sub, verified, leaving, today>>

-----------------------------------------------------------------------------
(* Verification, the unsubscribe link and bounced reports.                 *)

\* confirm_verification writes its timestamp without reading the row again.
Verifies(u, a) ==
    /\ a \notin verified[u]
    /\ verified' = [verified EXCEPT ![u] = @ \cup {a}]
    /\ UNCHANGED <<db, sub, leaving, today>>

\* confirm_unsubscribe reads the row without its lock and decides.  A link to an
\* address that is not verified any more may still cancel ("pends")...
UnsubscribeReads(u, a) ==
    LET cancels == verified[u] \ {a} = {} /\ sub[u].status = "active" /\ ~sub[u].pending
        holds == a \in verified[u]
    IN /\ leaving[u][a] = "no"
       /\ holds \/ cancels
       /\ leaving' = [leaving EXCEPT ![u][a] = IF ~cancels THEN "leaves"
                                               ELSE IF holds THEN "cancels" ELSE "pends"]
       /\ UNCHANGED <<db, sub, verified, today>>

\* ...and writes only the columns it changed.
UnsubscribeCommits(u, a) ==
    /\ leaving[u][a] # "no"
    /\ verified' = IF leaving[u][a] = "pends" THEN verified
                                              ELSE [verified EXCEPT ![u] = @ \ {a}]
    /\ sub' = IF leaving[u][a] = "leaves" THEN sub ELSE [sub EXCEPT ![u].pending = TRUE]
    /\ leaving' = [leaving EXCEPT ![u][a] = "no"]
    /\ UNCHANGED <<db, today>>

\* poll_report_delivery: a report bounced, and one UPDATE clears the timestamp.
Bounces(u, a) ==
    /\ a \in verified[u]
    /\ verified' = [verified EXCEPT ![u] = @ \ {a}]
    /\ UNCHANGED <<db, sub, leaving, today>>

-----------------------------------------------------------------------------
(* The scheduled check, _check_user, which a batch runs for every user on  *)
(* a cadence that is due, in a transaction of its own.                     *)

Scheduled(u) == sub[u].cadence \in Briefing

\* Mutants: the cadence is left; only a pending cancellation counts.
CheckCancelsKeepsCadence(u, day) ==
    /\ Scheduled(u) /\ Overdue(sub[u], day)
    /\ sub[u].pending \/ ~HasVerifiedEmail(u)
    /\ sub' = [sub EXCEPT ![u].status = "cancelled", ![u].type = None,
                          ![u].pending = FALSE]
    /\ UNCHANGED <<db, verified, leaving, today>>
CheckCancelsPending(u, day) ==
    /\ Scheduled(u) /\ Overdue(sub[u], day)
    /\ sub[u].pending
    /\ sub' = [sub EXCEPT ![u].status = "cancelled", ![u].type = None,
                          ![u].cadence = None, ![u].pending = FALSE]
    /\ UNCHANGED <<db, verified, leaving, today>>

\* A user who left, or whom no address is verified for, is let go.
CheckCancels(u, day) ==
    /\ Scheduled(u) /\ Overdue(sub[u], day)
    /\ sub[u].pending \/ ~HasVerifiedEmail(u)
    /\ sub' = [sub EXCEPT ![u].status = "cancelled", ![u].type = None,
                          ![u].cadence = None, ![u].pending = FALSE]
    /\ UNCHANGED <<db, verified, leaving, today>>

\* Mutant: a pending cancellation is ignored.
RenewableUnlessUnverified(u, day) ==
    /\ Scheduled(u) /\ Overdue(sub[u], day)
    /\ HasVerifiedEmail(u)

Renewable(u, day) ==
    /\ Scheduled(u) /\ Overdue(sub[u], day)
    /\ ~sub[u].pending /\ HasVerifiedEmail(u)

\* Mutant: the new period is charged from its own day, and runs from the old end.
RenewalDayToday(u, day) == day

\* The day a renewal starts: the end of the old period, or today when a whole
\* period was missed.
RenewalDay(u, day) ==
    IF NextExpiry(sub[u].expiry, sub[u].anchor) >= day THEN sub[u].expiry ELSE day
RenewalCharge(u, day) == ChargeKey(u, RenewalDay(u, day), sub[u].type)

\* The next period follows the old one, with its anchor.
CheckRenews(u, day) ==
    LET s == sub[u] IN
    /\ Renewable(u, day)
    /\ NextExpiry(s.expiry, s.anchor) >= day
    /\ CanCharge(db, u, PlanFee(s, s.type), RenewalCharge(u, day))
    /\ db' = Charged(db, u, PlanFee(s, s.type), RenewalCharge(u, day), s.type)
    /\ sub' = [sub EXCEPT ![u] = [AfterCharge(@, s.type) EXCEPT
                    !.start = s.expiry, !.expiry = NextExpiry(s.expiry, s.anchor)]]
    /\ UNCHANGED <<verified, leaving, today>>

\* A whole period was missed: a fresh one.
CheckRestarts(u, day) ==
    /\ Renewable(u, day)
    /\ NextExpiry(sub[u].expiry, sub[u].anchor) < day
    /\ Subscribe(db, u, day, sub[u].type, sub[u].adjusted)
    /\ UNCHANGED <<verified, leaving, today>>

\* The balance does not cover the fee.
CheckExpires(u, day) ==
    /\ Renewable(u, day)
    /\ ~HasKey(db, RenewalCharge(u, day))
    /\ ~CanConsume(db, u, PlanFee(sub[u], sub[u].type))
    /\ sub' = [sub EXCEPT ![u].status = "expired"]
    /\ UNCHANGED <<db, verified, leaving, today>>

\* An expired subscription is taken up again once the balance covers the fee.
CheckResumes(u, day) ==
    /\ Scheduled(u) /\ sub[u].status = "expired" /\ HasVerifiedEmail(u)
    /\ Credits(u) >= PlanFee(sub[u], sub[u].type)
    /\ Subscribe(db, u, day, sub[u].type, sub[u].adjusted)
    /\ UNCHANGED <<verified, leaving, today>>

Check(u, day) ==
    \/ CheckCancels(u, day) \/ CheckRenews(u, day) \/ CheckRestarts(u, day)
    \/ CheckExpires(u, day) \/ CheckResumes(u, day)

\* activate_existing, which the owner runs once for the users of before.
Activates(u) ==
    LET s == sub[u]
        may == HasVerifiedEmail(u) /\ s.cadence \in Briefing
    IN  /\ s.status = "inactive"
        /\ \/ may /\ Subscribe(db, u, today, s.cadence, s.adjusted)
           \/ /\ may => ~CanConsume(db, u, PlanFee(s, s.cadence))
              /\ sub' = [sub EXCEPT ![u].cadence = None]
              /\ db' = db
        /\ UNCHANGED <<verified, leaving, today>>

-----------------------------------------------------------------------------
Next ==
    \/ Midnight
    \/ \E u \in Subscribers :
        \/ \E plan \in Plans, day \in Dates :
              \/ SetPlanResumes(u, plan, day) \/ SetPlanUpgrades(u, plan, day)
              \/ SetPlanSubscribes(u, plan, day) \/ SetPlanChanges(u, plan, day)
        \/ \E day \in Dates : Cancel(u, day) \/ Resume(u, day) \/ Check(u, day)
        \/ \E cadence \in Briefing : SetJadeCadence(u, cadence)
        \/ \E amount \in TopUpAmounts, k \in TopUps : TopsUp(u, amount, k)
        \/ \E a \in Addresses :
              Verifies(u, a) \/ UnsubscribeReads(u, a) \/ UnsubscribeCommits(u, a)
        \/ \E a \in Bouncing : Bounces(u, a)
        \/ Activates(u)

Spec == Init /\ [][Next]_vars

\* A batch runs on every cadence's next due day and checks each of its users.
FairSpec == Spec /\ \A u \in Subscribers : WF_vars(\E day \in Dates : Check(u, day))

-----------------------------------------------------------------------------
(* Properties.                                                             *)

\* Every variable keeps its type: the first part of CadenceMatchesType.
TypeOK ==
    /\ db \in Tables
    /\ sub \in [Subscribers -> Subscription]
    /\ verified \in [Subscribers -> SUBSET Addresses]
    /\ leaving \in [Subscribers -> [Addresses -> {"no", "leaves", "cancels", "pends"}]]
    /\ today \in Days

\* The cadence that reports go out on follows the subscription, through every
\* change, check and cancellation (docs/mechanisms/subscription.md, the
\* post-activation invariant): without it a user pays for no report, or gets
\* reports for nothing.
CadenceMatchesType ==
    /\ TypeOK
    /\ \A u \in Subscribers :
          LET s == sub[u] IN
          IF s.status \in {"active", "expired"}
          THEN /\ s.type \in Plans /\ s.cadence \in Briefing
               /\ s.type # Jade => s.cadence = s.type
          ELSE /\ s.type = None
               /\ s.cadence # None => s.status = "inactive" /\ s.cadence = LegacyCadence[u]

\* Every active briefing period was paid for, and the payment was not given
\* back: the charge keys of set_plan, the checks and the launch never meet, so
\* consume_credits never takes a charge of another period for this one's.
PeriodsArePaid ==
    \A u \in Subscribers :
        sub[u].status = "active" /\ sub[u].type \in Briefing =>
            /\ UnderBoth(db, u, CurrentCharge(u)) = -Fee[sub[u].type]
            /\ ~HasKey(db, CurrentReturn(u))

\* A change returns no more than the charge took, and no gift as cash, over all
\* the changes of a day or a month.
ReturnsWithinCharge ==
    \A u \in Subscribers, day \in Days, plan \in Plans :
        LET returned(a) == Under(db, a, ReturnKey(u, day, plan))
            paid(a) == -Under(db, a, ChargeKey(u, day, plan))
        IN  \A a \in {Cash(u), Gift(u)} : returned(a) \in 0..paid(a)

\* The counter of discounted Jade periods counts the charges in the ledger at
\* the discounted fee, so no replay, failed charge or free period uses one up.
DiscountsAreCharged ==
    \A u \in Subscribers :
        sub[u].discounts =
            Cardinality({key \in ChargeKeys(db, u) :
                            key[3] = Jade /\ UnderBoth(db, u, key) = -JadeDiscountFee})

\* Whoever invited a subscriber has the bonus of the first charge as soon as
\* there is a charge, once, however many plans and periods follow.
FirstChargeRewardsReferrer ==
    \A u \in Subscribers :
        LET who == Referrer(db, u) IN
        who # None =>
            Under(db, Gift(who), FirstBonusKey(u)) =
                (IF ChargeKeys(db, u) = {} THEN 0 ELSE FirstBonus)

\* What is charged, returned and rewarded adds up, in every order of changes,
\* checks and renewals.
ChargesAddUp == ReturnsWithinCharge /\ DiscountsAreCharged /\ FirstChargeRewardsReferrer

\* A subscription whose last address lost its verification is about to end
\* (docs/mechanisms/subscription.md, unsubscribe).
UnverifiedIsEnding ==
    \A u \in Subscribers :
        sub[u].status = "active" /\ ~HasVerifiedEmail(u) => sub[u].pending

\* No subscription stays active past its end: it is renewed, expires or ends.
OverdueIsSettled ==
    \A u \in Subscribers : Overdue(sub[u], today) ~> ~Overdue(sub[u], today)

Service(u) ==
    CASE sub[u].status = "inactive" -> "never"
      [] sub[u].status = "active" /\ ~sub[u].pending -> "running"
      [] sub[u].status = "active" /\ sub[u].pending -> "ending"
      [] sub[u].status = "expired" -> "lapsed"
      [] sub[u].status = "cancelled" -> "ended"

Promise == INSTANCE SubscriptionPromise WITH
    day <- today,
    service <- [u \in Subscribers |-> Service(u)],
    until <- [u \in Subscribers |-> sub[u].expiry],
    credits <- [u \in Subscribers |-> Credits(u)],
    acted <- [u \in Subscribers |-> sub[u].adjusted]

\* Subscribers get what they are promised: see SubscriptionPromise.
PromiseKept == Promise!Spec
=============================================================================
