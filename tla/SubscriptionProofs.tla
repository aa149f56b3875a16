------------------------- MODULE SubscriptionProofs -------------------------
(***************************************************************************)
(* Subscriptions are paid as they should be, for every set of users, plans *)
(* and fees and every calendar: services/subscription.py over the ledger   *)
(* of services/credit_ledger.py, when a request carries the date on which  *)
(* it is granted the lock (LateDates = FALSE).                             *)
(***************************************************************************)
EXTENDS Subscription, CreditLedgerProofs, FiniteSetTheorems

(* The calendar.                                                           *)

\* The months start one after the other.
LEMMA MonthStartSteps ==
    /\ Len(Months) \in Nat /\ Len(Months) >= 1
    /\ \A m \in 1..Len(Months) : Months[m] \in Nat /\ Months[m] >= 1
    /\ MonthStart[1] = 1
    /\ \A m \in 1..Len(Months) : MonthStart[m + 1] = MonthStart[m] + Months[m]
<1> DEFINE n == Len(Months)
           Body(g) == [m \in 1..(n + 1) |-> IF m = 1 THEN 1 ELSE g[m - 1] + Months[m - 1]]
<1>1. Months \in Seq(Nat \ {0}) /\ Months # <<>>
  BY SubscriptionAssumption, CalendarAssumption
<1>2. n \in Nat /\ n >= 1
  BY <1>1, EmptySeq, LenProperties
<1>3. ASSUME NEW m \in 1..n PROVE Months[m] \in Nat /\ Months[m] >= 1
  <2>1. Months[m] \in Nat \ {0}
    BY <1>1, <1>3, ElementOfSeq
  <2> QED BY <2>1
<1>4. Months \in Seq(Int)
  <2>1. DOMAIN Months = 1..n
    BY <1>1, LenProperties
  <2>2. \A m \in 1..n : Months[m] \in Int
    BY <1>3
  <2>3. Months = [m \in 1..n |-> Months[m]]
    BY <1>1, <2>1
  <2> QED BY <1>2, <2>2, <2>3, IsASeq
<1>5. PICK f : f \in PartialSums(Months, n)
  BY <1>4, PartialSumsExist
<1> DEFINE starts == [m \in 1..(n + 1) |-> 1 + f[m - 1]]
<1>6. starts = Body(starts)
  <2>1. ASSUME NEW m \in 1..(n + 1) PROVE starts[m] = Body(starts)[m]
    <3>1. CASE m = 1
      BY <1>2, <1>5, <3>1 DEF PartialSums
    <3>2. CASE m # 1
      <4>1. m - 1 \in 1..n /\ m - 1 \in 1..(n + 1)
        BY <1>2, <3>2
      <4>2. f[m - 1] = f[(m - 1) - 1] + Months[m - 1]
        BY <1>5, <4>1 DEF PartialSums
      <4>3. f[(m - 1) - 1] \in Int /\ Months[m - 1] \in Int
        <5>1. f \in [0..n -> Int] /\ (m - 1) - 1 \in 0..n
          BY <1>2, <1>5, <4>1 DEF PartialSums
        <5>2. Months[m - 1] \in Nat
          BY <1>3, <4>1
        <5> HIDE DEF n
        <5> QED BY <5>1, <5>2
      <4>4. starts[m] = 1 + f[m - 1]
        OBVIOUS
      <4>5. starts[m - 1] = 1 + f[(m - 1) - 1]
        BY <4>1
      <4>6. Body(starts)[m] = starts[m - 1] + Months[m - 1]
        BY <3>2
      <4> HIDE DEF starts, Body, n
      <4> QED BY <4>2, <4>3, <4>4, <4>5, <4>6
    <3> QED BY <3>1, <3>2
  <2> QED BY <2>1
<1>7. MonthStart = CHOOSE g : g = Body(g)
  BY DEF MonthStart
<1>8. MonthStart = Body(MonthStart)
  BY <1>6, <1>7
<1>9. MonthStart[1] = 1
  BY <1>2, <1>8
<1>10. ASSUME NEW m \in 1..n PROVE MonthStart[m + 1] = MonthStart[m] + Months[m]
  <2>1. m + 1 \in 1..(n + 1) /\ m + 1 # 1 /\ (m + 1) - 1 = m
    BY <1>2
  <2> HIDE DEF n
  <2> QED BY <1>8, <2>1
<1> QED BY <1>2, <1>3, <1>9, <1>10

\* They start on days of their own, in order.
LEMMA MonthStartsGrow ==
    \A m \in 1..(Len(Months) + 1) :
        \A k \in 1..m : MonthStart[k] \in Nat /\ MonthStart[k] <= MonthStart[m]
<1> DEFINE n == Len(Months)
           Good(m) == \A k \in 1..m : MonthStart[k] \in Nat /\ MonthStart[k] <= MonthStart[m]
           S == {i \in Nat : i <= n => Good(i + 1)}
<1>1. 0 \in S
  <2>1. \A k \in 1..1 : k = 1
    OBVIOUS
  <2> QED BY <2>1, MonthStartSteps
<1>2. ASSUME NEW i \in S PROVE i + 1 \in S
  <2> SUFFICES ASSUME i + 1 <= n PROVE Good(i + 2)
    OBVIOUS
  <2>1. i + 1 \in 1..n /\ (i + 1) + 1 = i + 2 /\ n \in Nat
    BY MonthStartSteps
  <2>2. Good(i + 1)
    BY <2>1
  <2>3. /\ MonthStart[i + 2] = MonthStart[i + 1] + Months[i + 1] /\ Months[i + 1] \in Nat
        /\ MonthStart[i + 1] \in Nat
    BY <2>1, <2>2, MonthStartSteps
  <2>4. ASSUME NEW k \in 1..(i + 2)
        PROVE  MonthStart[k] \in Nat /\ MonthStart[k] <= MonthStart[i + 2]
    <3>1. CASE k \in 1..(i + 1)
      <4>1. MonthStart[k] \in Nat /\ MonthStart[k] <= MonthStart[i + 1]
        BY <2>2, <3>1
      <4> QED BY <2>3, <4>1
    <3>2. CASE k = i + 2
      BY <2>2, <2>3, <3>2
    <3> QED BY <2>1, <2>4, <3>1, <3>2
  <2> QED BY <2>4
<1> HIDE DEF S
<1>3. S = Nat
  BY <1>1, <1>2, NatSetInduction DEF S
<1>4. ASSUME NEW m \in 1..(n + 1) PROVE Good(m)
  <2>1. m - 1 \in Nat /\ m - 1 <= n /\ (m - 1) + 1 = m
    BY MonthStartSteps
  <2>2. m - 1 \in S
    BY <1>3, <2>1
  <2>3. Good((m - 1) + 1)
    BY <2>1, <2>2 DEF S
  <2> HIDE DEF Good
  <2> QED BY <2>1, <2>3
<1> QED BY <1>4

\* Every day of a run is in a month, and not in the last one.
LEMMA DayInMonth ==
    ASSUME NEW day \in Days
    PROVE  /\ Month(day) \in 1..Len(Months) /\ Month(day) + 1 \in 1..Len(Months)
           /\ MonthStart[Month(day)] <= day /\ day < MonthStart[Month(day) + 1]
           /\ MonthStart[Month(day)] \in Nat /\ MonthStart[Month(day) + 1] \in Nat
<1> DEFINE n == Len(Months)
           In(m) == MonthStart[m] <= day /\ day < MonthStart[m + 1]
           S == {i \in Nat : i <= n /\ day < MonthStart[i + 1] => \E m \in 1..i : In(m)}
<1>1. /\ n \in Nat /\ n >= 1 /\ day \in Nat /\ day >= 1 /\ day <= LastDay /\ LastDay \in Nat
      /\ LastDay < MonthStart[n] /\ DOMAIN Months = 1..n
  <2>1. Months \in Seq(Nat \ {0}) /\ LastDay \in Nat
    BY SubscriptionAssumption
  <2>2. DOMAIN Months = 1..n
    BY <2>1, LenProperties
  <2> QED BY <2>1, <2>2, MonthStartSteps, CalendarAssumption DEF Days
<1>2. ASSUME NEW m \in 1..(n + 1) PROVE MonthStart[m] \in Nat
  <2>1. m \in 1..m
    BY <1>1
  <2> QED BY <2>1, MonthStartsGrow
<1> HIDE DEF n
<1>3. 0 \in S
  BY <1>1, MonthStartSteps
<1>4. ASSUME NEW i \in S PROVE i + 1 \in S
  <2> SUFFICES ASSUME i + 1 <= n, day < MonthStart[(i + 1) + 1]
               PROVE  \E m \in 1..(i + 1) : In(m)
    OBVIOUS
  <2>1. MonthStart[i + 1] \in Nat
    BY <1>1, <1>2
  <2>2. CASE MonthStart[i + 1] <= day
    <3>1. In(i + 1)
      BY <2>2
    <3> QED BY <3>1
  <2>3. CASE day < MonthStart[i + 1]
    BY <1>1, <2>3
  <2> QED BY <1>1, <2>1, <2>2, <2>3
<1> HIDE DEF S
<1>5. S = Nat
  BY <1>3, <1>4, NatSetInduction DEF S
<1>6. MonthStart[n] \in Nat /\ day < MonthStart[n]
  BY <1>1, <1>2
<1>7. PICK m \in 1..(n - 1) : In(m)
  <2>1. n - 1 \in S /\ (n - 1) + 1 = n
    BY <1>1, <1>5
  <2> QED BY <1>1, <1>6, <2>1 DEF S
<1>8. m \in DOMAIN Months /\ day \in MonthStart[m]..(MonthStart[m + 1] - 1)
  <2>1. m \in 1..(n + 1) /\ m + 1 \in 1..(n + 1)
    BY <1>1
  <2>2. MonthStart[m] \in Nat /\ MonthStart[m + 1] \in Nat
    BY <1>2, <2>1
  <2> QED BY <1>1, <1>7, <2>2
<1> DEFINE k == Month(day)
<1>9. k \in DOMAIN Months /\ day \in MonthStart[k]..(MonthStart[k + 1] - 1)
  BY <1>8 DEF Month
<1> HIDE DEF k
<1>10. k \in 1..n /\ k \in 1..(n + 1) /\ k + 1 \in 1..(n + 1)
  BY <1>1, <1>9
<1>11. MonthStart[k] \in Nat /\ MonthStart[k + 1] \in Nat
  BY <1>2, <1>10
<1>12. In(k)
  BY <1>1, <1>9, <1>11
<1>13. k # n
  BY <1>1, <1>6, <1>12
<1>14. k + 1 \in 1..n
  BY <1>1, <1>10, <1>13
<1> QED BY <1>10, <1>11, <1>12, <1>14 DEF k, n

\* next_expiry is a later day, and a day has a number in its month.
LEMMA NextExpiryLater ==
    ASSUME NEW day \in Days, NEW anchor \in Nat, anchor >= 1
    PROVE  NextExpiry(day, anchor) \in Nat /\ NextExpiry(day, anchor) > day
<1> DEFINE m == Month(day) + 1
           start == MonthStart[m]
           length == Months[m]
<1>1. start \in Nat /\ day < start /\ m \in 1..Len(Months) /\ day \in Nat
  <2>1. day \in Nat
    BY SubscriptionAssumption DEF Days
  <2> QED BY <2>1, DayInMonth
<1>2. length \in Nat /\ length >= 1
  BY <1>1, MonthStartSteps
<1>3. NextExpiry(day, anchor) = start - 1 + (IF anchor < length THEN anchor ELSE length)
  BY DEF NextExpiry
<1> HIDE DEF start, length
<1> QED BY <1>1, <1>2, <1>3

\* A day has a number in its month, from 1.
LEMMA DayOfMonthType ==
    ASSUME NEW day \in Days PROVE DayOfMonth(day) \in Nat /\ DayOfMonth(day) >= 1
<1> DEFINE start == MonthStart[Month(day)]
<1>1. start \in Nat /\ start <= day /\ day \in Nat
  <2>1. day \in Nat
    BY SubscriptionAssumption DEF Days
  <2> QED BY <2>1, DayInMonth
<1>2. DayOfMonth(day) = day - start + 1
  BY DEF DayOfMonth
<1> HIDE DEF start
<1> QED BY <1>1, <1>2

\* A day is in one month only.
LEMMA MonthIs ==
    ASSUME NEW day \in Nat, NEW m \in 1..Len(Months), MonthStart[m] <= day, day < MonthStart[m + 1]
    PROVE  Month(day) = m
<1> DEFINE n == Len(Months)
           In(k) == MonthStart[k] <= day /\ day < MonthStart[k + 1]
<1>1. n \in Nat /\ DOMAIN Months = 1..n
  <2>1. Months \in Seq(Nat \ {0})
    BY SubscriptionAssumption
  <2> QED BY <2>1, LenProperties, MonthStartSteps
<1>2. \A k \in 1..(n + 1) : MonthStart[k] \in Nat
  <2>1. \A k \in 1..(n + 1) : k \in 1..k
    BY <1>1
  <2> QED BY <2>1, MonthStartsGrow
<1>3. \A k, l \in 1..(n + 1) : k <= l => MonthStart[k] <= MonthStart[l]
  <2>1. \A k, l \in 1..(n + 1) : k <= l => k \in 1..l
    BY <1>1
  <2> QED BY <2>1, MonthStartsGrow
<1> HIDE DEF n
<1>4. \A k \in 1..n : k \in 1..(n + 1) /\ k + 1 \in 1..(n + 1)
  BY <1>1
<1>5. m \in 1..n
  BY DEF n
<1>6. ASSUME NEW k \in 1..n, NEW l \in 1..n, In(k), In(l), k < l PROVE FALSE
  <2>1. MonthStart[k + 1] <= MonthStart[l] /\ MonthStart[k + 1] \in Nat /\ MonthStart[l] \in Nat
    <3>1. k + 1 <= l
      BY <1>1, <1>6
    <3> QED BY <1>2, <1>3, <1>4, <3>1
  <2> QED BY <1>6, <2>1
<1> DEFINE k == Month(day)
<1>7. m \in DOMAIN Months /\ day \in MonthStart[m]..(MonthStart[m + 1] - 1)
  BY <1>1, <1>2, <1>4, <1>5
<1>8. k \in DOMAIN Months /\ day \in MonthStart[k]..(MonthStart[k + 1] - 1)
  BY <1>7 DEF Month
<1> HIDE DEF k
<1>9. k \in 1..n /\ In(k)
  <2>1. k \in 1..n
    BY <1>1, <1>8
  <2>2. MonthStart[k] \in Nat /\ MonthStart[k + 1] \in Nat
    BY <1>2, <1>4, <2>1
  <2> QED BY <1>8, <2>1, <2>2
<1>10. ~(k < m) /\ ~(m < k)
  BY <1>5, <1>6, <1>9
<1> QED BY <1>1, <1>5, <1>9, <1>10 DEF k

\* The day next_expiry names: in the next month, at the anchor or at its end.
LEMMA ExpiryDay ==
    ASSUME NEW day \in Days, NEW anchor \in Nat, anchor >= 1
    PROVE  LET m == Month(day) + 1
               e == NextExpiry(day, anchor)
           IN  /\ Month(e) = m /\ Months[m] \in Nat /\ Months[m] >= 1
               /\ DayOfMonth(e) = (IF anchor < Months[m] THEN anchor ELSE Months[m])
               /\ MonthStart[m] <= e /\ e < MonthStart[m + 1]
               /\ MonthStart[m + 1] \in Nat /\ MonthStart[m + 1] = MonthStart[m] + Months[m]
<1> DEFINE m == Month(day) + 1
           e == NextExpiry(day, anchor)
           start == MonthStart[m]
           length == Months[m]
           nth == IF anchor < length THEN anchor ELSE length
<1>1. start \in Nat /\ m \in 1..Len(Months)
  BY DayInMonth
<1>2. length \in Nat /\ length >= 1 /\ MonthStart[m + 1] = start + length
  BY <1>1, MonthStartSteps
<1>3. e = start - 1 + nth
  BY DEF NextExpiry
<1> HIDE DEF start, length, m, e
<1>4. nth \in Nat /\ nth >= 1 /\ nth <= length
  BY <1>2
<1> HIDE DEF nth
<1>5. e \in Nat /\ start <= e /\ e < start + length /\ e - start + 1 = nth /\ start + length \in Nat
  BY <1>1, <1>2, <1>3, <1>4
<1>6. Month(e) = m
  <2>1. MonthStart[m] <= e /\ e < MonthStart[m + 1]
    BY <1>2, <1>5 DEF start
  <2> QED BY <1>1, <1>5, <2>1, MonthIs
<1>7. DayOfMonth(e) = nth
  BY <1>5, <1>6 DEF DayOfMonth, start
<1> QED BY <1>2, <1>5, <1>6, <1>7 DEF start, length, nth, m, e

\* A period begins on its anchor day, or on the last day of its month.
OnAnchor(start, anchor, t) ==
    \/ DayOfMonth(start) = anchor
    \/ start < t /\ DayOfMonth(start) = Months[Month(start)]

\* A period that begins later, on its own anchor, ends no earlier.
LEMMA NextExpiryGrows ==
    ASSUME NEW start \in Days, NEW t \in Days, start <= t, NEW anchor \in Nat, anchor >= 1,
           OnAnchor(start, anchor, t)
    PROVE  NextExpiry(t, DayOfMonth(t)) >= NextExpiry(start, anchor)
<1> DEFINE n == Len(Months)
           m == Month(start)
           k == Month(t)
           nth == DayOfMonth(t)
           old == NextExpiry(start, anchor)
           new == NextExpiry(t, nth)
<1>1. start \in Nat /\ t \in Nat /\ n \in Nat /\ nth \in Nat /\ nth >= 1
  BY DayOfMonthType, MonthStartSteps, SubscriptionAssumption DEF Days
<1>2. /\ m \in 1..n /\ m + 1 \in 1..n /\ MonthStart[m] <= start /\ start < MonthStart[m + 1]
      /\ MonthStart[m] \in Nat /\ MonthStart[m + 1] \in Nat
  BY DayInMonth
<1>3. /\ k \in 1..n /\ k + 1 \in 1..n /\ MonthStart[k] <= t /\ t < MonthStart[k + 1]
      /\ MonthStart[k] \in Nat /\ MonthStart[k + 1] \in Nat
  BY DayInMonth
<1>4. /\ Months[m + 1] \in Nat /\ MonthStart[m + 2] = MonthStart[m + 1] + Months[m + 1]
      /\ Months[m] \in Nat /\ MonthStart[m + 1] = MonthStart[m] + Months[m]
      /\ old < MonthStart[m + 2] /\ old \in Nat
      /\ old = MonthStart[m + 1] - 1
                   + (IF anchor < Months[m + 1] THEN anchor ELSE Months[m + 1])
  <2>1. (m + 1) + 1 = m + 2
    BY <1>1, <1>2
  <2>2. Months[m + 1] \in Nat /\ MonthStart[m + 2] = MonthStart[m + 1] + Months[m + 1]
    BY <2>1, ExpiryDay
  <2>3. old < MonthStart[m + 2]
    BY <2>1, ExpiryDay
  <2>4. old \in Nat
    BY NextExpiryLater
  <2>5. old = MonthStart[m + 1] - 1
                   + (IF anchor < Months[m + 1] THEN anchor ELSE Months[m + 1])
    BY DEF NextExpiry
  <2>6. Months[m] \in Nat /\ MonthStart[m + 1] = MonthStart[m] + Months[m]
    BY <1>2, MonthStartSteps
  <2> QED BY <2>2, <2>3, <2>4, <2>5, <2>6
<1>5. new \in Nat /\ new >= MonthStart[k + 1]
      /\ new = MonthStart[k + 1] - 1 + (IF nth < Months[k + 1] THEN nth ELSE Months[k + 1])
  <2>1. new \in Nat
    BY <1>1, NextExpiryLater
  <2>2. MonthStart[k + 1] <= new
    BY <1>1, ExpiryDay
  <2>3. new = MonthStart[k + 1] - 1 + (IF nth < Months[k + 1] THEN nth ELSE Months[k + 1])
    BY DEF NextExpiry
  <2> QED BY <1>3, <2>1, <2>2, <2>3
<1>6. \A i, j \in 1..(n + 1) : i <= j => MonthStart[i] <= MonthStart[j] /\ MonthStart[i] \in Nat
  <2>1. \A i, j \in 1..(n + 1) : i <= j => i \in 1..j
    BY <1>1
  <2> QED BY <2>1, MonthStartsGrow
<1>7. nth = t - MonthStart[k] + 1 /\ DayOfMonth(start) = start - MonthStart[m] + 1
  BY DEF DayOfMonth
<1> HIDE DEF n, m, k, nth, old, new
<1>8. ~(k < m)
  <2> SUFFICES ASSUME k < m PROVE FALSE
    OBVIOUS
  <2>1. k + 1 \in 1..(n + 1) /\ m \in 1..(n + 1) /\ k + 1 <= m
    BY <1>1, <1>2, <1>3
  <2>2. MonthStart[k + 1] <= MonthStart[m]
    BY <1>6, <2>1
  <2> QED BY <1>1, <1>2, <1>3, <2>2
<1>9. CASE k = m
  <2>1. DayOfMonth(start) = anchor
    <3> SUFFICES ASSUME start < t, DayOfMonth(start) = Months[m] PROVE FALSE
      BY DEF OnAnchor, m
    <3> QED BY <1>1, <1>2, <1>3, <1>4, <1>7, <1>9
  <2>2. anchor <= nth
    BY <1>1, <1>2, <1>7, <1>9, <2>1
  <2> QED BY <1>1, <1>2, <1>4, <1>5, <1>9, <2>2 DEF old, new, nth
<1>10. CASE m < k
  <2>1. m + 2 \in 1..(n + 1) /\ k + 1 \in 1..(n + 1) /\ m + 2 <= k + 1
    BY <1>1, <1>2, <1>3, <1>10
  <2>2. MonthStart[m + 2] <= MonthStart[k + 1] /\ MonthStart[m + 2] \in Nat
    BY <1>6, <2>1
  <2>3. old <= new
    BY <1>3, <1>4, <1>5, <2>2
  <2> QED BY <1>4, <1>5, <2>3 DEF old, new, nth
<1> QED BY <1>2, <1>3, <1>8, <1>9, <1>10

-----------------------------------------------------------------------------
(* The ledger under one key.                                               *)

\* What the rows of a key move.
Moves(rows, key) == [i \in DOMAIN rows |-> IF rows[i].key = key THEN rows[i].amount ELSE 0]

\* What a key moves row by row is a sequence of integers.
LEMMA MovesType ==
    ASSUME NEW rows \in Seq(Row), NEW key
    PROVE  Moves(rows, key) \in Seq(Int) /\ Len(Moves(rows, key)) = Len(rows)
<1> DEFINE n == Len(rows)
<1>1. n \in Nat /\ DOMAIN rows = 1..n
  BY LenProperties
<1>2. ASSUME NEW i \in 1..n PROVE rows[i].amount \in Int
  <2>1. rows[i] \in Row
    BY ElementOfSeq
  <2> QED BY <2>1 DEF Row
<1> QED BY <1>1, <1>2, IsASeq DEF Moves

\* A row that is appended adds its amount under its own key.
LEMMA MovesAppend ==
    ASSUME NEW rows \in Seq(Row), NEW row \in Row, NEW key
    PROVE  /\ Moves(rows, key) \in Seq(Int)
           /\ Moves(Append(rows, row), key) =
                Append(Moves(rows, key), IF row.key = key THEN row.amount ELSE 0)
<1> DEFINE n == Len(rows)
           last == IF row.key = key THEN row.amount ELSE 0
<1>1. n \in Nat /\ DOMAIN rows = 1..n
  BY LenProperties
<1>3. Moves(rows, key) \in Seq(Int) /\ Len(Moves(rows, key)) = n
  BY MovesType
<1>4. last \in Int
  BY DEF Row
<1>5. Append(rows, row) \in Seq(Row) /\ DOMAIN Append(rows, row) = 1..(n + 1)
          /\ Append(rows, row)[n + 1] = row
          /\ \A i \in 1..n : Append(rows, row)[i] = rows[i]
  BY <1>1, AppendProperties, LenProperties
<1>6. Moves(Append(rows, row), key) = Append(Moves(rows, key), last)
  BY <1>1, <1>3, <1>4, <1>5 DEF Moves
<1> QED BY <1>3, <1>6

\* What a key moves is the sum of its rows, and nothing without a row.
LEMMA UnderIsSum ==
    ASSUME NEW d \in Tables, NEW a \in Accounts, NEW key
    PROVE  /\ Under(d, a, key) = Sum(Moves(d.rows[a], key)) /\ Under(d, a, key) \in Int
           /\ ~HasKey(d, key) => Under(d, a, key) = 0
<1> DEFINE rows == d.rows[a]
           moves == Moves(rows, key)
<1>1. rows \in Seq(Row)
  BY DEF Tables
<1>2. moves \in Seq(Int)
  BY <1>1, MovesType
<1>3. Under(d, a, key) = Sum(moves)
  BY DEF Under, Moves
<1>4. Sum(moves) \in Int
  BY <1>2, SumType
<1>5. ASSUME ~HasKey(d, key) PROVE Sum(moves) = 0
  <2> DEFINE n == Len(moves)
             none == [i \in 0..n |-> 0]
  <2>1. n \in Nat /\ DOMAIN moves = 1..n /\ DOMAIN moves = DOMAIN rows
    BY <1>2, LenProperties DEF Moves
  <2>2. \A i \in DOMAIN rows : rows[i].key # key
    BY <1>5 DEF HasKey
  <2>3. \A i \in 1..n : moves[i] = 0
    BY <2>1, <2>2 DEF Moves
  <2> HIDE DEF moves, n
  <2>4. none \in PartialSums(moves, n)
    BY <2>1, <2>3 DEF PartialSums
  <2>5. Sum(moves) = none[n]
    BY <1>2, <2>4, SumIsLast DEF n
  <2> QED BY <2>1, <2>5
<1> QED BY <1>3, <1>4, <1>5

\* The tables after a post, as the queries see them.
PostSeen(d, e, account, amount, reason, key) ==
    /\ Sound(e) /\ e.exists = d.exists /\ e.inviter = d.inviter
    /\ e.balance[account] = d.balance[account] + amount
    /\ \A a \in Accounts \ {account} : e.balance[a] = d.balance[a]
    /\ Under(e, account, key) = Under(d, account, key) + amount
    /\ \A a \in Accounts, k \in Keys :
           a # account \/ k # key => Under(e, a, k) = Under(d, a, k)
    /\ \A k \in Keys : HasKey(e, k) <=> HasKey(d, k) \/ k = key
    /\ \A u \in Users : ChargeKeys(e, u) =
           ChargeKeys(d, u) \cup (IF u = account[1] /\ reason = "subscription" THEN {key} ELSE {})

\* Posted does all of it.
LEMMA PostIsSeen ==
    ASSUME NEW d, Sound(d), NEW account \in Accounts, NEW amount \in Int,
           NEW reason \in Reasons, NEW key \in Keys, NEW ref \in Ids \cup Keys
    PROVE  PostSeen(d, Posted(d, account, amount, reason, key, ref),
                    account, amount, reason, key)
<1> DEFINE e == Posted(d, account, amount, reason, key, ref)
           row == [amount |-> amount, after |-> d.balance[account] + amount,
                   reason |-> reason, key |-> key, ref |-> ref]
           rows == d.rows[account]
           n == Len(rows)
<1>1. Sound(e) /\ d \in Tables /\ e \in Tables
  BY PostedSound DEF Sound
<1>2. /\ e.exists = d.exists /\ e.inviter = d.inviter /\ row \in Row
      /\ e.balance[account] = d.balance[account] + amount
      /\ e.rows[account] = Append(rows, row)
      /\ \A a \in Accounts \ {account} : e.balance[a] = d.balance[a] /\ e.rows[a] = d.rows[a]
  BY <1>1, PostedFields
<1>3. row.key = key /\ row.amount = amount /\ row.reason = reason
  OBVIOUS
<1> HIDE DEF e, row
<1>4. rows \in Seq(Row) /\ n \in Nat
  BY <1>1, LenProperties DEF Tables
<1>5. /\ DOMAIN rows = 1..n /\ DOMAIN Append(rows, row) = 1..(n + 1)
      /\ Append(rows, row)[n + 1] = row /\ \A i \in 1..n : Append(rows, row)[i] = rows[i]
  BY <1>2, <1>4, AppendProperties, LenProperties
<1>6. ASSUME NEW k PROVE Under(e, account, k) =
                             Under(d, account, k) + (IF key = k THEN amount ELSE 0)
  <2> DEFINE x == IF key = k THEN amount ELSE 0
  <2>1. Under(e, account, k) = Sum(Moves(Append(rows, row), k))
    BY <1>1, <1>2, UnderIsSum
  <2>2. Moves(rows, k) \in Seq(Int) /\ Moves(Append(rows, row), k) = Append(Moves(rows, k), x)
    BY SMTT(40), <1>2, <1>3, <1>4, MovesAppend
  <2>3. x \in Int
    OBVIOUS
  <2> HIDE DEF x
  <2>4. Sum(Append(Moves(rows, k), x)) = Sum(Moves(rows, k)) + x
    BY <2>2, <2>3, SumAppend
  <2>5. Sum(Moves(rows, k)) = Under(d, account, k)
    BY <1>1, UnderIsSum
  <2> QED BY <2>1, <2>2, <2>4, <2>5 DEF x
<1>7. ASSUME NEW a \in Accounts, a # account, NEW k PROVE Under(e, a, k) = Under(d, a, k)
  BY <1>2, <1>7 DEF Under
<1>8. \A k : Under(d, account, k) \in Int
  BY <1>1, UnderIsSum
<1>9. ASSUME NEW k \in Keys PROVE HasKey(e, k) <=> HasKey(d, k) \/ k = key
  <2>1. ASSUME HasKey(e, k), k # key PROVE HasKey(d, k)
    <3>1. PICK a \in Accounts : \E i \in DOMAIN e.rows[a] : e.rows[a][i].key = k
      BY <2>1 DEF HasKey
    <3>2. CASE a # account
      BY <1>2, <3>1, <3>2 DEF HasKey
    <3>3. CASE a = account
      <4>1. PICK i \in 1..(n + 1) : Append(rows, row)[i].key = k
        BY <1>2, <1>5, <3>1, <3>3
      <4>2. i \in 1..n
        BY <1>3, <1>4, <1>5, <2>1, <4>1
      <4> QED BY <1>5, <4>1, <4>2 DEF HasKey
    <3> QED BY <3>2, <3>3
  <2>2. ASSUME HasKey(d, k) PROVE HasKey(e, k)
    <3>1. PICK a \in Accounts : \E i \in DOMAIN d.rows[a] : d.rows[a][i].key = k
      BY <2>2 DEF HasKey
    <3>2. CASE a # account
      BY <1>2, <3>1, <3>2 DEF HasKey
    <3>3. CASE a = account
      <4>1. PICK i \in 1..n : rows[i].key = k
        BY <1>5, <3>1, <3>3
      <4>2. i \in 1..(n + 1)
        BY <1>4
      <4> QED BY <1>2, <1>5, <4>1, <4>2 DEF HasKey
    <3> QED BY <3>2, <3>3
  <2>3. HasKey(e, key)
    <3>1. n + 1 \in 1..(n + 1)
      BY <1>4
    <3> QED BY <1>2, <1>3, <1>5, <3>1 DEF HasKey
  <2> QED BY <2>1, <2>2, <2>3
<1> DEFINE Paying(t, a) == {t.rows[a][i].key : i \in {j \in DOMAIN t.rows[a] :
                                t.rows[a][j].reason = "subscription"}}
           more == IF reason = "subscription" THEN {key} ELSE {}
<1>10. \A a \in Accounts \ {account} : Paying(e, a) = Paying(d, a)
  BY <1>2
<1>11. Paying(e, account) = Paying(d, account) \cup more
  <2>1. ASSUME NEW k \in Paying(e, account) PROVE k \in Paying(d, account) \cup more
    <3>1. PICK i \in 1..(n + 1) : /\ Append(rows, row)[i].reason = "subscription"
                                  /\ Append(rows, row)[i].key = k
      BY <1>2, <1>5
    <3>2. CASE i \in 1..n
      BY <1>5, <3>1, <3>2
    <3>3. CASE i = n + 1
      BY <1>3, <1>5, <3>1, <3>3
    <3> QED BY <1>4, <3>2, <3>3
  <2>2. ASSUME NEW k \in Paying(d, account) PROVE k \in Paying(e, account)
    <3>1. PICK i \in 1..n : rows[i].reason = "subscription" /\ rows[i].key = k
      BY <1>5
    <3>2. i \in 1..(n + 1)
      BY <1>4
    <3>3. Append(rows, row)[i].reason = "subscription" /\ Append(rows, row)[i].key = k
      BY <1>5, <3>1
    <3> QED BY <1>2, <1>5, <3>2, <3>3
  <2>3. ASSUME NEW k \in more PROVE k \in Paying(e, account)
    <3>1. n + 1 \in 1..(n + 1)
      BY <1>4
    <3>2. reason = "subscription" /\ k = key
      OBVIOUS
    <3>3. Append(rows, row)[n + 1].reason = "subscription" /\ Append(rows, row)[n + 1].key = k
      BY <1>3, <1>5, <3>2
    <3> QED BY <1>2, <1>5, <3>1, <3>3
  <2> HIDE DEF more, Paying
  <2> QED BY <2>1, <2>2, <2>3
<1>12. ASSUME NEW u \in Users PROVE ChargeKeys(e, u) =
          ChargeKeys(d, u) \cup (IF u = account[1] /\ reason = "subscription" THEN {key} ELSE {})
  <2>1. \A t : ChargeKeys(t, u) = Paying(t, Cash(u)) \cup Paying(t, Gift(u))
    BY DEF ChargeKeys
  <2>2. PICK v \in Users, b \in Buckets : account = <<v, b>>
    BY DEF Accounts
  <2>3. Cash(u) \in Accounts /\ Gift(u) \in Accounts
    BY DEF Cash, Gift, Accounts, Buckets
  <2> HIDE DEF Paying
  <2>4. CASE u # v
    <3>1. Cash(u) # account /\ Gift(u) # account /\ account[1] # u
      BY <2>2, <2>4 DEF Cash, Gift
    <3> QED BY <1>10, <2>1, <2>3, <3>1
  <2>5. CASE u = v
    <3>1. account[1] = u /\ (account = Cash(u) \/ account = Gift(u)) /\ Cash(u) # Gift(u)
      BY <2>2, <2>5 DEF Cash, Gift, Buckets
    <3> QED BY <1>10, <1>11, <2>1, <2>3, <3>1
  <2> QED BY <2>4, <2>5
<1>13. \A a \in Accounts \ {account} : e.balance[a] = d.balance[a]
  BY <1>2
<1>14. Under(e, account, key) = Under(d, account, key) + amount
  BY <1>6
<1>15. \A a \in Accounts, k \in Keys : a # account \/ k # key => Under(e, a, k) = Under(d, a, k)
  BY <1>6, <1>7, <1>8
<1> QED BY <1>1, <1>2, <1>9, <1>12, <1>13, <1>14, <1>15 DEF PostSeen, e

\* A user's charges are finitely many.
LEMMA ChargeKeysFinite ==
    ASSUME NEW d \in Tables, NEW u \in Users
    PROVE  IsFiniteSet(ChargeKeys(d, u)) /\ \A key \in ChargeKeys(d, u) : HasKey(d, key)
<1> DEFINE At(a) == {j \in DOMAIN d.rows[a] : d.rows[a][j].reason = "subscription"}
           Paying(a) == {d.rows[a][i].key : i \in At(a)}
<1>1. Cash(u) \in Accounts /\ Gift(u) \in Accounts
  BY DEF Cash, Gift, Accounts, Buckets
<1>2. ASSUME NEW a \in Accounts PROVE IsFiniteSet(Paying(a))
  <2>1. d.rows[a] \in Seq(Row)
    BY DEF Tables
  <2>2. DOMAIN d.rows[a] = 1..Len(d.rows[a]) /\ Len(d.rows[a]) \in Nat
    BY <2>1, LenProperties
  <2>3. IsFiniteSet(At(a))
    <3>1. IsFiniteSet(1..Len(d.rows[a]))
      BY <2>2, FS_Interval
    <3>2. At(a) \subseteq 1..Len(d.rows[a])
      BY <2>2
    <3> QED BY <3>1, <3>2, FS_Subset
  <2> HIDE DEF At
  <2> DEFINE keyOf == [i \in At(a) |-> d.rows[a][i].key]
  <2>4. keyOf \in Surjection(At(a), Paying(a))
    BY DEF Surjection
  <2> QED BY <2>3, <2>4, FS_Surjection
<1>3. ChargeKeys(d, u) = Paying(Cash(u)) \cup Paying(Gift(u))
  BY DEF ChargeKeys
<1>4. IsFiniteSet(ChargeKeys(d, u))
  <2> HIDE DEF Paying
  <2> QED BY <1>1, <1>2, <1>3, FS_Union
<1>5. ASSUME NEW a \in {Cash(u), Gift(u)}, NEW key \in Paying(a) PROVE HasKey(d, key)
  BY <1>1 DEF HasKey
<1> QED BY <1>3, <1>4, <1>5

-----------------------------------------------------------------------------
(* The keys of a user's subscription.                                      *)

ChargeKeysOf(u) == {ChargeKey(u, day, plan) : day \in Days, plan \in Plans}
ReturnKeysOf(u) == {ReturnKey(u, day, plan) : day \in Days, plan \in Plans}
OwnKeys(u) == ChargeKeysOf(u) \cup ReturnKeysOf(u) \cup {FirstBonusKey(u)}

\* They are keys of the ledger, each with one meaning.
LEMMA KeyTypes ==
    /\ \A u \in Users, day \in Days, plan \in Plans :
           /\ ChargeKey(u, day, plan) \in Keys /\ ReturnKey(u, day, plan) \in Keys
           /\ plan \in Ids
    /\ \A u \in Users : FirstBonusKey(u) \in Keys /\ SignupGrantKey(u) \in Keys /\ u \in Ids
    /\ \A k \in TopUps : AdjustmentKey(k) \in Keys
    /\ None \in Ids
BY SubscriptionAssumption
   DEF ChargeKey, ReturnKey, FirstBonusKey, SignupGrantKey, AdjustmentKey, Keys, Namespaces

\* Two keys are equal only when they mean the same.
LEMMA KeysApart ==
    /\ \A u, v, c, d, p, q : ChargeKey(u, c, p) = ChargeKey(v, d, q) <=> u = v /\ c = d /\ p = q
    /\ \A u, v, c, d, p, q : ReturnKey(u, c, p) = ReturnKey(v, d, q) <=> u = v /\ c = d /\ p = q
    /\ \A u, v, c, d, p, q : ChargeKey(u, c, p) # ReturnKey(v, d, q)
    /\ \A u, v, c, p : ChargeKey(u, c, p) # FirstBonusKey(v) /\ ReturnKey(u, c, p) # FirstBonusKey(v)
    /\ \A u, v, c, p : ChargeKey(u, c, p) # SignupGrantKey(v) /\ ReturnKey(u, c, p) # SignupGrantKey(v)
    /\ \A u, k, c, p : ChargeKey(u, c, p) # AdjustmentKey(k) /\ ReturnKey(u, c, p) # AdjustmentKey(k)
    /\ \A u, v, k : FirstBonusKey(u) # AdjustmentKey(k) /\ FirstBonusKey(u) # SignupGrantKey(v)
    /\ \A u, v : FirstBonusKey(u) = FirstBonusKey(v) <=> u = v
    /\ \A u, c, p : ChargeKey(u, c, p)[3] = p
BY DEF ChargeKey, ReturnKey, FirstBonusKey, SignupGrantKey, AdjustmentKey

\* Two users share no key, and an adjustment's is nobody's own.
LEMMA OwnKeysApart ==
    ASSUME NEW u, NEW v, u # v
    PROVE  OwnKeys(u) \cap OwnKeys(v) = {} /\ \A k : AdjustmentKey(k) \notin OwnKeys(v)
<1>1. ASSUME NEW key \in OwnKeys(u), key \in OwnKeys(v) PROVE FALSE
  <2>1. CASE key \in ChargeKeysOf(u)
    BY <1>1, <2>1, KeysApart DEF OwnKeys, ChargeKeysOf, ReturnKeysOf
  <2>2. CASE key \in ReturnKeysOf(u)
    BY <1>1, <2>2, KeysApart DEF OwnKeys, ChargeKeysOf, ReturnKeysOf
  <2>3. CASE key = FirstBonusKey(u)
    BY <1>1, <2>3, KeysApart DEF OwnKeys, ChargeKeysOf, ReturnKeysOf
  <2> QED BY <2>1, <2>2, <2>3 DEF OwnKeys
<1>2. ASSUME NEW k PROVE AdjustmentKey(k) \notin OwnKeys(v)
  BY KeysApart DEF OwnKeys, ChargeKeysOf, ReturnKeysOf
<1> QED BY <1>1, <1>2

\* A user's two accounts are the user's only.
LEMMA AccountsOf ==
    /\ \A u \in Users : Cash(u) \in Accounts /\ Gift(u) \in Accounts
    /\ \A u, v : /\ Cash(u) # Gift(v) /\ (Cash(u) = Cash(v) <=> u = v)
                 /\ (Gift(u) = Gift(v) <=> u = v) /\ Cash(u)[1] = u /\ Gift(u)[1] = u
    /\ \A a \in Accounts : \E u \in Users : a = Cash(u) \/ a = Gift(u)
BY DEF Cash, Gift, Accounts, Buckets

-----------------------------------------------------------------------------
(* What a transaction does to the ledger.                                  *)

\* No account is overdrawn.
Books(d) == Sound(d) /\ \A a \in Accounts : d.balance[a] >= 0

\* Only the given keys move anything, and the books are kept.
Touches(d, e, keys) ==
    /\ Books(e) /\ e.exists = d.exists /\ e.inviter = d.inviter
    /\ \A k \in Keys \ keys :
           (HasKey(e, k) <=> HasKey(d, k)) /\ \A a \in Accounts : Under(e, a, k) = Under(d, a, k)

\* Two transactions touch what either does.
LEMMA TouchesBoth ==
    ASSUME NEW d, NEW e, NEW f, NEW j, NEW k, Touches(d, e, j), Touches(e, f, k)
    PROVE  Touches(d, f, j \cup k)
BY DEF Touches

\* One post within the balance.
LEMMA PostTouches ==
    ASSUME NEW d, Books(d), NEW a \in Accounts, NEW amount \in Int, d.balance[a] + amount >= 0,
           NEW reason \in Reasons, NEW key \in Keys, NEW ref \in Ids \cup Keys, NEW e,
           e = Posted(d, a, amount, reason, key, ref)
    PROVE  Touches(d, e, {key}) /\ PostSeen(d, e, a, amount, reason, key)
<1>1. PostSeen(d, e, a, amount, reason, key)
  BY PostIsSeen DEF Books
<1>2. Books(e)
  BY <1>1 DEF Books, PostSeen
<1> QED BY <1>1, <1>2 DEF PostSeen, Touches

\* A charge of a new key: the fee leaves the user's credits, gift first.
ChargeSeen(d, e, u, fee, key) ==
    /\ Touches(d, e, {key})
    /\ Under(e, Cash(u), key) \in Int /\ Under(e, Cash(u), key) <= 0
    /\ Under(e, Gift(u), key) \in Int /\ Under(e, Gift(u), key) <= 0
    /\ UnderBoth(e, u, key) = -fee
    /\ e.balance[Cash(u)] + e.balance[Gift(u)] = d.balance[Cash(u)] + d.balance[Gift(u)] - fee
    /\ \A a \in Accounts \ {Cash(u), Gift(u)} : e.balance[a] = d.balance[a]
    /\ \A v \in Users : ChargeKeys(e, v) = ChargeKeys(d, v) \cup (IF v = u THEN {key} ELSE {})

\* consume_credits is such a charge, over one account or both.
LEMMA ChargeIsSeen ==
    ASSUME NEW d, Books(d), NEW u \in Users, NEW fee \in Nat, fee >= 1, NEW key \in Keys,
           ~HasKey(d, key), CanConsume(d, u, fee), NEW ref \in Ids \cup Keys
    PROVE  ChargeSeen(d, Consumed(d, u, fee, "subscription", key, ref), u, fee, key)
<1> DEFINE gift == GiftPart(d, u, fee)
           cash == fee - gift
           e == Posted(d, Gift(u), -gift, "subscription", key, ref)
           after == IF gift > 0 THEN e ELSE d
           f == Posted(after, Cash(u), -cash, "subscription", key, ref)
<1>1. /\ d.balance[Cash(u)] \in Int /\ d.balance[Gift(u)] \in Int
      /\ d.balance[Cash(u)] >= 0 /\ d.balance[Gift(u)] >= 0 /\ d \in Tables
  BY AccountsOf DEF Books, Sound, Tables
<1>2. /\ gift \in Nat /\ gift <= d.balance[Gift(u)] /\ gift <= fee
      /\ fee - gift <= d.balance[Cash(u)]
  BY <1>1 DEF GiftPart, CanConsume
<1>3. Consumed(d, u, fee, "subscription", key, ref) = IF cash > 0 THEN f ELSE after
  BY DEF Consumed
<1> HIDE DEF gift, e, f
<1>4. cash \in Nat
  BY <1>2
<1>5. "subscription" \in Reasons
  BY DEF Reasons, DebitReasons
<1>6. Under(d, Cash(u), key) = 0 /\ Under(d, Gift(u), key) = 0
  BY <1>1, AccountsOf, UnderIsSum
<1>7. /\ Books(after) /\ Touches(d, after, {key})
      /\ after.balance[Cash(u)] = d.balance[Cash(u)]
      /\ after.balance[Gift(u)] = d.balance[Gift(u)] - gift
      /\ Under(after, Cash(u), key) = 0 /\ Under(after, Gift(u), key) = -gift
      /\ \A a \in Accounts \ {Cash(u), Gift(u)} : after.balance[a] = d.balance[a]
      /\ \A v \in Users : ChargeKeys(after, v) =
             ChargeKeys(d, v) \cup (IF v = u /\ gift > 0 THEN {key} ELSE {})
  <2>1. CASE gift > 0
    <3>1. -gift \in Int /\ d.balance[Gift(u)] + (-gift) >= 0
      BY <1>1, <1>2
    <3>2. Touches(d, e, {key}) /\ PostSeen(d, e, Gift(u), -gift, "subscription", key)
      BY <1>5, <3>1, AccountsOf, PostTouches DEF e
    <3>3. after = e
      BY <2>1
    <3> HIDE DEF after
    <3>4. /\ Books(after) /\ Touches(d, after, {key})
          /\ after.balance[Cash(u)] = d.balance[Cash(u)]
          /\ \A a \in Accounts \ {Cash(u), Gift(u)} : after.balance[a] = d.balance[a]
          /\ Under(after, Cash(u), key) = Under(d, Cash(u), key)
          /\ Under(after, Gift(u), key) = Under(d, Gift(u), key) + (-gift)
          /\ after.balance[Gift(u)] = d.balance[Gift(u)] + (-gift)
      BY <3>2, <3>3, AccountsOf DEF PostSeen, Touches
    <3>5. \A v \in Users : ChargeKeys(after, v) =
             ChargeKeys(d, v) \cup (IF v = u /\ gift > 0 THEN {key} ELSE {})
      BY <2>1, <3>2, <3>3, AccountsOf DEF PostSeen
    <3> QED BY <1>1, <1>2, <1>6, <3>4, <3>5
  <2>2. CASE ~(gift > 0)
    <3>1. gift = 0 /\ after = d
      BY <1>2, <2>2
    <3>2. Touches(d, d, {key})
      BY DEF Touches
    <3>3. -gift = 0 /\ d.balance[Gift(u)] - gift = d.balance[Gift(u)] /\ ~(gift > 0)
      <4> DEFINE b == d.balance[Gift(u)]
      <4>1. b \in Int /\ gift = 0 /\ gift \in Int
        BY <1>1, <1>2, <3>1
      <4> HIDE DEF b, after
      <4>2. \A x \in Int : x <= 0 /\ x >= 0 => -x = 0
        OBVIOUS
      <4>3. -gift = 0
        <5>1. gift \in Int /\ gift <= 0 /\ gift >= 0
          BY <4>1
        <5> QED BY <4>2, <5>1
      <4>4. b - gift = b /\ ~(gift > 0)
        BY <4>1
      <4> QED BY <4>3, <4>4 DEF b
    <3>4. \A v \in Users : ChargeKeys(d, v) =
             ChargeKeys(d, v) \cup (IF v = u /\ gift > 0 THEN {key} ELSE {})
      BY <3>3
    <3> HIDE DEF after
    <3> QED BY <1>6, <3>1, <3>2, <3>3, <3>4
  <2> QED BY <2>1, <2>2
<1> HIDE DEF after
<1>8. CASE cash > 0
  <2>1. -cash \in Int /\ after.balance[Cash(u)] + (-cash) >= 0
    BY <1>1, <1>2, <1>4, <1>7
  <2> HIDE DEF cash
  <2>2. Touches(after, f, {key}) /\ PostSeen(after, f, Cash(u), -cash, "subscription", key)
    BY <1>5, <1>7, <2>1, AccountsOf, PostTouches DEF f
  <2>3. Touches(d, f, {key})
    <3>1. Touches(d, f, {key} \cup {key})
      BY <1>7, <2>2, TouchesBoth
    <3>2. {key} \cup {key} = {key}
      OBVIOUS
    <3> QED BY <3>1, <3>2
  <2>4. /\ f.balance[Gift(u)] = after.balance[Gift(u)]
        /\ \A a \in Accounts \ {Cash(u), Gift(u)} : f.balance[a] = after.balance[a]
        /\ Under(f, Gift(u), key) = Under(after, Gift(u), key)
        /\ Under(f, Cash(u), key) = Under(after, Cash(u), key) + (-cash)
        /\ f.balance[Cash(u)] = after.balance[Cash(u)] + (-cash)
    BY <2>2, AccountsOf DEF PostSeen
  <2>5. \A v \in Users : ChargeKeys(f, v) = ChargeKeys(d, v) \cup (IF v = u THEN {key} ELSE {})
    BY ZenonT(40), <1>7, <2>2, AccountsOf DEF PostSeen
  <2>6. Under(f, Cash(u), key) = -cash /\ Under(f, Gift(u), key) = -gift
    BY <1>4, <1>7, <2>4
  <2>7. UnderBoth(f, u, key) = -fee
    BY <1>2, <2>6 DEF UnderBoth, cash
  <2>8. f.balance[Cash(u)] + f.balance[Gift(u)] = d.balance[Cash(u)] + d.balance[Gift(u)] - fee
    BY <1>1, <1>2, <1>7, <2>4 DEF cash
  <2>9. /\ -cash \in Int /\ -cash <= 0 /\ -gift \in Int /\ -gift <= 0
    BY <1>2, <1>4
  <2>10. \A a \in Accounts \ {Cash(u), Gift(u)} : f.balance[a] = d.balance[a]
    BY <1>7, <2>4
  <2>11. Consumed(d, u, fee, "subscription", key, ref) = f
    BY <1>3, <1>8 DEF cash
  <2> QED BY <2>3, <2>5, <2>6, <2>7, <2>8, <2>9, <2>10, <2>11 DEF ChargeSeen
<1>9. CASE ~(cash > 0)
  <2>1. cash = 0 /\ gift = fee /\ gift > 0
    BY <1>2, <1>4, <1>9
  <2>2. Consumed(d, u, fee, "subscription", key, ref) = after
    BY <1>3, <2>1
  <2>3. UnderBoth(after, u, key) = -fee
    BY <1>7, <2>1 DEF UnderBoth
  <2>4. after.balance[Cash(u)] + after.balance[Gift(u)]
            = d.balance[Cash(u)] + d.balance[Gift(u)] - fee
    BY <1>1, <1>7, <2>1
  <2>5. \A v \in Users : ChargeKeys(after, v) =
            ChargeKeys(d, v) \cup (IF v = u THEN {key} ELSE {})
    BY <1>7, <2>1
  <2>6. 0 \in Int /\ 0 <= 0 /\ -gift \in Int /\ -gift <= 0
    BY <1>2
  <2> QED BY <1>7, <2>2, <2>3, <2>4, <2>5, <2>6 DEF ChargeSeen
<1> QED BY <1>8, <1>9

\* A return under a new key: what is returned joins the user's credits.
ReturnSeen(d, e, u, cash, gift, key) ==
    /\ Touches(d, e, {key})
    /\ Under(e, Cash(u), key) = cash /\ Under(e, Gift(u), key) = gift
    /\ e.balance[Cash(u)] + e.balance[Gift(u)]
            = d.balance[Cash(u)] + d.balance[Gift(u)] + cash + gift
    /\ \A a \in Accounts \ {Cash(u), Gift(u)} : e.balance[a] = d.balance[a]
    /\ \A v \in Users : ChargeKeys(e, v) = ChargeKeys(d, v)

\* return_subscription_credits is such a return.
LEMMA ReturnIsSeen ==
    ASSUME NEW d, Books(d), NEW u \in Users, NEW cash \in Nat, NEW gift \in Nat,
           NEW key \in Keys, ~HasKey(d, key), NEW ref \in Ids \cup Keys
    PROVE  ReturnSeen(d, Returned(d, u, cash, gift, key, ref), u, cash, gift, key)
<1> DEFINE e == Posted(d, Cash(u), cash, "subscription_return", key, ref)
           after == IF cash # 0 THEN e ELSE d
           f == Posted(after, Gift(u), gift, "subscription_return", key, ref)
           final == IF gift # 0 THEN f ELSE after
<1>1. /\ d.balance[Cash(u)] \in Int /\ d.balance[Gift(u)] \in Int
      /\ d.balance[Cash(u)] >= 0 /\ d.balance[Gift(u)] >= 0 /\ d \in Tables
  BY AccountsOf DEF Books, Sound, Tables
<1>2. Returned(d, u, cash, gift, key, ref) = final
  BY DEF Returned
<1> HIDE DEF e, f
<1>3. "subscription_return" \in Reasons /\ "subscription_return" # "subscription"
  BY DEF Reasons, CreditReasons
<1>4. Under(d, Cash(u), key) = 0 /\ Under(d, Gift(u), key) = 0
  BY <1>1, AccountsOf, UnderIsSum
<1>5. /\ Books(after) /\ Touches(d, after, {key})
      /\ after.balance[Cash(u)] = d.balance[Cash(u)] + cash
      /\ after.balance[Gift(u)] = d.balance[Gift(u)]
      /\ Under(after, Cash(u), key) = cash /\ Under(after, Gift(u), key) = 0
      /\ \A a \in Accounts \ {Cash(u), Gift(u)} : after.balance[a] = d.balance[a]
      /\ \A v \in Users : ChargeKeys(after, v) = ChargeKeys(d, v)
  <2>1. CASE cash # 0
    <3>1. cash \in Int /\ d.balance[Cash(u)] + cash >= 0
      BY <1>1
    <3>2. Touches(d, e, {key}) /\ PostSeen(d, e, Cash(u), cash, "subscription_return", key)
      BY <1>3, <3>1, AccountsOf, PostTouches DEF e
    <3>3. after = e
      BY <2>1
    <3> HIDE DEF after
    <3>4. /\ Books(after) /\ Touches(d, after, {key})
          /\ after.balance[Gift(u)] = d.balance[Gift(u)]
          /\ \A a \in Accounts \ {Cash(u), Gift(u)} : after.balance[a] = d.balance[a]
          /\ Under(after, Gift(u), key) = Under(d, Gift(u), key)
          /\ Under(after, Cash(u), key) = Under(d, Cash(u), key) + cash
          /\ after.balance[Cash(u)] = d.balance[Cash(u)] + cash
      BY <3>2, <3>3, AccountsOf DEF PostSeen, Touches
    <3>5. \A v \in Users : ChargeKeys(after, v) = ChargeKeys(d, v)
      BY <1>3, <3>2, <3>3 DEF PostSeen
    <3> QED BY <1>1, <1>4, <3>4, <3>5
  <2>2. CASE cash = 0
    <3>1. after = d
      BY <2>2
    <3>2. Touches(d, d, {key})
      BY DEF Touches
    <3>3. d.balance[Cash(u)] + cash = d.balance[Cash(u)]
      BY <1>1, <2>2
    <3> HIDE DEF after
    <3> QED BY <1>4, <2>2, <3>1, <3>2, <3>3
  <2> QED BY <2>1, <2>2
<1> HIDE DEF after
<1>6. CASE gift # 0
  <2>1. gift \in Int /\ after.balance[Gift(u)] + gift >= 0
    BY <1>1, <1>5
  <2>2. Touches(after, f, {key})
        /\ PostSeen(after, f, Gift(u), gift, "subscription_return", key)
    BY <1>3, <1>5, <2>1, AccountsOf, PostTouches DEF f
  <2>3. Touches(d, f, {key})
    <3>1. Touches(d, f, {key} \cup {key})
      BY <1>5, <2>2, TouchesBoth
    <3>2. {key} \cup {key} = {key}
      OBVIOUS
    <3> QED BY <3>1, <3>2
  <2>4. /\ f.balance[Cash(u)] = after.balance[Cash(u)]
        /\ \A a \in Accounts \ {Cash(u), Gift(u)} : f.balance[a] = after.balance[a]
        /\ Under(f, Cash(u), key) = Under(after, Cash(u), key)
        /\ Under(f, Gift(u), key) = Under(after, Gift(u), key) + gift
        /\ f.balance[Gift(u)] = after.balance[Gift(u)] + gift
    BY <2>2, AccountsOf DEF PostSeen
  <2>5. \A v \in Users : ChargeKeys(f, v) = ChargeKeys(d, v)
    BY <1>3, <1>5, <2>2 DEF PostSeen
  <2>6. Under(f, Cash(u), key) = cash /\ Under(f, Gift(u), key) = gift
    BY <1>5, <2>4
  <2>7. f.balance[Cash(u)] + f.balance[Gift(u)]
            = d.balance[Cash(u)] + d.balance[Gift(u)] + cash + gift
    BY <1>1, <1>5, <2>4
  <2>8. \A a \in Accounts \ {Cash(u), Gift(u)} : f.balance[a] = d.balance[a]
    BY <1>5, <2>4
  <2>9. final = f
    BY <1>6
  <2> HIDE DEF final
  <2> QED BY <1>2, <2>3, <2>5, <2>6, <2>7, <2>8, <2>9 DEF ReturnSeen
<1>7. CASE gift = 0
  <2>1. final = after
    BY <1>7
  <2>2. after.balance[Cash(u)] + after.balance[Gift(u)]
            = d.balance[Cash(u)] + d.balance[Gift(u)] + cash + gift
    BY <1>1, <1>5, <1>7
  <2> HIDE DEF final
  <2> QED BY <1>2, <1>5, <1>7, <2>1, <2>2 DEF ReturnSeen
<1> QED BY <1>6, <1>7

\* A bonus, or none, for the only charge.
BonusDue(d, u) ==
    /\ Cardinality(ChargeKeys(d, u)) = 1 /\ ~HasKey(d, FirstBonusKey(u))
    /\ Referrer(d, u) # None /\ FirstBonus # 0

BonusSeen(d, e, u) ==
    /\ Touches(d, e, {FirstBonusKey(u)})
    /\ \A v \in Users : ChargeKeys(e, v) = ChargeKeys(d, v)
    /\ HasKey(e, FirstBonusKey(u)) => HasKey(d, FirstBonusKey(u)) \/ BonusDue(d, u)
    /\ \A a \in Accounts : e.balance[a] >= d.balance[a]
    /\ \A a \in Accounts : a # Gift(Referrer(d, u)) => e.balance[a] = d.balance[a]
    /\ Referrer(d, u) # None =>
           LET a == Gift(Referrer(d, u))
           IN  Under(e, a, FirstBonusKey(u)) = Under(d, a, FirstBonusKey(u))
                   + (IF BonusDue(d, u) THEN FirstBonus ELSE 0)

\* The bonus is a number of credits.
LEMMA FirstBonusType == FirstBonus \in Nat
<1>1. SignupGrant * RateNum \in Nat /\ RateDen \in Nat /\ RateDen >= 1
  BY SubscriptionAssumption
<1> QED BY <1>1 DEF FirstBonus, RoundHalfUp

\* referral_subscription_bonus is such a bonus, or does nothing.
LEMMA BonusIsSeen ==
    ASSUME NEW d, Books(d), NEW u \in Users
    PROVE  BonusSeen(d, WithFirstBonus(d, u), u)
<1> DEFINE who == Referrer(d, u)
           key == FirstBonusKey(u)
           e == Posted(d, Gift(who), FirstBonus, "referral_bonus", key, u)
<1>1. /\ d \in Tables /\ \A a \in Accounts : d.balance[a] \in Int /\ d.balance[a] >= 0
      /\ \A a \in Accounts : Under(d, a, key) \in Int
  BY UnderIsSum DEF Books, Sound, Tables
<1>2. who # None => who \in Users
  BY <1>1 DEF Referrer, Tables
<1>3. FirstBonus \in Nat
  BY FirstBonusType
<1>4. WithFirstBonus(d, u) = IF BonusDue(d, u) THEN e ELSE d
  BY DEF WithFirstBonus, BonusDue
<1> HIDE DEF e
<1>5. CASE BonusDue(d, u)
  <2>1. who \in Users /\ Gift(who) \in Accounts /\ who # None
    BY <1>2, <1>5, AccountsOf DEF BonusDue
  <2>2. "referral_bonus" \in Reasons /\ "referral_bonus" # "subscription"
    BY DEF Reasons, CreditReasons
  <2>3. key \in Keys /\ u \in Ids
    BY KeyTypes
  <2>4. FirstBonus \in Int /\ d.balance[Gift(who)] + FirstBonus >= 0
    BY <1>1, <1>3, <2>1
  <2> HIDE DEF who, key
  <2>5. Touches(d, e, {key}) /\ PostSeen(d, e, Gift(who), FirstBonus, "referral_bonus", key)
    BY <2>1, <2>2, <2>3, <2>4, PostTouches DEF e
  <2>6. \A v \in Users : ChargeKeys(e, v) = ChargeKeys(d, v)
    BY <2>2, <2>5 DEF PostSeen
  <2>7. /\ \A a \in Accounts : a # Gift(who) => e.balance[a] = d.balance[a]
        /\ e.balance[Gift(who)] = d.balance[Gift(who)] + FirstBonus
        /\ Under(e, Gift(who), key) = Under(d, Gift(who), key) + FirstBonus
    BY <2>5 DEF PostSeen
  <2>8. \A a \in Accounts : e.balance[a] >= d.balance[a]
    BY <1>1, <1>3, <2>7
  <2>9. WithFirstBonus(d, u) = e
    BY <1>4, <1>5
  <2>10. Under(e, Gift(who), key) = Under(d, Gift(who), key)
                                        + (IF BonusDue(d, u) THEN FirstBonus ELSE 0)
    BY <1>5, <2>7
  <2> HIDE DEF BonusDue
  <2> QED BY <1>5, <2>5, <2>6, <2>7, <2>8, <2>9, <2>10 DEF BonusSeen, who, key
<1>6. CASE ~BonusDue(d, u)
  <2>1. Touches(d, d, {key})
    BY DEF Touches
  <2>2. WithFirstBonus(d, u) = d
    BY <1>4, <1>6
  <2>3. who # None => /\ Gift(who) \in Accounts
                      /\ Under(d, Gift(who), key) = Under(d, Gift(who), key) + 0
    BY <1>1, <1>2, AccountsOf
  <2>4. \A a \in Accounts : d.balance[a] >= d.balance[a]
    BY <1>1
  <2>5. (IF BonusDue(d, u) THEN FirstBonus ELSE 0) = 0
    BY <1>6
  <2> HIDE DEF BonusDue
  <2> QED BY <1>6, <2>1, <2>2, <2>3, <2>4, <2>5 DEF BonusSeen
<1> QED BY <1>5, <1>6

-----------------------------------------------------------------------------
(* What the ledger says of one user's subscription.                        *)

\* The parts of ChargesAddUp for one user, over any ledger.
ReturnsOf(d, u) ==
    \A day \in Days, plan \in Plans, a \in {Cash(u), Gift(u)} :
        Under(d, a, ReturnKey(u, day, plan)) \in 0..(-Under(d, a, ChargeKey(u, day, plan)))

Discounted(d, u) ==
    {key \in ChargeKeys(d, u) : key[3] = Jade /\ UnderBoth(d, u, key) = -JadeDiscountFee}

Rewarded(d, u) ==
    LET who == Referrer(d, u) IN
    who # None => Under(d, Gift(who), FirstBonusKey(u)) =
                      (IF ChargeKeys(d, u) = {} THEN 0 ELSE FirstBonus)

\* A user's charges have the user's keys, and only they bring the bonus.
Ledger(d, u, discounts) ==
    /\ ChargeKeys(d, u) \subseteq ChargeKeysOf(u)
    /\ HasKey(d, FirstBonusKey(u)) => ChargeKeys(d, u) # {}
    /\ ReturnsOf(d, u)
    /\ discounts = Cardinality(Discounted(d, u))

\* Two ledgers that are the same for one user.
LEMMA LedgerStays ==
    ASSUME NEW d, NEW e, NEW u \in Users, NEW keys, Books(d), Touches(d, e, keys),
           keys \cap OwnKeys(u) = {}, ChargeKeys(e, u) = ChargeKeys(d, u), NEW n
    PROVE  /\ Ledger(d, u, n) => Ledger(e, u, n)
           /\ ChargeKeys(d, u) \subseteq ChargeKeysOf(u) /\ Rewarded(d, u) => Rewarded(e, u)
           /\ \A day \in Days, plan \in Plans :
                  /\ HasKey(e, ChargeKey(u, day, plan)) <=> HasKey(d, ChargeKey(u, day, plan))
                  /\ HasKey(e, ReturnKey(u, day, plan)) <=> HasKey(d, ReturnKey(u, day, plan))
                  /\ UnderBoth(e, u, ChargeKey(u, day, plan)) =
                         UnderBoth(d, u, ChargeKey(u, day, plan))
<1>1. \A k \in OwnKeys(u) : k \in Keys \ keys
  BY KeyTypes DEF OwnKeys, ChargeKeysOf, ReturnKeysOf
<1>2. \A k \in OwnKeys(u) : /\ HasKey(e, k) <=> HasKey(d, k)
                            /\ \A a \in Accounts : Under(e, a, k) = Under(d, a, k)
  BY <1>1 DEF Touches
<1>3. FirstBonusKey(u) \in OwnKeys(u) /\ ChargeKeysOf(u) \subseteq OwnKeys(u)
  BY DEF OwnKeys
<1>4. \A day \in Days, plan \in Plans :
          ChargeKey(u, day, plan) \in OwnKeys(u) /\ ReturnKey(u, day, plan) \in OwnKeys(u)
  BY DEF OwnKeys, ChargeKeysOf, ReturnKeysOf
<1>5. \A k \in OwnKeys(u) : UnderBoth(e, u, k) = UnderBoth(d, u, k)
  BY <1>2, AccountsOf DEF UnderBoth
<1>6. ASSUME ReturnsOf(d, u) PROVE ReturnsOf(e, u)
  BY <1>2, <1>4, <1>6, AccountsOf DEF ReturnsOf
<1>7. ASSUME ChargeKeys(d, u) \subseteq ChargeKeysOf(u) PROVE Discounted(e, u) = Discounted(d, u)
  BY <1>3, <1>5, <1>7 DEF Discounted
<1>8. Referrer(e, u) = Referrer(d, u)
  BY DEF Referrer, Touches
<1>9. Referrer(d, u) # None => Gift(Referrer(d, u)) \in Accounts
  BY AccountsOf DEF Referrer, Books, Sound, Tables
<1>10. ASSUME Rewarded(d, u) PROVE Rewarded(e, u)
  BY <1>2, <1>3, <1>8, <1>9, <1>10 DEF Rewarded
<1>11. ASSUME Ledger(d, u, n) PROVE Ledger(e, u, n)
  BY <1>2, <1>3, <1>6, <1>7, <1>11 DEF Ledger
<1> QED BY <1>2, <1>4, <1>5, <1>10, <1>11

\* A return within the charge it is of.
LEMMA ReturnAddsUp ==
    ASSUME NEW d, Books(d), NEW e, NEW u \in Users, NEW n, NEW day \in Days, NEW plan \in Plans,
           NEW cash \in Nat, NEW gift \in Nat, Ledger(d, u, n),
           cash <= -Under(d, Cash(u), ChargeKey(u, day, plan)),
           gift <= -Under(d, Gift(u), ChargeKey(u, day, plan)),
           ReturnSeen(d, e, u, cash, gift, ReturnKey(u, day, plan))
    PROVE  /\ Ledger(e, u, n) /\ ChargeKeys(e, u) = ChargeKeys(d, u)
           /\ Rewarded(d, u) => Rewarded(e, u)
<1> DEFINE key == ReturnKey(u, day, plan)
<1>1. \A k \in OwnKeys(u) : k \in Keys
  BY KeyTypes DEF OwnKeys, ChargeKeysOf, ReturnKeysOf
<1>2. \A k \in OwnKeys(u) : k # key =>
          (HasKey(e, k) <=> HasKey(d, k)) /\ \A a \in Accounts : Under(e, a, k) = Under(d, a, k)
  BY <1>1 DEF ReturnSeen, Touches
<1>3. /\ FirstBonusKey(u) \in OwnKeys(u) /\ FirstBonusKey(u) # key
      /\ \A k \in ChargeKeysOf(u) : k \in OwnKeys(u) /\ k # key
  BY KeysApart DEF OwnKeys, ChargeKeysOf
<1>4. ChargeKeys(e, u) = ChargeKeys(d, u) /\ Cash(u) \in Accounts /\ Gift(u) \in Accounts
  BY AccountsOf DEF ReturnSeen
<1>5. Discounted(e, u) = Discounted(d, u)
  BY <1>2, <1>3, <1>4 DEF Discounted, UnderBoth, Ledger
<1>6. ReturnsOf(e, u)
  <2>1. SUFFICES ASSUME NEW c \in Days, NEW p \in Plans, NEW a \in {Cash(u), Gift(u)}
                 PROVE  Under(e, a, ReturnKey(u, c, p)) \in 0..(-Under(e, a, ChargeKey(u, c, p)))
    BY DEF ReturnsOf
  <2>2. Under(e, a, ChargeKey(u, c, p)) = Under(d, a, ChargeKey(u, c, p))
    <3>1. ChargeKey(u, c, p) \in ChargeKeysOf(u)
      BY DEF ChargeKeysOf
    <3> QED BY <1>2, <1>3, <1>4, <3>1
  <2>3. CASE ReturnKey(u, c, p) # key
    <3>1. ReturnKey(u, c, p) \in OwnKeys(u)
      BY DEF OwnKeys, ReturnKeysOf
    <3>2. Under(e, a, ReturnKey(u, c, p)) = Under(d, a, ReturnKey(u, c, p))
      BY <1>2, <1>4, <2>3, <3>1
    <3> QED BY <2>2, <3>2 DEF Ledger, ReturnsOf
  <2>4. CASE ReturnKey(u, c, p) = key
    <3>1. c = day /\ p = plan
      BY <2>4, KeysApart
    <3>2. Under(e, Cash(u), key) = cash /\ Under(e, Gift(u), key) = gift /\ Cash(u) # Gift(u)
      BY AccountsOf DEF ReturnSeen
    <3>3. Under(d, a, ChargeKey(u, day, plan)) \in Int
      BY <1>4, UnderIsSum, KeyTypes DEF Books, Sound
    <3> HIDE DEF key
    <3>4. CASE a = Cash(u)
      BY <2>2, <2>4, <3>1, <3>2, <3>3, <3>4
    <3>5. CASE a = Gift(u)
      BY <2>2, <2>4, <3>1, <3>2, <3>3, <3>5
    <3> QED BY <3>4, <3>5
  <2> QED BY <2>3, <2>4
<1>7. Rewarded(d, u) => Rewarded(e, u)
  <2>1. Referrer(e, u) = Referrer(d, u)
    BY DEF Referrer, ReturnSeen, Touches
  <2>2. Referrer(d, u) # None => Gift(Referrer(d, u)) \in Accounts
    BY AccountsOf DEF Referrer, Books, Sound, Tables
  <2> QED BY <1>2, <1>3, <1>4, <2>1, <2>2 DEF Rewarded
<1> QED BY <1>2, <1>3, <1>4, <1>5, <1>6, <1>7 DEF Ledger

\* A charge under a new key.
LEMMA ChargeAddsUp ==
    ASSUME NEW d, Books(d), NEW e, NEW u \in Users, NEW n, NEW day \in Days, NEW plan \in Plans,
           NEW fee \in Nat, fee >= 1, Ledger(d, u, n), ~HasKey(d, ChargeKey(u, day, plan)),
           ChargeSeen(d, e, u, fee, ChargeKey(u, day, plan))
    PROVE  /\ Ledger(e, u, n + (IF plan = Jade /\ fee = JadeDiscountFee THEN 1 ELSE 0))
           /\ ChargeKeys(e, u) = ChargeKeys(d, u) \cup {ChargeKey(u, day, plan)}
           /\ ChargeKey(u, day, plan) \notin ChargeKeys(d, u)
           /\ Rewarded(d, u) /\ ChargeKeys(d, u) # {} => Rewarded(e, u)
<1> DEFINE key == ChargeKey(u, day, plan)
           one == plan = Jade /\ fee = JadeDiscountFee
           m == Cardinality(Discounted(d, u))
<1>1. \A k \in OwnKeys(u) : k \in Keys
  BY KeyTypes DEF OwnKeys, ChargeKeysOf, ReturnKeysOf
<1>2. \A k \in OwnKeys(u) : k # key =>
          (HasKey(e, k) <=> HasKey(d, k)) /\ \A a \in Accounts : Under(e, a, k) = Under(d, a, k)
  BY <1>1 DEF ChargeSeen, Touches
<1>3. /\ FirstBonusKey(u) \in OwnKeys(u) /\ FirstBonusKey(u) # key
      /\ \A k \in ChargeKeysOf(u) : k \in OwnKeys(u)
      /\ key \in ChargeKeysOf(u) /\ key[3] = plan
  BY KeysApart DEF OwnKeys, ChargeKeysOf
<1>4. ChargeKeys(e, u) = ChargeKeys(d, u) \cup {key}
  BY DEF ChargeSeen
<1>5. Cash(u) \in Accounts /\ Gift(u) \in Accounts /\ d \in Tables /\ e \in Tables
  BY AccountsOf DEF ChargeSeen, Touches, Books, Sound
<1>6. key \notin ChargeKeys(d, u)
  BY <1>5, ChargeKeysFinite
<1>7. IsFiniteSet(Discounted(d, u))
  <2>1. Discounted(d, u) \subseteq ChargeKeys(d, u) /\ IsFiniteSet(ChargeKeys(d, u))
    BY <1>5, ChargeKeysFinite DEF Discounted
  <2> QED BY <2>1, FS_Subset
<1>8. UnderBoth(e, u, key) = -fee /\ -fee \in Int /\ JadeDiscountFee \in Nat
  BY SubscriptionAssumption DEF ChargeSeen
<1>9. \A k \in ChargeKeys(d, u) : UnderBoth(e, u, k) = UnderBoth(d, u, k)
  BY <1>2, <1>3, <1>5, <1>6 DEF UnderBoth, Ledger
<1>10. Discounted(e, u) = Discounted(d, u) \cup (IF one THEN {key} ELSE {})
  <2>1. (UnderBoth(e, u, key) = -JadeDiscountFee) <=> fee = JadeDiscountFee
    <3>1. \A x, y \in Int : -x = -y <=> x = y
      OBVIOUS
    <3> QED BY <1>8, <3>1
  <2> HIDE DEF key
  <2> QED BY <1>3, <1>4, <1>6, <1>9, <2>1 DEF Discounted
<1>11. Cardinality(Discounted(e, u)) = n + (IF one THEN 1 ELSE 0)
  <2>1. n = m /\ m \in Nat
    BY <1>7, FS_CardinalityType DEF Ledger
  <2>2. key \notin Discounted(d, u)
    BY <1>6 DEF Discounted
  <2>3. CASE one
    <3>1. Discounted(e, u) = Discounted(d, u) \cup {key}
      BY <1>10, <2>3
    <3>2. Cardinality(Discounted(e, u)) = m + 1
      BY <1>7, <2>2, <3>1, FS_AddElement
    <3> QED BY <2>1, <2>3, <3>2
  <2>4. CASE ~one
    <3>1. Discounted(e, u) = Discounted(d, u)
      BY <1>10, <2>4
    <3>2. Cardinality(Discounted(e, u)) = m
      BY <3>1
    <3> HIDE DEF m
    <3> QED BY <2>1, <2>4, <3>2
  <2> QED BY <2>3, <2>4
<1>12. ReturnsOf(e, u)
  <2>1. SUFFICES ASSUME NEW c \in Days, NEW p \in Plans, NEW a \in {Cash(u), Gift(u)}
                 PROVE  Under(e, a, ReturnKey(u, c, p)) \in 0..(-Under(e, a, ChargeKey(u, c, p)))
    BY DEF ReturnsOf
  <2>2. Under(e, a, ReturnKey(u, c, p)) = Under(d, a, ReturnKey(u, c, p))
    <3>1. ReturnKey(u, c, p) \in OwnKeys(u) /\ ReturnKey(u, c, p) # key
      BY KeysApart DEF OwnKeys, ReturnKeysOf
    <3> QED BY <1>2, <1>5, <3>1
  <2>3. Under(d, a, ReturnKey(u, c, p)) \in 0..(-Under(d, a, ChargeKey(u, c, p)))
    BY DEF Ledger, ReturnsOf
  <2>4. CASE ChargeKey(u, c, p) # key
    <3>1. ChargeKey(u, c, p) \in ChargeKeysOf(u)
      BY DEF ChargeKeysOf
    <3> QED BY <1>2, <1>3, <1>5, <2>2, <2>3, <2>4, <3>1
  <2>5. CASE ChargeKey(u, c, p) = key
    <3>1. Under(d, a, key) = 0
      BY <1>5, UnderIsSum
    <3>2. Under(e, a, key) \in Int /\ Under(e, a, key) <= 0
      BY DEF ChargeSeen
    <3> HIDE DEF key
    <3>3. Under(d, a, ReturnKey(u, c, p)) = 0
      BY <2>3, <2>5, <3>1
    <3>4. \A x \in Int : x <= 0 => 0 \in 0..(-x)
      OBVIOUS
    <3> QED BY <2>2, <2>5, <3>2, <3>3, <3>4
  <2> QED BY <2>4, <2>5
<1>13. Rewarded(d, u) /\ ChargeKeys(d, u) # {} => Rewarded(e, u)
  <2>1. Referrer(e, u) = Referrer(d, u)
    BY DEF Referrer, ChargeSeen, Touches
  <2>2. Referrer(d, u) # None => Gift(Referrer(d, u)) \in Accounts
    BY <1>5, AccountsOf DEF Referrer, Tables
  <2> QED BY <1>2, <1>3, <1>4, <2>1, <2>2 DEF Rewarded
<1>14. Ledger(e, u, n + (IF one THEN 1 ELSE 0))
  BY <1>2, <1>3, <1>4, <1>11, <1>12 DEF Ledger
<1> QED BY <1>4, <1>6, <1>13, <1>14

\* A charge under a new key, and the referrer's bonus if it is the first.
LEMMA SubscribeAddsUp ==
    ASSUME NEW d, Books(d), NEW e, NEW f, NEW u \in Users, NEW n,
           NEW day \in Days, NEW plan \in Plans,
           NEW fee \in Nat, fee >= 1, Ledger(d, u, n), Rewarded(d, u),
           ~HasKey(d, ChargeKey(u, day, plan)),
           ChargeSeen(d, e, u, fee, ChargeKey(u, day, plan)), BonusSeen(e, f, u)
    PROVE  /\ Ledger(f, u, n + (IF plan = Jade /\ fee = JadeDiscountFee THEN 1 ELSE 0))
           /\ Rewarded(f, u) /\ ChargeKeys(f, u) = ChargeKeys(d, u) \cup {ChargeKey(u, day, plan)}
           /\ UnderBoth(f, u, ChargeKey(u, day, plan)) = -fee
           /\ Touches(d, f, {ChargeKey(u, day, plan), FirstBonusKey(u)})
<1> DEFINE key == ChargeKey(u, day, plan)
           m == n + (IF plan = Jade /\ fee = JadeDiscountFee THEN 1 ELSE 0)
<1>1. /\ Ledger(e, u, m) /\ ChargeKeys(e, u) = ChargeKeys(d, u) \cup {key}
      /\ key \notin ChargeKeys(d, u)
      /\ Rewarded(d, u) /\ ChargeKeys(d, u) # {} => Rewarded(e, u)
  BY ChargeAddsUp
<1> HIDE DEF m, key
<1>2. ChargeKeys(f, u) = ChargeKeys(e, u) /\ Books(f) /\ Books(e)
  BY DEF BonusSeen, ChargeSeen, Touches
<1>3. \A k \in OwnKeys(u) \ {FirstBonusKey(u)} : /\ HasKey(f, k) <=> HasKey(e, k)
                                                 /\ \A a \in Accounts : Under(f, a, k) = Under(e, a, k)
  <2>1. \A k \in OwnKeys(u) : k \in Keys
    BY KeyTypes DEF OwnKeys, ChargeKeysOf, ReturnKeysOf
  <2> QED BY <2>1 DEF BonusSeen, Touches
<1>4. /\ \A k \in ChargeKeysOf(u) : k \in OwnKeys(u) \ {FirstBonusKey(u)}
      /\ key \in ChargeKeysOf(u)
      /\ \A c \in Days, p \in Plans : /\ ReturnKey(u, c, p) \in OwnKeys(u) \ {FirstBonusKey(u)}
                                      /\ ChargeKey(u, c, p) \in ChargeKeysOf(u)
  BY KeysApart DEF OwnKeys, ChargeKeysOf, ReturnKeysOf, key
<1>5. Cash(u) \in Accounts /\ Gift(u) \in Accounts /\ d \in Tables /\ e \in Tables
  BY <1>2, AccountsOf DEF Books, Sound
<1>6. \A k \in ChargeKeysOf(u) : UnderBoth(f, u, k) = UnderBoth(e, u, k)
  BY <1>3, <1>4, <1>5 DEF UnderBoth
<1>7. Ledger(f, u, m)
  <2>1. ChargeKeys(f, u) \subseteq ChargeKeysOf(u) /\ ChargeKeys(f, u) # {}
    BY <1>1, <1>2 DEF Ledger
  <2>2. Discounted(f, u) = Discounted(e, u)
    BY <1>2, <1>6, <2>1 DEF Discounted
  <2>3. ReturnsOf(f, u)
    BY <1>1, <1>3, <1>4, <1>5 DEF ReturnsOf, Ledger
  <2> QED BY <1>1, <2>1, <2>2, <2>3 DEF Ledger
<1>8. UnderBoth(f, u, key) = -fee
  BY <1>4, <1>6 DEF ChargeSeen, key
<1>9. Touches(d, f, {key, FirstBonusKey(u)})
  <2>1. Touches(d, f, {key} \cup {FirstBonusKey(u)})
    BY TouchesBoth DEF ChargeSeen, BonusSeen, key
  <2>2. {key} \cup {FirstBonusKey(u)} = {key, FirstBonusKey(u)}
    OBVIOUS
  <2> QED BY <2>1, <2>2
<1>10. Rewarded(f, u)
  <2> DEFINE who == Referrer(d, u)
             a == Gift(who)
             bonus == FirstBonusKey(u)
  <2>1. Referrer(e, u) = who /\ Referrer(f, u) = who
    BY DEF Referrer, ChargeSeen, BonusSeen, Touches
  <2> SUFFICES ASSUME who # None PROVE Under(f, a, bonus) = FirstBonus
    BY <1>1, <1>2, <2>1 DEF Rewarded
  <2>2. a \in Accounts
    BY <1>5, AccountsOf DEF Referrer, Tables
  <2>3. Under(f, a, bonus) = Under(e, a, bonus) + (IF BonusDue(e, u) THEN FirstBonus ELSE 0)
    BY <2>1 DEF BonusSeen
  <2>4. Under(e, a, bonus) = Under(d, a, bonus) /\ (HasKey(e, bonus) <=> HasKey(d, bonus))
    <3>1. bonus \in Keys /\ bonus # key
      BY KeyTypes, KeysApart DEF key
    <3> QED BY <2>2, <3>1 DEF ChargeSeen, Touches, key
  <2>5. IsFiniteSet(ChargeKeys(d, u)) /\ FirstBonus \in Nat
    BY <1>5, ChargeKeysFinite, FirstBonusType
  <2>6. Under(d, a, bonus) = IF ChargeKeys(d, u) = {} THEN 0 ELSE FirstBonus
    BY DEF Rewarded
  <2>7. CASE ChargeKeys(d, u) = {}
    <3>1. ChargeKeys(e, u) = {key} /\ Cardinality({key}) = 1
      BY <1>1, <2>7, FS_Singleton
    <3>2. ~HasKey(e, bonus)
      BY <2>4, <2>7 DEF Ledger
    <3>3. BonusDue(e, u) \/ FirstBonus = 0
      BY <2>1, <3>1, <3>2 DEF BonusDue
    <3> HIDE DEF who, a, bonus, BonusDue
    <3> QED BY <2>3, <2>4, <2>5, <2>6, <2>7, <3>3
  <2>8. CASE ChargeKeys(d, u) # {}
    <3>1. Cardinality(ChargeKeys(d, u)) \in Nat /\ Cardinality(ChargeKeys(d, u)) # 0
      BY <2>5, <2>8, FS_CardinalityType, FS_EmptySet
    <3>2. Cardinality(ChargeKeys(e, u)) = Cardinality(ChargeKeys(d, u)) + 1
      BY <1>1, <2>5, FS_AddElement
    <3>3. Cardinality(ChargeKeys(e, u)) # 1
      BY <3>1, <3>2
    <3>4. ~BonusDue(e, u)
      BY <3>3 DEF BonusDue
    <3> HIDE DEF who, a, bonus, BonusDue
    <3> QED BY <2>3, <2>4, <2>5, <2>6, <2>8, <3>4
  <2> QED BY <2>7, <2>8
<1> QED BY <1>1, <1>2, <1>7, <1>8, <1>9, <1>10 DEF key, m

-----------------------------------------------------------------------------
(* One user's subscription against the ledger, on a day t.                 *)

\* The columns fit together: CadenceMatchesType for one user.
Suits(u, s) ==
    IF s.status \in {"active", "expired"}
    THEN /\ s.type \in Plans /\ s.cadence \in Briefing
         /\ s.type # Jade => s.cadence = s.type
    ELSE /\ s.type = None
         /\ s.cadence # None => s.status = "inactive" /\ s.cadence = LegacyCadence[u]

\* A period has begun, and ends a month later; one that is over ended before
\* today.
Dated(s, t) ==
    /\ s.start <= t /\ s.adjusted <= t
    /\ IF s.status = "active"
       THEN /\ 1 <= s.start /\ s.start < s.expiry /\ 1 <= s.anchor
            /\ s.expiry = NextExpiry(s.start, s.anchor) /\ OnAnchor(s.start, s.anchor, t)
       ELSE s.start < t /\ s.expiry < t

\* PeriodsArePaid for one user.
PeriodPaid(d, u, s) ==
    s.status = "active" /\ s.type \in Briefing =>
        /\ UnderBoth(d, u, ChargeKey(u, s.start, s.type)) = -Fee[s.type]
        /\ ~HasKey(d, ReturnKey(u, s.start, s.type))

\* No charge is for a later day than the running period's, and one for the same
\* day is its own or precedes the adjustment of that day.
ChargesPast(d, u, s) ==
    \A day \in Days, plan \in Plans :
        HasKey(d, ChargeKey(u, day, plan)) =>
            \/ day < s.start
            \/ day = s.start /\ (plan = s.type \/ s.adjusted >= s.start \/ s.status = "cancelled")

\* Nor is a return, and one for the same day is of the plan that was left.
ReturnsPast(d, u, s) ==
    \A day \in Days, plan \in Plans :
        HasKey(d, ReturnKey(u, day, plan)) =>
            \/ day < s.start
            \/ day = s.start /\ plan # s.type /\ s.adjusted >= s.start

Subscriber(d, u, s, t) ==
    /\ s \in Subscription /\ Suits(u, s) /\ Dated(s, t)
    /\ PeriodPaid(d, u, s) /\ ChargesPast(d, u, s) /\ ReturnsPast(d, u, s)
    /\ s.status \in {"active", "expired"} => ChargeKeys(d, u) # {}
    /\ Ledger(d, u, s.discounts) /\ Rewarded(d, u)

\* Days are numbers.
LEMMA DayTypes == LastDay \in Nat /\ \A t \in Days : t \in Nat /\ t >= 1 /\ t <= LastDay
BY SubscriptionAssumption DEF Days

\* A transaction that leaves a user's keys alone leaves the user alone.
LEMMA OtherStays ==
    ASSUME NEW d, NEW e, NEW u \in Users, NEW keys, Books(d), Touches(d, e, keys),
           keys \cap OwnKeys(u) = {}, ChargeKeys(e, u) = ChargeKeys(d, u),
           NEW s, NEW t \in Days, Subscriber(d, u, s, t)
    PROVE  Subscriber(e, u, s, t)
<1>1. /\ Ledger(e, u, s.discounts) /\ Rewarded(e, u)
      /\ \A day \in Days, plan \in Plans :
                  /\ HasKey(e, ChargeKey(u, day, plan)) <=> HasKey(d, ChargeKey(u, day, plan))
                  /\ HasKey(e, ReturnKey(u, day, plan)) <=> HasKey(d, ReturnKey(u, day, plan))
                  /\ UnderBoth(e, u, ChargeKey(u, day, plan)) =
                         UnderBoth(d, u, ChargeKey(u, day, plan))
  BY LedgerStays DEF Subscriber, Ledger
<1>2. ASSUME s.status = "active", s.type \in Briefing PROVE s.start \in Days /\ s.type \in Plans
  <2>1. s.start \in Nat
    BY DEF Subscriber, Subscription
  <2>2. 1 <= s.start /\ s.start <= t
    BY <1>2 DEF Subscriber, Dated
  <2> QED BY <1>2, <2>1, <2>2, DayTypes DEF Days, Plans
<1>3. PeriodPaid(e, u, s)
  BY <1>1, <1>2 DEF Subscriber, PeriodPaid
<1>4. ChargesPast(e, u, s) /\ ReturnsPast(e, u, s)
  BY <1>1 DEF Subscriber, ChargesPast, ReturnsPast
<1> QED BY <1>1, <1>3, <1>4 DEF Subscriber

\* The next day finds the subscription as it was.
LEMMA NextDay ==
    ASSUME NEW d, NEW u, NEW s, NEW t \in Days, Subscriber(d, u, s, t)
    PROVE  Subscriber(d, u, s, t + 1)
<1>1. s.start \in Nat /\ s.adjusted \in Nat /\ s.expiry \in Nat /\ t \in Nat
  BY DayTypes DEF Subscriber, Subscription
<1>2. Dated(s, t + 1)
  BY <1>1 DEF Subscriber, Dated, OnAnchor
<1> QED BY <1>2 DEF Subscriber

\* Columns that change without a charge: what has to be shown of the new ones.
LEMMA ColumnsChange ==
    ASSUME NEW d, NEW u, NEW s, NEW r, NEW t \in Days, Subscriber(d, u, s, t),
           r \in Subscription, Suits(u, r), Dated(r, t), r.discounts = s.discounts,
           r.start = s.start, r.adjusted >= s.adjusted,
           \/ r.status = s.status /\ r.type = s.type
           \/ r.status = "expired" /\ s.status = "active" /\ r.type = s.type
           \/ r.status = "cancelled" /\ r.type = None
    PROVE  Subscriber(d, u, r, t)
<1>1. s.start \in Nat /\ s.adjusted \in Nat /\ r.adjusted \in Nat
  BY DEF Subscriber, Subscription
<1>2. \A plan \in Plans : plan # None
  BY SubscriptionAssumption DEF Plans
<1>3. PeriodPaid(d, u, r)
  BY DEF Subscriber, PeriodPaid
<1>4. s.adjusted >= s.start => r.adjusted >= s.start
  BY <1>1
<1>5. ChargesPast(d, u, r)
  <2> SUFFICES ASSUME NEW day \in Days, NEW plan \in Plans, HasKey(d, ChargeKey(u, day, plan))
               PROVE  \/ day < r.start
                      \/ day = r.start /\ (plan = r.type \/ r.adjusted >= r.start
                                              \/ r.status = "cancelled")
    BY DEF ChargesPast
  <2>1. \/ day < s.start
        \/ day = s.start /\ (plan = s.type \/ s.adjusted >= s.start \/ s.status = "cancelled")
    BY DEF Subscriber, ChargesPast
  <2> QED BY <1>4, <2>1
<1>6. ReturnsPast(d, u, r)
  <2> SUFFICES ASSUME NEW day \in Days, NEW plan \in Plans, HasKey(d, ReturnKey(u, day, plan))
               PROVE  day < r.start \/ (day = r.start /\ plan # r.type /\ r.adjusted >= r.start)
    BY DEF ReturnsPast
  <2>1. day < s.start \/ (day = s.start /\ plan # s.type /\ s.adjusted >= s.start)
    BY DEF Subscriber, ReturnsPast
  <2> QED BY <1>2, <1>4, <2>1
<1>7. r.status \in {"active", "expired"} => ChargeKeys(d, u) # {}
  BY DEF Subscriber
<1> QED BY <1>3, <1>5, <1>6, <1>7 DEF Subscriber

\* Once an adjustment is open, or the period began before today, today's keys
\* are new.
LEMMA TodayIsNew ==
    ASSUME NEW d, NEW u, NEW s, NEW t \in Days, Subscriber(d, u, s, t),
           s.adjusted # t \/ s.start < t
    PROVE  /\ \A day \in Days, plan \in Plans : HasKey(d, ReturnKey(u, day, plan)) => day < t
           /\ \A day \in Days, plan \in Plans : HasKey(d, ChargeKey(u, day, plan)) =>
                  day < t \/ (day = t /\ s.start = t /\ plan = s.type)
<1>1. s.start \in Nat /\ s.adjusted \in Nat /\ t \in Nat /\ s.start <= t /\ s.adjusted <= t
  BY DayTypes DEF Subscriber, Subscription, Dated
<1>2. s.status = "cancelled" => s.start < t
  BY DEF Subscriber, Dated
<1>3. s.start = t => ~(s.adjusted >= s.start)
  BY <1>1
<1>4. \A day \in Days : day \in Nat
  BY DayTypes
<1>5. ASSUME NEW day \in Days, NEW plan \in Plans, HasKey(d, ReturnKey(u, day, plan))
      PROVE  day < t
  <2>1. day < s.start \/ (day = s.start /\ s.adjusted >= s.start)
    BY <1>5 DEF Subscriber, ReturnsPast
  <2> QED BY <1>1, <1>3, <1>4, <2>1
<1>6. ASSUME NEW day \in Days, NEW plan \in Plans, HasKey(d, ChargeKey(u, day, plan))
      PROVE  day < t \/ (day = t /\ s.start = t /\ plan = s.type)
  <2>1. \/ day < s.start
        \/ day = s.start /\ (plan = s.type \/ s.adjusted >= s.start \/ s.status = "cancelled")
    BY <1>6 DEF Subscriber, ChargesPast
  <2>2. CASE day < s.start
    BY <1>1, <1>4, <2>2
  <2>3. CASE day = s.start /\ s.start < t
    BY <2>3
  <2>4. CASE day = s.start /\ s.start = t
    BY <1>2, <1>3, <2>1, <2>4, <1>1
  <2> QED BY <1>1, <2>1, <2>2, <2>3, <2>4
<1> QED BY <1>5, <1>6

\* A fee is positive, and a briefing's is its own.
LEMMA PlanFeeType ==
    ASSUME NEW s, NEW plan \in Plans
    PROVE  /\ PlanFee(s, plan) \in Nat /\ PlanFee(s, plan) >= 1
           /\ plan \in Briefing => PlanFee(s, plan) = Fee[plan]
BY SubscriptionAssumption DEF PlanFee

\* The columns after a charge, and after a fresh period.
LEMMA AfterChargeFields ==
    ASSUME NEW s \in Subscription, NEW plan \in Plans
    PROVE  LET x == AfterCharge(s, plan)
           IN  /\ x \in Subscription /\ x.status = s.status /\ x.type = s.type
               /\ x.cadence = s.cadence /\ x.start = s.start /\ x.expiry = s.expiry
               /\ x.anchor = s.anchor /\ x.adjusted = s.adjusted
               /\ x.discounts = s.discounts +
                      (IF plan = Jade /\ PlanFee(s, plan) = JadeDiscountFee THEN 1 ELSE 0)
<1> DEFINE free == s.freeUsed \/ plan = Jade
           n == IF plan = Jade /\ PlanFee(s, plan) = JadeDiscountFee
                THEN s.discounts + 1 ELSE s.discounts
<1>1. AfterCharge(s, plan) = [s EXCEPT !.freeUsed = free, !.discounts = n]
  BY DEF AfterCharge
<1>2. free \in BOOLEAN
  BY DEF Subscription
<1>3. n \in Nat /\ n = s.discounts +
                      (IF plan = Jade /\ PlanFee(s, plan) = JadeDiscountFee THEN 1 ELSE 0)
  BY DEF Subscription
<1> HIDE DEF free, n
<1> QED BY <1>1, <1>2, <1>3 DEF Subscription

\* A fresh period keeps its columns in step.
LEMMA FreshFields ==
    ASSUME NEW x \in Subscription, NEW plan \in Plans, NEW t \in Days, NEW adjusted \in Nat
    PROVE  LET r == [Fresh(x, t, plan) EXCEPT !.adjusted = adjusted]
           IN  /\ r \in Subscription /\ r.status = "active" /\ r.type = plan /\ r.start = t
               /\ r.adjusted = adjusted /\ r.discounts = x.discounts /\ r.anchor >= 1
               /\ r.expiry > t /\ r.cadence \in Briefing /\ (plan # Jade => r.cadence = plan)
               /\ r.anchor = DayOfMonth(t) /\ r.expiry = NextExpiry(t, DayOfMonth(t))
<1> DEFINE cadence == ResultingCadence(x, plan)
           anchor == DayOfMonth(t)
           expiry == NextExpiry(t, anchor)
<1>1. cadence \in Briefing /\ (plan # Jade => cadence = plan)
  BY SubscriptionAssumption DEF ResultingCadence, Plans
<1>2. anchor \in Nat /\ anchor >= 1
  BY DayOfMonthType
<1>3. expiry \in Nat /\ expiry > t
  BY <1>2, NextExpiryLater
<1>4. Fresh(x, t, plan) = [x EXCEPT !.status = "active", !.type = plan, !.cadence = cadence,
                                    !.start = t, !.anchor = anchor, !.expiry = expiry,
                                    !.pending = FALSE]
  BY DEF Fresh
<1>5. t \in Nat
  BY DayTypes
<1> HIDE DEF cadence, anchor, expiry
<1>6. x = [status |-> x.status, type |-> x.type, cadence |-> x.cadence, start |-> x.start,
           expiry |-> x.expiry, anchor |-> x.anchor, adjusted |-> x.adjusted,
           pending |-> x.pending, freeUsed |-> x.freeUsed, discounts |-> x.discounts]
  BY DEF Subscription
<1> DEFINE w == Fresh(x, t, plan)
<1>7. w = [status |-> "active", type |-> plan, cadence |-> cadence, start |-> t,
           expiry |-> expiry, anchor |-> anchor, adjusted |-> x.adjusted, pending |-> FALSE,
           freeUsed |-> x.freeUsed, discounts |-> x.discounts]
  BY <1>4, <1>6
<1>8. /\ w.status = "active" /\ w.type = plan /\ w.cadence = cadence /\ w.start = t
      /\ w.expiry = expiry /\ w.anchor = anchor /\ w.discounts = x.discounts
  BY <1>7
<1>9. w \in Subscription
  BY <1>1, <1>2, <1>3, <1>5, <1>7 DEF Subscription, Statuses
<1> HIDE DEF w
<1> DEFINE r == [w EXCEPT !.adjusted = adjusted]
<1>10. /\ r \in Subscription /\ r.status = w.status /\ r.type = w.type /\ r.cadence = w.cadence
       /\ r.start = w.start /\ r.expiry = w.expiry /\ r.anchor = w.anchor
       /\ r.adjusted = adjusted /\ r.discounts = w.discounts
  BY <1>9 DEF Subscription
<1> HIDE DEF r
<1>11. /\ r \in Subscription /\ r.status = "active" /\ r.type = plan /\ r.start = t
       /\ r.adjusted = adjusted /\ r.discounts = x.discounts /\ r.anchor >= 1
       /\ r.expiry > t /\ r.cadence \in Briefing /\ (plan # Jade => r.cadence = plan)
       /\ r.anchor = anchor /\ r.expiry = expiry
  BY <1>1, <1>2, <1>3, <1>8, <1>10
<1> QED BY <1>11 DEF r, w, anchor, expiry

-----------------------------------------------------------------------------
(* Charges and returns, for the user and for the others.                   *)

CreditsOf(d, u) == d.balance[Cash(u)] + d.balance[Gift(u)]

\* A transaction of one user: the others keep their keys, and lose no credits.
Elsewhere(d, e, u) ==
    /\ Touches(d, e, OwnKeys(u))
    /\ \A v \in Users \ {u} :
           ChargeKeys(e, v) = ChargeKeys(d, v) /\ CreditsOf(e, v) >= CreditsOf(d, v)

\* What few keys do, more keys do.
LEMMA TouchesMore ==
    ASSUME NEW d, NEW e, NEW j, NEW k, Touches(d, e, j), j \subseteq k
    PROVE  Touches(d, e, k)
BY DEF Touches

\* Balances are integers, and not negative.
LEMMA BalanceTypes ==
    ASSUME NEW d, Books(d), NEW u \in Users
    PROVE  /\ d.balance[Cash(u)] \in Int /\ d.balance[Gift(u)] \in Int /\ CreditsOf(d, u) \in Int
           /\ d.balance[Cash(u)] >= 0 /\ d.balance[Gift(u)] >= 0 /\ CreditsOf(d, u) >= 0
BY AccountsOf DEF Books, Sound, Tables, CreditsOf

\* Two transactions of one user are one.
LEMMA ElsewhereBoth ==
    ASSUME NEW d, NEW e, NEW f, NEW u \in Users, Books(d), Elsewhere(d, e, u), Elsewhere(e, f, u)
    PROVE  Elsewhere(d, f, u)
<1>1. Touches(d, f, OwnKeys(u))
  <2>1. OwnKeys(u) \cup OwnKeys(u) = OwnKeys(u)
    OBVIOUS
  <2>2. Touches(d, f, OwnKeys(u) \cup OwnKeys(u))
    BY TouchesBoth DEF Elsewhere
  <2> QED BY <2>1, <2>2
<1>2. Books(e) /\ Books(f)
  BY DEF Elsewhere, Touches
<1>3. \A v \in Users : CreditsOf(d, v) \in Int /\ CreditsOf(e, v) \in Int /\ CreditsOf(f, v) \in Int
  BY <1>2, BalanceTypes
<1> QED BY <1>1, <1>3 DEF Elsewhere

\* A charge of a fresh key, without the bonus.
LEMMA ChargeElsewhere ==
    ASSUME NEW d, Books(d), NEW e, NEW u \in Users, NEW fee \in Nat, NEW day \in Days,
           NEW plan \in Plans, ChargeSeen(d, e, u, fee, ChargeKey(u, day, plan))
    PROVE  Elsewhere(d, e, u) /\ CreditsOf(e, u) = CreditsOf(d, u) - fee
<1>1. Touches(d, e, OwnKeys(u))
  BY TouchesMore DEF ChargeSeen, OwnKeys, ChargeKeysOf
<1>2. \A v \in Users \ {u} : ChargeKeys(e, v) = ChargeKeys(d, v) /\ CreditsOf(e, v) >= CreditsOf(d, v)
  <2>1. \A v \in Users : CreditsOf(d, v) \in Int
    BY BalanceTypes
  <2>2. \A v \in Users \ {u} : CreditsOf(e, v) = CreditsOf(d, v)
    BY AccountsOf DEF ChargeSeen, CreditsOf
  <2>3. \A v \in Users \ {u} : ChargeKeys(e, v) = ChargeKeys(d, v)
    BY DEF ChargeSeen
  <2>4. \A x \in Int : x >= x
    OBVIOUS
  <2> QED BY <2>1, <2>2, <2>3, <2>4, Zenon
<1>3. CreditsOf(e, u) = CreditsOf(d, u) - fee
  <2> DEFINE x == CreditsOf(e, u)
             y == CreditsOf(d, u)
  <2>1. x = e.balance[Cash(u)] + e.balance[Gift(u)] /\ y = d.balance[Cash(u)] + d.balance[Gift(u)]
    BY DEF CreditsOf
  <2>2. e.balance[Cash(u)] + e.balance[Gift(u)]
            = d.balance[Cash(u)] + d.balance[Gift(u)] - fee
    BY DEF ChargeSeen
  <2>3. /\ e.balance[Cash(u)] \in Int /\ e.balance[Gift(u)] \in Int
        /\ d.balance[Cash(u)] \in Int /\ d.balance[Gift(u)] \in Int
    BY BalanceTypes DEF ChargeSeen, Touches
  <2> HIDE DEF x, y
  <2>4. x = y - fee
    BY <2>1, <2>2, <2>3
  <2> QED BY <2>4 DEF x, y
<1>4. Elsewhere(d, e, u)
  BY <1>1, <1>2 DEF Elsewhere
<1> QED BY <1>3, <1>4

\* A return, to the user alone.
LEMMA ReturnElsewhere ==
    ASSUME NEW d, Books(d), NEW e, NEW u \in Users, NEW cash \in Nat, NEW gift \in Nat,
           NEW day \in Days, NEW plan \in Plans,
           ReturnSeen(d, e, u, cash, gift, ReturnKey(u, day, plan))
    PROVE  Elsewhere(d, e, u) /\ CreditsOf(e, u) = CreditsOf(d, u) + cash + gift
<1>1. Touches(d, e, OwnKeys(u))
  BY TouchesMore DEF ReturnSeen, OwnKeys, ReturnKeysOf
<1>2. \A v \in Users \ {u} : ChargeKeys(e, v) = ChargeKeys(d, v) /\ CreditsOf(e, v) >= CreditsOf(d, v)
  <2>1. \A v \in Users : CreditsOf(d, v) \in Int
    BY BalanceTypes
  <2>2. \A v \in Users \ {u} : CreditsOf(e, v) = CreditsOf(d, v)
    BY AccountsOf DEF ReturnSeen, CreditsOf
  <2>3. \A v \in Users \ {u} : ChargeKeys(e, v) = ChargeKeys(d, v)
    BY DEF ReturnSeen
  <2>4. \A x \in Int : x >= x
    OBVIOUS
  <2> QED BY <2>1, <2>2, <2>3, <2>4, Zenon
<1>3. CreditsOf(e, u) = CreditsOf(d, u) + cash + gift
  <2> DEFINE x == CreditsOf(e, u)
             y == CreditsOf(d, u)
  <2>1. x = e.balance[Cash(u)] + e.balance[Gift(u)] /\ y = d.balance[Cash(u)] + d.balance[Gift(u)]
    BY DEF CreditsOf
  <2>2. e.balance[Cash(u)] + e.balance[Gift(u)]
            = d.balance[Cash(u)] + d.balance[Gift(u)] + cash + gift
    BY DEF ReturnSeen
  <2> HIDE DEF x, y
  <2> QED BY <2>1, <2>2, Zenon DEF x, y
<1>4. Elsewhere(d, e, u)
  BY <1>1, <1>2 DEF Elsewhere
<1> QED BY <1>3, <1>4

\* The bonus goes to somebody else.
LEMMA BonusElsewhere ==
    ASSUME NEW d, Books(d), NEW e, NEW u \in Users, BonusSeen(d, e, u), d.inviter[u] # u
    PROVE  Elsewhere(d, e, u) /\ CreditsOf(e, u) = CreditsOf(d, u)
<1>1. Touches(d, e, OwnKeys(u))
  BY TouchesMore DEF BonusSeen, OwnKeys
<1>2. Books(e)
  BY DEF BonusSeen, Touches
<1>3. ASSUME NEW v \in Users PROVE CreditsOf(e, v) >= CreditsOf(d, v)
  <2>1. e.balance[Cash(v)] >= d.balance[Cash(v)] /\ e.balance[Gift(v)] >= d.balance[Gift(v)]
    BY AccountsOf DEF BonusSeen
  <2>2. /\ d.balance[Cash(v)] \in Int /\ d.balance[Gift(v)] \in Int
        /\ e.balance[Cash(v)] \in Int /\ e.balance[Gift(v)] \in Int
    BY <1>2, BalanceTypes
  <2> QED BY <2>1, <2>2 DEF CreditsOf
<1>4. Referrer(d, u) # u
  <2>1. u # None
    BY SubscriptionAssumption
  <2> QED BY <2>1 DEF Referrer
<1>5. CreditsOf(e, u) = CreditsOf(d, u)
  BY <1>4, AccountsOf DEF BonusSeen, CreditsOf
<1> QED BY <1>1, <1>3, <1>5 DEF BonusSeen, Elsewhere

\* The other subscribers stay as they were.
LEMMA OthersStay ==
    ASSUME NEW d, NEW e, NEW u \in Users, Books(d), Elsewhere(d, e, u), NEW v \in Users \ {u},
           NEW s, NEW t \in Days, Subscriber(d, v, s, t)
    PROVE  Subscriber(e, v, s, t)
<1>1. OwnKeys(u) \cap OwnKeys(v) = {}
  BY OwnKeysApart
<1> QED BY <1>1, OtherStays DEF Elsewhere

\* A fresh period from a day may be charged: today's key is new, and what else
\* happened today is an adjustment's.
MaySubscribe(d, u, s, t, plan, adjusted) ==
    /\ Books(d) /\ Ledger(d, u, s.discounts) /\ Rewarded(d, u) /\ d.inviter[u] # u
    /\ adjusted <= t /\ CanConsume(d, u, PlanFee(s, plan)) /\ ~HasKey(d, ChargeKey(u, t, plan))
    /\ \A day \in Days, p \in Plans : HasKey(d, ReturnKey(u, day, p)) =>
           day < t \/ (day = t /\ p # plan /\ adjusted >= t)
    /\ \A day \in Days, p \in Plans : HasKey(d, ChargeKey(u, day, p)) =>
           day < t \/ (day = t /\ adjusted >= t)

FreshPeriod(d, f, u, s, t, plan, adjusted, r) ==
    /\ f = WithFirstBonus(Charged(d, u, PlanFee(s, plan), ChargeKey(u, t, plan), plan), u)
    /\ r = [Fresh(AfterCharge(s, plan), t, plan) EXCEPT !.adjusted = adjusted]

\* A fresh period from today, charged.
LEMMA SubscribeKeeps ==
    ASSUME NEW d, NEW u \in Users, NEW s \in Subscription, NEW t \in Days,
           NEW plan \in Plans, NEW adjusted \in Nat, MaySubscribe(d, u, s, t, plan, adjusted),
           NEW f, NEW r, FreshPeriod(d, f, u, s, t, plan, adjusted, r)
    PROVE  /\ Subscriber(f, u, r, t) /\ r.status = "active" /\ r.expiry > t
           /\ r.expiry = NextExpiry(t, DayOfMonth(t))
           /\ Elsewhere(d, f, u) /\ CreditsOf(f, u) = CreditsOf(d, u) - PlanFee(s, plan)
<1> USE DEF MaySubscribe, FreshPeriod
<1> DEFINE fee == PlanFee(s, plan)
           key == ChargeKey(u, t, plan)
           e == Charged(d, u, fee, key, plan)
           n == s.discounts + (IF plan = Jade /\ fee = JadeDiscountFee THEN 1 ELSE 0)
<1>1. /\ fee \in Nat /\ fee >= 1 /\ (plan \in Briefing => fee = Fee[plan])
      /\ key \in Keys /\ plan \in Ids
  BY PlanFeeType, KeyTypes
<1>2. e = Consumed(d, u, fee, "subscription", key, plan) /\ f = WithFirstBonus(e, u)
  BY DEF Charged
<1> HIDE DEF e
<1>3. ChargeSeen(d, e, u, fee, key)
  <2> HIDE DEF fee, key
  <2> QED BY <1>1, <1>2, ChargeIsSeen DEF fee, key
<1>4. Books(e) /\ e.inviter = d.inviter
  BY <1>3 DEF ChargeSeen, Touches
<1>5. BonusSeen(e, f, u)
  BY <1>2, <1>4, BonusIsSeen
<1>6. /\ Ledger(f, u, n) /\ Rewarded(f, u) /\ ChargeKeys(f, u) = ChargeKeys(d, u) \cup {key}
      /\ UnderBoth(f, u, key) = -fee /\ Touches(d, f, {key, FirstBonusKey(u)})
  <2> HIDE DEF fee
  <2> QED BY <1>1, <1>3, <1>5, SubscribeAddsUp
<1>7. /\ r \in Subscription /\ r.status = "active" /\ r.type = plan /\ r.start = t
      /\ r.adjusted = adjusted /\ r.discounts = n /\ r.anchor >= 1
      /\ r.expiry > t /\ r.cadence \in Briefing /\ (plan # Jade => r.cadence = plan)
      /\ r.anchor = DayOfMonth(t) /\ r.expiry = NextExpiry(t, DayOfMonth(t))
  BY AfterChargeFields, FreshFields
<1>8. t \in Nat /\ t >= 1
  BY DayTypes
<1>9. \A day \in Days, p \in Plans : /\ ReturnKey(u, day, p) \in Keys
                                     /\ ReturnKey(u, day, p) \notin {key, FirstBonusKey(u)}
                                     /\ ChargeKey(u, day, p) \in Keys
                                     /\ ChargeKey(u, day, p) # FirstBonusKey(u)
                                     /\ ChargeKey(u, day, p) = key => day = t /\ p = plan
  BY KeyTypes, KeysApart
<1>10. Elsewhere(d, f, u) /\ CreditsOf(f, u) = CreditsOf(d, u) - fee
  <2>1. Elsewhere(d, e, u) /\ CreditsOf(e, u) = CreditsOf(d, u) - fee
    <3> HIDE DEF fee
    <3> QED BY <1>1, <1>3, ChargeElsewhere
  <2>2. Elsewhere(e, f, u) /\ CreditsOf(f, u) = CreditsOf(e, u)
    BY <1>4, <1>5, BonusElsewhere
  <2> QED BY <2>1, <2>2, ElsewhereBoth
<1> HIDE DEF fee, key, n
<1>11. Suits(u, r) /\ Dated(r, t)
  BY <1>7, <1>8 DEF Suits, Dated, OnAnchor
<1>12. \A day \in Days, p \in Plans : HasKey(f, ReturnKey(u, day, p)) =>
          day < t \/ (day = t /\ p # plan /\ adjusted >= t)
  BY <1>6, <1>9 DEF Touches
<1>13. ASSUME NEW day \in Days, NEW p \in Plans, HasKey(f, ChargeKey(u, day, p))
       PROVE  day < t \/ (day = t /\ (p = plan \/ adjusted >= t))
  <2>1. CASE ChargeKey(u, day, p) = key
    BY <1>9, <2>1
  <2>2. CASE ChargeKey(u, day, p) # key
    <3>1. HasKey(d, ChargeKey(u, day, p))
      BY <1>6, <1>9, <1>13, <2>2 DEF Touches
    <3> QED BY <3>1
  <2> QED BY <2>1, <2>2
<1>14. PeriodPaid(f, u, r)
  <2> SUFFICES ASSUME plan \in Briefing
               PROVE  UnderBoth(f, u, key) = -Fee[plan] /\ ~HasKey(f, ReturnKey(u, t, plan))
    BY <1>7 DEF PeriodPaid, key
  <2>1. ~HasKey(f, ReturnKey(u, t, plan))
    <3>1. ~(t < t)
      BY <1>8
    <3> QED BY <1>12, <3>1
  <2> QED BY <1>1, <1>6, <2>1
<1>15. ChargesPast(f, u, r) /\ ReturnsPast(f, u, r)
  BY <1>7, <1>12, <1>13 DEF ChargesPast, ReturnsPast
<1> QED BY <1>6, <1>7, <1>10, <1>11, <1>14, <1>15 DEF Subscriber, fee

\* The next period, charged from the end of the last.
NextPeriod(d, e, u, s, r) ==
    /\ CanCharge(d, u, PlanFee(s, s.type), ChargeKey(u, s.expiry, s.type))
    /\ e = Charged(d, u, PlanFee(s, s.type), ChargeKey(u, s.expiry, s.type), s.type)
    /\ r = [AfterCharge(s, s.type) EXCEPT
                !.start = s.expiry, !.expiry = NextExpiry(s.expiry, s.anchor)]

LEMMA RenewKeeps ==
    ASSUME NEW d, Books(d), NEW u \in Users, NEW s, NEW t \in Days, Subscriber(d, u, s, t),
           s.status = "active", t > s.expiry,
           NEW e, NEW r, NextPeriod(d, e, u, s, r)
    PROVE  /\ Subscriber(e, u, r, t) /\ r.status = "active" /\ r.expiry > s.expiry
           /\ r.expiry = NextExpiry(s.expiry, s.anchor) /\ r.pending = s.pending
           /\ r.adjusted = s.adjusted
           /\ Elsewhere(d, e, u) /\ CreditsOf(e, u) = CreditsOf(d, u) - PlanFee(s, s.type)
<1> USE DEF NextPeriod
<1> DEFINE plan == s.type
           fee == PlanFee(s, plan)
           day == s.expiry
           key == ChargeKey(u, day, plan)
           n == s.discounts + (IF plan = Jade /\ fee = JadeDiscountFee THEN 1 ELSE 0)
           later == NextExpiry(day, s.anchor)
<1>1. /\ s \in Subscription /\ plan \in Plans /\ s.cadence \in Briefing
      /\ (plan # Jade => s.cadence = plan)
      /\ s.start \in Nat /\ s.expiry \in Nat /\ s.anchor \in Nat /\ s.adjusted \in Nat
      /\ 1 <= s.start /\ s.start < s.expiry /\ 1 <= s.anchor /\ s.adjusted <= t /\ t \in Nat
  BY DayTypes DEF Subscriber, Subscription, Suits, Dated
<1>2. day \in Days /\ day < t
  BY <1>1, DayTypes DEF Days
<1>2a. DayOfMonth(day) = s.anchor \/ DayOfMonth(day) = Months[Month(day)]
  <2>1. s.start \in Days /\ day = NextExpiry(s.start, s.anchor)
    BY <1>1, <1>2, DayTypes DEF Days, Subscriber, Dated
  <2> QED BY <1>1, <2>1, ExpiryDay
<1>3. /\ fee \in Nat /\ fee >= 1 /\ (plan \in Briefing => fee = Fee[plan])
      /\ key \in Keys /\ plan \in Ids
  BY <1>1, <1>2, PlanFeeType, KeyTypes
<1>4. ~HasKey(d, key) /\ ~HasKey(d, ReturnKey(u, day, plan))
      /\ \A c \in Days, p \in Plans : /\ HasKey(d, ReturnKey(u, c, p)) => c < day
                                      /\ HasKey(d, ChargeKey(u, c, p)) => c < day
  <2>1. \A c \in Days : c \in Nat
    BY DayTypes
  <2>2. \A c \in Days, p \in Plans : /\ HasKey(d, ReturnKey(u, c, p)) => c < s.start \/ c = s.start
                                     /\ HasKey(d, ChargeKey(u, c, p)) => c < s.start \/ c = s.start
    BY DEF Subscriber, ChargesPast, ReturnsPast
  <2>3. \A c \in Days, p \in Plans : /\ HasKey(d, ReturnKey(u, c, p)) => c < s.expiry
                                     /\ HasKey(d, ChargeKey(u, c, p)) => c < s.expiry
    BY <1>1, <2>1, <2>2
  <2>4. ~(day < day)
    BY <1>1
  <2> QED BY <1>1, <1>2, <2>3, <2>4
<1>5. later \in Nat /\ later > day
  BY <1>1, <1>2, NextExpiryLater
<1>6. e = Consumed(d, u, fee, "subscription", key, plan) /\ CanConsume(d, u, fee)
  BY <1>4 DEF Charged, CanCharge
<1>7. ChargeSeen(d, e, u, fee, key)
  <2> HIDE DEF fee, key
  <2> QED BY <1>3, <1>4, <1>6, ChargeIsSeen
<1>8. /\ Ledger(e, u, n) /\ Rewarded(e, u) /\ ChargeKeys(e, u) = ChargeKeys(d, u) \cup {key}
      /\ UnderBoth(e, u, key) = -fee /\ Touches(d, e, {key})
  <2>1. Ledger(d, u, s.discounts) /\ Rewarded(d, u) /\ ChargeKeys(d, u) # {}
    BY DEF Subscriber
  <2>2. UnderBoth(e, u, key) = -fee /\ Touches(d, e, {key})
    BY <1>7 DEF ChargeSeen
  <2> HIDE DEF fee, plan, day
  <2> QED BY <1>1, <1>2, <1>3, <1>4, <1>7, <2>1, <2>2, ChargeAddsUp
<1>9. Elsewhere(d, e, u) /\ CreditsOf(e, u) = CreditsOf(d, u) - fee
  <2> HIDE DEF fee, plan, day
  <2> QED BY <1>1, <1>2, <1>3, <1>7, ChargeElsewhere
<1> DEFINE x == AfterCharge(s, plan)
<1>10. /\ x \in Subscription /\ x.status = s.status /\ x.type = s.type
       /\ x.cadence = s.cadence /\ x.start = s.start /\ x.expiry = s.expiry
       /\ x.anchor = s.anchor /\ x.adjusted = s.adjusted /\ x.discounts = n
  BY <1>1, AfterChargeFields
<1>11. x.pending = s.pending
  BY <1>1 DEF AfterCharge, Subscription
<1>12. r = [x EXCEPT !.start = day, !.expiry = later]
  OBVIOUS
<1> HIDE DEF x, later, n
<1>13. /\ r \in Subscription /\ r.status = x.status /\ r.type = x.type /\ r.cadence = x.cadence
       /\ r.start = day /\ r.expiry = later /\ r.anchor = x.anchor
       /\ r.adjusted = x.adjusted /\ r.discounts = x.discounts
  BY <1>1, <1>5, <1>10, <1>12 DEF Subscription
<1>14. r.pending = s.pending
  BY <1>10, <1>11, <1>12 DEF Subscription
<1>15. Suits(u, r) /\ Dated(r, t)
  <2>1. OnAnchor(day, s.anchor, t)
    BY <1>1, <1>2, <1>2a DEF OnAnchor
  <2>2. later = NextExpiry(day, s.anchor)
    BY DEF later
  <2> QED BY <1>1, <1>2, <1>5, <1>10, <1>13, <2>1, <2>2 DEF Suits, Dated
<1>16. \A c \in Days, p \in Plans : /\ ReturnKey(u, c, p) \in Keys
                                    /\ ReturnKey(u, c, p) # key
                                    /\ ChargeKey(u, c, p) \in Keys
                                    /\ ChargeKey(u, c, p) = key => c = day /\ p = plan
  BY KeyTypes, KeysApart
<1> HIDE DEF key, fee, day, plan
<1>17. \A c \in Days, p \in Plans : HasKey(e, ReturnKey(u, c, p)) => c < day
  BY <1>4, <1>8, <1>16 DEF Touches
<1>18. ASSUME NEW c \in Days, NEW p \in Plans, HasKey(e, ChargeKey(u, c, p))
       PROVE  c < day \/ (c = day /\ p = plan)
  <2>1. CASE ChargeKey(u, c, p) = key
    BY <1>16, <2>1
  <2>2. CASE ChargeKey(u, c, p) # key
    BY <1>4, <1>8, <1>16, <1>18, <2>2 DEF Touches
  <2> QED BY <2>1, <2>2
<1>19. r.status = "active" /\ r.type = plan
  BY <1>10, <1>13 DEF plan
<1>20. PeriodPaid(e, u, r)
  <2>1. ~HasKey(e, ReturnKey(u, day, plan))
    <3>1. ~(day < day)
      BY <1>1 DEF day
    <3> QED BY <1>1, <1>2, <1>17, <3>1
  <2>2. plan \in Briefing => UnderBoth(e, u, key) = -Fee[plan]
    BY <1>3, <1>8
  <2> QED BY <1>13, <1>19, <2>1, <2>2 DEF PeriodPaid, key
<1>21. ChargesPast(e, u, r) /\ ReturnsPast(e, u, r)
  BY <1>13, <1>17, <1>18, <1>19 DEF ChargesPast, ReturnsPast
<1>22. Subscriber(e, u, r, t)
  BY <1>8, <1>10, <1>13, <1>15, <1>20, <1>21 DEF Subscriber
<1> QED BY <1>5, <1>9, <1>10, <1>13, <1>14, <1>19, <1>22 DEF later, day, fee, plan

\* What a change returns: at least nothing, at most what each account paid.
LEMMA ReturnPartsWithin ==
    ASSUME Books(db), NEW u \in Subscribers, NEW t \in Days, Subscriber(db, u, sub[u], t),
           sub[u].status = "active", sub[u].type \in Briefing, t <= sub[u].expiry
    PROVE  /\ ReturnParts(u, t).cash \in Nat /\ ReturnParts(u, t).gift \in Nat
           /\ ReturnParts(u, t).cash <= -Under(db, Cash(u), CurrentCharge(u))
           /\ ReturnParts(u, t).gift <= -Under(db, Gift(u), CurrentCharge(u))
           /\ sub[u].start \in Days /\ sub[u].type \in Plans
<1> DEFINE s == sub[u]
           key == CurrentCharge(u)
           cashPaid == -Under(db, Cash(u), key)
           giftPaid == -Under(db, Gift(u), key)
           paid == -UnderBoth(db, u, key)
           unused == s.expiry - t + 1
           total == s.expiry - s.start + 1
           returned == ReturnOf(paid, unused, total)
           cash == IF returned < cashPaid THEN returned ELSE cashPaid
<1>1. /\ s.start \in Nat /\ s.expiry \in Nat /\ 1 <= s.start /\ s.start <= t
      /\ s.start < s.expiry /\ t \in Nat /\ t <= LastDay /\ LastDay \in Nat
  BY DayTypes DEF Subscriber, Subscription, Dated
<1>2. s.start \in Days /\ s.type \in Plans
  BY <1>1 DEF Days, Plans
<1>3. u \in Users /\ Cash(u) \in Accounts /\ Gift(u) \in Accounts
  BY SubscriptionAssumption, AccountsOf
<1>4. /\ Under(db, Cash(u), key) \in Int /\ Under(db, Gift(u), key) \in Int
      /\ cashPaid >= 0 /\ giftPaid >= 0
  <2>1. Under(db, Cash(u), key) \in Int /\ Under(db, Gift(u), key) \in Int
    BY <1>3, UnderIsSum DEF Books, Sound
  <2>2. \A a \in {Cash(u), Gift(u)} : Under(db, a, ReturnKey(u, s.start, s.type)) \in 0..(-Under(db, a, key))
    BY <1>2 DEF Subscriber, Ledger, ReturnsOf, CurrentCharge
  <2>3. \A x, y \in Int : y \in 0..(-x) => -x >= 0
    OBVIOUS
  <2>4. \A a \in {Cash(u), Gift(u)} : Under(db, a, ReturnKey(u, s.start, s.type)) \in Int
    BY <1>3, UnderIsSum DEF Books, Sound
  <2> HIDE DEF key
  <2> QED BY <2>1, <2>2, <2>3, <2>4
<1>5. paid \in Nat /\ paid = cashPaid + giftPaid
  <2>1. UnderBoth(db, u, key) = Under(db, Cash(u), key) + Under(db, Gift(u), key)
    BY DEF UnderBoth
  <2> HIDE DEF key
  <2> QED BY <1>4, <2>1
<1>6. unused \in Nat /\ total \in Nat /\ total >= 1
  BY <1>1
<1>7. ReturnParts(u, t) = [cash |-> cash, gift |-> returned - cash]
  BY DEF ReturnParts
<1>8. returned \in Nat /\ returned <= paid
  <2> HIDE DEF paid, unused, total
  <2> DEFINE num == paid * unused + total - 1
             up == num \div total
  <2>1. paid * unused \in Nat
    BY <1>5, <1>6
  <2>2. num \in Nat
    <3> DEFINE product == paid * unused
    <3>1. product \in Nat
      BY <2>1
    <3> HIDE DEF product
    <3>2. product + total - 1 \in Nat
      BY <1>6, <3>1
    <3> QED BY <3>2 DEF product
  <2> HIDE DEF num
  <2>3. up \in Nat
    BY <1>6, <2>2
  <2>4. returned = IF up < paid THEN up ELSE paid
    BY DEF ReturnOf, num
  <2> HIDE DEF up, returned
  <2> QED BY <1>5, <2>3, <2>4
<1> HIDE DEF returned, paid, cashPaid, giftPaid
<1>9. cashPaid \in Int /\ giftPaid \in Int
  BY <1>4 DEF cashPaid, giftPaid
<1>10. cash \in Nat /\ cash <= cashPaid /\ returned - cash \in Nat /\ returned - cash <= giftPaid
  BY <1>4, <1>5, <1>8, <1>9
<1> HIDE DEF cash
<1>11. ReturnParts(u, t).cash = cash /\ ReturnParts(u, t).gift = returned - cash
  BY <1>7
<1> QED BY <1>2, <1>10, <1>11 DEF cashPaid, giftPaid, key

-----------------------------------------------------------------------------
(* The inductive invariant.                                                *)

\* The books are kept, and every subscriber's columns agree with the ledger.
IInv ==
    /\ Books(db) /\ db.inviter = InitialInviter
    /\ sub \in [Subscribers -> Subscription]
    /\ verified \in [Subscribers -> SUBSET Addresses]
    /\ leaving \in [Subscribers -> [Addresses -> {"no", "leaves", "cancels", "pends"}]]
    /\ today \in Days
    /\ \A u \in Subscribers : Subscriber(db, u, sub[u], today)

\* The ledger begins with sign-up grants, and no other key.
LEMMA InitRows ==
    ASSUME Init
    PROVE  /\ Books(db) /\ \A k : HasKey(db, k) => \E u \in Users : k = SignupGrantKey(u)
           /\ \A u \in Users : ChargeKeys(db, u) = {}
<1> DEFINE row(a) == [amount |-> SignupGrant, after |-> SignupGrant, reason |-> "signup_grant",
                      key |-> SignupGrantKey(a[1]), ref |-> None]
<1>1. /\ db.exists = [u \in Users |-> TRUE] /\ db.inviter = InitialInviter
      /\ db.balance = [a \in Accounts |-> IF a[2] = "gift" THEN SignupGrant ELSE 0]
      /\ db.rows = [a \in Accounts |-> IF a[2] = "gift" /\ SignupGrant # 0
                                       THEN <<row(a)>> ELSE <<>>]
      /\ db = [exists |-> db.exists, inviter |-> db.inviter,
               balance |-> db.balance, rows |-> db.rows]
  BY DEF Init
<1>2. SignupGrant \in Nat /\ SignupGrant \in Int /\ InitialInviter \in [Users -> Users \cup {None}]
  BY SubscriptionAssumption
<1>3. ASSUME NEW a \in Accounts PROVE row(a) \in Row
  <2>1. a[1] \in Users
    BY DEF Accounts
  <2>2. SignupGrantKey(a[1]) \in Keys /\ None \in Ids
    BY <2>1, KeyTypes
  <2>3. "signup_grant" \in Reasons
    BY DEF Reasons, CreditReasons
  <2> QED BY <1>2, <2>2, <2>3 DEF Row
<1>4. ASSUME NEW a \in Accounts
      PROVE  /\ db.balance[a] \in Int /\ db.balance[a] >= 0 /\ db.rows[a] \in Seq(Row)
             /\ Reconciled(db, a)
  <2>1. CASE a[2] = "gift" /\ SignupGrant # 0
    <3>1. db.balance[a] = SignupGrant /\ db.rows[a] = <<row(a)>>
      BY <1>1, <2>1
    <3>2. row(a) \in Row /\ row(a).amount = SignupGrant /\ row(a).after = SignupGrant
      BY <1>3
    <3> HIDE DEF row
    <3>3. <<row(a)>> = Append(<<>>, row(a)) /\ <<>> \in Seq(Row) /\ <<row(a)>> \in Seq(Row)
          /\ Len(<<row(a)>>) = 1 /\ <<row(a)>>[1] = row(a)
      BY <3>2
    <3>4. Amounts(<<row(a)>>) = Append(Amounts(<<>>), SignupGrant)
      BY <3>2, <3>3, AmountsAppend
    <3>5. Amounts(<<>>) = <<>> /\ <<>> \in Seq(Int)
      BY DEF Amounts
    <3>6. Sum(Amounts(<<row(a)>>)) = SignupGrant
      <4>1. Sum(Append(<<>>, SignupGrant)) = Sum(<<>>) + SignupGrant
        BY <1>2, <3>5, SumAppend
      <4>2. Sum(Append(<<>>, SignupGrant)) = SignupGrant
        BY <1>2, <4>1, SumEmpty
      <4> QED BY <3>4, <3>5, <4>2
    <3> QED BY <1>2, <3>1, <3>2, <3>3, <3>6 DEF Reconciled
  <2>2. CASE ~(a[2] = "gift" /\ SignupGrant # 0)
    <3>1. db.balance[a] = 0 /\ db.rows[a] = <<>>
      BY <1>1, <2>2
    <3>2. Amounts(<<>>) = <<>>
      BY DEF Amounts
    <3> QED BY <3>1, <3>2, SumEmpty DEF Reconciled
  <2> QED BY <2>1, <2>2
<1>5. db \in Tables
  <2>1. /\ db.exists \in [Users -> BOOLEAN] /\ db.inviter \in [Users -> Users \cup {None}]
        /\ db.balance \in [Accounts -> Int] /\ db.rows \in [Accounts -> Seq(Row)]
    <3> HIDE DEF row
    <3> QED BY <1>1, <1>2, <1>4
  <2> QED BY <1>1, <2>1 DEF Tables
<1>6. \A a \in Accounts : \A i \in DOMAIN db.rows[a] : db.rows[a][i] = row(a) /\ a[1] \in Users
  <2> SUFFICES ASSUME NEW a \in Accounts, NEW i, i \in DOMAIN db.rows[a]
               PROVE  db.rows[a][i] = row(a) /\ a[1] \in Users
    OBVIOUS
  <2>1. a[1] \in Users
    BY DEF Accounts
  <2> HIDE DEF row
  <2>2. db.rows[a] = <<>> \/ db.rows[a] = <<row(a)>>
    BY <1>1
  <2>3. db.rows[a][i] = row(a)
    BY <2>2
  <2> QED BY <2>1, <2>3
<1>7. ASSUME NEW k, HasKey(db, k) PROVE \E u \in Users : k = SignupGrantKey(u)
  <2>1. PICK a \in Accounts : \E i \in DOMAIN db.rows[a] : db.rows[a][i].key = k
    BY <1>7 DEF HasKey
  <2>2. PICK i \in DOMAIN db.rows[a] : db.rows[a][i].key = k
    BY <2>1
  <2>3. row(a).key = SignupGrantKey(a[1])
    OBVIOUS
  <2> HIDE DEF row
  <2>4. db.rows[a][i] = row(a) /\ a[1] \in Users
    BY <1>6
  <2> QED BY <2>2, <2>3, <2>4
<1>8. ASSUME NEW u \in Users PROVE ChargeKeys(db, u) = {}
  <2>1. \A a \in {Cash(u), Gift(u)} : \A i \in DOMAIN db.rows[a] :
            db.rows[a][i].reason # "subscription"
    <3>1. \A a : row(a).reason = "signup_grant"
      OBVIOUS
    <3>2. \A a \in {Cash(u), Gift(u)} : a \in Accounts
      BY <1>8, AccountsOf
    <3>3. "signup_grant" # "subscription"
      OBVIOUS
    <3> HIDE DEF row
    <3> QED BY <1>6, <3>1, <3>2, <3>3
  <2> QED BY <2>1 DEF ChargeKeys
<1> QED BY <1>4, <1>5, <1>7, <1>8 DEF Books, Sound

\* The initial state satisfies the invariant.
LEMMA InitKeeps == ASSUME Init PROVE IInv
<1>1. /\ Books(db) /\ \A k : HasKey(db, k) => \E u \in Users : k = SignupGrantKey(u)
      /\ \A u \in Users : ChargeKeys(db, u) = {}
  BY InitRows
<1>2. /\ db.inviter = InitialInviter /\ today = 1
      /\ verified \in [Subscribers -> SUBSET Addresses]
      /\ leaving \in [Subscribers -> [Addresses -> {"no", "leaves", "cancels", "pends"}]]
  BY DEF Init
<1>3. today \in Days
  BY <1>2, SubscriptionAssumption DEF Days
<1>4. ASSUME NEW u \in Subscribers PROVE sub[u] \in Subscription /\ Subscriber(db, u, sub[u], today)
  <2> DEFINE s == sub[u]
  <2>1. /\ s.status = "inactive" /\ s.type = None /\ s.cadence = LegacyCadence[u] /\ s.start = 0
        /\ s.expiry = 0
        /\ s.adjusted = 0 /\ s.discounts = 0
    BY DEF Init
  <2>2. s \in Subscription
    <3>1. LegacyCadence[u] \in Briefing \cup {None}
      BY SubscriptionAssumption
    <3>2. "inactive" \in Statuses
      BY DEF Statuses
    <3> QED BY <3>1, <3>2 DEF Init, Subscription
  <2> HIDE DEF s
  <2>3. u \in Users /\ Cash(u) \in Accounts /\ Gift(u) \in Accounts
    BY SubscriptionAssumption, AccountsOf
  <2>4. \A k \in OwnKeys(u) : ~HasKey(db, k)
    BY <1>1, KeysApart DEF OwnKeys, ChargeKeysOf, ReturnKeysOf
  <2>5. \A k \in OwnKeys(u), a \in Accounts : Under(db, a, k) = 0
    BY <1>1, <2>4, UnderIsSum DEF Books, Sound
  <2>6. \A day \in Days, plan \in Plans :
            ChargeKey(u, day, plan) \in OwnKeys(u) /\ ReturnKey(u, day, plan) \in OwnKeys(u)
    BY DEF OwnKeys, ChargeKeysOf, ReturnKeysOf
  <2>7. FirstBonusKey(u) \in OwnKeys(u)
    BY DEF OwnKeys
  <2>8. ReturnsOf(db, u)
    <3>1. 0 \in 0..(-0)
      OBVIOUS
    <3> QED BY <2>3, <2>5, <2>6, <3>1 DEF ReturnsOf
  <2>9. Ledger(db, u, s.discounts)
    <3>1. Discounted(db, u) = {}
      BY <1>1, <2>3 DEF Discounted
    <3>2. Cardinality({}) = 0
      BY FS_EmptySet
    <3> QED BY <1>1, <2>1, <2>3, <2>4, <2>7, <2>8, <3>1, <3>2 DEF Ledger
  <2>10. Rewarded(db, u)
    <3>1. Referrer(db, u) # None => Gift(Referrer(db, u)) \in Accounts
      BY <1>1, <2>3, AccountsOf DEF Referrer, Books, Sound, Tables
    <3> QED BY <1>1, <2>3, <2>5, <2>7, <3>1 DEF Rewarded
  <2>11. Suits(u, s) /\ Dated(s, today)
    BY <1>2, <2>1 DEF Suits, Dated
  <2>12. PeriodPaid(db, u, s) /\ ChargesPast(db, u, s) /\ ReturnsPast(db, u, s)
    BY <2>1, <2>4, <2>6 DEF PeriodPaid, ChargesPast, ReturnsPast
  <2> QED BY <2>1, <2>2, <2>9, <2>10, <2>11, <2>12 DEF Subscriber, s
<1>5. sub \in [Subscribers -> Subscription]
  <2>1. DOMAIN sub = Subscribers /\ sub = [u \in Subscribers |-> sub[u]]
    BY DEF Init
  <2> QED BY <1>4, <2>1
<1> QED BY <1>1, <1>2, <1>3, <1>4, <1>5 DEF IInv

\* A transaction of one user.
LEMMA UserMoves ==
    ASSUME IInv, NEW u \in Subscribers, Elsewhere(db, db', u), NEW r, r \in Subscription,
           Subscriber(db', u, r, today), sub' = [sub EXCEPT ![u] = r], today' = today,
           verified' \in [Subscribers -> SUBSET Addresses],
           leaving' \in [Subscribers -> [Addresses -> {"no", "leaves", "cancels", "pends"}]]
    PROVE  IInv'
<1>1. u \in Users /\ Subscribers \subseteq Users
  BY SubscriptionAssumption
<1>2. Books(db') /\ db'.inviter = InitialInviter
  BY DEF IInv, Elsewhere, Touches
<1>3. sub' \in [Subscribers -> Subscription]
  BY DEF IInv
<1>4. ASSUME NEW v \in Subscribers PROVE Subscriber(db', v, sub'[v], today')
  <2>1. CASE v = u
    BY <2>1 DEF IInv
  <2>2. CASE v # u
    <3>1. sub'[v] = sub[v]
      BY <2>2 DEF IInv
    <3>2. Subscriber(db, v, sub[v], today) /\ today \in Days /\ Books(db)
      BY DEF IInv
    <3>3. Subscriber(db', v, sub[v], today)
      BY <1>1, <2>2, <3>2, OthersStay
    <3> QED BY <3>1, <3>3
  <2> QED BY <2>1, <2>2
<1> QED BY <1>2, <1>3, <1>4 DEF IInv

\* A transaction that has done nothing yet.
LEMMA NothingYet == ASSUME IInv, NEW u \in Subscribers PROVE Elsewhere(db, db, u)
<1>1. \A v \in Users : CreditsOf(db, v) \in Int
  BY BalanceTypes DEF IInv
<1>2. Touches(db, db, OwnKeys(u))
  BY DEF Touches, IInv
<1>3. \A x \in Int : x >= x
  OBVIOUS
<1> QED BY <1>1, <1>2, <1>3, Zenon DEF Elsewhere

-----------------------------------------------------------------------------
(* The steps of a user's request, dated today.                             *)

\* A row whose pending flag and day of adjustment change.
LEMMA Flagged ==
    ASSUME NEW u \in Subscribers, NEW s \in Subscription, NEW t \in Days, NEW d,
           Subscriber(d, u, s, t), NEW b \in BOOLEAN, NEW r,
           \/ r = [s EXCEPT !.pending = b]
           \/ r = [[s EXCEPT !.pending = b] EXCEPT !.adjusted = t]
    PROVE  Subscriber(d, u, r, t) /\ r \in Subscription
<1>1. t \in Nat /\ s.adjusted \in Nat /\ s.adjusted <= t /\ s.start \in Nat
  BY DayTypes DEF Subscriber, Subscription, Dated
<1>2. /\ r \in Subscription /\ r.status = s.status /\ r.type = s.type /\ r.cadence = s.cadence
      /\ r.start = s.start /\ r.expiry = s.expiry /\ r.anchor = s.anchor
      /\ r.discounts = s.discounts /\ (r.adjusted = s.adjusted \/ r.adjusted = t)
  BY <1>1 DEF Subscription
<1>3. r.adjusted >= s.adjusted /\ r.adjusted <= t
  BY <1>1, <1>2
<1>4. Suits(u, r) /\ Dated(r, t)
  BY <1>2, <1>3 DEF Subscriber, Suits, Dated
<1> QED BY <1>2, <1>3, <1>4, ColumnsChange

\* A step that only changes one user's columns.
LEMMA ColumnsMove ==
    ASSUME IInv, NEW u \in Subscribers, NEW r, r \in Subscription,
           Subscriber(db, u, r, today), sub' = [sub EXCEPT ![u] = r], db' = db, today' = today,
           verified' \in [Subscribers -> SUBSET Addresses],
           leaving' \in [Subscribers -> [Addresses -> {"no", "leaves", "cancels", "pends"}]]
    PROVE  IInv'
<1>1. Elsewhere(db, db', u)
  BY NothingYet
<1>2. Subscriber(db', u, r, today)
  OBVIOUS
<1> QED BY <1>1, <1>2, UserMoves

LEMMA SetPlanResumesKeeps ==
    ASSUME IInv, NEW u \in Subscribers, NEW plan \in Plans, SetPlanResumes(u, plan, today)
    PROVE  IInv'
<1> DEFINE r == [[sub[u] EXCEPT !.pending = FALSE] EXCEPT !.adjusted = today]
<1>1. sub' = [sub EXCEPT ![u] = r]
  BY DEF SetPlanResumes, IInv
<1>2. Subscriber(db, u, r, today) /\ r \in Subscription
  BY Flagged DEF IInv
<1> HIDE DEF r
<1> QED BY <1>1, <1>2, ColumnsMove DEF SetPlanResumes, IInv

LEMMA CancelKeeps ==
    ASSUME IInv, NEW u \in Subscribers, Cancel(u, today)
    PROVE  IInv'
<1> DEFINE r == [[sub[u] EXCEPT !.pending = TRUE] EXCEPT !.adjusted = today]
<1>1. sub' = [sub EXCEPT ![u] = r]
  BY DEF Cancel, IInv
<1>2. Subscriber(db, u, r, today) /\ r \in Subscription
  BY Flagged DEF IInv
<1> HIDE DEF r
<1> QED BY <1>1, <1>2, ColumnsMove DEF Cancel, IInv

LEMMA ResumeKeeps ==
    ASSUME IInv, NEW u \in Subscribers, Resume(u, today)
    PROVE  IInv'
<1> DEFINE r == [[sub[u] EXCEPT !.pending = FALSE] EXCEPT !.adjusted = today]
<1>1. sub' = [sub EXCEPT ![u] = r]
  BY DEF Resume, IInv
<1>2. Subscriber(db, u, r, today) /\ r \in Subscription
  BY Flagged DEF IInv
<1> HIDE DEF r
<1> QED BY <1>1, <1>2, ColumnsMove DEF Resume, IInv

LEMMA SetJadeCadenceKeeps ==
    ASSUME IInv, NEW u \in Subscribers, NEW cadence \in Briefing, SetJadeCadence(u, cadence)
    PROVE  IInv'
<1> DEFINE s == sub[u]
           r == [s EXCEPT !.cadence = cadence]
<1>1. sub' = [sub EXCEPT ![u] = r]
  BY DEF SetJadeCadence, IInv
<1>2. s \in Subscription /\ Subscriber(db, u, s, today) /\ today \in Days
  BY DEF IInv
<1>3. s.status = "active" /\ s.type = Jade
  BY DEF SetJadeCadence, IsJade
<1>4. /\ r \in Subscription /\ r.status = s.status /\ r.type = s.type /\ r.cadence = cadence
      /\ r.start = s.start /\ r.expiry = s.expiry /\ r.anchor = s.anchor
      /\ r.adjusted = s.adjusted /\ r.discounts = s.discounts
  BY <1>2 DEF Subscription
<1>5. s.adjusted \in Nat
  BY <1>2 DEF Subscription
<1> HIDE DEF s, r
<1>6. Suits(u, r) /\ Dated(r, today) /\ r.adjusted >= s.adjusted
  BY <1>2, <1>3, <1>4, <1>5 DEF Subscriber, Suits, Dated, Plans
<1>7. Subscriber(db, u, r, today)
  BY <1>2, <1>4, <1>6, ColumnsChange
<1> QED BY <1>1, <1>4, <1>7, ColumnsMove DEF SetJadeCadence, IInv

\* What an answer of PlanAction says.
LEMMA PlanActions ==
    ASSUME NEW s, NEW day, NEW plan
    PROVE  /\ PlanAction(s, day, plan) = "subscribe" => s.status # "active" \/ day > s.expiry
           /\ PlanAction(s, day, plan) = "change" =>
                  s.status = "active" /\ plan # s.type /\ ~(day > s.expiry)
           /\ PlanAction(s, day, plan) = "resume" =>
                  s.status = "active" /\ plan = s.type /\ s.pending /\ ~(day > s.expiry)
BY DEF PlanAction

\* The free upgrade needs no charge: Jade's periods are not among those paid.
LEMMA SetPlanUpgradesKeeps ==
    ASSUME IInv, NEW u \in Subscribers, NEW plan \in Plans, SetPlanUpgrades(u, plan, today)
    PROVE  /\ IInv' /\ plan = Jade /\ sub'[u].status = "active" /\ sub'[u].expiry > today
           /\ sub'[u].expiry = NextExpiry(today, DayOfMonth(today))
           /\ sub'[u].adjusted = today /\ sub'[u].pending = FALSE
<1> DEFINE s == sub[u]
           x == [s EXCEPT !.freeUsed = TRUE]
           r == [Fresh(x, today, plan) EXCEPT !.adjusted = today]
<1>1. sub' = [sub EXCEPT ![u] = r]
  BY DEF SetPlanUpgrades, IInv
<1>2. s \in Subscription /\ Subscriber(db, u, s, today) /\ today \in Days /\ today \in Nat
  BY DayTypes DEF IInv
<1>3. s.status = "active" /\ plan = Jade /\ s.adjusted # today
  BY PlanActions DEF SetPlanUpgrades, FreeUpgrade, MayAdjust
<1>4. x \in Subscription /\ x.discounts = s.discounts
  BY <1>2 DEF Subscription
<1>5. r.pending = FALSE
  BY <1>4 DEF Fresh, Subscription
<1> HIDE DEF s, x
<1>6. /\ r \in Subscription /\ r.status = "active" /\ r.type = Jade /\ r.start = today
      /\ r.adjusted = today /\ r.discounts = s.discounts /\ r.anchor >= 1
      /\ r.anchor = DayOfMonth(today) /\ r.expiry = NextExpiry(today, DayOfMonth(today))
      /\ r.expiry > today /\ r.cadence \in Briefing
  BY <1>2, <1>3, <1>4, FreshFields
<1> HIDE DEF r
<1>7. /\ \A day \in Days, p \in Plans : HasKey(db, ReturnKey(u, day, p)) => day < today
      /\ \A day \in Days, p \in Plans : HasKey(db, ChargeKey(u, day, p)) =>
             day < today \/ day = today
  BY <1>2, <1>3, TodayIsNew
<1>8. today >= 1 /\ today <= today
  BY <1>2, DayTypes
<1>9. Suits(u, r) /\ Dated(r, today)
  BY <1>2, <1>6, <1>8 DEF Suits, Dated, OnAnchor, Plans
<1>10. PeriodPaid(db, u, r)
  BY <1>6, SubscriptionAssumption DEF PeriodPaid
<1>11. ChargesPast(db, u, r) /\ ReturnsPast(db, u, r)
  BY <1>2, <1>6, <1>7, <1>8 DEF ChargesPast, ReturnsPast
<1>12. Subscriber(db, u, r, today)
  BY <1>2, <1>3, <1>6, <1>9, <1>10, <1>11 DEF Subscriber
<1>13. IInv'
  BY <1>1, <1>6, <1>12, ColumnsMove DEF SetPlanUpgrades, IInv
<1>14. sub'[u] = r
  BY <1>1 DEF IInv
<1> QED BY <1>3, <1>5, <1>6, <1>13, <1>14

\* Subscribe is SubscribeKeeps of the charge and the bonus.
LEMMA SubscribeMoves ==
    ASSUME IInv, NEW u \in Subscribers, NEW d, Elsewhere(db, d, u),
           NEW plan \in Plans, NEW adjusted \in Nat,
           MaySubscribe(d, u, sub[u], today, plan, adjusted),
           Subscribe(d, u, today, plan, adjusted),
           verified' = verified, leaving' = leaving, today' = today
    PROVE  /\ IInv' /\ sub' = [sub EXCEPT ![u] = sub'[u]] /\ sub'[u].status = "active"
           /\ sub'[u].expiry = NextExpiry(today, DayOfMonth(today))
           /\ sub'[u].expiry > today /\ sub'[u].adjusted = adjusted /\ sub'[u].pending = FALSE
           /\ Elsewhere(db, db', u)
           /\ CreditsOf(db', u) = CreditsOf(d, u) - PlanFee(sub[u], plan)
<1> DEFINE s == sub[u]
           y == AfterCharge(s, plan)
           r == [Fresh(y, today, plan) EXCEPT !.adjusted = adjusted]
<1>1. sub' = [sub EXCEPT ![u] = r] /\ FreshPeriod(d, db', u, s, today, plan, adjusted, r)
  BY DEF Subscribe, IInv, FreshPeriod
<1>2. /\ s \in Subscription /\ today \in Days /\ u \in Users /\ Books(db)
      /\ db.inviter = InitialInviter
  BY SubscriptionAssumption DEF IInv
<1>4. y \in Subscription
  BY <1>2, AfterChargeFields
<1> HIDE DEF y
<1>5. r.pending = FALSE /\ r.adjusted = adjusted /\ r \in Subscription
  <2>1. r.adjusted = adjusted /\ r \in Subscription
    BY <1>2, <1>4, FreshFields
  <2>2. Fresh(y, today, plan).pending = FALSE
    BY <1>4 DEF Fresh, Subscription
  <2> QED BY <2>1, <2>2
<1> HIDE DEF r
<1>8. /\ Subscriber(db', u, r, today) /\ r.status = "active" /\ r.expiry > today
      /\ r.expiry = NextExpiry(today, DayOfMonth(today))
      /\ Elsewhere(d, db', u) /\ CreditsOf(db', u) = CreditsOf(d, u) - PlanFee(s, plan)
  <2> HIDE DEF s
  <2>1. MaySubscribe(d, u, s, today, plan, adjusted)
    BY DEF s
  <2> QED BY <1>1, <1>2, <2>1, SubscribeKeeps
<1>9. Elsewhere(db, db', u)
  BY <1>2, <1>8, ElsewhereBoth
<1>10. sub'[u] = r
  BY <1>1 DEF IInv
<1>11. verified' \in [Subscribers -> SUBSET Addresses]
       /\ leaving' \in [Subscribers -> [Addresses -> {"no", "leaves", "cancels", "pends"}]]
  BY DEF IInv
<1>12. IInv'
  BY <1>1, <1>5, <1>8, <1>9, <1>11, UserMoves
<1> QED BY <1>1, <1>5, <1>8, <1>9, <1>10, <1>12

\* A fresh period when the last began before today.
LEMMA SubscribeAnew ==
    ASSUME IInv, NEW u \in Subscribers, sub[u].start < today,
           NEW plan \in Plans, NEW adjusted \in Nat, adjusted <= today,
           Subscribe(db, u, today, plan, adjusted),
           verified' = verified, leaving' = leaving, today' = today
    PROVE  /\ IInv' /\ sub' = [sub EXCEPT ![u] = sub'[u]] /\ sub'[u].status = "active"
           /\ sub'[u].expiry = NextExpiry(today, DayOfMonth(today))
           /\ sub'[u].expiry > today /\ sub'[u].adjusted = adjusted /\ sub'[u].pending = FALSE
           /\ Elsewhere(db, db', u)
           /\ CreditsOf(db', u) = CreditsOf(db, u) - PlanFee(sub[u], plan)
<1>1. /\ Subscriber(db, u, sub[u], today) /\ today \in Days /\ Books(db)
      /\ Elsewhere(db, db, u) /\ today \in Nat /\ sub[u].start \in Nat
  BY NothingYet, DayTypes DEF IInv, Subscription
<1>2. /\ \A day \in Days, p \in Plans : HasKey(db, ReturnKey(u, day, p)) => day < today
      /\ \A day \in Days, p \in Plans : HasKey(db, ChargeKey(u, day, p)) =>
             day < today \/ (day = today /\ sub[u].start = today)
  BY <1>1, TodayIsNew
<1>3. \A day \in Days, p \in Plans : HasKey(db, ChargeKey(u, day, p)) => day < today
  BY <1>1, <1>2
<1>4. ~HasKey(db, ChargeKey(u, today, plan))
  <2>1. ~(today < today)
    BY <1>1
  <2> QED BY <1>1, <1>3, <2>1
<1>5. CanConsume(db, u, PlanFee(sub[u], plan))
  BY <1>4 DEF Subscribe, CanCharge
<1>6. Ledger(db, u, sub[u].discounts) /\ Rewarded(db, u)
  BY <1>1 DEF Subscriber
<1>7. db.inviter[u] # u
  BY SubscriptionAssumption DEF IInv
<1>8. MaySubscribe(db, u, sub[u], today, plan, adjusted)
  BY <1>1, <1>2, <1>3, <1>4, <1>5, <1>6, <1>7 DEF MaySubscribe
<1> QED BY <1>1, <1>8, SubscribeMoves

\* A period that is over, or was never begun, began before today.
LEMMA StartedBefore ==
    ASSUME IInv, NEW u \in Subscribers, sub[u].status # "active" \/ today > sub[u].expiry
    PROVE  sub[u].start < today
<1>1. /\ Subscriber(db, u, sub[u], today) /\ today \in Nat
      /\ sub[u].start \in Nat /\ sub[u].expiry \in Nat
  BY DayTypes DEF IInv, Subscription
<1> QED BY <1>1 DEF Subscriber, Dated

\* A first subscription, or one after the last is over.
LEMMA SetPlanSubscribesKeeps ==
    ASSUME IInv, NEW u \in Subscribers, NEW plan \in Plans, SetPlanSubscribes(u, plan, today)
    PROVE  /\ IInv' /\ sub' = [sub EXCEPT ![u] = sub'[u]] /\ sub'[u].status = "active"
           /\ sub'[u].expiry = NextExpiry(today, DayOfMonth(today))
           /\ sub'[u].expiry > today /\ sub'[u].adjusted = today /\ sub'[u].pending = FALSE
           /\ Elsewhere(db, db', u)
<1>1. sub[u].status # "active" \/ today > sub[u].expiry
  BY PlanActions DEF SetPlanSubscribes
<1>2. sub[u].start < today
  BY <1>1, StartedBefore
<1>3. today \in Nat /\ today <= today
  BY DayTypes DEF IInv
<1>4. /\ Subscribe(db, u, today, plan, today) /\ verified' = verified /\ leaving' = leaving
      /\ today' = today
  BY DEF SetPlanSubscribes
<1> QED BY <1>2, <1>3, <1>4, SubscribeAnew

\* A change of plan: the return, then the new plan's charge, under new keys.
LEMMA SetPlanChangesKeeps ==
    ASSUME IInv, NEW u \in Subscribers, NEW plan \in Plans, SetPlanChanges(u, plan, today)
    PROVE  /\ IInv' /\ sub' = [sub EXCEPT ![u] = sub'[u]] /\ sub'[u].status = "active"
           /\ sub'[u].expiry = NextExpiry(today, DayOfMonth(today))
           /\ sub'[u].expiry > today /\ sub'[u].adjusted = today /\ sub'[u].pending = FALSE
           /\ Elsewhere(db, db', u)
<1> DEFINE s == sub[u]
           cash == ReturnParts(u, today).cash
           gift == ReturnParts(u, today).gift
           key == ReturnKey(u, s.start, s.type)
           e == Returned(db, u, cash, gift, key, ChargeKey(u, s.start, s.type))
<1>1. /\ Subscriber(db, u, s, today) /\ Books(db) /\ today \in Days /\ today \in Nat
      /\ u \in Users /\ s \in Subscription /\ db.inviter = InitialInviter
  BY DayTypes, SubscriptionAssumption DEF IInv
<1>2. s.status = "active" /\ plan # s.type /\ ~(today > s.expiry) /\ s.adjusted # today
  BY PlanActions DEF SetPlanChanges, MayAdjust
<1>3. s.type \in Plans /\ s.type \in Briefing
  BY <1>1, <1>2 DEF Subscriber, Suits, SetPlanChanges, IsJade, Plans
<1>4. s.start \in Nat /\ s.start <= today /\ s.expiry \in Nat /\ today <= s.expiry
  BY <1>1, <1>2 DEF Subscriber, Subscription, Dated
<1>5. /\ cash \in Nat /\ gift \in Nat /\ s.start \in Days
      /\ cash <= -Under(db, Cash(u), ChargeKey(u, s.start, s.type))
      /\ gift <= -Under(db, Gift(u), ChargeKey(u, s.start, s.type))
  BY <1>1, <1>2, <1>3, <1>4, ReturnPartsWithin DEF CurrentCharge
<1>6. ~HasKey(db, key)
  BY <1>1, <1>2, <1>3 DEF Subscriber, PeriodPaid
<1>7. key \in Keys /\ ChargeKey(u, s.start, s.type) \in Keys
  BY <1>1, <1>3, <1>5, KeyTypes
<1>8. Subscribe(e, u, today, plan, today)
  <2>1. ~HasKey(db, CurrentReturn(u))
    BY <1>6 DEF CurrentReturn
  <2>2. AfterReturn(db, u, ReturnParts(u, today), CurrentReturn(u), CurrentCharge(u)) = e
    BY <2>1 DEF AfterReturn, CurrentReturn, CurrentCharge
  <2> HIDE DEF e
  <2>3. Subscribe(AfterReturn(db, u, ReturnParts(u, today), CurrentReturn(u), CurrentCharge(u)),
                  u, today, plan, today)
    BY DEF SetPlanChanges
  <2> QED BY <2>2, <2>3
<1>9. ReturnSeen(db, e, u, cash, gift, key)
  <2> HIDE DEF s, cash, gift, key
  <2> QED BY <1>1, <1>5, <1>6, <1>7, ReturnIsSeen
<1> HIDE DEF s, cash, gift, e
<1>10. Elsewhere(db, e, u) /\ Books(e) /\ e.inviter = db.inviter
  BY <1>1, <1>3, <1>5, <1>9, ReturnElsewhere DEF Elsewhere, Touches
<1>11. Ledger(e, u, s.discounts) /\ Rewarded(e, u)
  <2>1. Ledger(db, u, s.discounts) /\ Rewarded(db, u)
    BY <1>1 DEF Subscriber
  <2> QED BY <1>1, <1>3, <1>5, <1>9, <2>1, ReturnAddsUp
<1>12. /\ \A day \in Days, p \in Plans : HasKey(db, ReturnKey(u, day, p)) => day < today
       /\ \A day \in Days, p \in Plans : HasKey(db, ChargeKey(u, day, p)) =>
              day < today \/ (day = today /\ p = s.type)
  BY <1>1, <1>2, TodayIsNew
<1>13. \A day \in Days, p \in Plans :
           /\ ReturnKey(u, day, p) \in Keys /\ ChargeKey(u, day, p) \in Keys
           /\ ReturnKey(u, day, p) = key => day = s.start /\ p = s.type
           /\ ChargeKey(u, day, p) # key
  BY <1>1, KeyTypes, KeysApart
<1> HIDE DEF key
<1>14. \A day \in Days, p \in Plans : HasKey(e, ChargeKey(u, day, p)) =>
           day < today \/ (day = today /\ p = s.type)
  BY <1>9, <1>12, <1>13 DEF ReturnSeen, Touches
<1>15. ASSUME NEW day \in Days, NEW p \in Plans, HasKey(e, ReturnKey(u, day, p))
       PROVE  day < today \/ (day = today /\ p # plan)
  <2>1. CASE ReturnKey(u, day, p) = key
    <3>1. day = s.start /\ p = s.type
      BY <1>13, <2>1
    <3> QED BY <1>1, <1>2, <1>4, <3>1
  <2>2. CASE ReturnKey(u, day, p) # key
    <3>1. HasKey(db, ReturnKey(u, day, p))
      BY <1>9, <1>13, <1>15, <2>2 DEF ReturnSeen, Touches
    <3> QED BY <1>12, <3>1
  <2> QED BY <2>1, <2>2
<1>16. ~HasKey(e, ChargeKey(u, today, plan))
  <2>1. ~(today < today)
    BY <1>1
  <2> QED BY <1>1, <1>2, <1>14, <2>1
<1>17. CanConsume(e, u, PlanFee(s, plan))
  BY <1>8, <1>16 DEF Subscribe, CanCharge, s
<1>18. MaySubscribe(e, u, s, today, plan, today)
  <2>1. e.inviter[u] # u /\ today <= today /\ today >= today
    BY <1>1, <1>10, SubscriptionAssumption
  <2> QED BY <1>10, <1>11, <1>14, <1>15, <1>16, <1>17, <2>1 DEF MaySubscribe
<1>19. verified' = verified /\ leaving' = leaving /\ today' = today
  BY DEF SetPlanChanges
<1>20. MaySubscribe(e, u, sub[u], today, plan, today)
  BY <1>18 DEF s
<1>21. Elsewhere(db, e, u) /\ today \in Nat
  BY <1>1, <1>10
<1> QED BY <1>8, <1>19, <1>20, <1>21, SubscribeMoves

-----------------------------------------------------------------------------
(* The other steps.                                                        *)

\* Midnight finds every subscription as it was.
LEMMA MidnightKeeps == ASSUME IInv, Midnight PROVE IInv'
<1>1. today' = today + 1 /\ today' \in Days
  BY DayTypes DEF IInv, Midnight, Days
<1>2. ASSUME NEW u \in Subscribers PROVE Subscriber(db, u, sub[u], today')
  BY <1>1, NextDay DEF IInv
<1> QED BY <1>1, <1>2 DEF IInv, Midnight

\* A top-up is of no subscription's keys.
LEMMA TopsUpKeeps ==
    ASSUME IInv, NEW u \in Subscribers, NEW amount \in TopUpAmounts, NEW k \in TopUps,
           TopsUp(u, amount, k)
    PROVE  /\ IInv' /\ Credits(u)' > Credits(u)
           /\ \A v \in Users \ {u} : CreditsOf(db', v) >= CreditsOf(db, v)
<1> DEFINE key == AdjustmentKey(k)
<1>1. u \in Users /\ Gift(u) \in Accounts /\ Cash(u) \in Accounts /\ Books(db)
  BY SubscriptionAssumption, AccountsOf DEF IInv
<1>2. /\ amount \in Int /\ amount >= 1 /\ key \in Keys /\ "admin_adjustment" \in Reasons
      /\ "admin_adjustment" # "subscription" /\ None \in Ids
  BY KeyTypes, SubscriptionAssumption DEF Reasons, CreditReasons
<1>3. db.balance[Gift(u)] + amount >= 0
  BY <1>1, <1>2, BalanceTypes
<1>4. db' = Posted(db, Gift(u), amount, "admin_adjustment", key, None)
  BY DEF TopsUp
<1> HIDE DEF key
<1>5. Touches(db, db', {key}) /\ PostSeen(db, db', Gift(u), amount, "admin_adjustment", key)
  BY <1>1, <1>2, <1>3, <1>4, PostTouches
<1>6. \A v \in Users : ChargeKeys(db', v) = ChargeKeys(db, v)
  BY <1>2, <1>5 DEF PostSeen
<1>7. ASSUME NEW v \in Subscribers PROVE Subscriber(db', v, sub[v], today)
  <2>1. {key} \cap OwnKeys(v) = {}
    BY KeysApart DEF key, OwnKeys, ChargeKeysOf, ReturnKeysOf
  <2>2. v \in Users /\ today \in Days /\ Subscriber(db, v, sub[v], today)
    BY SubscriptionAssumption DEF IInv
  <2> QED BY <1>1, <1>5, <1>6, <2>1, <2>2, OtherStays
<1>8. Books(db') /\ db'.inviter = db.inviter
  BY <1>5 DEF Touches
<1>9. IInv'
  BY <1>7, <1>8 DEF IInv, TopsUp
<1>10. /\ db'.balance[Gift(u)] = db.balance[Gift(u)] + amount
       /\ \A a \in Accounts : a # Gift(u) => db'.balance[a] = db.balance[a]
  BY <1>5 DEF PostSeen
<1>11. CreditsOf(db', u) > CreditsOf(db, u)
  <2>1. db'.balance[Cash(u)] = db.balance[Cash(u)]
    BY <1>1, <1>10, AccountsOf
  <2>2. db.balance[Cash(u)] \in Int /\ db.balance[Gift(u)] \in Int
    BY <1>1, BalanceTypes
  <2> QED BY <1>2, <1>10, <2>1, <2>2 DEF CreditsOf
<1>12. ASSUME NEW v \in Users \ {u} PROVE CreditsOf(db', v) >= CreditsOf(db, v)
  <2>1. db'.balance[Cash(v)] = db.balance[Cash(v)] /\ db'.balance[Gift(v)] = db.balance[Gift(v)]
    BY <1>10, AccountsOf
  <2>2. db.balance[Cash(v)] \in Int /\ db.balance[Gift(v)] \in Int
    BY <1>1, BalanceTypes
  <2> QED BY <2>1, <2>2 DEF CreditsOf
<1> QED BY <1>9, <1>11, <1>12 DEF Credits, CreditsOf

LEMMA VerifiesKeeps ==
    ASSUME IInv, NEW u \in Subscribers, NEW a \in Addresses,
           Verifies(u, a) \/ UnsubscribeReads(u, a)
    PROVE  IInv'
<1>1. CASE Verifies(u, a)
  BY <1>1 DEF IInv, Verifies
<1>2. CASE UnsubscribeReads(u, a)
  <2> DEFINE cancels == verified[u] \ {a} = {} /\ sub[u].status = "active" /\ ~sub[u].pending
             what == IF ~cancels THEN "leaves"
                     ELSE IF a \in verified[u] THEN "cancels" ELSE "pends"
  <2>1. leaving' = [leaving EXCEPT ![u][a] = what] /\ what \in {"no", "leaves", "cancels", "pends"}
    BY <1>2 DEF UnsubscribeReads
  <2> HIDE DEF what
  <2>2. leaving' \in [Subscribers -> [Addresses -> {"no", "leaves", "cancels", "pends"}]]
    BY <2>1 DEF IInv
  <2> QED BY <1>2, <2>2 DEF IInv, UnsubscribeReads
<1> QED BY <1>1, <1>2

LEMMA BouncesKeeps ==
    ASSUME IInv, NEW u \in Subscribers, NEW a \in Bouncing, Bounces(u, a) PROVE IInv'
BY DEF IInv, Bounces

LEMMA UnsubscribeCommitsKeeps ==
    ASSUME IInv, NEW u \in Subscribers, NEW a \in Addresses, UnsubscribeCommits(u, a)
    PROVE  IInv'
<1> DEFINE r == IF leaving[u][a] = "leaves" THEN sub[u] ELSE [sub[u] EXCEPT !.pending = TRUE]
<1>1. sub' = [sub EXCEPT ![u] = r]
  BY DEF UnsubscribeCommits, IInv
<1>2. /\ verified' \in [Subscribers -> SUBSET Addresses]
      /\ leaving' \in [Subscribers -> [Addresses -> {"no", "leaves", "cancels", "pends"}]]
  <2>1. verified' \in [Subscribers -> SUBSET Addresses]
    BY DEF UnsubscribeCommits, IInv
  <2>2. leaving' = [leaving EXCEPT ![u][a] = "no"]
    BY DEF UnsubscribeCommits
  <2> QED BY <2>1, <2>2 DEF IInv
<1>3. Subscriber(db, u, r, today) /\ r \in Subscription
  <2>1. sub[u] \in Subscription /\ Subscriber(db, u, sub[u], today) /\ today \in Days
    BY DEF IInv
  <2>2. LET x == [sub[u] EXCEPT !.pending = TRUE]
        IN  Subscriber(db, u, x, today) /\ x \in Subscription
    BY <2>1, Flagged
  <2> QED BY <2>1, <2>2
<1> HIDE DEF r
<1> QED BY <1>1, <1>2, <1>3, ColumnsMove DEF UnsubscribeCommits

-----------------------------------------------------------------------------
(* The steps of the scheduled check, and the launch.                       *)

\* A subscription that is over.
LEMMA OverdueIsPast ==
    ASSUME IInv, NEW u \in Subscribers, Overdue(sub[u], today)
    PROVE  /\ sub[u].status = "active" /\ sub[u].type \in Plans /\ today > sub[u].expiry
           /\ sub[u].expiry < today /\ sub[u].start < today /\ sub[u].adjusted \in Nat /\ sub[u].adjusted <= today
           /\ sub[u] \in Subscription /\ Subscriber(db, u, sub[u], today) /\ today \in Days
BY StartedBefore DEF IInv, Overdue, Subscriber, Suits, Dated, Subscription

LEMMA CheckCancelsKeeps ==
    ASSUME IInv, NEW u \in Subscribers, CheckCancels(u, today)
    PROVE  IInv' /\ sub'[u].status = "cancelled" /\ sub'[u].expiry = sub[u].expiry
           /\ sub'[u].adjusted = sub[u].adjusted
<1> DEFINE s == sub[u]
           r == [s EXCEPT !.status = "cancelled", !.type = None, !.cadence = None,
                          !.pending = FALSE]
<1>1. sub' = [sub EXCEPT ![u] = r]
  BY DEF CheckCancels, IInv
<1>2. /\ s \in Subscription /\ Subscriber(db, u, s, today) /\ today \in Days
      /\ s.start < today /\ s.expiry < today /\ s.adjusted \in Nat
  BY OverdueIsPast DEF CheckCancels
<1>3. "cancelled" \in Statuses
  BY DEF Statuses
<1> HIDE DEF s
<1>4. /\ r \in Subscription /\ r.status = "cancelled" /\ r.type = None /\ r.cadence = None
      /\ r.start = s.start /\ r.expiry = s.expiry /\ r.anchor = s.anchor
      /\ r.adjusted = s.adjusted /\ r.discounts = s.discounts
  BY <1>2, <1>3 DEF Subscription
<1> HIDE DEF r
<1>5. r.adjusted >= s.adjusted /\ Suits(u, r) /\ Dated(r, today)
  BY <1>2, <1>4 DEF Suits, Dated, Subscriber
<1>6. Subscriber(db, u, r, today)
  BY <1>2, <1>4, <1>5, ColumnsChange
<1>7. IInv'
  BY <1>1, <1>4, <1>6, ColumnsMove DEF CheckCancels, IInv
<1>8. sub'[u] = r
  BY <1>1 DEF IInv
<1> QED BY <1>4, <1>7, <1>8 DEF s

LEMMA CheckExpiresKeeps ==
    ASSUME IInv, NEW u \in Subscribers, CheckExpires(u, today)
    PROVE  IInv' /\ sub'[u].status = "expired" /\ sub'[u].expiry = sub[u].expiry
           /\ sub'[u].adjusted = sub[u].adjusted
<1> DEFINE s == sub[u]
           r == [s EXCEPT !.status = "expired"]
<1>1. sub' = [sub EXCEPT ![u] = r]
  BY DEF CheckExpires, IInv
<1>2. /\ s \in Subscription /\ Subscriber(db, u, s, today) /\ today \in Days
      /\ s.start < today /\ s.expiry < today /\ s.adjusted \in Nat /\ s.status = "active"
  BY OverdueIsPast DEF CheckExpires, Renewable
<1>3. "expired" \in Statuses
  BY DEF Statuses
<1> HIDE DEF s
<1>4. /\ r \in Subscription /\ r.status = "expired" /\ r.type = s.type /\ r.cadence = s.cadence
      /\ r.start = s.start /\ r.expiry = s.expiry /\ r.anchor = s.anchor
      /\ r.adjusted = s.adjusted /\ r.discounts = s.discounts
  BY <1>2, <1>3 DEF Subscription
<1> HIDE DEF r
<1>5. r.adjusted >= s.adjusted /\ Suits(u, r) /\ Dated(r, today)
  BY <1>2, <1>4 DEF Suits, Dated, Subscriber
<1>6. Subscriber(db, u, r, today)
  BY <1>2, <1>4, <1>5, ColumnsChange
<1>7. IInv'
  BY <1>1, <1>4, <1>6, ColumnsMove DEF CheckExpires, IInv
<1>8. sub'[u] = r
  BY <1>1 DEF IInv
<1> QED BY <1>4, <1>7, <1>8 DEF s

\* A renewal: its key carries the end of the old period, which no charge has.
LEMMA CheckRenewsKeeps ==
    ASSUME IInv, NEW u \in Subscribers, CheckRenews(u, today)
    PROVE  /\ IInv' /\ sub' = [sub EXCEPT ![u] = sub'[u]] /\ sub'[u].status = "active"
           /\ sub'[u].expiry >= today /\ sub'[u].expiry > sub[u].expiry
           /\ sub'[u].adjusted = sub[u].adjusted
           /\ sub'[u].pending = FALSE /\ Elsewhere(db, db', u)
           /\ CreditsOf(db', u) = CreditsOf(db, u) - PlanFee(sub[u], sub[u].type)
<1> DEFINE s == sub[u]
           r == [AfterCharge(s, s.type) EXCEPT
                    !.start = s.expiry, !.expiry = NextExpiry(s.expiry, s.anchor)]
<1>1. sub' = [sub EXCEPT ![u] = r]
  BY DEF CheckRenews, IInv
<1>2. /\ Subscriber(db, u, s, today) /\ today \in Days /\ s.status = "active" /\ today > s.expiry
      /\ u \in Users /\ Books(db)
  BY OverdueIsPast, SubscriptionAssumption DEF CheckRenews, Renewable, IInv
<1>3. RenewalCharge(u, today) = ChargeKey(u, s.expiry, s.type)
  BY DEF CheckRenews, RenewalCharge, RenewalDay
<1>4. /\ CanCharge(db, u, PlanFee(s, s.type), ChargeKey(u, s.expiry, s.type))
      /\ db' = Charged(db, u, PlanFee(s, s.type), ChargeKey(u, s.expiry, s.type), s.type)
      /\ NextExpiry(s.expiry, s.anchor) >= today /\ s.pending = FALSE
  BY <1>2, <1>3 DEF CheckRenews, Renewable, Subscriber, Subscription
<1>5. NextPeriod(db, db', u, s, r)
  BY <1>4 DEF NextPeriod
<1>6. s = sub[u]
  OBVIOUS
<1> HIDE DEF r, s
<1>7. /\ Subscriber(db', u, r, today) /\ r.status = "active" /\ r.expiry > s.expiry
      /\ r.expiry = NextExpiry(s.expiry, s.anchor) /\ r.pending = s.pending
      /\ r.adjusted = s.adjusted
      /\ Elsewhere(db, db', u) /\ CreditsOf(db', u) = CreditsOf(db, u) - PlanFee(s, s.type)
  BY <1>2, <1>5, RenewKeeps
<1>8. r \in Subscription
  BY <1>7 DEF Subscriber
<1>9. IInv'
  BY <1>1, <1>7, <1>8, UserMoves DEF CheckRenews, IInv
<1>10. sub'[u] = r
  BY <1>1 DEF IInv
<1> QED BY <1>1, <1>4, <1>6, <1>7, <1>9, <1>10

\* The check charges a fresh period.
Restarts(u) ==
    /\ IInv' /\ sub' = [sub EXCEPT ![u] = sub'[u]] /\ sub'[u].status = "active"
    /\ sub'[u].expiry > today /\ sub'[u].adjusted = sub[u].adjusted /\ sub'[u].pending = FALSE
    /\ Elsewhere(db, db', u)
    /\ \E plan \in Plans : CreditsOf(db', u) = CreditsOf(db, u) - PlanFee(sub[u], plan)

LEMMA CheckRestartsKeeps ==
    ASSUME IInv, NEW u \in Subscribers, CheckRestarts(u, today) PROVE Restarts(u)
<1>1. /\ sub[u].type \in Plans /\ sub[u].start < today
      /\ sub[u].adjusted \in Nat /\ sub[u].adjusted <= today
  BY OverdueIsPast DEF CheckRestarts, Renewable
<1>2. /\ Subscribe(db, u, today, sub[u].type, sub[u].adjusted)
      /\ verified' = verified /\ leaving' = leaving /\ today' = today
  BY DEF CheckRestarts
<1> QED BY <1>1, <1>2, SubscribeAnew DEF Restarts

\* The columns of a subscription that is not active.
LEMMA NotActive ==
    ASSUME IInv, NEW u \in Subscribers, sub[u].status # "active"
    PROVE  /\ sub[u].start < today /\ sub[u].adjusted \in Nat /\ sub[u].adjusted <= today
           /\ sub[u].status = "expired" => sub[u].type \in Plans
           /\ sub[u] \in Subscription /\ Subscriber(db, u, sub[u], today) /\ today \in Days
BY StartedBefore DEF IInv, Subscriber, Suits, Dated, Subscription

LEMMA CheckResumesKeeps ==
    ASSUME IInv, NEW u \in Subscribers, CheckResumes(u, today) PROVE Restarts(u)
<1>1. /\ sub[u].type \in Plans /\ sub[u].start < today
      /\ sub[u].adjusted \in Nat /\ sub[u].adjusted <= today
  BY NotActive DEF CheckResumes
<1>2. /\ Subscribe(db, u, today, sub[u].type, sub[u].adjusted)
      /\ verified' = verified /\ leaving' = leaving /\ today' = today
  BY DEF CheckResumes
<1> QED BY <1>1, <1>2, SubscribeAnew DEF Restarts

\* The launch: a first charge, or the cadence is cleared.
LEMMA ActivatesKeeps ==
    ASSUME IInv, NEW u \in Subscribers, Activates(u)
    PROVE  /\ IInv' /\ today' = today
           /\ \/ Restarts(u)
              \/ /\ db' = db /\ sub' = [sub EXCEPT ![u] = sub'[u]]
                 /\ sub'[u].status = sub[u].status
                 /\ sub'[u].expiry = sub[u].expiry /\ sub'[u].adjusted = sub[u].adjusted
<1> DEFINE s == sub[u]
<1>1. /\ s.status = "inactive" /\ s.start < today /\ s.adjusted \in Nat /\ s.adjusted <= today
      /\ s \in Subscription /\ Subscriber(db, u, s, today) /\ today \in Days
  BY NotActive DEF Activates
<1>2. verified' = verified /\ leaving' = leaving /\ today' = today
  BY DEF Activates
<1>3. CASE s.cadence \in Briefing /\ Subscribe(db, u, today, s.cadence, s.adjusted)
  <2>1. s.cadence \in Plans
    BY <1>3 DEF Plans
  <2>2. Restarts(u)
    BY ZenonT(40), <1>1, <1>2, <1>3, <2>1, SubscribeAnew DEF Restarts
  <2> QED BY <1>2, <2>2 DEF Restarts
<1>4. CASE db' = db /\ sub' = [sub EXCEPT ![u].cadence = None]
  <2> DEFINE r == [s EXCEPT !.cadence = None]
  <2>1. sub' = [sub EXCEPT ![u] = r]
    BY <1>4 DEF IInv
  <2> HIDE DEF s
  <2>2. /\ r \in Subscription /\ r.status = s.status /\ r.type = s.type /\ r.cadence = None
        /\ r.start = s.start /\ r.expiry = s.expiry /\ r.anchor = s.anchor
        /\ r.adjusted = s.adjusted /\ r.discounts = s.discounts
    BY <1>1 DEF Subscription
  <2> HIDE DEF r
  <2>3. r.adjusted >= s.adjusted /\ Suits(u, r) /\ Dated(r, today)
    BY <1>1, <2>2 DEF Suits, Dated, Subscriber
  <2>4. Subscriber(db, u, r, today)
    BY <1>1, <2>2, <2>3, ColumnsChange
  <2>5. IInv'
    BY <1>2, <1>4, <2>1, <2>2, <2>4, ColumnsMove DEF IInv
  <2>6. sub'[u] = r
    BY <2>1 DEF IInv
  <2> QED BY <1>2, <1>4, <2>1, <2>2, <2>5, <2>6 DEF s
<1> QED BY <1>3, <1>4 DEF Activates

-----------------------------------------------------------------------------
(* Every step keeps the invariant, when a request carries today's date.    *)

\* One case for each action.
LEMMA NextKeeps ==
    ASSUME LateDates = FALSE, IInv, [Next]_vars
    PROVE  IInv'
<1>1. \A day \in Dates : day = today
  BY DEF Dates
<1>2. CASE Midnight
  BY <1>2, MidnightKeeps
<1>3. ASSUME NEW u \in Subscribers, NEW plan \in Plans, NEW day \in Dates,
             \/ SetPlanResumes(u, plan, day) \/ SetPlanUpgrades(u, plan, day)
             \/ SetPlanSubscribes(u, plan, day) \/ SetPlanChanges(u, plan, day)
      PROVE  IInv'
  <2>1. day = today
    BY <1>1
  <2> QED BY <1>3, <2>1, SetPlanResumesKeeps, SetPlanUpgradesKeeps, SetPlanSubscribesKeeps,
             SetPlanChangesKeeps
<1>4. ASSUME NEW u \in Subscribers, NEW day \in Dates,
             Cancel(u, day) \/ Resume(u, day) \/ Check(u, day)
      PROVE  IInv'
  <2>1. day = today
    BY <1>1
  <2>2. CASE Cancel(u, day) \/ Resume(u, day)
    BY <2>1, <2>2, CancelKeeps, ResumeKeeps
  <2>3. CASE CheckCancels(u, day) \/ CheckRenews(u, day) \/ CheckExpires(u, day)
    BY <2>1, <2>3, CheckCancelsKeeps, CheckRenewsKeeps, CheckExpiresKeeps
  <2>4. CASE CheckRestarts(u, day) \/ CheckResumes(u, day)
    BY <2>1, <2>4, CheckRestartsKeeps, CheckResumesKeeps DEF Restarts
  <2> QED BY <1>4, <2>2, <2>3, <2>4 DEF Check
<1>5. ASSUME NEW u \in Subscribers, NEW cadence \in Briefing, SetJadeCadence(u, cadence)
      PROVE  IInv'
  BY <1>5, SetJadeCadenceKeeps
<1>6. ASSUME NEW u \in Subscribers, NEW amount \in TopUpAmounts, NEW k \in TopUps,
             TopsUp(u, amount, k)
      PROVE  IInv'
  BY <1>6, TopsUpKeeps
<1>7. ASSUME NEW u \in Subscribers, NEW a \in Addresses,
             Verifies(u, a) \/ UnsubscribeReads(u, a) \/ UnsubscribeCommits(u, a)
      PROVE  IInv'
  BY <1>7, VerifiesKeeps, UnsubscribeCommitsKeeps
<1>8. ASSUME NEW u \in Subscribers, NEW a \in Bouncing, Bounces(u, a) PROVE IInv'
  BY <1>8, BouncesKeeps
<1>9. ASSUME NEW u \in Subscribers, Activates(u) PROVE IInv'
  BY <1>9, ActivatesKeeps
<1>10. CASE UNCHANGED vars
  BY <1>10 DEF IInv, vars
<1> QED BY <1>2, <1>3, <1>4, <1>5, <1>6, <1>7, <1>8, <1>9, <1>10 DEF Next

\* The invariant holds in every reachable state.
LEMMA Invariant == ASSUME LateDates = FALSE PROVE Spec => []IInv
<1>1. Init => IInv
  BY InitKeeps
<1>2. IInv /\ [Next]_vars => IInv'
  BY NextKeeps
<1> QED BY <1>1, <1>2, PTL DEF Spec

-----------------------------------------------------------------------------
(* What it gives.                                                          *)

\* The columns that suit each other are CadenceMatchesType.
LEMMA CadencesMatch == IInv => CadenceMatchesType
<1> SUFFICES ASSUME IInv PROVE CadenceMatchesType
  OBVIOUS
<1>1. TypeOK
  BY DEF IInv, TypeOK, Books, Sound
<1>2. \A u \in Subscribers : Suits(u, sub[u])
  BY DEF IInv, Subscriber
<1> QED BY <1>1, <1>2 DEF CadenceMatchesType, Suits

\* Each subscriber's period is paid.
LEMMA PeriodsPaid == IInv => PeriodsArePaid
BY DEF IInv, Subscriber, PeriodPaid, PeriodsArePaid, CurrentCharge, CurrentReturn

\* Each subscriber's ledger adds up.
LEMMA AllAddsUp == IInv => ChargesAddUp
<1> SUFFICES ASSUME IInv PROVE ChargesAddUp
  OBVIOUS
<1>1. \A u \in Subscribers : Ledger(db, u, sub[u].discounts) /\ Rewarded(db, u)
  BY DEF IInv, Subscriber
<1>2. ReturnsWithinCharge
  BY <1>1 DEF Ledger, ReturnsOf, ReturnsWithinCharge
<1>3. DiscountsAreCharged
  BY <1>1 DEF Ledger, Discounted, DiscountsAreCharged
<1>4. FirstChargeRewardsReferrer
  BY <1>1 DEF Rewarded, FirstChargeRewardsReferrer
<1> QED BY <1>2, <1>3, <1>4 DEF ChargesAddUp

\* Whatever the plans, fees, months and users, while requests carry the day
\* they are handled on: the cadence on which reports go out follows the
\* subscription through set_plan, cancel, resume, the scheduled check, the
\* unsubscribe link and the launch.
THEOREM CadencesFollow == ASSUME LateDates = FALSE PROVE Spec => []CadenceMatchesType
<1>1. Spec => []IInv
  BY Invariant
<1>2. IInv => CadenceMatchesType
  BY CadencesMatch
<1> QED BY <1>1, <1>2, PTL

\* Every active briefing period has a charge of its own of the plan's fee in
\* the ledger, which was not given back: no key of set_plan, a renewal or the
\* launch is one that consume_credits has already taken.
THEOREM PeriodsStayPaid == ASSUME LateDates = FALSE PROVE Spec => []PeriodsArePaid
<1>1. Spec => []IInv
  BY Invariant
<1>2. IInv => PeriodsArePaid
  BY PeriodsPaid
<1> QED BY <1>1, <1>2, PTL

\* What _charge_period, return_subscription_credits and
\* referral_subscription_bonus write adds up: a return stays within its charge
\* on each account, the discounted Jade periods are those charged at the
\* discount, and a referrer has the first charge's bonus exactly once.
THEOREM LedgerAddsUp == ASSUME LateDates = FALSE PROVE Spec => []ChargesAddUp
<1>1. Spec => []IInv
  BY Invariant
<1>2. IInv => ChargesAddUp
  BY AllAddsUp
<1> QED BY <1>1, <1>2, PTL

-----------------------------------------------------------------------------
(* Subscribers get what they are promised.                                 *)

\* A transaction of one user leaves the others' service alone.
LEMMA OnlyOne ==
    ASSUME IInv, NEW u \in Subscribers, sub' = [sub EXCEPT ![u] = sub'[u]],
           \A v \in Users \ {u} : CreditsOf(db', v) >= CreditsOf(db, v)
    PROVE  Promise!Only(u)
<1>1. Subscribers \subseteq Users
  BY SubscriptionAssumption
<1>2. ASSUME NEW v \in Subscribers \ {u}
      PROVE  sub'[v] = sub[v] /\ Service(v)' = Service(v) /\ Credits(v)' >= Credits(v)
  <2>1. sub'[v] = sub[v]
    BY DEF IInv
  <2>2. Service(v)' = Service(v)
    BY <2>1 DEF Service
  <2>3. Credits(v)' >= Credits(v)
    BY <1>1 DEF Credits, CreditsOf
  <2> QED BY <2>1, <2>2, <2>3
<1> QED BY <1>2 DEF Promise!Only

\* A new period never ends before the one it replaces.
LEMMA EndsNoEarlier ==
    ASSUME IInv, NEW u \in Subscribers
    PROVE  NextExpiry(today, DayOfMonth(today)) >= sub[u].expiry
<1> DEFINE s == sub[u]
<1>1. /\ s.start \in Nat /\ s.expiry \in Nat /\ s.anchor \in Nat /\ Dated(s, today)
      /\ today \in Days /\ today \in Nat /\ today <= LastDay /\ LastDay \in Nat
  BY DayTypes DEF IInv, Subscriber, Subscription
<1> HIDE DEF s
<1>2. CASE s.status = "active"
  <2>1. /\ s.start \in Days /\ s.start <= today /\ s.anchor >= 1
        /\ OnAnchor(s.start, s.anchor, today) /\ s.expiry = NextExpiry(s.start, s.anchor)
    BY <1>1, <1>2 DEF Dated, Days
  <2>2. NextExpiry(today, DayOfMonth(today)) >= NextExpiry(s.start, s.anchor)
    BY <1>1, <2>1, NextExpiryGrows
  <2> QED BY <2>1, <2>2 DEF s
<1>3. CASE s.status # "active"
  <2>1. NextExpiry(today, DayOfMonth(today)) > today
        /\ NextExpiry(today, DayOfMonth(today)) \in Nat
    BY <1>1, DayOfMonthType, NextExpiryLater
  <2>2. s.expiry < today
    BY <1>1, <1>3 DEF Dated
  <2>3. NextExpiry(today, DayOfMonth(today)) >= s.expiry
    BY <1>1, <2>1, <2>2
  <2> QED BY <2>3 DEF s
<1> QED BY <1>2, <1>3

\* What a user asks for and gets.
Adjusts(u) ==
    /\ sub[u].adjusted # today /\ sub' = [sub EXCEPT ![u] = sub'[u]]
    /\ sub'[u].status = "active" /\ sub'[u].adjusted = today
    /\ \/ sub'[u].expiry = sub[u].expiry
       \/ sub'[u].expiry = NextExpiry(today, DayOfMonth(today))
    /\ \A v \in Users \ {u} : CreditsOf(db', v) >= CreditsOf(db, v)
    /\ today' = today

\* It is an adjustment of the promise.
LEMMA AdjustsIsUserAdjusts ==
    ASSUME IInv, IInv', NEW u \in Subscribers, Adjusts(u)
    PROVE  Promise!UserAdjusts(u)
<1>1. Promise!Only(u)
  BY OnlyOne DEF Adjusts
<1>2. Service(u)' \in {"running", "ending"}
  <2>1. sub'[u].pending \in BOOLEAN
    BY DEF IInv, Subscription
  <2> QED BY <2>1 DEF Service, Adjusts
<1>3. \/ sub'[u].expiry = sub[u].expiry
      \/ sub'[u].expiry > sub[u].expiry /\ sub'[u].expiry >= today
  <2>1. /\ sub'[u].expiry \in Nat /\ sub[u].expiry \in Nat /\ today \in Nat /\ today \in Days
    BY DayTypes DEF IInv, Subscription
  <2>2. CASE sub'[u].expiry = sub[u].expiry
    BY <2>2
  <2>3. CASE sub'[u].expiry = NextExpiry(today, DayOfMonth(today))
    <3>1. NextExpiry(today, DayOfMonth(today)) > today
      BY <2>1, DayOfMonthType, NextExpiryLater
    <3>2. sub'[u].expiry >= sub[u].expiry
      BY <2>3, EndsNoEarlier
    <3> QED BY <2>1, <2>3, <3>1, <3>2
  <2> QED BY <2>2, <2>3 DEF Adjusts
<1>4. sub[u].adjusted # today /\ sub'[u].adjusted = today /\ today' = today
  BY DEF Adjusts
<1> QED BY <1>1, <1>2, <1>3, <1>4 DEF Promise!UserAdjusts

\* What the scheduler, or the launch, extends it charges.
LEMMA ChargesForService ==
    ASSUME IInv, IInv', NEW u \in Subscribers, NEW fee \in Nat, fee >= 1,
           \/ sub[u].status \in {"inactive", "expired"}
           \/ Overdue(sub[u], today) /\ ~sub[u].pending,
           sub' = [sub EXCEPT ![u] = sub'[u]], sub'[u].status = "active",
           sub'[u].pending = FALSE, sub'[u].adjusted = sub[u].adjusted,
           sub'[u].expiry >= today,
           Elsewhere(db, db', u), CreditsOf(db', u) = CreditsOf(db, u) - fee, today' = today
    PROVE  Promise!Charges(u)
<1>1. Promise!Only(u)
  BY OnlyOne DEF Elsewhere
<1>2. /\ sub'[u].expiry \in Nat /\ sub[u].expiry \in Nat /\ today \in Nat
      /\ Dated(sub[u], today) /\ u \in Users /\ Books(db)
  BY SubscriptionAssumption, DayTypes DEF IInv, Subscriber, Subscription
<1>3. sub'[u].expiry > sub[u].expiry
  <2>1. sub[u].expiry < today
    BY <1>2 DEF Dated, Overdue
  <2> QED BY <1>2, <2>1
<1>4. Credits(u)' < Credits(u)
  <2>1. CreditsOf(db, u) \in Int
    BY <1>2, BalanceTypes
  <2>2. CreditsOf(db', u) < CreditsOf(db, u)
    BY <2>1
  <2> QED BY <2>2 DEF Credits, CreditsOf
<1>5. Service(u)' = "running"
  BY DEF Service
<1>6. \/ Service(u) \in {"never", "lapsed"}
      \/ Service(u) = "running" /\ today > sub[u].expiry
  BY DEF Service, Overdue
<1> QED BY <1>1, <1>3, <1>4, <1>5, <1>6 DEF Promise!Charges, Promise!Over

\* A step that nobody's service shows.
LEMMA NoServiceChanges ==
    ASSUME IInv, IInv', today' = today, db' = db,
           \A v \in Subscribers : /\ Service(v)' = Service(v) /\ sub'[v].expiry = sub[v].expiry
                                  /\ sub'[v].adjusted = sub[v].adjusted
    PROVE  UNCHANGED Promise!vars
<1>1. \A v \in Subscribers : Credits(v)' = Credits(v)
  BY DEF Credits
<1> QED BY <1>1 DEF Promise!vars

\* A user's request is an adjustment.
LEMMA RequestsAdjust ==
    ASSUME IInv, NEW u \in Subscribers, NEW plan \in Plans,
           \/ SetPlanResumes(u, plan, today) \/ SetPlanUpgrades(u, plan, today)
           \/ SetPlanSubscribes(u, plan, today) \/ SetPlanChanges(u, plan, today)
           \/ Cancel(u, today) \/ Resume(u, today)
    PROVE  Adjusts(u)
<1>1. \A v \in Users \ {u} : CreditsOf(db, v) >= CreditsOf(db, v)
  BY NothingYet DEF Elsewhere
<1>2. ASSUME NEW b \in BOOLEAN, sub[u].status = "active", sub[u].adjusted # today, db' = db,
             sub' = [sub EXCEPT ![u].pending = b, ![u].adjusted = today], today' = today
      PROVE  Adjusts(u)
  <2> DEFINE x == [sub[u] EXCEPT !.pending = b]
             r == [x EXCEPT !.adjusted = today]
  <2>1. sub' = [sub EXCEPT ![u] = r] /\ sub'[u] = r
    BY <1>2 DEF IInv
  <2>2. sub[u] \in Subscription /\ x \in Subscription
        /\ x.status = sub[u].status /\ x.expiry = sub[u].expiry
    BY ZenonT(40) DEF IInv, Subscription
  <2> HIDE DEF x
  <2>3. r.status = sub[u].status /\ r.expiry = sub[u].expiry /\ r.adjusted = today
    BY <2>2 DEF Subscription
  <2> HIDE DEF r
  <2> QED BY <1>1, <1>2, <2>1, <2>3 DEF Adjusts
<1>3. CASE SetPlanResumes(u, plan, today)
  BY <1>2, <1>3, PlanActions DEF SetPlanResumes, MayAdjust
<1>4. CASE Cancel(u, today)
  BY <1>2, <1>4 DEF Cancel, MayAdjust
<1>5. CASE Resume(u, today)
  BY <1>2, <1>5 DEF Resume, MayAdjust
<1>6. CASE SetPlanUpgrades(u, plan, today)
  <2>1. sub'[u].status = "active" /\ sub'[u].adjusted = today
        /\ sub'[u].expiry = NextExpiry(today, DayOfMonth(today))
    BY <1>6, SetPlanUpgradesKeeps
  <2>2. sub' = [sub EXCEPT ![u] = sub'[u]]
    BY <1>6 DEF SetPlanUpgrades, IInv
  <2> QED BY <1>1, <1>6, <2>1, <2>2 DEF SetPlanUpgrades, MayAdjust, Adjusts
<1>7. CASE SetPlanSubscribes(u, plan, today)
  BY <1>7, SetPlanSubscribesKeeps DEF SetPlanSubscribes, MayAdjust, Adjusts, Elsewhere
<1>8. CASE SetPlanChanges(u, plan, today)
  BY <1>8, SetPlanChangesKeeps DEF SetPlanChanges, MayAdjust, Adjusts, Elsewhere
<1> QED BY <1>3, <1>4, <1>5, <1>6, <1>7, <1>8

\* A fresh period of the scheduler is a charge of the promise.
LEMMA RestartsCharge ==
    ASSUME IInv, NEW u \in Subscribers, Restarts(u), today' = today,
           \/ sub[u].status \in {"inactive", "expired"}
           \/ Overdue(sub[u], today) /\ ~sub[u].pending
    PROVE  Promise!Charges(u)
<1>1. PICK plan \in Plans : CreditsOf(db', u) = CreditsOf(db, u) - PlanFee(sub[u], plan)
  BY DEF Restarts
<1>2. PlanFee(sub[u], plan) \in Nat /\ PlanFee(sub[u], plan) >= 1
  BY PlanFeeType
<1>3. sub'[u].expiry >= today
  <2>1. sub'[u].expiry \in Nat /\ today \in Nat
    BY DayTypes DEF Restarts, IInv, Subscription
  <2> QED BY <2>1 DEF Restarts
<1> QED BY <1>1, <1>2, <1>3, ChargesForService DEF Restarts

\* The scheduled check extends the service for credits, or takes it away.
LEMMA ChecksAsPromised ==
    ASSUME IInv, NEW u \in Subscribers, Check(u, today)
    PROVE  Promise!Charges(u) \/ Promise!Withdraws(u)
<1>1. CASE CheckRestarts(u, today)
  <2>1. Overdue(sub[u], today) /\ ~sub[u].pending /\ today' = today
    BY <1>1 DEF CheckRestarts, Renewable
  <2> QED BY <1>1, <2>1, CheckRestartsKeeps, RestartsCharge
<1>2. CASE CheckResumes(u, today)
  <2>1. sub[u].status \in {"inactive", "expired"} /\ today' = today
    BY <1>2 DEF CheckResumes
  <2> QED BY <1>2, <2>1, CheckResumesKeeps, RestartsCharge
<1>3. CASE CheckRenews(u, today)
  <2>1. Overdue(sub[u], today) /\ ~sub[u].pending /\ today' = today /\ sub[u].type \in Plans
    BY <1>3, OverdueIsPast DEF CheckRenews, Renewable
  <2>2. PlanFee(sub[u], sub[u].type) \in Nat /\ PlanFee(sub[u], sub[u].type) >= 1
    BY <2>1, PlanFeeType
  <2>3. /\ IInv' /\ sub' = [sub EXCEPT ![u] = sub'[u]] /\ sub'[u].status = "active"
        /\ sub'[u].expiry >= today /\ sub'[u].adjusted = sub[u].adjusted
        /\ sub'[u].pending = FALSE /\ Elsewhere(db, db', u)
        /\ CreditsOf(db', u) = CreditsOf(db, u) - PlanFee(sub[u], sub[u].type)
    BY <1>3, CheckRenewsKeeps
  <2> QED BY <2>1, <2>2, <2>3, ChargesForService
<1>4. ASSUME NEW r, sub' = [sub EXCEPT ![u] = r], r.expiry = sub[u].expiry,
             r.adjusted = sub[u].adjusted, Overdue(sub[u], today), db' = db, today' = today,
             \/ r.status = "cancelled"
             \/ r.status = "expired" /\ ~sub[u].pending
      PROVE  Promise!Withdraws(u)
  <2> DEFINE service == [v \in Subscribers |-> Service(v)]
             how == IF r.status = "cancelled" THEN "ended" ELSE "lapsed"
  <2>1. sub'[u] = r /\ \A v \in Subscribers \ {u} : sub'[v] = sub[v]
    BY <1>4 DEF IInv
  <2>2. \A v \in Subscribers : /\ sub'[v].expiry = sub[v].expiry
                               /\ sub'[v].adjusted = sub[v].adjusted /\ Credits(v)' = Credits(v)
    BY <1>4, <2>1 DEF Credits
  <2>3. Service(u)' = how
    BY <1>4, <2>1 DEF Service
  <2>4. \A v \in Subscribers \ {u} : Service(v)' = Service(v)
    BY <2>1 DEF Service
  <2>5. service' = [service EXCEPT ![u] = how]
    BY <2>3, <2>4
  <2>6. /\ service[u] \in {"running", "ending"} /\ today > sub[u].expiry
        /\ how \in {"lapsed", "ended"} /\ (how = "lapsed" => service[u] = "running")
    BY <1>4 DEF Service, Overdue
  <2> HIDE DEF how
  <2>7. Promise!Over(u)
    BY <2>6 DEF Promise!Over
  <2> QED BY ZenonT(40), <1>4, <2>2, <2>5, <2>6, <2>7 DEF Promise!Withdraws
<1>5. CASE CheckCancels(u, today)
  <2> DEFINE r == [sub[u] EXCEPT !.status = "cancelled", !.type = None, !.cadence = None,
                                 !.pending = FALSE]
  <2>1. sub' = [sub EXCEPT ![u] = r]
    BY <1>5 DEF CheckCancels, IInv
  <2>2. r.expiry = sub[u].expiry /\ r.adjusted = sub[u].adjusted /\ r.status = "cancelled"
    BY DEF IInv, Subscription
  <2> HIDE DEF r
  <2> QED BY <1>4, <1>5, <2>1, <2>2 DEF CheckCancels
<1>6. CASE CheckExpires(u, today)
  <2> DEFINE r == [sub[u] EXCEPT !.status = "expired"]
  <2>1. sub' = [sub EXCEPT ![u] = r]
    BY <1>6 DEF CheckExpires, IInv
  <2>2. r.expiry = sub[u].expiry /\ r.adjusted = sub[u].adjusted /\ r.status = "expired"
    BY DEF IInv, Subscription
  <2> HIDE DEF r
  <2> QED BY <1>4, <1>6, <2>1, <2>2 DEF CheckExpires, Renewable
<1> QED BY <1>1, <1>2, <1>3, <1>5, <1>6 DEF Check

\* An unsubscribe that ends verification ends the service, or finds it over.
LEMMA UnsubscribeAsPromised ==
    ASSUME IInv, IInv', NEW u \in Subscribers, NEW a \in Addresses, UnsubscribeCommits(u, a)
    PROVE  Promise!Leaves(u) \/ UNCHANGED Promise!vars
<1> DEFINE r == IF leaving[u][a] = "leaves" THEN sub[u] ELSE [sub[u] EXCEPT !.pending = TRUE]
           service == [v \in Subscribers |-> Service(v)]
<1>1. sub' = [sub EXCEPT ![u] = r] /\ db' = db /\ today' = today
  BY DEF UnsubscribeCommits, IInv
<1>2. /\ r.status = sub[u].status /\ r.expiry = sub[u].expiry /\ r.adjusted = sub[u].adjusted
      /\ r.pending = sub[u].pending \/ r.pending = TRUE
  BY ZenonT(40) DEF IInv, Subscription
<1>3. sub[u].pending \in BOOLEAN
  BY DEF IInv, Subscription
<1> HIDE DEF r
<1>4. sub'[u] = r /\ \A v \in Subscribers \ {u} : sub'[v] = sub[v]
  BY <1>1 DEF IInv
<1>5. \A v \in Subscribers : /\ sub'[v].expiry = sub[v].expiry
                             /\ sub'[v].adjusted = sub[v].adjusted /\ Credits(v)' = Credits(v)
  BY <1>1, <1>2, <1>4 DEF Credits
<1>6. \A v \in Subscribers \ {u} : Service(v)' = Service(v)
  BY <1>4 DEF Service
<1>7. Service(u)' = Service(u) \/ (Service(u) = "running" /\ Service(u)' = "ending")
  BY <1>2, <1>3, <1>4 DEF Service
<1>8. CASE Service(u)' = Service(u)
  <2>1. \A v \in Subscribers : Service(v)' = Service(v)
    BY <1>6, <1>8
  <2> QED BY <1>1, <1>5, <2>1, NoServiceChanges
<1>9. CASE Service(u) = "running" /\ Service(u)' = "ending"
  <2>1. service' = [service EXCEPT ![u] = "ending"] /\ service[u] = "running"
    BY <1>6, <1>9
  <2> QED BY <1>1, <1>5, <2>1 DEF Promise!Leaves
<1> QED BY <1>7, <1>8, <1>9

\* The launch charges for a first period, or nobody sees it.
LEMMA LaunchAsPromised ==
    ASSUME IInv, IInv', NEW u \in Subscribers, Activates(u)
    PROVE  Promise!Charges(u) \/ UNCHANGED Promise!vars
<1>1. sub[u].status = "inactive" /\ today' = today
  BY DEF Activates
<1>2. CASE Restarts(u)
  BY <1>1, <1>2, RestartsCharge
<1>3. CASE /\ db' = db /\ sub' = [sub EXCEPT ![u] = sub'[u]]
           /\ sub'[u].status = sub[u].status
           /\ sub'[u].expiry = sub[u].expiry /\ sub'[u].adjusted = sub[u].adjusted
  <2>1. \A v \in Subscribers \ {u} : sub'[v] = sub[v]
    BY <1>3 DEF IInv
  <2>2. \A v \in Subscribers : /\ sub'[v].expiry = sub[v].expiry
                               /\ sub'[v].adjusted = sub[v].adjusted
    BY <1>3, <2>1
  <2>3. \A v \in Subscribers : Service(v)' = Service(v)
    BY <1>1, <1>3, <2>1 DEF Service
  <2> QED BY <1>1, <1>3, <2>2, <2>3, NoServiceChanges
<1> QED BY <1>2, <1>3, ActivatesKeeps

\* Every step is one of the promise, or one that it does not see.
LEMMA NextAsPromised ==
    ASSUME LateDates = FALSE, IInv, IInv', [Next]_vars
    PROVE  [Promise!Next]_(Promise!vars)
<1>1. \A day \in Dates : day = today
  BY DEF Dates
<1>2. CASE Midnight
  <2>1. /\ today' = today + 1
        /\ \A v \in Subscribers : Service(v)' = Service(v) /\ Credits(v)' = Credits(v)
    BY <1>2 DEF Midnight, Service, Credits
  <2>2. Promise!DayPasses
    BY <1>2, <2>1 DEF Midnight, Promise!DayPasses
  <2> QED BY <2>2 DEF Promise!Next
<1>3. ASSUME NEW u \in Subscribers, NEW plan \in Plans, NEW day \in Dates,
             \/ SetPlanResumes(u, plan, day) \/ SetPlanUpgrades(u, plan, day)
             \/ SetPlanSubscribes(u, plan, day) \/ SetPlanChanges(u, plan, day)
      PROVE  Promise!Next
  <2>1. Adjusts(u)
    BY <1>1, <1>3, RequestsAdjust
  <2> QED BY <2>1, AdjustsIsUserAdjusts DEF Promise!Next
<1>4. ASSUME NEW u \in Subscribers, NEW day \in Dates, Cancel(u, day) \/ Resume(u, day)
      PROVE  Promise!Next
  <2>1. Jade \in Plans
    BY DEF Plans
  <2>2. Adjusts(u)
    BY <1>1, <1>4, <2>1, RequestsAdjust
  <2> QED BY <2>2, AdjustsIsUserAdjusts DEF Promise!Next
<1>5. ASSUME NEW u \in Subscribers, NEW day \in Dates, Check(u, day)
      PROVE  Promise!Next
  BY <1>1, <1>5, ChecksAsPromised DEF Promise!Next
<1>6. ASSUME NEW u \in Subscribers, NEW cadence \in Briefing, SetJadeCadence(u, cadence)
      PROVE  UNCHANGED Promise!vars
  <2>1. db' = db /\ today' = today /\ sub' = [sub EXCEPT ![u].cadence = cadence]
    BY <1>6 DEF SetJadeCadence
  <2>2. \A v \in Subscribers :
            /\ sub'[v].status = sub[v].status /\ sub'[v].pending = sub[v].pending
            /\ sub'[v].expiry = sub[v].expiry /\ sub'[v].adjusted = sub[v].adjusted
    BY <2>1 DEF IInv, Subscription
  <2>3. \A v \in Subscribers : Service(v)' = Service(v)
    BY <2>2 DEF Service
  <2> QED BY <2>1, <2>2, <2>3, NoServiceChanges
<1>7. ASSUME NEW u \in Subscribers, NEW amount \in TopUpAmounts, NEW k \in TopUps,
             TopsUp(u, amount, k)
      PROVE  Promise!Next
  <2>1. sub' = sub /\ today' = today
    BY <1>7 DEF TopsUp
  <2>2. sub' = [sub EXCEPT ![u] = sub'[u]]
    BY <2>1 DEF IInv
  <2>3. /\ Credits(u)' > Credits(u)
        /\ \A v \in Users \ {u} : CreditsOf(db', v) >= CreditsOf(db, v)
    BY <1>7, TopsUpKeeps
  <2>4. Promise!Only(u)
    BY <2>2, <2>3, OnlyOne
  <2>5. \A v \in Subscribers : Service(v)' = Service(v)
    BY <2>1 DEF Service
  <2>6. Promise!CreditsArrive(u)
    BY <2>1, <2>3, <2>4, <2>5 DEF Promise!CreditsArrive
  <2> QED BY <2>6 DEF Promise!Next
<1>8. ASSUME db' = db, sub' = sub, today' = today PROVE UNCHANGED Promise!vars
  <2>1. \A v \in Subscribers : Service(v)' = Service(v)
    BY <1>8 DEF Service
  <2> QED BY <1>8, <2>1, NoServiceChanges
<1>9. ASSUME NEW u \in Subscribers, NEW a \in Addresses,
             Verifies(u, a) \/ UnsubscribeReads(u, a) \/ UnsubscribeCommits(u, a)
      PROVE  Promise!Next \/ UNCHANGED Promise!vars
  <2>1. CASE UnsubscribeCommits(u, a)
    BY <2>1, UnsubscribeAsPromised DEF Promise!Next
  <2>2. CASE Verifies(u, a) \/ UnsubscribeReads(u, a)
    BY <1>8, <2>2 DEF Verifies, UnsubscribeReads
  <2> QED BY <1>9, <2>1, <2>2
<1>10. ASSUME NEW u \in Subscribers, NEW a \in Bouncing, Bounces(u, a)
       PROVE  UNCHANGED Promise!vars
  <2>1. db' = db /\ sub' = sub /\ today' = today
    BY <1>10 DEF Bounces
  <2> QED BY <1>8, <2>1
<1>11. ASSUME NEW u \in Subscribers, Activates(u) PROVE Promise!Next \/ UNCHANGED Promise!vars
  BY <1>11, LaunchAsPromised DEF Promise!Next
<1>12. CASE UNCHANGED vars
  BY <1>8, <1>12 DEF vars
<1> QED BY <1>2, <1>3, <1>4, <1>5, <1>6, <1>7, <1>9, <1>10, <1>11, <1>12 DEF Next

\* Nobody is served at first.
LEMMA InitAsPromised == ASSUME Init PROVE Promise!Init
<1>1. \A u \in Subscribers :
          /\ sub[u].expiry = 0 /\ sub[u].adjusted = 0 /\ sub[u].status = "inactive"
          /\ Credits(u) \in Nat
  <2>1. \A u \in Subscribers :
            sub[u].expiry = 0 /\ sub[u].adjusted = 0 /\ sub[u].status = "inactive"
    BY DEF Init
  <2>2. ASSUME NEW u \in Subscribers PROVE Credits(u) \in Nat
    <3>1. u \in Users /\ Books(db)
      BY InitRows, SubscriptionAssumption
    <3>2. CreditsOf(db, u) \in Int /\ CreditsOf(db, u) >= 0
      BY <3>1, BalanceTypes
    <3> QED BY <3>2 DEF Credits, CreditsOf
  <2> QED BY <2>1, <2>2
<1>2. \A u \in Subscribers : Service(u) = "never"
  BY <1>1 DEF Service
<1>3. today = 1
  BY DEF Init
<1> QED BY <1>1, <1>2, <1>3 DEF Promise!Init

\* The subscriptions implement SubscriptionPromise, whatever the plans, fees,
\* months and users: set_plan, cancel and resume never shorten what is paid
\* for, and the scheduled check takes service away only after its end, and
\* extends it only by charging, never for a user who has left.
THEOREM PromiseIsKept == ASSUME LateDates = FALSE PROVE Spec => PromiseKept
<1>1. Spec => []IInv
  BY Invariant
<1>2. Init => Promise!Init
  BY InitAsPromised
<1>3. IInv /\ IInv' /\ [Next]_vars => [Promise!Next]_(Promise!vars)
  BY NextAsPromised
<1> QED BY <1>1, <1>2, <1>3, PTL DEF Spec, PromiseKept, Promise!Spec
=============================================================================
