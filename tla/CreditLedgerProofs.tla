------------------------- MODULE CreditLedgerProofs -------------------------
(***************************************************************************)
(* Facts about the operators of CreditLedger: what a sum of rows is, and   *)
(* what one post does to the tables.                                       *)
(*                                                                         *)
(* Sum is a recursive function, and the library's theorems on recursive    *)
(* definitions take operators as arguments.  Induction is done here on the *)
(* set of the numbers a fact holds of, from the well-foundedness of <.     *)
(***************************************************************************)
EXTENDS CreditLedger, TLAPS, SequenceTheorems, WellFoundedInduction

\* A set of naturals with 0 and every successor is all of them: what stands
\* for induction in the proofs about services/credit_ledger.py's sums.
LEMMA NatSetInduction ==
    ASSUME NEW S \in SUBSET Nat, 0 \in S, \A n \in S : n + 1 \in S
    PROVE  S = Nat
<1> DEFINE rest == Nat \ S
<1> SUFFICES ASSUME rest # {} PROVE FALSE
    OBVIOUS
<1>1. PICK n \in rest : \A m \in rest : ~(<<m, n>> \in OpToRel(<, Nat))
    <2>1. IsWellFoundedOn(OpToRel(<, Nat), Nat)
        BY NatLessThanWellFounded
    <2> QED
        BY <2>1, WFMin, Zenon
<1>2. n \in Nat /\ n # 0
    OBVIOUS
<1>3. n - 1 \in Nat /\ n - 1 < n
    BY <1>2
<1>4. n - 1 \notin rest
    BY <1>1, <1>2, <1>3 DEF OpToRel
<1>5. n - 1 \in S
    BY <1>3, <1>4
<1>6. (n - 1) + 1 \in S
    BY <1>5
<1> QED
    BY <1>2, <1>6

\* The sums of the first 0, 1, ..., n entries of a sequence.
PartialSums(q, n) ==
    {f \in [0..n -> Int] : f[0] = 0 /\ \A i \in 1..n : f[i] = f[i - 1] + q[i]}

\* Partial sums can be continued by one entry.
LEMMA PartialSumsStep ==
    ASSUME NEW q, NEW n \in Nat, q[n + 1] \in Int, NEW f \in PartialSums(q, n)
    PROVE  [i \in 0..(n + 1) |-> IF i = n + 1 THEN f[n] + q[n + 1] ELSE f[i]]
                \in PartialSums(q, n + 1)
<1> DEFINE g == [i \in 0..(n + 1) |-> IF i = n + 1 THEN f[n] + q[n + 1] ELSE f[i]]
<1>1. f \in [0..n -> Int]
    BY DEF PartialSums
<1>2. g \in [0..(n + 1) -> Int]
    BY <1>1
<1>3. g[0] = 0
    BY DEF PartialSums
<1>4. ASSUME NEW i \in 1..(n + 1) PROVE g[i] = g[i - 1] + q[i]
    <2>1. CASE i = n + 1
        BY <2>1
    <2>2. CASE i # n + 1
        <3>1. i \in 1..n /\ i - 1 \in 0..n
            BY <2>2
        <3>2. f[i] = f[i - 1] + q[i]
            BY <3>1 DEF PartialSums
        <3> QED
            BY <2>2, <3>1, <3>2
    <2> QED
        BY <2>1, <2>2
<1> QED
    BY <1>2, <1>3, <1>4 DEF PartialSums

\* Every sequence of integers has partial sums.
LEMMA PartialSumsExist ==
    ASSUME NEW q \in Seq(Int)
    PROVE  \E f : f \in PartialSums(q, Len(q))
<1> DEFINE S == {n \in Nat : n <= Len(q) => \E f : f \in PartialSums(q, n)}
<1>1. 0 \in S
    <2>1. [i \in 0..0 |-> 0] \in PartialSums(q, 0)
        BY DEF PartialSums
    <2> QED
        BY <2>1
<1>2. ASSUME NEW n \in S PROVE n + 1 \in S
    <2> SUFFICES ASSUME n + 1 <= Len(q) PROVE \E f : f \in PartialSums(q, n + 1)
        OBVIOUS
    <2>1. n \in Nat /\ n <= Len(q) /\ q[n + 1] \in Int
        BY LenProperties, ElementOfSeq
    <2>2. PICK f : f \in PartialSums(q, n)
        BY <2>1
    <2> QED
        BY <2>1, <2>2, PartialSumsStep
<1> HIDE DEF S
<1>3. S = Nat
    BY <1>1, <1>2, NatSetInduction DEF S
<1>4. Len(q) \in Nat
    BY LenProperties
<1> QED
    BY <1>3, <1>4 DEF S

\* Sum is the last of the partial sums.
LEMMA SumIsLast ==
    ASSUME NEW q \in Seq(Int), NEW f \in PartialSums(q, Len(q))
    PROVE  Sum(q) = f[Len(q)]
<1> DEFINE Body(g) == [i \in 0..Len(q) |-> IF i = 0 THEN 0 ELSE g[i - 1] + q[i]]
           upTo == CHOOSE g : g = Body(g)
           S == {n \in Nat : n <= Len(q) => upTo[n] = f[n]}
<1>1. Sum(q) = upTo[Len(q)]
    BY DEF Sum
<1>2. f = Body(f)
    <2>1. f \in [0..Len(q) -> Int]
        BY DEF PartialSums
    <2>2. ASSUME NEW i \in 0..Len(q) PROVE f[i] = Body(f)[i]
        <3>1. Len(q) \in Nat
            BY LenProperties
        <3>2. CASE i = 0
            BY <3>2 DEF PartialSums
        <3>3. CASE i # 0
            BY <3>1, <3>3 DEF PartialSums
        <3> QED
            BY <3>2, <3>3
    <2> QED
        BY <2>1, <2>2
<1>3. upTo = Body(upTo)
    BY <1>2
<1> HIDE DEF upTo
<1>4. 0 \in S
    BY <1>3, LenProperties DEF PartialSums
<1>5. ASSUME NEW n \in S PROVE n + 1 \in S
    <2> SUFFICES ASSUME n + 1 <= Len(q) PROVE upTo[n + 1] = f[n + 1]
        OBVIOUS
    <2>1. n \in Nat /\ Len(q) \in Nat /\ upTo[n] = f[n]
        BY LenProperties
    <2>2. upTo[n + 1] = upTo[n] + q[n + 1]
        BY <1>3, <2>1
    <2>3. f[n + 1] = f[n] + q[n + 1]
        BY <1>2, <2>1
    <2> QED
        BY <2>1, <2>2, <2>3
<1> HIDE DEF S
<1>6. S = Nat
    BY <1>4, <1>5, NatSetInduction DEF S
<1>7. Len(q) \in Nat
    BY LenProperties
<1> QED
    BY <1>1, <1>6, <1>7 DEF S

-----------------------------------------------------------------------------
\* The sum of integers is an integer.
LEMMA SumType ==
    ASSUME NEW q \in Seq(Int)
    PROVE  Sum(q) \in Int
<1>1. PICK f : f \in PartialSums(q, Len(q))
    BY PartialSumsExist
<1>2. Sum(q) = f[Len(q)]
    BY <1>1, SumIsLast
<1> QED
    BY <1>1, <1>2, LenProperties DEF PartialSums

\* The sum of nothing is zero.
LEMMA SumEmpty == Sum(<<>>) = 0
<1>1. <<>> \in Seq(Int) /\ Len(<<>>) = 0
    OBVIOUS
<1>2. [i \in 0..0 |-> 0] \in PartialSums(<<>>, Len(<<>>))
    BY <1>1 DEF PartialSums
<1>3. Sum(<<>>) = [i \in 0..0 |-> 0][Len(<<>>)]
    BY <1>1, <1>2, SumIsLast, Zenon
<1> QED
    BY <1>1, <1>3

\* One more entry adds itself to the sum.
LEMMA SumAppend ==
    ASSUME NEW q \in Seq(Int), NEW x \in Int
    PROVE  Sum(Append(q, x)) = Sum(q) + x
<1> DEFINE n == Len(q)
           r == Append(q, x)
<1>1. n \in Nat /\ r \in Seq(Int) /\ Len(r) = n + 1 /\ r[n + 1] = x
          /\ \A i \in 1..n : r[i] = q[i]
    BY AppendProperties, LenProperties
<1>2. PICK f : f \in PartialSums(q, n)
    BY PartialSumsExist
<1>3. f \in PartialSums(r, n)
    BY <1>1, <1>2 DEF PartialSums
<1> DEFINE g == [i \in 0..(n + 1) |-> IF i = n + 1 THEN f[n] + r[n + 1] ELSE f[i]]
<1>4. g \in PartialSums(r, n + 1)
    BY <1>1, <1>3, PartialSumsStep
<1>5. Sum(q) = f[n]
    BY <1>2, SumIsLast
<1>6. Sum(r) = g[n + 1]
    BY <1>1, <1>4, SumIsLast
<1> QED
    BY <1>1, <1>5, <1>6

\* The amounts of an account's rows are a sequence of integers, and a row that
\* is appended appends its amount.
LEMMA AmountsAppend ==
    ASSUME NEW rows \in Seq(Row), NEW row \in Row
    PROVE  /\ Amounts(rows) \in Seq(Int)
           /\ Amounts(Append(rows, row)) = Append(Amounts(rows), row.amount)
<1> DEFINE n == Len(rows)
<1>1. n \in Nat /\ DOMAIN rows = 1..n
    BY LenProperties
<1>2. ASSUME NEW i \in 1..n PROVE rows[i].amount \in Int
    <2>1. rows[i] \in Row
        BY ElementOfSeq
    <2> QED
        BY <2>1 DEF Row
<1>3. Amounts(rows) \in Seq(Int) /\ Len(Amounts(rows)) = n
    BY <1>1, <1>2, IsASeq DEF Amounts
<1>4. row.amount \in Int
    BY DEF Row
<1>5. Append(rows, row) \in Seq(Row) /\ DOMAIN Append(rows, row) = 1..(n + 1)
          /\ Append(rows, row)[n + 1] = row
          /\ \A i \in 1..n : Append(rows, row)[i] = rows[i]
    BY <1>1, AppendProperties, LenProperties
<1>6. Amounts(Append(rows, row)) = Append(Amounts(rows), row.amount)
    BY <1>1, <1>3, <1>4, <1>5 DEF Amounts
<1> QED
    BY <1>3, <1>6

\* Sums keep the order of their entries.
LEMMA SumLe ==
    ASSUME NEW p \in Seq(Int), NEW q \in Seq(Int), Len(p) = Len(q),
           \A i \in 1..Len(q) : p[i] <= q[i]
    PROVE  Sum(p) <= Sum(q)
<1> DEFINE n == Len(q)
<1>1. PICK f : f \in PartialSums(p, n)
    BY PartialSumsExist
<1>2. PICK g : g \in PartialSums(q, n)
    BY PartialSumsExist
<1>3. /\ f \in [0..n -> Int] /\ g \in [0..n -> Int] /\ f[0] = 0 /\ g[0] = 0
      /\ \A i \in 1..n : f[i] = f[i - 1] + p[i] /\ g[i] = g[i - 1] + q[i]
    BY <1>1, <1>2 DEF PartialSums
<1>4. n \in Nat /\ \A i \in 1..n : p[i] \in Int /\ q[i] \in Int
    BY LenProperties, ElementOfSeq
<1> DEFINE S == {m \in Nat : m <= n => f[m] <= g[m]}
<1>5. 0 \in S
    BY <1>3
<1>6. ASSUME NEW m \in S PROVE m + 1 \in S
    <2> SUFFICES ASSUME m + 1 <= n PROVE f[m + 1] <= g[m + 1]
        OBVIOUS
    <2>1. m \in Nat /\ m \in 0..n /\ m + 1 \in 1..n /\ (m + 1) - 1 = m /\ f[m] <= g[m]
        BY <1>4
    <2>2. f[m] \in Int /\ g[m] \in Int
        BY <1>3, <2>1
    <2>3. f[m + 1] = f[m] + p[m + 1] /\ g[m + 1] = g[m] + q[m + 1] /\ p[m + 1] <= q[m + 1]
        BY <1>3, <2>1
    <2>4. p[m + 1] \in Int /\ q[m + 1] \in Int
        BY <1>4, <2>1
    <2> QED
        BY <2>1, <2>2, <2>3, <2>4
<1> HIDE DEF S
<1>7. S = Nat
    BY <1>5, <1>6, NatSetInduction DEF S
<1>8. f[n] <= g[n]
    BY <1>4, <1>7 DEF S
<1> QED
    BY <1>1, <1>2, <1>8, SumIsLast

\* What every entry of a sequence of integers is, its changes are too.
LEMMA ChangedSeq ==
    ASSUME NEW q \in Seq(Int), NEW k \in 1..Len(q), NEW x \in Int
    PROVE  LET r == [q EXCEPT ![k] = x] IN
           /\ r \in Seq(Int) /\ Len(r) = Len(q) /\ r[k] = x
           /\ \A i \in 1..Len(q) : i # k => r[i] = q[i]
    OBVIOUS

\* A changed entry changes the sum by the difference.
LEMMA SumChange ==
    ASSUME NEW q \in Seq(Int), NEW k \in 1..Len(q), NEW x \in Int
    PROVE  Sum([q EXCEPT ![k] = x]) = Sum(q) - q[k] + x
<1> DEFINE n == Len(q)
           r == [q EXCEPT ![k] = x]
<1>1. /\ r \in Seq(Int) /\ Len(r) = n /\ r[k] = x
      /\ \A i \in 1..n : i # k => r[i] = q[i]
    BY ChangedSeq
<1>2. PICK f : f \in PartialSums(q, n)
    BY PartialSumsExist
<1>3. n \in Nat /\ k \in Nat /\ \A i \in 1..n : q[i] \in Int
    BY LenProperties, ElementOfSeq
<1>4. f \in [0..n -> Int] /\ f[0] = 0 /\ \A i \in 1..n : f[i] = f[i - 1] + q[i]
    BY <1>2 DEF PartialSums
<1> DEFINE g == [i \in 0..n |-> IF i < k THEN f[i] ELSE f[i] - q[k] + x]
<1> HIDE DEF r
<1>5. g \in PartialSums(r, n)
    <2>1. g \in [0..n -> Int]
        BY <1>3, <1>4
    <2>2. g[0] = 0
        BY <1>3, <1>4
    <2>3. ASSUME NEW i \in 1..n PROVE g[i] = g[i - 1] + r[i]
        <3>1. f[i] = f[i - 1] + q[i] /\ i - 1 \in 0..n /\ i \in 0..n /\ f[i - 1] \in Int
            <4>1. i \in 1..n /\ i - 1 \in 0..n /\ i \in 0..n
                BY <1>3
            <4> HIDE DEF n, g
            <4> QED
                BY <1>4, <4>1
        <3>2. q[i] \in Int /\ q[k] \in Int
            BY <1>3
        <3>3. CASE i < k
            <4>1. r[i] = q[i]
                BY <1>1, <1>3, <3>3
            <4>2. i < k /\ i - 1 < k
                BY <1>3, <3>3
            <4>3. g[i] = f[i] /\ g[i - 1] = f[i - 1]
                BY <3>1, <4>2
            <4> QED
                BY <3>1, <4>1, <4>3
        <3>4. CASE i = k
            <4>1. r[i] = x
                BY <1>1, <1>3, <3>4
            <4>2. ~(i < k) /\ i - 1 < k
                BY <1>3, <3>4
            <4>3. g[i] = f[i] - q[k] + x /\ g[i - 1] = f[i - 1]
                BY <3>1, <4>2
            <4> QED
                BY <3>1, <3>2, <3>4, <4>1, <4>3
        <3>5. CASE i > k
            <4>1. r[i] = q[i]
                BY <1>1, <1>3, <3>5
            <4>2. ~(i < k) /\ ~(i - 1 < k)
                BY <1>3, <3>5
            <4>3. g[i] = f[i] - q[k] + x /\ g[i - 1] = f[i - 1] - q[k] + x
                BY <3>1, <4>2
            <4> QED
                BY <3>1, <3>2, <4>1, <4>3
        <3> QED
            BY <1>3, <3>3, <3>4, <3>5
    <2> QED
        BY <2>1, <2>2, <2>3 DEF PartialSums
<1>6. Sum(q) = f[n]
    BY <1>2, SumIsLast
<1>7. Sum(r) = g[n]
    BY <1>1, <1>5, SumIsLast
<1>8. g[n] = f[n] - q[k] + x
    BY <1>3
<1> QED
    BY <1>6, <1>7, <1>8 DEF r

\* A sum without positive entries is not positive, and zero only without entries.
LEMMA SumNotPositive ==
    ASSUME NEW q \in Seq(Int), \A i \in 1..Len(q) : q[i] <= 0
    PROVE  Sum(q) <= 0 /\ (Sum(q) = 0 <=> \A i \in 1..Len(q) : q[i] = 0)
<1> DEFINE n == Len(q)
           none == [i \in 1..n |-> 0]
           sums == [i \in 0..n |-> 0]
<1>1. n \in Nat /\ \A i \in 1..n : q[i] \in Int
    BY LenProperties, ElementOfSeq
<1>2. none \in Seq(Int) /\ Len(none) = n
    BY <1>1, IsASeq
<1>3. Sum(none) = 0
    <2>1. sums \in PartialSums(none, n)
        BY <1>1 DEF PartialSums
    <2>2. Sum(none) = sums[n]
        BY <1>2, <2>1, SumIsLast
    <2> QED
        BY <1>1, <2>2
<1>4. Sum(q) <= 0
    BY <1>2, <1>3, SumLe
<1>5. ASSUME \A i \in 1..n : q[i] = 0 PROVE Sum(q) = 0
    <2>1. q = none
        BY <1>1, <1>5
    <2> QED
        BY <1>3, <2>1
<1>6. ASSUME Sum(q) = 0, NEW k \in 1..n PROVE q[k] = 0
    <2> DEFINE r == [q EXCEPT ![k] = 0]
    <2>1. r \in Seq(Int) /\ Len(r) = n /\ r[k] = 0 /\ \A i \in 1..n : i # k => r[i] = q[i]
        BY ChangedSeq
    <2>2. Sum(r) = Sum(q) - q[k] + 0
        BY SumChange
    <2> HIDE DEF r
    <2>3. \A i \in 1..n : r[i] <= none[i]
        BY <1>1, <2>1
    <2>4. Sum(r) <= 0
        BY <1>2, <1>3, <2>1, <2>3, SumLe
    <2> QED
        BY <1>1, <1>6, <2>2, <2>4
<1> QED
    BY <1>4, <1>5, <1>6

-----------------------------------------------------------------------------
\* What every writer keeps: tables of the right type, reconciled.
Sound(d) == d \in Tables /\ \A account \in Accounts : Reconciled(d, account)

\* _post (services/credit_ledger.py) touches one account, and leaves every
\* account reconciled if every account was.
LEMMA PostedSound ==
    ASSUME NEW d, Sound(d), NEW account \in Accounts, NEW amount \in Int,
           NEW reason \in Reasons, NEW key \in Keys, NEW ref \in Ids \cup Keys
    PROVE  /\ Sound(Posted(d, account, amount, reason, key, ref))
           /\ Posted(d, account, amount, reason, key, ref).exists = d.exists
           /\ Posted(d, account, amount, reason, key, ref).inviter = d.inviter
<1> DEFINE e == Posted(d, account, amount, reason, key, ref)
           row == [amount |-> amount, after |-> d.balance[account] + amount,
                   reason |-> reason, key |-> key, ref |-> ref]
           rows == d.rows[account]
<1>1. d \in Tables /\ d.balance[account] \in Int /\ rows \in Seq(Row)
    BY DEF Sound, Tables
<1>2. row \in Row
    BY <1>1 DEF Row
<1>3. e = [d EXCEPT !.balance = [d.balance EXCEPT ![account] = @ + amount],
                    !.rows = [d.rows EXCEPT ![account] = Append(rows, row)]]
    BY <1>1 DEF Posted, Tables
<1>4. /\ e.exists = d.exists /\ e.inviter = d.inviter
      /\ e.balance = [d.balance EXCEPT ![account] = @ + amount]
      /\ e.rows = [d.rows EXCEPT ![account] = Append(rows, row)]
    BY <1>1, <1>3 DEF Tables
<1>5. e \in Tables
    <2> HIDE DEF row
    <2>1. Append(rows, row) \in Seq(Row)
        BY <1>1, <1>2, AppendProperties
    <2>2. e.rows \in [Accounts -> Seq(Row)]
        BY <1>1, <1>4, <2>1 DEF Tables
    <2>3. e.balance \in [Accounts -> Int]
        BY <1>1, <1>4 DEF Tables
    <2>4. e = [exists |-> d.exists, inviter |-> d.inviter,
               balance |-> e.balance, rows |-> e.rows]
        BY <1>1, <1>3, <1>4 DEF Tables
    <2>5. d.exists \in [Users -> BOOLEAN] /\ d.inviter \in [Users -> Users \cup {None}]
        BY <1>1 DEF Tables
    <2> HIDE DEF e
    <2> QED
        BY <2>2, <2>3, <2>4, <2>5 DEF Tables
<1>6. ASSUME NEW other \in Accounts PROVE Reconciled(e, other)
    <2>1. Reconciled(d, other)
        BY DEF Sound
    <2>2. CASE other # account
        BY <1>1, <1>4, <2>1, <2>2 DEF Reconciled, Tables
    <2>3. CASE other = account
        <3>1. d.balance[account] = Sum(Amounts(rows))
            BY <2>1, <2>3 DEF Reconciled
        <3>2. e.balance[account] = Sum(Amounts(rows)) + amount
            BY <1>1, <1>4, <3>1 DEF Tables
        <3>3. e.rows[account] = Append(rows, row)
            BY <1>1, <1>4 DEF Tables
        <3>4. Sum(Amounts(Append(rows, row))) = Sum(Amounts(rows)) + amount
            BY <1>1, <1>2, AmountsAppend, SumAppend
        <3>5. Append(rows, row)[Len(Append(rows, row))] = row
            BY <1>1, <1>2, AppendProperties, LenProperties
        <3> QED
            BY <1>1, <2>3, <3>1, <3>2, <3>3, <3>4, <3>5 DEF Reconciled
    <2> QED
        BY <2>2, <2>3
<1> QED
    BY <1>4, <1>5, <1>6 DEF Sound

\* The fields of the tables after a post (_post).
LEMMA PostedFields ==
    ASSUME NEW d \in Tables, NEW account \in Accounts, NEW amount \in Int,
           NEW reason \in Reasons, NEW key \in Keys, NEW ref \in Ids \cup Keys
    PROVE  LET e == Posted(d, account, amount, reason, key, ref)
               row == [amount |-> amount, after |-> d.balance[account] + amount,
                       reason |-> reason, key |-> key, ref |-> ref]
           IN  /\ e.exists = d.exists /\ e.inviter = d.inviter /\ row \in Row
               /\ e.balance[account] = d.balance[account] + amount
               /\ e.rows[account] = Append(d.rows[account], row)
               /\ \A a \in Accounts \ {account} :
                      e.balance[a] = d.balance[a] /\ e.rows[a] = d.rows[a]
<1> DEFINE e == Posted(d, account, amount, reason, key, ref)
           row == [amount |-> amount, after |-> d.balance[account] + amount,
                   reason |-> reason, key |-> key, ref |-> ref]
<1>1. /\ d.balance \in [Accounts -> Int] /\ d.rows \in [Accounts -> Seq(Row)]
      /\ d = [exists |-> d.exists, inviter |-> d.inviter,
              balance |-> d.balance, rows |-> d.rows]
  BY DEF Tables
<1>2. e = [d EXCEPT !.balance = [d.balance EXCEPT ![account] = @ + amount],
                    !.rows = [d.rows EXCEPT ![account] = Append(d.rows[account], row)]]
  BY <1>1 DEF Posted
<1>3. row \in Row
  BY <1>1 DEF Row
<1> HIDE DEF row
<1>4. /\ e.exists = d.exists /\ e.inviter = d.inviter
      /\ e.balance = [d.balance EXCEPT ![account] = @ + amount]
      /\ e.rows = [d.rows EXCEPT ![account] = Append(d.rows[account], row)]
  BY <1>1, <1>2
<1> HIDE DEF e
<1> QED BY <1>1, <1>3, <1>4 DEF e, row
=============================================================================
