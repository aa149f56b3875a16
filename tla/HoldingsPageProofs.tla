------------------------- MODULE HoldingsPageProofs -------------------------
(***************************************************************************)
(* What is proved about the holdings page, for any books, plans, keys,     *)
(* jobs, workers and faults.                                               *)
(*                                                                         *)
(* Holdings: stale writes are refused, the history leads back exactly, a   *)
(* request is applied once and the cap holds.  At the centre is one fact   *)
(* about each group of the history: outside the rows that Ops has edited   *)
(* it holds the difference between the book it found and the book that the *)
(* next group found (Follows).                                             *)
(*                                                                         *)
(* Uploads: the text of a file is kept no longer than its job is pending,  *)
(* and a result stands.                                                    *)
(***************************************************************************)
EXTENDS HoldingsPage, TLAPS, FiniteSetTheorems, SequenceTheorems, WellFoundedInduction

\* A set of naturals with 0 and every successor is all of them.
LEMMA NatSetInduction ==
    ASSUME NEW S \in SUBSET Nat, 0 \in S, \A n \in S : n + 1 \in S
    PROVE  S = Nat
<1> DEFINE rest == Nat \ S
<1> SUFFICES ASSUME rest # {} PROVE FALSE
    OBVIOUS
<1>1. PICK n \in rest : \A m \in rest : ~(<<m, n>> \in OpToRel(<, Nat))
    <2>1. IsWellFoundedOn(OpToRel(<, Nat), Nat)
        BY NatLessThanWellFounded
    <2> QED
        BY <2>1, WFMin, Zenon
<1>2. n \in Nat /\ n # 0
    OBVIOUS
<1>3. n - 1 \in Nat /\ n - 1 < n
    BY <1>2
<1>4. n - 1 \notin rest
    BY <1>1, <1>2, <1>3 DEF OpToRel
<1>5. n - 1 \in S
    BY <1>3, <1>4
<1>6. (n - 1) + 1 \in S
    BY <1>5
<1> QED
    BY <1>2, <1>6

-----------------------------------------------------------------------------
\* Two books that differ in rows edited by hand at most.
Alike(a, b) == \A i \in Nat \ edited : Same(a, b, i)

\* A book as the writers make it.
Rows(b, ids) == /\ DOMAIN b \subseteq 1 .. ids
                /\ \A i \in DOMAIN b : b[i] = [val |-> b[i].val, pos |-> b[i].pos]
Shaped(b) == Rows(b, born)

\* The book that group n left.
After(n) == IF n = Len(was) THEN book ELSE was[n + 1]

Follows(n) ==
    \A i \in Nat \ edited :
        IF Same(was[n], After(n), i)
        THEN i \notin DOMAIN groups[n].old \cup DOMAIN groups[n].new
        ELSE Same(groups[n].old, was[n], i) /\ Same(groups[n].new, After(n), i)

\* The numbers of writes and ids, and the history beside the book.
History ==
    /\ version \in Nat /\ born \in Nat
    /\ Len(was) \in Nat /\ \E S : was \in Seq(S)
    /\ DOMAIN groups \subseteq 1 .. Len(was)
    /\ Shaped(book)
    /\ \A n \in DOMAIN groups :
           /\ Shaped(groups[n].old) /\ Shaped(groups[n].new)
           /\ Follows(n)

-----------------------------------------------------------------------------
\* One group undone: a book that agrees with the one the group left leads to one
\* that agrees with the one it found, and no row but an edited one is in the way.
LEMMA UndoneLeadsBack ==
    ASSUME History, NEW n \in DOMAIN groups, NEW b, Alike(b, After(n))
    PROVE  /\ Fits(b, groups[n]) => Alike(Undone(b, groups[n]), was[n])
           /\ edited = {} => Fits(b, groups[n])
<1> DEFINE g == groups[n]
<1>1. /\ Shaped(g.old) /\ Shaped(g.new) /\ Follows(n)
      /\ born \in Nat
    BY DEF History
<1>2. DOMAIN g.old \subseteq Nat /\ DOMAIN g.new \subseteq Nat
    BY <1>1 DEF Shaped, Rows
<1>3. ASSUME Fits(b, g), NEW i \in Nat \ edited PROVE Same(Undone(b, g), was[n], i)
    <2>1. Same(b, After(n), i)
        BY <1>3 DEF Alike
    <2>2. CASE Same(was[n], After(n), i)
        <3>1. i \notin DOMAIN g.old \cup DOMAIN g.new
            BY <1>1, <1>3, <2>2 DEF Follows
        <3> QED
            BY <2>1, <2>2, <3>1 DEF Undone, Same, Created, Deleted, Updated
    <2>3. CASE ~Same(was[n], After(n), i)
        <3>1. Same(g.old, was[n], i) /\ Same(g.new, After(n), i)
            BY <1>1, <1>3, <2>3 DEF Follows
        <3>2. CASE i \in Created(g)
            BY <3>1, <3>2 DEF Undone, Same, Created, Deleted
        <3>3. CASE i \in Deleted(g)
            BY <3>1, <3>3 DEF Undone, Same, Created, Deleted
        <3>4. CASE i \in Updated(g)
            <4>1. /\ i \in DOMAIN b /\ b[i] = g.new[i]
                BY <2>1, <3>1, <3>4 DEF Same, Updated
            <4>2. Undone(b, g)[i] = FieldsUndone(g.old[i], g.new[i], b[i]) /\ i \in DOMAIN Undone(b, g)
                BY <3>4, <4>1 DEF Undone, Created, Deleted, Updated
            <4>3. g.old[i] = [val |-> g.old[i].val, pos |-> g.old[i].pos]
                BY <1>1, <3>4 DEF Shaped, Rows, Updated
            <4>4. FieldsUndone(g.old[i], g.new[i], b[i])
                    = [val |-> g.old[i].val, pos |-> g.old[i].pos]
                BY <4>1 DEF FieldsUndone
            <4> QED
                BY <3>1, <3>4, <4>2, <4>3, <4>4 DEF Same, Updated
        <3>5. i \in DOMAIN g.old \cup DOMAIN g.new
            BY <2>3, <3>1 DEF Same
        <3> QED
            BY <3>2, <3>3, <3>4, <3>5 DEF Created, Deleted, Updated
    <2> QED
        BY <2>2, <2>3
<1>4. ASSUME edited = {} PROVE Fits(b, g)
    <2>1. ASSUME NEW i \in DOMAIN g.old \cup DOMAIN g.new
          PROVE  /\ i \in DOMAIN b <=> i \in DOMAIN g.new
                 /\ i \in DOMAIN b => b[i] = g.new[i]
        <3>1. i \in Nat \ edited
            BY <1>2, <1>4
        <3>2. Same(b, After(n), i) /\ Same(g.new, After(n), i)
            BY <1>1, <3>1 DEF Follows, Alike
        <3> QED
            BY <3>2 DEF Same
    <2> QED
        BY <2>1 DEF Fits, FieldsFit, Created, Updated, Deleted
<1> QED
    BY <1>3, <1>4 DEF Alike

-----------------------------------------------------------------------------
\* The equation that a replay satisfies.
Rewind(b, f) ==
    [n \in 1 .. Len(was) + 1 |->
        IF n = Len(was) + 1 THEN [ok |-> TRUE, book |-> b]
        ELSE IF n \in DOMAIN groups THEN Back(f[n + 1], groups[n])
        ELSE f[n + 1]]

LEMMA RewindAt ==
    ASSUME Len(was) \in Nat, NEW b, NEW f, f = Rewind(b, f)
    PROVE  /\ f[Len(was) + 1] = [ok |-> TRUE, book |-> b]
           /\ \A n \in 1 .. Len(was) :
                  f[n] = IF n \in DOMAIN groups THEN Back(f[n + 1], groups[n]) ELSE f[n + 1]
<1> DEFINE N == Len(was)
<1>1. ASSUME NEW n \in 1 .. N + 1
      PROVE  f[n] = IF n = N + 1 THEN [ok |-> TRUE, book |-> b]
                    ELSE IF n \in DOMAIN groups THEN Back(f[n + 1], groups[n]) ELSE f[n + 1]
    <2>1. f[n] = Rewind(b, f)[n]
        OBVIOUS
    <2>2. Rewind(b, f)[n] = IF n = N + 1 THEN [ok |-> TRUE, book |-> b]
                    ELSE IF n \in DOMAIN groups THEN Back(f[n + 1], groups[n]) ELSE f[n + 1]
        BY DEF Rewind
    <2> QED
        BY <2>1, <2>2
<1>2. N + 1 \in 1 .. N + 1 /\ \A n \in 1 .. N : n \in 1 .. N + 1 /\ n # N + 1
    OBVIOUS
<1> QED
    BY <1>1, <1>2

\* f replays the numbers from m on.
RewindsFrom(b, m, f) ==
    /\ f = [n \in m .. Len(was) + 1 |-> f[n]]
    /\ f[Len(was) + 1] = [ok |-> TRUE, book |-> b]
    /\ \A n \in m .. Len(was) :
           f[n] = IF n \in DOMAIN groups THEN Back(f[n + 1], groups[n]) ELSE f[n + 1]

LEMMA RewindExists ==
    ASSUME Len(was) \in Nat, NEW b
    PROVE  \E f : RewindsFrom(b, 1, f)
<1> DEFINE N == Len(was)
           S == {k \in Nat : k <= N => \E f : RewindsFrom(b, N + 1 - k, f)}
<1>1. 0 \in S
    <2> DEFINE f == [n \in N + 1 .. N + 1 |-> [ok |-> TRUE, book |-> b]]
    <2>1. RewindsFrom(b, N + 1, f)
        BY DEF RewindsFrom
    <2> QED
        BY <2>1
<1>2. ASSUME NEW k \in S PROVE k + 1 \in S
    <2> SUFFICES ASSUME k + 1 <= N PROVE \E f : RewindsFrom(b, N + 1 - (k + 1), f)
        OBVIOUS
    <2>1. PICK f : RewindsFrom(b, N + 1 - k, f)
        OBVIOUS
    <2> DEFINE m == N - k
               h == [n \in m .. N + 1 |->
                        IF n = m THEN IF m \in DOMAIN groups THEN Back(f[m + 1], groups[m])
                                      ELSE f[m + 1]
                        ELSE f[n]]
    <2>2. m \in 1 .. N /\ N + 1 - k = m + 1 /\ N + 1 - (k + 1) = m
        OBVIOUS
    <2>3. RewindsFrom(b, m, h)
        <3>1. h[N + 1] = [ok |-> TRUE, book |-> b]
            BY <2>1, <2>2 DEF RewindsFrom
        <3>2. ASSUME NEW n \in m .. N
              PROVE  h[n] = IF n \in DOMAIN groups THEN Back(h[n + 1], groups[n]) ELSE h[n + 1]
            <4>1. h[n + 1] = f[n + 1]
                BY <2>2
            <4>2. CASE n = m
                BY <2>2, <4>1, <4>2
            <4>3. CASE n # m
                <5>1. n \in m + 1 .. N
                    BY <2>2, <4>3
                <5>2. f[n] = IF n \in DOMAIN groups THEN Back(f[n + 1], groups[n]) ELSE f[n + 1]
                    BY <2>1, <2>2, <5>1 DEF RewindsFrom
                <5> QED
                    BY <4>1, <4>3, <5>2
            <4> QED
                BY <4>2, <4>3
        <3> QED
            BY <3>1, <3>2 DEF RewindsFrom
    <2> QED
        BY <2>2, <2>3
<1> HIDE DEF S
<1>3. S = Nat
    BY <1>1, <1>2, NatSetInduction DEF S
<1>4. N \in S
    BY <1>3
<1> QED
    BY <1>4 DEF S

\* Replay is such a function.
LEMMA ReplayRewinds ==
    ASSUME Len(was) \in Nat, NEW b
    PROVE  /\ Replay(b)[Len(was) + 1] = [ok |-> TRUE, book |-> b]
           /\ \A n \in 1 .. Len(was) :
                  Replay(b)[n] = IF n \in DOMAIN groups THEN Back(Replay(b)[n + 1], groups[n])
                                 ELSE Replay(b)[n + 1]
<1>1. PICK f : RewindsFrom(b, 1, f)
    BY RewindExists
<1>2. f = Rewind(b, f)
    <2>1. ASSUME NEW n \in 1 .. Len(was) + 1 PROVE f[n] = Rewind(b, f)[n]
        <3>1. CASE n = Len(was) + 1
            BY <1>1, <3>1 DEF RewindsFrom, Rewind
        <3>2. CASE n # Len(was) + 1
            <4>1. n \in 1 .. Len(was)
                BY <3>2
            <4>2. f[n] = IF n \in DOMAIN groups THEN Back(f[n + 1], groups[n]) ELSE f[n + 1]
                BY <1>1, <4>1 DEF RewindsFrom
            <4> QED
                BY <3>2, <4>2 DEF Rewind
        <3> QED
            BY <3>1, <3>2
    <2>2. f = [n \in 1 .. Len(was) + 1 |-> f[n]]
        BY <1>1 DEF RewindsFrom
    <2>3. Rewind(b, f) = [n \in 1 .. Len(was) + 1 |-> Rewind(b, f)[n]]
        BY DEF Rewind
    <2> QED
        BY <2>1, <2>2, <2>3
<1>3. Replay(b) = CHOOSE g : g = Rewind(b, g)
    BY DEF Replay, Rewind
<1>4. Replay(b) = Rewind(b, Replay(b))
    BY <1>2, <1>3
<1> QED
    BY <1>4, RewindAt

\* The replay of the groups from n on leads to the book that group n found.
Led(b, n) ==
    LET r == Replay(b)[n]
    IN  /\ r.ok => Alike(r.book, IF n = Len(was) + 1 THEN book ELSE was[n])
        /\ edited = {} => r.ok

LEMMA ReplayLeadsBack ==
    ASSUME History, NEW b, Alike(b, book), NEW n \in 1 .. Len(was),
           n .. Len(was) \subseteq DOMAIN groups
    PROVE  Led(b, n)
<1> DEFINE N == Len(was)
           S == {k \in Nat : k <= N => (N + 1 - k .. N \subseteq DOMAIN groups => Led(b, N + 1 - k))}
<1>1. N \in Nat
    BY DEF History
<1>2. /\ Replay(b)[N + 1] = [ok |-> TRUE, book |-> b]
      /\ \A i \in 1 .. N :
             Replay(b)[i] = IF i \in DOMAIN groups THEN Back(Replay(b)[i + 1], groups[i])
                            ELSE Replay(b)[i + 1]
    BY <1>1, ReplayRewinds
<1>3. 0 \in S
    <2>1. Replay(b)[N + 1] = [ok |-> TRUE, book |-> b]
        BY <1>2
    <2> QED
        BY <1>1, <2>1 DEF Led
<1>4. ASSUME NEW k \in S PROVE k + 1 \in S
    <2> DEFINE m == N - k
    <2> SUFFICES ASSUME k + 1 <= N, m .. N \subseteq DOMAIN groups PROVE Led(b, m)
        BY <1>1
    <2>1. m \in 1 .. N /\ N + 1 - k = m + 1 /\ m \in DOMAIN groups
        BY <1>1
    <2>2. Led(b, m + 1)
        BY <1>1, <2>1
    <2>3. Replay(b)[m] = Back(Replay(b)[m + 1], groups[m])
        BY <1>2, <2>1
    <2>4. After(m) = IF m + 1 = N + 1 THEN book ELSE was[m + 1]
        BY <1>1, <2>1 DEF After
    <2> DEFINE r == Replay(b)[m + 1]
    <2>5. r.ok => Alike(r.book, After(m))
        BY <2>2, <2>4 DEF Led
    <2>6. r.ok => /\ Fits(r.book, groups[m]) => Alike(Undone(r.book, groups[m]), was[m])
                  /\ edited = {} => Fits(r.book, groups[m])
        BY <2>1, <2>5, UndoneLeadsBack
    <2>7. m # N + 1
        BY <1>1, <2>1
    <2> HIDE DEF r
    <2>8. CASE r.ok /\ Fits(r.book, groups[m])
        <3>1. Replay(b)[m] = [ok |-> TRUE, book |-> Undone(r.book, groups[m])]
            BY <2>3, <2>8 DEF Back, r
        <3> QED
            BY <2>6, <2>7, <2>8, <3>1 DEF Led
    <2>9. CASE ~(r.ok /\ Fits(r.book, groups[m]))
        <3>1. Replay(b)[m] = [ok |-> FALSE, book |-> r.book]
            BY <2>3, <2>9 DEF Back, r
        <3>2. edited = {} => r.ok
            BY <2>2 DEF Led, r
        <3> QED
            BY <2>6, <2>9, <3>1, <3>2 DEF Led
    <2> QED
        BY <2>8, <2>9
<1> HIDE DEF S
<1>5. S = Nat
    BY <1>3, <1>4, NatSetInduction DEF S
<1>6. N + 1 - n \in S
    BY <1>1, <1>5
<1> QED
    BY <1>1, <1>6 DEF S

\* A replay leads to a book of rows with ids that were given out.
LEMMA ReplayShaped ==
    ASSUME History, NEW b, Shaped(b), NEW n \in 1 .. Len(was) + 1
    PROVE  Shaped(Replay(b)[n].book)
<1> DEFINE N == Len(was)
           S == {k \in Nat : k <= N => Shaped(Replay(b)[N + 1 - k].book)}
<1>1. N \in Nat
    BY DEF History
<1>2. /\ Replay(b)[N + 1] = [ok |-> TRUE, book |-> b]
      /\ \A i \in 1 .. N :
             Replay(b)[i] = IF i \in DOMAIN groups THEN Back(Replay(b)[i + 1], groups[i])
                            ELSE Replay(b)[i + 1]
    BY <1>1, ReplayRewinds
<1>3. 0 \in S
    <2>1. Replay(b)[N + 1] = [ok |-> TRUE, book |-> b]
        BY <1>2
    <2> QED
        BY <1>1, <2>1
<1>4. ASSUME NEW k \in S PROVE k + 1 \in S
    <2> DEFINE m == N - k
    <2> SUFFICES ASSUME k + 1 <= N PROVE Shaped(Replay(b)[m].book)
        BY <1>1
    <2>1. m \in 1 .. N /\ N + 1 - k = m + 1
        BY <1>1
    <2> DEFINE r == Replay(b)[m + 1]
    <2>2. Shaped(r.book)
        BY <1>1, <2>1
    <2>3. Replay(b)[m] = IF m \in DOMAIN groups THEN Back(r, groups[m]) ELSE r
        BY <1>2, <2>1
    <2> HIDE DEF r
    <2>4. CASE m \in DOMAIN groups
        <3>1. Shaped(groups[m].old)
            BY <2>4 DEF History
        <3>2. Shaped(Undone(r.book, groups[m]))
            BY <2>2, <3>1 DEF Shaped, Rows, Undone, FieldsUndone, Created, Deleted, Updated
        <3> QED
            BY <2>2, <2>3, <2>4, <3>2 DEF Back
    <2> QED
        BY <2>2, <2>3, <2>4
<1> HIDE DEF S
<1>5. S = Nat
    BY <1>3, <1>4, NatSetInduction DEF S
<1>6. N + 1 - n \in S
    BY <1>1, <1>5
<1> QED
    BY <1>1, <1>6 DEF S


-----------------------------------------------------------------------------
\* A write of a book with rows and ids of its kind keeps the history.
LEMMA WriteKeepsHistory ==
    ASSUME History, NEW new, Write(new), born' \in Nat, UNCHANGED edited,
           born <= born', DOMAIN new \subseteq 1 .. born',
           \A i \in DOMAIN new : new[i] = [val |-> new[i].val, pos |-> new[i].pos]
    PROVE  History'
<1> USE DEF History
<1> DEFINE N == Len(was)
           touched == Touched(book, new)
           group == [old |-> Restricted(book, touched), new |-> Restricted(new, touched)]
<1>1. /\ version' = version + 1 /\ book' = new /\ version' \in Nat
      /\ Shaped(book)'
    BY DEF Write, Shaped, Rows
<1>2. ASSUME NEW b, Shaped(b)
      PROVE  /\ DOMAIN b \subseteq 1 .. born'
             /\ \A i \in DOMAIN b : b[i] = [val |-> b[i].val, pos |-> b[i].pos]
    BY <1>2 DEF Shaped, Rows
<1>3. CASE touched = {}
    <2>1. UNCHANGED <<groups, was>>
        BY <1>3 DEF Write, Recorded
    <2>2. \A i : Same(book, new, i)
        BY <1>3 DEF Touched, Same
    <2>3. ASSUME NEW n \in DOMAIN groups PROVE Follows(n)'
        <3>1. ASSUME NEW i \in Nat \ edited PROVE Same(After(n), After(n)', i)
            BY <1>1, <2>1, <2>2 DEF After, Same
        <3>2. ASSUME NEW i \in Nat \ edited
              PROVE  IF Same(was[n], After(n)', i)
                     THEN i \notin DOMAIN groups[n].old \cup DOMAIN groups[n].new
                     ELSE Same(groups[n].old, was[n], i) /\ Same(groups[n].new, After(n)', i)
            <4>1. Follows(n)
                OBVIOUS
            <4> QED
                BY <3>1, <4>1 DEF Follows, Same
        <3> QED
            BY <2>1, <3>2 DEF Follows
    <2>4. ASSUME NEW n \in DOMAIN groups
          PROVE  (Shaped(groups[n].old) /\ Shaped(groups[n].new))'
        BY <1>2, <2>1 DEF Shaped, Rows
    <2> QED
        BY <1>1, <2>1, <2>3, <2>4
<1>4. CASE touched # {}
    <2>1. /\ was' = Append(was, book)
          /\ groups' = [n \in DOMAIN groups \cup {N + 1} |->
                            IF n \in DOMAIN groups THEN groups[n] ELSE group]
        BY <1>4 DEF Write, Recorded
    <2>2. PICK S : was \in Seq(S)
        OBVIOUS
    <2>3. /\ was' \in Seq(S \cup {book}) /\ Len(was') = N + 1
          /\ was'[N + 1] = book /\ \A n \in 1 .. N : was'[n] = was[n]
        <3>1. was \in Seq(S \cup {book})
            BY <2>2, SeqMonotonic
        <3> QED
            BY <2>1, <3>1, AppendProperties
    <2>4. /\ DOMAIN groups' = DOMAIN groups \cup {N + 1} /\ N + 1 \notin DOMAIN groups
          /\ \A n \in DOMAIN groups : groups'[n] = groups[n]
          /\ groups'[N + 1] = group
        BY <2>1
    <2>5. ASSUME NEW n \in DOMAIN groups
          PROVE  (Shaped(groups[n].old) /\ Shaped(groups[n].new) /\ Follows(n))'
        <3>1. Shaped(groups[n].old) /\ Shaped(groups[n].new) /\ Follows(n) /\ n \in 1 .. N
            OBVIOUS
        <3>2. After(n)' = After(n)
            BY <2>3, <3>1 DEF After
        <3>3. was'[n] = was[n] /\ groups'[n] = groups[n]
            BY <2>3, <2>4, <3>1
        <3>4. Follows(n)'
            BY <3>1, <3>2, <3>3 DEF Follows
        <3> QED
            BY <1>2, <2>4, <3>1, <3>4 DEF Shaped, Rows
    <2>6. ASSUME NEW n, n = N + 1
          PROVE  (Shaped(groups[n].old) /\ Shaped(groups[n].new) /\ Follows(n))'
        <3>1. /\ DOMAIN group.old = DOMAIN book \cap touched
              /\ DOMAIN group.new = DOMAIN new \cap touched
              /\ \A i \in DOMAIN group.old : group.old[i] = book[i]
              /\ \A i \in DOMAIN group.new : group.new[i] = new[i]
            BY DEF Restricted
        <3>2. After(n)' = new
            BY <1>1, <2>3, <2>6 DEF After
        <3>3. ASSUME NEW i \in Nat
              PROVE  IF Same(book, new, i) THEN i \notin DOMAIN group.old \cup DOMAIN group.new
                     ELSE Same(group.old, book, i) /\ Same(group.new, new, i)
            BY <3>1 DEF Same, Touched
        <3>4. Follows(n)'
            BY <2>3, <2>4, <2>6, <3>2, <3>3 DEF Follows
        <3>5. Shaped(book)
            OBVIOUS
        <3>6. /\ DOMAIN group.old \subseteq 1 .. born' /\ DOMAIN group.new \subseteq 1 .. born'
              /\ \A i \in DOMAIN group.old :
                     group.old[i] = [val |-> group.old[i].val, pos |-> group.old[i].pos]
              /\ \A i \in DOMAIN group.new :
                     group.new[i] = [val |-> group.new[i].val, pos |-> group.new[i].pos]
            BY <1>2, <3>1, <3>5
        <3>7. (Shaped(groups[n].old) /\ Shaped(groups[n].new))'
            BY <2>4, <2>6, <3>6 DEF Shaped, Rows
        <3> QED
            BY <3>4, <3>7
    <2>7. ASSUME NEW n \in DOMAIN groups'
          PROVE  (Shaped(groups[n].old) /\ Shaped(groups[n].new) /\ Follows(n))'
        BY <2>4, <2>5, <2>6
    <2> QED
        BY <1>1, <2>3, <2>4, <2>7
<1> QED
    BY <1>3, <1>4

-----------------------------------------------------------------------------
(* What the writers write. *)

\* A write of a book within the cap.
Makes(new) ==
    /\ Write(new)
    /\ born' \in Nat /\ born <= born'
    /\ UNCHANGED edited
    /\ Rows(new, born')
    /\ DOMAIN new \ DOMAIN book # {} => Size(new) <= Cap(plan)
    /\ Size(new) > Size(book) => Size(new) <= Cap(plan)

LEMMA BookIsFinite ==
    ASSUME NEW ids \in Nat, NEW b, Rows(b, ids)
    PROVE  IsFiniteSet(DOMAIN b) /\ Size(b) \in Nat
<1>1. IsFiniteSet(1 .. ids)
    BY FS_Interval
<1>2. IsFiniteSet(DOMAIN b)
    BY <1>1, FS_Subset DEF Rows
<1> QED
    BY <1>2, FS_CardinalityType DEF Size

LEMMA IntervalSize ==
    ASSUME NEW n \in Nat, NEW k \in Nat
    PROVE  IsFiniteSet(n + 1 .. n + k) /\ Cardinality(n + 1 .. n + k) = k
<1>1. PICK low \in Int, high \in Int : low = n + 1 /\ high = n + k
    OBVIOUS
<1>2. /\ IsFiniteSet(low .. high)
      /\ Cardinality(low .. high) = IF low > high THEN 0 ELSE high - low + 1
    BY FS_Interval
<1>3. (IF low > high THEN 0 ELSE high - low + 1) = k
    BY <1>1
<1> QED
    BY <1>1, <1>2, <1>3

\* The rows that are added come under new ids, as many as they are.
LEMMA WithRowsAdds ==
    ASSUME born \in Nat, NEW b, Shaped(b), NEW rows, Len(rows) \in Nat
    PROVE  /\ Rows(WithRows(b, rows), born + Len(rows))
           /\ DOMAIN WithRows(b, rows) = DOMAIN b \cup (born + 1 .. born + Len(rows))
           /\ Size(WithRows(b, rows)) = Size(b) + Len(rows)
           /\ Cardinality(born + 1 .. born + Len(rows)) = Len(rows)
<1> DEFINE added == born + 1 .. born + Len(rows)
<1>1. DOMAIN WithRows(b, rows) = DOMAIN b \cup added
    BY DEF WithRows
<1>2. Rows(WithRows(b, rows), born + Len(rows))
    <2>1. DOMAIN b \cup added \subseteq 1 .. born + Len(rows)
        BY DEF Shaped, Rows
    <2>2. ASSUME NEW i \in DOMAIN b \cup added
          PROVE  WithRows(b, rows)[i]
                   = [val |-> WithRows(b, rows)[i].val, pos |-> WithRows(b, rows)[i].pos]
        BY DEF WithRows, Shaped, Rows
    <2> QED
        BY <1>1, <2>1, <2>2 DEF Rows
<1>3. IsFiniteSet(added) /\ Cardinality(added) = Len(rows)
    BY IntervalSize
<1>4. IsFiniteSet(DOMAIN b) /\ Size(b) \in Nat
    BY BookIsFinite DEF Shaped
<1>5. DOMAIN b \cap added = {}
    BY DEF Shaped, Rows
<1>6. Cardinality({}) = 0
    BY FS_EmptySet
<1> HIDE DEF added
<1>7. Cardinality(DOMAIN b \cup added)
        = Cardinality(DOMAIN b) + Cardinality(added) - Cardinality(DOMAIN b \cap added)
    BY <1>3, <1>4, FS_Union
<1>8. Size(WithRows(b, rows)) = Size(b) + Len(rows)
    <2>1. Cardinality(DOMAIN b \cup added) = Size(b) + Len(rows) - 0
        BY <1>3, <1>5, <1>6, <1>7 DEF Size
    <2>2. Size(WithRows(b, rows)) = Cardinality(DOMAIN b \cup added)
        BY <1>1 DEF Size
    <2> QED
        BY <1>4, <2>1, <2>2
<1> QED
    BY <1>1, <1>2, <1>3, <1>8 DEF added

\* Fewer rows, or the same with other fields.
LEMMA FewerRows ==
    ASSUME born \in Nat, Shaped(book), NEW new, DOMAIN new \subseteq DOMAIN book
    PROVE  /\ DOMAIN new \subseteq 1 .. born
           /\ ~(DOMAIN new \ DOMAIN book # {}) /\ ~(Size(new) > Size(book))
           /\ Cardinality(DOMAIN new \ DOMAIN book) = 0
<1>1. IsFiniteSet(DOMAIN book) /\ Size(book) \in Nat
    BY BookIsFinite DEF Shaped
<1>2. Size(new) \in Nat /\ Size(new) <= Size(book)
    <2>1. IsFiniteSet(DOMAIN new) /\ Cardinality(DOMAIN new) <= Cardinality(DOMAIN book)
        BY <1>1, FS_Subset
    <2> QED
        BY <2>1, FS_CardinalityType DEF Size
<1>3. DOMAIN new \ DOMAIN book = {}
    OBVIOUS
<1> QED
    BY <1>1, <1>2, <1>3, FS_EmptySet DEF Shaped, Rows

LEMMA ReorderedRows ==
    ASSUME born \in Nat, Shaped(book), NEW order
    PROVE  LET new == [i \in DOMAIN book |-> [book[i] EXCEPT !.pos = order[i]]]
           IN  DOMAIN new = DOMAIN book /\ Rows(new, born)
BY DEF Shaped, Rows

LEMMA WithValueRows ==
    ASSUME born \in Nat, Shaped(book), NEW i, NEW v
    PROVE  /\ DOMAIN WithValue(book, i, v) = DOMAIN book
           /\ Rows(WithValue(book, i, v), born)
           /\ \A j \in DOMAIN book \ {i} : WithValue(book, i, v)[j] = book[j]
BY DEF Shaped, Rows, WithValue

LEMMA WithoutRows ==
    ASSUME born \in Nat, Shaped(book), NEW S
    PROVE  /\ DOMAIN Without(book, S) = DOMAIN book \ S
           /\ Rows(Without(book, S), born)
           /\ \A j \in DOMAIN book \ S : Without(book, S)[j] = book[j]
BY DEF Shaped, Rows, Without, Restricted

LEMMA CapIsNat == ASSUME plan \in Plans PROVE Cap(plan) \in Nat
BY HoldingsAssumption

\* A book that may be held adds no row beyond the cap.
LEMMA HeldWithinCap ==
    ASSUME History, plan \in Plans, NEW new, NEW ids \in Nat, Rows(new, ids), NEW introduces,
           MayHold(Size(new), introduces),
           DOMAIN new \ DOMAIN book # {} => introduces
    PROVE  /\ DOMAIN new \ DOMAIN book # {} => Size(new) <= Cap(plan)
           /\ Size(new) > Size(book) => Size(new) <= Cap(plan)
<1>1. Size(new) \in Nat /\ Size(book) \in Nat /\ Cap(plan) \in Nat
    BY BookIsFinite, CapIsNat DEF History, Shaped
<1> QED
    BY <1>1 DEF MayHold

LEMMA ConfirmMakes ==
    ASSUME History, plan \in Plans, ConfirmHoldings PROVE \E new : Makes(new)
<1>1. PICK rows \in Files, mode \in {"append", "replace"} :
          LET before == IF mode = "replace" THEN Empty ELSE book
          IN  /\ MayHold(Size(before) + Len(rows), Len(rows) > 0)
              /\ Write(WithRows(before, rows))
              /\ Insert(rows)
              /\ UNCHANGED edited
    BY DEF ConfirmHoldings, ByHand
<1>2. PICK before : before = IF mode = "replace" THEN Empty ELSE book
    OBVIOUS
<1>3. PICK new : new = WithRows(before, rows)
    OBVIOUS
<1>4. Len(rows) \in Nat /\ born \in Nat /\ Shaped(book)
    BY HoldingsAssumption, LenProperties DEF History
<1>5. Shaped(before) /\ DOMAIN before \subseteq DOMAIN book
    BY <1>2, <1>4 DEF Shaped, Rows, Empty
<1>6. /\ Rows(new, born + Len(rows)) /\ Size(new) = Size(before) + Len(rows)
      /\ DOMAIN new = DOMAIN before \cup (born + 1 .. born + Len(rows))
    BY <1>3, <1>4, <1>5, WithRowsAdds
<1>7. Write(new) /\ MayHold(Size(new), Len(rows) > 0)
    BY <1>1, <1>2, <1>3, <1>6
<1>8. DOMAIN new \ DOMAIN book # {} => Len(rows) > 0
    BY <1>4, <1>5, <1>6
<1>9. born' = born + Len(rows) /\ born + Len(rows) \in Nat
    BY <1>1, <1>4 DEF Insert
<1>10. /\ DOMAIN new \ DOMAIN book # {} => Size(new) <= Cap(plan)
       /\ Size(new) > Size(book) => Size(new) <= Cap(plan)
    BY <1>6, <1>7, <1>8, <1>9, HeldWithinCap
<1> QED
    BY <1>1, <1>4, <1>6, <1>7, <1>9, <1>10 DEF Makes

LEMMA CreateMakes ==
    ASSUME History, plan \in Plans, CreateHolding PROVE \E new : Makes(new)
<1>1. PICK v \in Vals : /\ MayHold(Size(book) + 1, TRUE)
                        /\ Write(WithRows(book, <<v>>))
                        /\ Insert(<<v>>)
                        /\ UNCHANGED edited
    BY DEF CreateHolding, ByHand
<1>2. PICK new : new = WithRows(book, <<v>>)
    OBVIOUS
<1>3. Len(<<v>>) = 1 /\ born \in Nat /\ Shaped(book)
    BY DEF History
<1>4. Rows(new, born + 1) /\ Size(new) = Size(book) + 1
    BY <1>2, <1>3, WithRowsAdds
<1>5. Write(new) /\ MayHold(Size(new), TRUE)
    BY <1>1, <1>2, <1>4
<1>6. born' = born + 1 /\ born + 1 \in Nat
    BY <1>1, <1>3 DEF Insert
<1>7. /\ DOMAIN new \ DOMAIN book # {} => Size(new) <= Cap(plan)
      /\ Size(new) > Size(book) => Size(new) <= Cap(plan)
    BY <1>4, <1>5, <1>6, HeldWithinCap
<1> QED
    BY <1>1, <1>3, <1>4, <1>5, <1>6, <1>7 DEF Makes

\* A change of fields, or fewer rows.
LEMMA ChangeMakes ==
    ASSUME History, ReorderHoldings \/ UpdateHolding \/ DeleteHolding
    PROVE  \E new : Makes(new)
<1>1. born \in Nat /\ Shaped(book)
    BY DEF History
<1>2. \E new : /\ Write(new) /\ UNCHANGED <<born, edited>>
               /\ Rows(new, born) /\ DOMAIN new \subseteq DOMAIN book
    <2>1. CASE ReorderHoldings
        <3>1. PICK order : /\ Write([i \in DOMAIN book |-> [book[i] EXCEPT !.pos = order[i]]])
                           /\ UNCHANGED <<born, edited>>
            BY <2>1 DEF ReorderHoldings, ByHand
        <3> QED
            BY <1>1, <3>1, ReorderedRows
    <2>2. CASE UpdateHolding
        <3>1. PICK i, v : Write(WithValue(book, i, v)) /\ UNCHANGED <<born, edited>>
            BY <2>2 DEF UpdateHolding, ByHand
        <3> QED
            BY <1>1, <3>1, WithValueRows
    <2>3. CASE DeleteHolding
        <3>1. PICK i : Write(Without(book, {i})) /\ UNCHANGED <<born, edited>>
            BY <2>3 DEF DeleteHolding, ByHand
        <3> QED
            BY <1>1, <3>1, WithoutRows
    <2> QED
        BY <2>1, <2>2, <2>3
<1>3. PICK new : /\ Write(new) /\ UNCHANGED <<born, edited>>
                 /\ Rows(new, born) /\ DOMAIN new \subseteq DOMAIN book
    BY <1>2
<1>4. ~(DOMAIN new \ DOMAIN book # {}) /\ ~(Size(new) > Size(book))
    BY <1>1, <1>3, FewerRows
<1> QED
    BY <1>1, <1>3, <1>4 DEF Makes

LEMMA RollbackMakes ==
    ASSUME History, plan \in Plans, RollbackHoldings PROVE \E new : Makes(new)
<1>1. PICK new : /\ new = Replay(book)[preview.n].book
                 /\ MayHold(Size(new), DOMAIN new \ DOMAIN book # {})
                 /\ Write(new)
                 /\ UNCHANGED <<born, edited>>
    BY DEF RollbackHoldings
<1>2. preview.n \in 1 .. Len(was) + 1 /\ born \in Nat /\ Shaped(book)
    BY DEF RollbackHoldings, History
<1>3. Rows(new, born)
    BY <1>1, <1>2, ReplayShaped DEF Shaped
<1>4. /\ DOMAIN new \ DOMAIN book # {} => Size(new) <= Cap(plan)
      /\ Size(new) > Size(book) => Size(new) <= Cap(plan)
    BY <1>1, <1>2, <1>3, HeldWithinCap
<1> QED
    BY <1>1, <1>2, <1>3, <1>4 DEF Makes

\* What an agent asks for.
IsAsked(r) == /\ r.op \in {"create", "update", "delete", "replace"}
              /\ IsFiniteSet(DOMAIN r.rows)

LEMMA ReplacedRows ==
    ASSUME History, NEW r, IsAsked(r), Kept(r) \subseteq DOMAIN book
    PROVE  /\ NewRows(r) \in Nat
           /\ Rows(Replaced(r), born + NewRows(r))
           /\ DOMAIN Replaced(r) \ DOMAIN book = born + 1 .. born + NewRows(r)
<1>1. NewRows(r) \in Nat
    <2>1. IsFiniteSet({k \in DOMAIN r.rows : r.rows[k].id = NewRow})
        BY FS_Subset DEF IsAsked
    <2> QED
        BY <2>1, FS_CardinalityType DEF NewRows
<1>2. /\ DOMAIN Replaced(r) = Kept(r) \cup (born + 1 .. born + NewRows(r))
      /\ \A i \in DOMAIN Replaced(r) :
             Replaced(r)[i] = [val |-> Replaced(r)[i].val, pos |-> Replaced(r)[i].pos]
    BY DEF Replaced
<1>3. born \in Nat /\ DOMAIN book \subseteq 1 .. born
    BY DEF History, Shaped, Rows
<1>4. DOMAIN Replaced(r) \subseteq 1 .. born + NewRows(r)
    BY <1>1, <1>2, <1>3
<1>5. DOMAIN Replaced(r) \ DOMAIN book = born + 1 .. born + NewRows(r)
    BY <1>1, <1>2, <1>3
<1> QED
    BY <1>1, <1>2, <1>4, <1>5 DEF Rows

LEMMA AskedRows ==
    ASSUME History, NEW r, IsAsked(r), Acceptable(r)
    PROVE  LET added == Cardinality(DOMAIN Asked(r) \ DOMAIN book)
           IN  added \in Nat /\ Rows(Asked(r), born + added)
<1>1. born \in Nat /\ Shaped(book)
    BY DEF History
<1>2. CASE r.op = "create"
    <2>1. Len(<<r.val>>) = 1
        OBVIOUS
    <2>2. /\ Rows(WithRows(book, <<r.val>>), born + 1)
          /\ DOMAIN WithRows(book, <<r.val>>) = DOMAIN book \cup (born + 1 .. born + 1)
          /\ Cardinality(born + 1 .. born + 1) = 1
        BY <1>1, <2>1, WithRowsAdds
    <2>3. DOMAIN WithRows(book, <<r.val>>) \ DOMAIN book = born + 1 .. born + 1
        BY <1>1, <2>2 DEF Shaped, Rows
    <2>4. Asked(r) = WithRows(book, <<r.val>>)
        BY <1>2 DEF Asked
    <2> QED
        BY <2>2, <2>3, <2>4
<1>3. CASE r.op = "update"
    <2>1. Asked(r) = WithValue(book, r.id, r.val)
        BY <1>3 DEF Asked
    <2>2. Rows(Asked(r), born) /\ DOMAIN Asked(r) \subseteq DOMAIN book
        BY <1>1, <2>1, WithValueRows
    <2>3. Cardinality(DOMAIN Asked(r) \ DOMAIN book) = 0 /\ born + 0 = born
        BY <1>1, <2>2, FewerRows
    <2> QED
        BY <2>2, <2>3
<1>4. CASE r.op = "delete"
    <2>1. Asked(r) = Without(book, {r.id})
        BY <1>4 DEF Asked
    <2>2. Rows(Asked(r), born) /\ DOMAIN Asked(r) \subseteq DOMAIN book
        BY <1>1, <2>1, WithoutRows
    <2>3. Cardinality(DOMAIN Asked(r) \ DOMAIN book) = 0 /\ born + 0 = born
        BY <1>1, <2>2, FewerRows
    <2> QED
        BY <2>2, <2>3
<1>5. CASE r.op = "replace"
    <2>1. Asked(r) = Replaced(r) /\ Kept(r) \subseteq DOMAIN book
        BY <1>5 DEF Asked, Acceptable
    <2>2. /\ NewRows(r) \in Nat /\ Rows(Replaced(r), born + NewRows(r))
          /\ DOMAIN Replaced(r) \ DOMAIN book = born + 1 .. born + NewRows(r)
        BY <2>1, ReplacedRows
    <2>3. Cardinality(born + 1 .. born + NewRows(r)) = NewRows(r)
        BY <1>1, <2>2, IntervalSize
    <2> QED
        BY <2>1, <2>2, <2>3
<1> QED
    BY <1>2, <1>3, <1>4, <1>5 DEF IsAsked

LEMMA ServeMakes ==
    ASSUME History, plan \in Plans, NEW r, IsAsked(r), Accepts(r), Applied(r), UNCHANGED edited
    PROVE  \E new : Makes(new)
<1> DEFINE added == Cardinality(DOMAIN Asked(r) \ DOMAIN book)
<1>1. PICK new : new = Asked(r)
    OBVIOUS
<1>2. /\ MayHold(Size(new), DOMAIN new \ DOMAIN book # {})
      /\ Write(new) /\ born' = born + added
    BY <1>1 DEF Accepts, Applied
<1>3. /\ added \in Nat /\ Rows(new, born + added)
    BY <1>1, AskedRows DEF Accepts
<1>4. born \in Nat /\ born + added \in Nat
    BY <1>3 DEF History
<1> HIDE DEF added
<1>5. /\ DOMAIN new \ DOMAIN book # {} => Size(new) <= Cap(plan)
      /\ Size(new) > Size(book) => Size(new) <= Cap(plan)
    BY <1>2, <1>3, <1>4, HeldWithinCap
<1> QED
    BY <1>2, <1>3, <1>4, <1>5 DEF Makes

-----------------------------------------------------------------------------
(* The inductive invariant. *)

\* The agent's view.
Reading ==
    seen # None => /\ seen.version \in Nat /\ seen.version <= version
                   /\ IsFiniteSet(DOMAIN seen.book)
                   /\ seen.version = version => Alike(seen.book, book)

\* A request that was applied carries a version that is past.
Waiting ==
    /\ applied \in Seq(Nat)
    /\ \A n \in DOMAIN applied : applied[n] <= 1
    /\ \A r \in sent :
           /\ IsAsked(r)
           /\ r.n \in DOMAIN applied
           /\ r.version \in Nat /\ r.version <= version
           /\ applied[r.n] > 0 => r.version < version

\* A preview of the current version shows the current book and where it came from.
Shown ==
    /\ preview = [phase |-> preview.phase, n |-> preview.n, version |-> preview.version,
                  book |-> preview.book, target |-> preview.target]
    /\ preview.n \in 0 .. Len(was)
    /\ preview.version \in Nat /\ preview.version <= version
    /\ preview.phase \in {"rows", "shown"} /\ preview.version = version
         => Alike(preview.book, book)
    /\ /\ preview.phase = "shown" /\ preview.version = version
       /\ preview.n .. Len(was) \subseteq DOMAIN groups
       => Alike(preview.target, was[preview.n])

IInv == History /\ plan \in Plans /\ Reading /\ Waiting /\ Shown

LEMMA InitInv == Init => IInv
<1> SUFFICES ASSUME Init PROVE IInv
    OBVIOUS
<1> USE HoldingsAssumption DEF Init
<1>1. born \in Nat /\ DOMAIN book = 1 .. born
    BY FS_CardinalityType
<1>2. Shaped(book)
    BY <1>1 DEF Shaped, Rows
<1>3. Len(was) = 0 /\ was \in Seq({}) /\ DOMAIN groups = {}
    BY DEF Empty
<1>4. History
    BY <1>1, <1>2, <1>3 DEF History
<1>5. Waiting
    BY DEF Waiting
<1>6. Shown
    BY <1>3 DEF Shown, NoPreview
<1> QED
    BY <1>4, <1>5, <1>6 DEF IInv, Reading

\* A write: what was read before it is past.
LEMMA WriteKeeps ==
    ASSUME IInv, NEW new, Makes(new)
    PROVE  /\ History'
           /\ UNCHANGED seen => Reading'
           /\ UNCHANGED <<sent, applied>> => Waiting'
           /\ UNCHANGED preview => Shown'
<1>1. version \in Nat /\ version' = version + 1
    BY DEF IInv, History, Makes, Write
<1>2. History'
    BY WriteKeepsHistory DEF IInv, Makes, Rows
<1>3. Len(was) \in Nat /\ Len(was') \in Nat /\ Len(was) <= Len(was')
    <2>1. PICK S : was \in Seq(S)
        BY DEF IInv, History
    <2>2. was \in Seq(S \cup {book})
        BY <2>1, SeqMonotonic
    <2>3. Len(Append(was, book)) = Len(was) + 1 /\ Len(was) \in Nat
        BY <2>2, AppendProperties, LenProperties
    <2>4. was' = was \/ was' = Append(was, book)
        BY DEF Makes, Write, Recorded
    <2> QED
        BY <2>3, <2>4
<1>4. ASSUME UNCHANGED seen PROVE Reading'
    BY <1>1, <1>4 DEF IInv, Reading
<1>5. ASSUME UNCHANGED <<sent, applied>> PROVE Waiting'
    BY <1>1, <1>5 DEF IInv, Waiting
<1>6. ASSUME UNCHANGED preview PROVE Shown'
    BY <1>1, <1>3, <1>6 DEF IInv, Shown
<1> QED
    BY <1>2, <1>4, <1>5, <1>6

\* Any other step: the book may change by hand and groups may go.
Quiet ==
    /\ UNCHANGED <<version, born, was>>
    /\ DOMAIN groups' \subseteq DOMAIN groups
    /\ \A n \in DOMAIN groups' : groups'[n] = groups[n]
    /\ edited \subseteq edited'
    /\ \A i \in Nat \ edited' : Same(book, book', i)
    /\ Rows(book', born)

LEMMA QuietKeeps ==
    ASSUME IInv, Quiet
    PROVE  /\ History'
           /\ \A b : Alike(b, book) => Alike(b, book)'
           /\ UNCHANGED seen => Reading'
           /\ UNCHANGED <<sent, applied>> => Waiting'
           /\ UNCHANGED preview => Shown'
<1> USE DEF IInv, Quiet
<1>1. ASSUME NEW b, Alike(b, book) PROVE Alike(b, book)'
    BY <1>1 DEF Alike, Same
<1>2. History'
    <2>1. ASSUME NEW n \in DOMAIN groups'
          PROVE  (Shaped(groups[n].old) /\ Shaped(groups[n].new) /\ Follows(n))'
        <3>1. Shaped(groups[n].old) /\ Shaped(groups[n].new) /\ Follows(n)
            BY DEF History
        <3>2. ASSUME NEW i \in Nat \ edited' PROVE Same(After(n), After(n)', i)
            BY DEF After, Same
        <3>3. Follows(n)'
            BY <3>1, <3>2 DEF Follows, Same
        <3> QED
            BY <3>1, <3>3 DEF Shaped
    <2>2. Shaped(book)'
        BY DEF Shaped
    <2> QED
        BY <2>1, <2>2 DEF History
<1>3. ASSUME UNCHANGED seen PROVE Reading'
    BY <1>1, <1>3 DEF Reading
<1>4. ASSUME UNCHANGED <<sent, applied>> PROVE Waiting'
    BY <1>4 DEF Waiting
<1>5. ASSUME UNCHANGED preview PROVE Shown'
    <2>1. ASSUME NEW b, NEW c, Alike(b, c) PROVE Alike(b, c)'
        BY <2>1 DEF Alike
    <2> QED
        BY <1>1, <1>5, <2>1 DEF Shown
<1> QED
    BY <1>1, <1>2, <1>3, <1>4, <1>5

-----------------------------------------------------------------------------
(* What an agent asks for, and what is made of it. *)

\* The rows of a whole book are finitely many.
LEMMA WholeBookRows ==
    ASSUME NEW b, IsFiniteSet(DOMAIN b), NEW S \in SUBSET DOMAIN b, NEW v, NEW more
    PROVE  IsFiniteSet(DOMAIN WholeBook(S, v, more))
<1>1. PICK n \in Nat : n = Cardinality(S)
    BY FS_Subset, FS_CardinalityType
<1> DEFINE X == {[id |-> InOrder(S)[k], val |-> v] : k \in 1 .. n} \cup {[id |-> NewRow, val |-> v]}
<1>2. PICK first : first = [k \in 1 .. n |-> [id |-> InOrder(S)[k], val |-> v]]
    OBVIOUS
<1>3. PICK last : last = IF more THEN <<[id |-> NewRow, val |-> v]>> ELSE <<>>
    OBVIOUS
<1>4. first \in Seq(X)
    <2>1. first \in [1 .. n -> X]
        BY <1>2
    <2> QED
        BY <2>1
<1>5. last \in Seq(X)
    <2>1. [id |-> NewRow, val |-> v] \in X
        OBVIOUS
    <2> HIDE DEF X
    <2>2. CASE more
        BY <1>3, <2>1, <2>2
    <2>3. CASE ~more
        BY <1>3, <2>3
    <2> QED
        BY <2>2, <2>3
<1> HIDE DEF X
<1>6. WholeBook(S, v, more) = first \o last
    BY <1>1, <1>2, <1>3 DEF WholeBook
<1>7. first \o last \in Seq(X)
    BY <1>4, <1>5, ConcatProperties
<1>8. PICK low \in Int, high \in Int : DOMAIN WholeBook(S, v, more) = low .. high
    BY <1>6, <1>7, LenProperties
<1> QED
    BY <1>8, FS_Interval

LEMMA AskKeeps == ASSUME IInv, Ask PROVE Waiting'
<1>1. /\ seen # None
      /\ seen.version \in Nat /\ seen.version <= version /\ IsFiniteSet(DOMAIN seen.book)
    BY DEF Ask, IInv, Reading
<1> DEFINE Right(r) == r.n = Len(applied) + 1 /\ r.version = seen.version /\ IsAsked(r)
<1>2. ASSUME NEW op \in {"create", "update", "delete", "replace"}, NEW k, NEW i, NEW v,
             NEW rows, NEW gone, IsFiniteSet(DOMAIN rows)
      PROVE  /\ Right([Blank(op) EXCEPT !.key = k, !.val = v])
             /\ Right([Blank(op) EXCEPT !.id = i, !.val = v])
             /\ Right([Blank(op) EXCEPT !.id = i])
             /\ Right([Blank(op) EXCEPT !.rows = rows, !.gone = gone])
    <2>1. IsFiniteSet(DOMAIN <<>>)
        BY FS_EmptySet
    <2> QED
        BY <1>2, <2>1 DEF Blank, IsAsked, Right
<1> HIDE DEF Right
<1>3. PICK r : sent' = sent \cup {r} /\ Right(r)
    <2>1. IsFiniteSet(DOMAIN <<>>)
        BY FS_EmptySet
    <2>2. CASE \E k \in Keys, v \in Vals : Send([Blank("create") EXCEPT !.key = k, !.val = v])
        <3>1. PICK k, v : Send([Blank("create") EXCEPT !.key = k, !.val = v])
            BY <2>2
        <3>2. Right([Blank("create") EXCEPT !.key = k, !.val = v])
            BY <1>2, <2>1
        <3> QED
            BY <3>1, <3>2 DEF Send
    <2>3. CASE \E i \in DOMAIN seen.book, v \in Vals :
                   Send([Blank("update") EXCEPT !.id = i, !.val = v])
        <3>1. PICK i, v : Send([Blank("update") EXCEPT !.id = i, !.val = v])
            BY <2>3
        <3>2. Right([Blank("update") EXCEPT !.id = i, !.val = v])
            BY <1>2, <2>1
        <3> QED
            BY <3>1, <3>2 DEF Send
    <2>4. CASE \E i \in DOMAIN seen.book : Send([Blank("delete") EXCEPT !.id = i])
        <3>1. PICK i : Send([Blank("delete") EXCEPT !.id = i])
            BY <2>4
        <3>2. Right([Blank("delete") EXCEPT !.id = i])
            BY <1>2, <2>1
        <3> QED
            BY <3>1, <3>2 DEF Send
    <2>5. CASE \E S \in SUBSET DOMAIN seen.book, v \in Vals, more, all \in BOOLEAN :
                   Send([Blank("replace") EXCEPT
                            !.rows = WholeBook(S, v, more),
                            !.gone = IF all THEN DOMAIN seen.book \ S ELSE {}])
        <3>0. PICK S \in SUBSET DOMAIN seen.book :
                  \E v, more, gone :
                      Send([Blank("replace") EXCEPT !.rows = WholeBook(S, v, more), !.gone = gone])
            BY <2>5
        <3>1. PICK v, more, gone :
                  Send([Blank("replace") EXCEPT !.rows = WholeBook(S, v, more), !.gone = gone])
            BY <3>0
        <3>2. IsFiniteSet(DOMAIN WholeBook(S, v, more))
            BY <1>1, WholeBookRows
        <3>3. Right([Blank("replace") EXCEPT !.rows = WholeBook(S, v, more), !.gone = gone])
            BY <1>2, <3>2
        <3> QED
            BY <3>1, <3>3 DEF Send
    <2> QED
        BY <2>2, <2>3, <2>4, <2>5 DEF Ask
<1>5. applied \in Seq(Nat) /\ applied' = Append(applied, 0) /\ version' = version
    BY DEF Ask, IInv, Waiting
<1>6. /\ applied' \in Seq(Nat) /\ DOMAIN applied' = DOMAIN applied \cup {Len(applied) + 1}
      /\ \A n \in DOMAIN applied : applied'[n] = applied[n]
      /\ applied'[Len(applied) + 1] = 0
    BY <1>5
<1>7. \A q \in sent \cup {r} :
          /\ IsAsked(q)
          /\ q.n \in DOMAIN applied'
          /\ q.version \in Nat /\ q.version <= version
          /\ applied'[q.n] > 0 => q.version < version
    BY <1>1, <1>3, <1>6 DEF IInv, Waiting, Right
<1>8. \A n \in DOMAIN applied' : applied'[n] <= 1
    BY <1>6 DEF IInv, Waiting
<1> QED
    BY <1>3, <1>5, <1>6, <1>7, <1>8 DEF Waiting, IsAsked

LEMMA ServeKeeps == ASSUME IInv, ServeWrite PROVE IInv' /\ \E new : Makes(new)
<1>1. PICK r \in sent : /\ Accepts(r) /\ Applied(r) /\ Arrives(r)
                        /\ \/ UNCHANGED seen
                           \/ seen' = IF r.op = "replace"
                                      THEN [version |-> version', book |-> book'] ELSE None
                        /\ UNCHANGED <<plan, preview, edited>>
    BY DEF ServeWrite
<1>2. PICK new : Makes(new)
    BY <1>1, ServeMakes DEF IInv, Waiting
<1>3. History' /\ (UNCHANGED seen => Reading') /\ Shown'
    BY <1>1, <1>2, WriteKeeps
<1>4. version \in Nat /\ version' = version + 1
    BY <1>2 DEF IInv, History, Makes, Write
<1>5. Reading'
    <2>1. IsFiniteSet(DOMAIN book')
        BY <1>2, BookIsFinite DEF Makes, Write
    <2>2. ASSUME seen' = [version |-> version', book |-> book'] PROVE Reading'
        BY <1>4, <2>1, <2>2 DEF Reading, Alike, Same
    <2> QED
        BY <1>1, <1>3, <2>2 DEF Reading
<1>6. Waiting'
    <2>1. r.version = version /\ r.n \in DOMAIN applied /\ applied[r.n] = 0
        BY <1>1 DEF Accepts, CurrentVersion, IInv, Waiting
    <2>2. /\ applied' = [applied EXCEPT ![r.n] = @ + 1] /\ applied \in Seq(Nat)
          /\ sent' \subseteq sent
        BY <1>1 DEF Applied, Arrives, IInv, Waiting
    <2>3. /\ applied' \in Seq(Nat) /\ DOMAIN applied' = DOMAIN applied
          /\ \A n \in DOMAIN applied : applied'[n] = IF n = r.n THEN 1 ELSE applied[n]
        BY <2>1, <2>2
    <2>4. \A q \in sent : /\ IsAsked(q) /\ q.n \in DOMAIN applied'
                          /\ q.version \in Nat /\ q.version < version'
        BY <1>4, <2>3 DEF IInv, Waiting
    <2>5. \A n \in DOMAIN applied' : applied'[n] <= 1
        BY <2>3 DEF IInv, Waiting
    <2> QED
        BY <1>4, <2>2, <2>3, <2>4, <2>5, SMTT(40) DEF Waiting, IsAsked
<1> QED
    BY <1>1, <1>2, <1>3, <1>5, <1>6 DEF IInv

-----------------------------------------------------------------------------
(* Every step. *)

\* The steps of the browser that write.
LEMMA BrowserKeeps ==
    ASSUME IInv, \/ ConfirmHoldings \/ CreateHolding \/ ReorderHoldings
                 \/ UpdateHolding \/ DeleteHolding
    PROVE  IInv' /\ \E new : Makes(new)
<1>1. PICK new : Makes(new)
    BY ConfirmMakes, CreateMakes, ChangeMakes DEF IInv
<1>2. UNCHANGED <<plan, seen, sent, preview, applied>>
    BY DEF ConfirmHoldings, CreateHolding, ReorderHoldings, UpdateHolding, DeleteHolding, ByHand
<1> QED
    BY <1>1, <1>2, WriteKeeps DEF IInv

LEMMA RollbackKeeps == ASSUME IInv, RollbackHoldings PROVE IInv' /\ \E new : Makes(new)
<1>1. PICK new : Makes(new)
    BY RollbackMakes DEF IInv
<1>2. UNCHANGED <<plan, seen, sent, applied>> /\ preview' = NoPreview
    BY DEF RollbackHoldings
<1>3. History' /\ Reading' /\ Waiting'
    BY <1>1, <1>2, WriteKeeps
<1>4. Shown'
    BY <1>2, <1>3 DEF Shown, NoPreview, History
<1> QED
    BY <1>1, <1>2, <1>3, <1>4 DEF IInv

LEMMA PreviewKeeps ==
    ASSUME IInv, PreviewVersion \/ PreviewRows \/ PreviewGroups
    PROVE  IInv' /\ UNCHANGED book
<1>1. previewUnchanged
    BY DEF PreviewVersion, PreviewRows, PreviewGroups
<1>2. UNCHANGED <<book, plan, version, born, groups, seen, sent, was, edited, applied>>
    BY <1>1 DEF previewUnchanged, history
<1>3. Quiet
    BY <1>2 DEF Quiet, Same, IInv, History, Shaped
<1>4. History' /\ Reading' /\ Waiting'
    BY <1>2, <1>3, QuietKeeps
<1>5. version \in Nat /\ Len(was) \in Nat /\ DOMAIN groups \subseteq 1 .. Len(was)
    BY DEF IInv, History
<1>6. CASE PreviewVersion
    <2>1. PICK n \in DOMAIN groups :
              preview' = [NoPreview EXCEPT !.phase = "version", !.n = n, !.version = version]
        BY <1>6 DEF PreviewVersion
    <2>2. preview' = [phase |-> "version", n |-> n, version |-> version,
                      book |-> Empty, target |-> Empty]
        BY <2>1 DEF NoPreview
    <2>3. Shown'
        BY <1>2, <1>5, <2>2 DEF Shown
    <2> QED
        BY <1>2, <1>4, <2>3 DEF IInv
<1>7. CASE PreviewRows
    <2>1. preview' = [preview EXCEPT !.phase = "rows", !.book = book] /\ Shown
        BY <1>7 DEF PreviewRows, IInv
    <2>2. preview' = [phase |-> "rows", n |-> preview.n, version |-> preview.version,
                      book |-> book, target |-> preview.target]
        BY <2>1 DEF Shown
    <2>3. Alike(book, book)'
        BY DEF Alike, Same
    <2>4. Shown'
        BY <1>2, <2>1, <2>2, <2>3 DEF Shown
    <2> QED
        BY <1>2, <1>4, <2>4 DEF IInv
<1>8. CASE PreviewGroups
    <2> DEFINE target == Replay(preview.book)[preview.n]
    <2>1. Shown /\ preview.phase = "rows"
        BY <1>8 DEF PreviewGroups, IInv
    <2>2. CASE preview.n \in DOMAIN groups /\ target.ok
        <3>1. preview' = [phase |-> "shown", n |-> preview.n, version |-> preview.version,
                          book |-> preview.book, target |-> target.book]
            BY <1>8, <2>1, <2>2 DEF PreviewGroups, Shown
        <3>2. ASSUME preview.version = version, preview.n .. Len(was) \subseteq DOMAIN groups
              PROVE  Alike(target.book, was[preview.n])
            <4>1. Alike(preview.book, book) /\ preview.n \in 1 .. Len(was)
                BY <1>5, <2>1, <2>2, <3>2 DEF Shown
            <4>2. Led(preview.book, preview.n)
                BY <3>2, <4>1, ReplayLeadsBack DEF IInv
            <4> QED
                BY <1>5, <2>2, <4>1, <4>2 DEF Led
        <3>3. PICK found : found = target.book
            OBVIOUS
        <3> HIDE DEF target
        <3>4. \A x, y : Alike(x, y) => Alike(x, y)'
            BY <1>2 DEF Alike
        <3>5. Shown'
            BY <1>2, <2>1, <3>1, <3>2, <3>3, <3>4 DEF Shown
        <3> QED
            BY <1>2, <1>4, <3>5 DEF IInv
    <2>3. CASE ~(preview.n \in DOMAIN groups /\ target.ok)
        <3>1. preview' = NoPreview
            BY <1>8, <2>3 DEF PreviewGroups
        <3>2. Shown'
            BY <1>2, <1>5, <3>1 DEF Shown, NoPreview
        <3> QED
            BY <1>2, <1>4, <3>2 DEF IInv
    <2> QED
        BY <2>2, <2>3
<1> QED
    BY <1>2, <1>6, <1>7, <1>8

\* The agent's steps but the one that writes.
LEMMA AgentKeeps ==
    ASSUME IInv, GetBook \/ Ask \/ ServeWithoutWriting
    PROVE  IInv' /\ UNCHANGED <<book, preview>>
<1>1. UNCHANGED <<book, plan, version, born, groups, was, edited, preview>>
    BY DEF GetBook, Ask, ServeWithoutWriting, history
<1>2. Quiet
    BY <1>1 DEF Quiet, Same, IInv, History, Shaped
<1>3. History' /\ Shown'
    BY <1>1, <1>2, QuietKeeps
<1>4. CASE GetBook
    <2>1. seen' = [version |-> version, book |-> book] /\ UNCHANGED <<sent, applied>>
        BY <1>4 DEF GetBook, history
    <2>2. IsFiniteSet(DOMAIN book) /\ version \in Nat
        BY BookIsFinite DEF IInv, History, Shaped
    <2>3. Reading'
        BY <1>1, <2>1, <2>2 DEF Reading, Alike, Same
    <2> QED
        BY <1>1, <1>2, <1>3, <2>1, <2>3, QuietKeeps DEF IInv
<1>5. CASE Ask
    BY <1>1, <1>2, <1>3, <1>5, AskKeeps, QuietKeeps DEF IInv, Ask
<1>6. CASE ServeWithoutWriting
    <2>1. sent' \subseteq sent /\ UNCHANGED <<seen, applied>>
        BY <1>6 DEF ServeWithoutWriting, history
    <2>2. Waiting'
        BY <1>1, <2>1 DEF IInv, Waiting
    <2> QED
        BY <1>1, <1>2, <1>3, <2>1, <2>2, QuietKeeps DEF IInv
<1> QED
    BY <1>1, <1>4, <1>5, <1>6

\* Around the book: it may lose a row, and gains none.
LEMMA AroundKeeps ==
    ASSUME IInv, Around
    PROVE  IInv' /\ UNCHANGED preview /\ DOMAIN book' \subseteq DOMAIN book
<1>1. UNCHANGED <<version, born, seen, sent, preview, was, applied>> /\ plan' \in Plans
    BY DEF Around, KeyExpires, PlanChanges, OpsEdit, CleanupHoldingChanges, history, IInv
<1>2. born \in Nat /\ Shaped(book)
    BY DEF IInv, History
<1>3. Quiet /\ DOMAIN book' \subseteq DOMAIN book
    <2>1. CASE KeyExpires \/ PlanChanges
        BY <1>1, <1>2, <2>1 DEF KeyExpires, PlanChanges, history, Quiet, Same, Shaped
    <2>2. CASE OpsEdit
        <3>1. PICK i \in DOMAIN book :
                  /\ book' = Without(book, {i}) \/ \E v : book' = WithValue(book, i, v)
                  /\ edited' = edited \cup {i} /\ groups' = groups
            BY <2>2 DEF OpsEdit
        <3>2. /\ Rows(book', born) /\ DOMAIN book' \subseteq DOMAIN book
              /\ DOMAIN book \ {i} \subseteq DOMAIN book'
              /\ \A j \in DOMAIN book \ {i} : book'[j] = book[j]
            <4>1. CASE book' = Without(book, {i})
                BY <1>2, <4>1, WithoutRows
            <4>2. CASE \E v : book' = WithValue(book, i, v)
                BY <1>2, <4>2, WithValueRows
            <4> QED
                BY <3>1, <4>1, <4>2
        <3>3. \A j \in Nat \ edited' : Same(book, book', j)
            BY <3>1, <3>2 DEF Same
        <3> QED
            BY <1>1, <3>1, <3>2, <3>3 DEF Quiet
    <2>3. CASE CleanupHoldingChanges
        <3>1. PICK S : groups' = Restricted(groups, DOMAIN groups \ S) /\ UNCHANGED <<book, edited>>
            BY <2>3 DEF CleanupHoldingChanges, history
        <3>2. DOMAIN groups' \subseteq DOMAIN groups /\ \A n \in DOMAIN groups' : groups'[n] = groups[n]
            BY <3>1 DEF Restricted
        <3> QED
            BY <1>1, <1>2, <3>1, <3>2 DEF Quiet, Same, Shaped
    <2> QED
        BY <2>1, <2>2, <2>3 DEF Around
<1> QED
    BY <1>1, <1>3, QuietKeeps DEF IInv

LEMMA NextKeepsInv == IInv /\ [Next]_vars => IInv'
<1> SUFFICES ASSUME IInv, [Next]_vars PROVE IInv'
    OBVIOUS
<1>1. CASE Browse
    BY <1>1, BrowserKeeps, PreviewKeeps, RollbackKeeps DEF Browse
<1>2. CASE AgentStep
    BY <1>2, AgentKeeps, ServeKeeps DEF AgentStep
<1>3. CASE Around
    BY <1>3, AroundKeeps
<1>4. CASE UNCHANGED vars
    <2>1. UNCHANGED <<book, plan, version, born, groups, seen, sent, preview, was, edited, applied>>
        BY <1>4 DEF vars, history
    <2>2. Quiet
        BY <2>1 DEF Quiet, Same, IInv, History, Shaped
    <2> QED
        BY <2>1, <2>2, QuietKeeps DEF IInv
<1> QED
    BY <1>1, <1>2, <1>3, <1>4 DEF Next

LEMMA SpecKeepsInv == Spec => []IInv
BY InitInv, NextKeepsInv, PTL DEF Spec

-----------------------------------------------------------------------------
(* The theorems. *)

\* Whatever agrees outside the rows edited by hand agrees among the ids given out.
LEMMA AlikeAgree == ASSUME born \in Nat, NEW a, NEW b, Alike(a, b) PROVE Agree(a, b)
BY DEF Alike, Agree

\* Whoever holds the current version holds the current book, but for the rows
\* that Ops has changed by hand (agent_holdings.plan refuses the older ones).
THEOREM VersionIsBook == Spec => []VersionTellsBook
<1>1. IInv => VersionTellsBook
    BY AlikeAgree DEF IInv, Reading, VersionTellsBook, History
<1> QED
    BY <1>1, SpecKeepsInv, PTL

\* A request is applied once, however often a copy of it arrives: the write moves
\* the version past the one the copies carry, so the key may even expire
\* (agent_holdings.plan, agent_idempotency.lookup).
THEOREM RequestsApplyOnce == Spec => []AppliedOnce
<1>1. IInv => AppliedOnce
    BY DEF IInv, Waiting, AppliedOnce
<1> QED
    BY <1>1, SpecKeepsInv, PTL

\* With no group missing on the way the history leads back to the book that each
\* group found, and only an edit by hand can block it (holding_changes.replay).
THEOREM HistoryLeadsBack == Spec => []RollbackExact
<1>1. ASSUME IInv PROVE RollbackExact
    <2> SUFFICES ASSUME NEW n \in DOMAIN groups, n .. Len(was) \subseteq DOMAIN groups
                 PROVE  IF Replay(book)[n].ok THEN Agree(Replay(book)[n].book, was[n])
                        ELSE edited # {}
        BY DEF RollbackExact
    <2>1. n \in 1 .. Len(was) /\ Len(was) \in Nat /\ born \in Nat /\ History
        BY <1>1 DEF IInv, History
    <2>2. Alike(book, book)
        BY DEF Alike, Same
    <2>3. Led(book, n)
        BY <2>1, <2>2, ReplayLeadsBack
    <2>4. n # Len(was) + 1
        BY <2>1
    <2> QED
        BY <2>1, <2>3, <2>4, AlikeAgree DEF Led
<1> QED
    BY <1>1, SpecKeepsInv, PTL

\* A rollback does what its preview showed, to the book of which it showed it
\* (holding_changes.preview_rollback and rollback).
THEOREM RollbackKeepsItsWord == Spec => RollbackAsShown
<1>1. ASSUME IInv, [Next]_vars,
             preview.phase = "shown", preview' = NoPreview,
             preview.n .. Len(was) \subseteq DOMAIN groups
      PROVE  Agree(preview.book, book) /\ Agree(preview.target, book')
    <2>1. Shown /\ History /\ born \in Nat /\ preview # NoPreview
        BY <1>1 DEF IInv, History, NoPreview
    <2>2. RollbackHoldings
        <3>1. CASE Browse
            BY <1>1, <2>1, <3>1 DEF Browse, ByHand, ConfirmHoldings, CreateHolding,
               ReorderHoldings, UpdateHolding, DeleteHolding, PreviewVersion, PreviewRows,
               PreviewGroups, NoPreview
        <3>2. CASE AgentStep
            BY <1>1, <2>1, <3>2, AgentKeeps DEF AgentStep, ServeWrite
        <3>3. CASE Around
            BY <1>1, <2>1, <3>3, AroundKeeps
        <3>4. CASE UNCHANGED vars
            BY <1>1, <2>1, <3>4 DEF vars
        <3> QED
            BY <1>1, <3>1, <3>2, <3>3, <3>4 DEF Next
    <2>3. /\ preview.n \in DOMAIN groups /\ preview.version = version
          /\ Replay(book)[preview.n].ok /\ book' = Replay(book)[preview.n].book
        BY <2>2 DEF RollbackHoldings, CurrentVersion, Write
    <2>4. preview.n \in 1 .. Len(was) /\ Len(was) \in Nat
        BY <2>1, <2>3 DEF History
    <2>5. Alike(book, book)
        BY DEF Alike, Same
    <2>6. Led(book, preview.n) /\ preview.n # Len(was) + 1
        BY <1>1, <2>1, <2>4, <2>5, ReplayLeadsBack
    <2>7. Alike(book', was[preview.n])
        BY <2>3, <2>6 DEF Led
    <2>8. Alike(preview.target, was[preview.n]) /\ Alike(preview.book, book)
        BY <1>1, <2>1, <2>3 DEF Shown
    <2>9. Agree(preview.target, book')
        BY <2>1, <2>7, <2>8 DEF Alike, Agree, Same
    <2> QED
        BY <2>1, <2>8, <2>9, AlikeAgree
<1>2. IInv /\ [Next]_vars
      => [/\ preview.phase = "shown" /\ preview' = NoPreview
          /\ preview.n .. Len(was) \subseteq DOMAIN groups
          => Agree(preview.book, book) /\ Agree(preview.target, book')]_vars
    BY <1>1
<1> QED
    BY <1>2, SpecKeepsInv, PTL DEF Spec, RollbackAsShown

\* A step that adds a row leaves no more rows than the plan holds, and a book over
\* the cap never grows (_ensure_cap, in every writer).
THEOREM CapHolds == Spec => RowsWithinCap
<1> DEFINE Within == /\ DOMAIN book' \ DOMAIN book # {} => Size(book') <= Cap(plan)
                     /\ Size(book') > Size(book) => Size(book') <= Cap(plan)
<1>1. ASSUME IInv, [Next]_vars, ~ UNCHANGED vars PROVE Within
    <2>1. CASE \E new : Makes(new)
        <3>1. PICK new : Makes(new)
            BY <2>1
        <3>2. book' = new
            BY <3>1 DEF Makes, Write
        <3> QED
            BY <3>1, <3>2 DEF Makes
    <2>2. CASE DOMAIN book' \subseteq DOMAIN book
        <3>1. PICK new : new = book'
            OBVIOUS
        <3>2. ~(DOMAIN new \ DOMAIN book # {}) /\ ~(Size(new) > Size(book))
            BY <1>1, <2>2, <3>1, FewerRows DEF IInv, History
        <3>3. Size(book') = Size(new) /\ DOMAIN book' = DOMAIN new
            BY <3>1
        <3> QED
            BY <3>2, <3>3
    <2>3. CASE Browse
        BY <1>1, <2>1, <2>2, <2>3, BrowserKeeps, PreviewKeeps, RollbackKeeps DEF Browse
    <2>4. CASE AgentStep
        BY <1>1, <2>1, <2>2, <2>4, AgentKeeps, ServeKeeps DEF AgentStep
    <2>5. CASE Around
        BY <1>1, <2>2, <2>5, AroundKeeps
    <2> QED
        BY <1>1, <2>3, <2>4, <2>5 DEF Next
<1>2. IInv /\ [Next]_vars => [Within]_vars
    BY <1>1
<1> QED
    BY <1>2, SpecKeepsInv, PTL DEF Spec, RowsWithinCap

-----------------------------------------------------------------------------
(* Uploads.                                                                *)

\* Of those who have read a job as pending there is only one.
Alone(j) ==
    /\ \A v \in Workers, w \in Workers : v \in Parsing(j) /\ w \in Parsing(j) => v = w
    /\ \A q \in Rescuers, r \in Rescuers : q \in Rescuing(j) /\ r \in Rescuing(j) => q = r
    /\ \A w \in Workers, r \in Rescuers : ~(w \in Parsing(j) /\ r \in Rescuing(j))
    /\ Enqueueing(j) => Parsing(j) = {} /\ Rescuing(j) = {}

\* Unless two overlapped, whoever may still end a job finds it pending, or gone.
Guarded(j) ==
    /\ jobs[j].status = "none" => ~Claimed(j)
    /\ ~overlapped[j] =>
           /\ Alone(j)
           /\ Claimed(j) => jobs[j].status \in {"pending", "deleted"}

\* What TextOnlyWhilePending says of one job.
Cleared(j) == /\ jobs[j].text <=> Pending(j)
              /\ jobs[j].preview => jobs[j].status = "success" \/ overlapped[j]

UInv == UploadsTypeOK /\ \A j \in Jobs : Guarded(j) /\ Cleared(j)

-----------------------------------------------------------------------------
\* The rows that the code writes have their types.
LEMMA RowTypes ==
    /\ NoJob \in Job /\ Stored \in Job /\ IdleWorker \in Worker
    /\ \A job \in Job : Succeeded(job) \in Job /\ Failed(job) \in Job
BY DEF NoJob, Stored, IdleWorker, Job, Worker, Succeeded, Failed

LEMMA StaleJob == \A job \in Job : [job EXCEPT !.stale = TRUE] \in Job
BY DEF Job

\* How a job may end.
LEMMA Ends ==
    ASSUME NEW job \in Job
    PROVE  /\ Failed(job).status = "failed" /\ ~Failed(job).text
           /\ Failed(job).preview = job.preview
           /\ Succeeded(job).status = "success" /\ ~Succeeded(job).text
BY DEF Failed, Succeeded, Job

\* The initial states.
LEMMA InitGood == UploadsAssumption /\ UploadsInit => UInv
<1> SUFFICES ASSUME UploadsAssumption, UploadsInit PROVE UInv
    OBVIOUS
<1>1. UploadsTypeOK
    BY RowTypes DEF UploadsAssumption, UploadsInit, UploadsTypeOK, Router, IdleWorker
<1>2. ASSUME NEW j \in Jobs PROVE Guarded(j) /\ Cleared(j)
    BY <1>2 DEF UploadsInit, UploadsAssumption, Guarded, Cleared, Alone, Claimed, Parsing, Rescuing,
        Enqueueing, Pending, NoJob, IdleWorker
<1> QED
    BY <1>1, <1>2 DEF UInv

\* Blind writes: the end of a job changes its row alone, and to a type.
LEMMA EndTypes ==
    ASSUME UploadsTypeOK, NEW j \in Jobs, NEW row \in Job, End(j, row)
    PROVE  /\ jobs' \in [Jobs -> Job]
           /\ \A k \in Jobs \ {j} : jobs'[k] = jobs[k]
           /\ jobs[j].status = "deleted" => jobs'[j] = jobs[j]
           /\ jobs[j].status # "deleted" => jobs'[j] = row
BY DEF End, UploadsTypeOK

LEMMA NoneOutside == UploadsAssumption => \A w \in Worker : w.job = Nothing => w.job \notin Jobs
BY DEF UploadsAssumption

\* The router.
LEMMA RouterStep ==
    ASSUME UploadsAssumption, UInv, NEW j \in Jobs,
           Upload(j) \/ Enqueue(j) \/ EnqueueFails(j) \/ RouterDies(j)
    PROVE  UInv'
<1> USE DEF UInv
<1>1. ASSUME Upload(j) PROVE UInv'
    <2>1. UploadsTypeOK'
        BY <1>1, RowTypes DEF Upload, UploadsTypeOK, Router
    <2>2. /\ jobs'[j].status = "pending" /\ jobs'[j].text /\ ~jobs'[j].preview
          /\ ~Claimed(j)
        BY <1>1 DEF Upload, UploadsTypeOK, Guarded, Stored, NoJob
    <2>3. ASSUME NEW k \in Jobs PROVE (Guarded(k) /\ Cleared(k))'
        BY <1>1, <2>2, <2>3 DEF Upload, UploadsTypeOK, Guarded, Cleared, Alone, Claimed, Parsing,
            Rescuing, Enqueueing, Pending
    <2> QED
        BY <2>1, <2>3
<1>2. ASSUME Enqueue(j) PROVE UInv'
    <2>1. UploadsTypeOK'
        BY <1>2 DEF Enqueue, Fault, UploadsTypeOK, Router, UploadsAssumption
    <2>2. ASSUME NEW k \in Jobs PROVE (Guarded(k) /\ Cleared(k))'
        BY <1>2, <2>2 DEF Enqueue, UploadsTypeOK, Guarded, Cleared, Alone, Claimed, Parsing,
            Rescuing, Enqueueing, Pending
    <2> QED
        BY <2>1, <2>2
<1>3. ASSUME EnqueueFails(j) PROVE UInv'
    <2>1. UploadsTypeOK'
        BY <1>3, RowTypes, EndTypes DEF EnqueueFails, Fault, UploadsTypeOK, Router, UploadsAssumption
    <2>2. Failed(jobs[j]).status = "failed" /\ ~Failed(jobs[j]).text
          /\ Failed(jobs[j]).preview = jobs[j].preview
        BY DEF Failed, UploadsTypeOK, Job
    <2>3. Failed(jobs[j]) \in Job
        BY RowTypes DEF UploadsTypeOK
    <2>4. /\ \A k \in Jobs \ {j} : jobs'[k] = jobs[k]
          /\ jobs[j].status = "deleted" => jobs'[j] = jobs[j]
          /\ jobs[j].status # "deleted" => jobs'[j] = Failed(jobs[j])
        BY <1>3, <2>3, EndTypes DEF EnqueueFails
    <2>5. Claimed(j)
        BY <1>3 DEF EnqueueFails, Claimed, Enqueueing
    <2>6. ASSUME NEW k \in Jobs PROVE (Guarded(k) /\ Cleared(k))'
        BY <1>3, <2>2, <2>4, <2>5, <2>6 DEF EnqueueFails, UploadsTypeOK, Guarded, Cleared, Alone,
            Claimed, Parsing, Rescuing, Enqueueing, Pending
    <2> QED
        BY <2>1, <2>6
<1>4. ASSUME RouterDies(j) PROVE UInv'
    <2>1. UploadsTypeOK'
        BY <1>4 DEF RouterDies, Fault, UploadsTypeOK, Router, UploadsAssumption
    <2>2. ASSUME NEW k \in Jobs PROVE (Guarded(k) /\ Cleared(k))'
        BY <1>4, <2>2 DEF RouterDies, UploadsTypeOK, Guarded, Cleared, Alone, Claimed, Parsing,
            Rescuing, Enqueueing, Pending
    <2> QED
        BY <2>1, <2>2
<1> QED
    BY <1>1, <1>2, <1>3, <1>4

\* A worker takes a message.
LEMMA TakeStep ==
    ASSUME UploadsAssumption, UInv, NEW w \in Workers, NEW j \in Jobs,
           StartParse(w, j) \/ SkipParse(w, j)
    PROVE  UInv'
<1> USE DEF UInv
<1>1. ASSUME StartParse(w, j) PROVE UInv'
    <2>1. UploadsTypeOK'
        BY <1>1, RowTypes, NoneOutside DEF StartParse, Set, ReadsPending, UploadsTypeOK, Worker, UploadsAssumption
    <2>2. /\ Pending(j)
          /\ \A k \in Jobs \ {j} : overlapped'[k] = overlapped[k]
          /\ ~overlapped'[j] => ~overlapped[j] /\ ~Claimed(j)
        BY <1>1 DEF StartParse, ReadsPending, UploadsTypeOK
    <2>3. Parsing(j)' = Parsing(j) \cup {w} /\ \A k \in Jobs \ {j} : Parsing(k)' = Parsing(k)
        BY <1>1 DEF StartParse, Set, Parsing, UploadsTypeOK, Worker
    <2>4. \A k \in Jobs : Rescuing(k)' = Rescuing(k) /\ Enqueueing(k)' = Enqueueing(k)
        BY <1>1 DEF StartParse, Rescuing, Enqueueing
    <2>5. jobs' = jobs
        BY <1>1 DEF StartParse
    <2>6. ASSUME NEW k \in Jobs PROVE (Guarded(k) /\ Cleared(k))'
        <3>1. CASE k = j
            BY <2>2, <2>3, <2>4, <2>5, <3>1 DEF Guarded, Cleared, Alone, Claimed, Pending
        <3>2. CASE k # j
            BY <2>2, <2>3, <2>4, <2>5, <2>6, <3>2 DEF Guarded, Cleared, Alone, Claimed, Pending
        <3> QED
            BY <3>1, <3>2
    <2> QED
        BY <2>1, <2>6
<1>2. ASSUME SkipParse(w, j) PROVE UInv'
    <2>1. UploadsTypeOK'
        BY <1>2, RowTypes, NoneOutside DEF SkipParse, UploadsTypeOK, Worker, UploadsAssumption
    <2>2. ASSUME NEW k \in Jobs PROVE (Guarded(k) /\ Cleared(k))'
        BY <1>2, <2>2 DEF SkipParse, UploadsTypeOK, Guarded, Cleared, Alone, Claimed,
            Parsing, Rescuing, Enqueueing, Pending
    <2> QED
        BY <2>1, <2>2
<1> QED
    BY <1>1, <1>2

\* A worker goes on, or stops.
LEMMA WorkerStep ==
    ASSUME UploadsAssumption, UInv, NEW w \in Workers,
           FinishParse(w) \/ Acknowledge(w) \/ CommitFails(w) \/ HardLimit(w) \/ WorkerDies(w)
    PROVE  UInv'
<1> USE DEF UInv
<1>1. ASSUME FinishParse(w) PROVE UInv'
    <2>1. PICK j \in Jobs : /\ j = worker[w].job
                            /\ w \in Parsing(j) /\ Claimed(j) /\ worker[w] \in Worker
        BY <1>1 DEF FinishParse, UploadsTypeOK, Worker, Parsing, Claimed
    <2>2. PICK row \in {Succeeded(jobs[j]), Failed(jobs[j])} : End(j, row)
        BY <1>1, <2>1 DEF FinishParse
    <2>3. /\ row \in Job /\ ~row.text /\ row.status \in Ended
          /\ row.preview => row.status = "success" \/ jobs[j].preview
        <3>1. jobs[j] \in Job
            BY <2>1 DEF UploadsTypeOK
        <3> QED
            BY <2>2, <3>1, RowTypes, Ends DEF Ended
    <2>4. /\ jobs' \in [Jobs -> Job]
          /\ \A k \in Jobs \ {j} : jobs'[k] = jobs[k]
          /\ jobs[j].status = "deleted" => jobs'[j] = jobs[j]
          /\ jobs[j].status # "deleted" => jobs'[j] = row
        BY <2>1, <2>2, <2>3, EndTypes
    <2>5. worker' = [worker EXCEPT ![w] = [phase |-> "written", job |-> j]]
        BY <1>1, <2>1 DEF FinishParse, Set
    <2>6. UploadsTypeOK'
        BY <1>1, <2>1, <2>4, <2>5 DEF FinishParse, UploadsTypeOK, Worker, UploadsAssumption
    <2>7. Parsing(j)' = Parsing(j) \ {w} /\ \A k \in Jobs \ {j} : Parsing(k)' = Parsing(k)
        BY <2>1, <2>5 DEF Parsing, UploadsTypeOK
    <2>8. \A k \in Jobs : Rescuing(k)' = Rescuing(k) /\ Enqueueing(k)' = Enqueueing(k)
        BY <1>1 DEF FinishParse, Rescuing, Enqueueing
    <2>9. ASSUME NEW k \in Jobs PROVE (Guarded(k) /\ Cleared(k))'
        <3>1. overlapped' = overlapped
            BY <1>1 DEF FinishParse
        <3>2. CASE k = j
            <4>1. Guarded(j) /\ Cleared(j)
                BY <2>1
            <4>2. ~overlapped[j] => jobs[j].status \in {"pending", "deleted"} /\ Alone(j)
                BY <2>1, <4>1 DEF Guarded
            <4>3. ~overlapped[j] => Parsing(j) = {w} /\ Rescuing(j) = {} /\ ~Enqueueing(j)
                BY <2>1, <4>2 DEF Alone, Parsing, Rescuing
            <4>4. ~overlapped[j] => Parsing(j)' = {} /\ Rescuing(j)' = {} /\ ~Enqueueing(j)'
                BY <2>7, <2>8, <4>3
            <4>5. ~overlapped[j] => ~Claimed(j)' /\ Alone(j)'
                BY <4>4 DEF Alone, Claimed
            <4>6. jobs[j].status # "none" /\ jobs'[j].status # "none"
                BY <2>1, <2>3, <2>4, <4>1 DEF Guarded, Ended
            <4>7. Guarded(j)'
                BY <3>1, <4>5, <4>6 DEF Guarded
            <4>8. Cleared(j)'
                BY <2>3, <2>4, <3>1, <4>1, <4>2 DEF Cleared, Pending, Ended
            <4> QED
                BY <3>2, <4>7, <4>8
        <3>3. CASE k # j
            BY <2>4, <2>7, <2>8, <2>9, <3>1, <3>3 DEF Guarded, Cleared, Alone, Claimed, Pending
        <3> QED
            BY <3>2, <3>3
    <2> QED
        BY <2>6, <2>9
<1>2. ASSUME Acknowledge(w) PROVE UInv'
    <2>1. UploadsTypeOK'
        BY <1>2, RowTypes, NoneOutside DEF Acknowledge, Idle, IdleWorker, UploadsTypeOK, Worker, UploadsAssumption
    <2>2. ASSUME NEW k \in Jobs PROVE (Guarded(k) /\ Cleared(k))'
        BY <1>2, <2>2 DEF Acknowledge, Idle, IdleWorker, UploadsTypeOK, Guarded, Cleared, Alone, Claimed,
            Parsing, Rescuing, Enqueueing, Pending
    <2> QED
        BY <2>1, <2>2
<1>3. ASSUME CommitFails(w) PROVE UInv'
    <2>1. UploadsTypeOK'
        BY <1>3, RowTypes, NoneOutside DEF CommitFails, Idle, IdleWorker, Fault, UploadsTypeOK, Worker, UploadsAssumption
    <2>2. ASSUME NEW k \in Jobs PROVE (Guarded(k) /\ Cleared(k))'
        BY <1>3, <2>2 DEF CommitFails, Idle, IdleWorker, Fault, UploadsTypeOK, Guarded, Cleared, Alone, Claimed,
            Parsing, Rescuing, Enqueueing, Pending
    <2> QED
        BY <2>1, <2>2
<1>4. ASSUME HardLimit(w) PROVE UInv'
    <2>1. UploadsTypeOK'
        BY <1>4, RowTypes, NoneOutside DEF HardLimit, Idle, IdleWorker, Fault, UploadsTypeOK, Worker, UploadsAssumption
    <2>2. ASSUME NEW k \in Jobs PROVE (Guarded(k) /\ Cleared(k))'
        BY <1>4, <2>2 DEF HardLimit, Idle, IdleWorker, Fault, UploadsTypeOK, Guarded, Cleared, Alone, Claimed,
            Parsing, Rescuing, Enqueueing, Pending
    <2> QED
        BY <2>1, <2>2
<1>5. ASSUME WorkerDies(w) PROVE UInv'
    <2>1. UploadsTypeOK'
        BY <1>5, RowTypes, NoneOutside DEF WorkerDies, Idle, IdleWorker, Fault, UploadsTypeOK, Worker, UploadsAssumption
    <2>2. ASSUME NEW k \in Jobs PROVE (Guarded(k) /\ Cleared(k))'
        BY <1>5, <2>2 DEF WorkerDies, Idle, IdleWorker, Fault, UploadsTypeOK, Guarded, Cleared, Alone, Claimed,
            Parsing, Rescuing, Enqueueing, Pending
    <2> QED
        BY <2>1, <2>2
<1> QED
    BY <1>1, <1>2, <1>3, <1>4, <1>5

\* A rescuer writes, or fails to.
LEMMA RescuerStep ==
    ASSUME UploadsAssumption, UInv, NEW r \in Rescuers,
           RescueWrites(r) \/ RescueFails(r)
    PROVE  UInv'
<1> USE DEF UInv
<1>1. ASSUME RescueWrites(r) PROVE UInv'
    <2> DEFINE j == rescuer[r]
    <2>1. j \in Jobs /\ r \in Rescuing(j) /\ Claimed(j)
        BY <1>1 DEF RescueWrites, UploadsTypeOK, Rescuing, Claimed
    <2>2. /\ Failed(jobs[j]) \in Job
          /\ Failed(jobs[j]).status = "failed" /\ ~Failed(jobs[j]).text
          /\ Failed(jobs[j]).preview = jobs[j].preview
        <3>1. jobs[j] \in Job
            BY <2>1 DEF UploadsTypeOK
        <3> QED
            BY <3>1, RowTypes, Ends
    <2>3. /\ jobs' \in [Jobs -> Job]
          /\ \A k \in Jobs \ {j} : jobs'[k] = jobs[k]
          /\ jobs[j].status = "deleted" => jobs'[j] = jobs[j]
          /\ jobs[j].status # "deleted" => jobs'[j] = Failed(jobs[j])
        BY <1>1, <2>1, <2>2, EndTypes DEF RescueWrites
    <2>4. UploadsTypeOK'
        BY <1>1, <2>3 DEF RescueWrites, UploadsTypeOK
    <2>5. ASSUME NEW k \in Jobs PROVE (Guarded(k) /\ Cleared(k))'
        BY <1>1, <2>1, <2>2, <2>3, <2>5 DEF RescueWrites, UploadsTypeOK, Guarded, Cleared, Alone, Claimed,
            Parsing, Rescuing, Enqueueing, Pending, UploadsAssumption
    <2> QED
        BY <2>4, <2>5
<1>2. ASSUME RescueFails(r) PROVE UInv'
    <2>1. UploadsTypeOK'
        BY <1>2, RowTypes, NoneOutside DEF RescueFails, Fault, UploadsTypeOK, Worker, UploadsAssumption
    <2>2. ASSUME NEW k \in Jobs PROVE (Guarded(k) /\ Cleared(k))'
        BY <1>2, <2>2 DEF RescueFails, Fault, UploadsTypeOK, Guarded, Cleared, Alone, Claimed,
            Parsing, Rescuing, Enqueueing, Pending
    <2> QED
        BY <2>1, <2>2
<1> QED
    BY <1>1, <1>2

\* A rescuer reads a job.
LEMMA RescueStarts ==
    ASSUME UploadsAssumption, UInv, NEW r \in Rescuers, NEW j \in Jobs,
           RescueReads(r, j)
    PROVE  UInv'
<1> USE DEF UInv
<1>1. ASSUME RescueReads(r, j) PROVE UInv'
    <2>1. UploadsTypeOK'
        BY <1>1, RowTypes, NoneOutside DEF RescueReads, ReadsPending, UploadsTypeOK, Worker, UploadsAssumption
    <2>2. /\ Pending(j)
          /\ \A k \in Jobs \ {j} : overlapped'[k] = overlapped[k]
          /\ ~overlapped'[j] => ~overlapped[j] /\ ~Claimed(j)
        BY <1>1 DEF RescueReads, ReadsPending, UploadsTypeOK
    <2>3. Rescuing(j)' = Rescuing(j) \cup {r} /\ \A k \in Jobs \ {j} : Rescuing(k)' = Rescuing(k)
        BY <1>1 DEF RescueReads, Rescuing, UploadsTypeOK, UploadsAssumption
    <2>4. \A k \in Jobs : Parsing(k)' = Parsing(k) /\ Enqueueing(k)' = Enqueueing(k)
        BY <1>1 DEF RescueReads, Parsing, Enqueueing
    <2>5. jobs' = jobs
        BY <1>1 DEF RescueReads
    <2>6. ASSUME NEW k \in Jobs PROVE (Guarded(k) /\ Cleared(k))'
        <3>1. CASE k = j
            BY <2>2, <2>3, <2>4, <2>5, <3>1 DEF Guarded, Cleared, Alone, Claimed, Pending
        <3>2. CASE k # j
            BY <2>2, <2>3, <2>4, <2>5, <2>6, <3>2 DEF Guarded, Cleared, Alone, Claimed, Pending
        <3> QED
            BY <3>1, <3>2
    <2> QED
        BY <2>1, <2>6
<1> QED
    BY <1>1

\* The broker, the hook and time.
LEMMA TimeStep ==
    ASSUME UploadsAssumption, UInv, NEW j \in Jobs,
           Redeliver(j) \/ HookMissed(j) \/ Stale(j) \/ Age(j)
    PROVE  UInv'
<1> USE DEF UInv
<1>1. ASSUME Redeliver(j) PROVE UInv'
    <2>1. UploadsTypeOK'
        BY <1>1, RowTypes, NoneOutside DEF Redeliver, Fault, UploadsTypeOK, Worker, UploadsAssumption
    <2>2. ASSUME NEW k \in Jobs PROVE (Guarded(k) /\ Cleared(k))'
        BY <1>1, <2>2 DEF Redeliver, Fault, UploadsTypeOK, Guarded, Cleared, Alone, Claimed,
            Parsing, Rescuing, Enqueueing, Pending
    <2> QED
        BY <2>1, <2>2
<1>2. ASSUME HookMissed(j) PROVE UInv'
    <2>1. UploadsTypeOK'
        BY <1>2, RowTypes, NoneOutside DEF HookMissed, Fault, UploadsTypeOK, Worker, UploadsAssumption
    <2>2. ASSUME NEW k \in Jobs PROVE (Guarded(k) /\ Cleared(k))'
        BY <1>2, <2>2 DEF HookMissed, Fault, UploadsTypeOK, Guarded, Cleared, Alone, Claimed,
            Parsing, Rescuing, Enqueueing, Pending
    <2> QED
        BY <2>1, <2>2
<1>3. ASSUME Stale(j) PROVE UInv'
    <2>1. UploadsTypeOK'
        <3>1. [jobs[j] EXCEPT !.stale = TRUE] \in Job
            BY StaleJob DEF UploadsTypeOK
        <3>2. jobs' \in [Jobs -> Job]
            BY <1>3, <3>1 DEF Stale, UploadsTypeOK
        <3> QED
            BY <1>3, <3>2 DEF Stale, UploadsTypeOK
    <2>2. ASSUME NEW k \in Jobs PROVE (Guarded(k) /\ Cleared(k))'
        BY <1>3, <2>2 DEF Stale, Job, UploadsTypeOK, Guarded, Cleared, Alone, Claimed,
            Parsing, Rescuing, Enqueueing, Pending
    <2> QED
        BY <2>1, <2>2
<1>4. ASSUME Age(j) PROVE UInv'
    <2>1. UploadsTypeOK'
        BY <1>4, RowTypes, NoneOutside DEF Age, Job, UploadsTypeOK, Worker, UploadsAssumption
    <2>2. ASSUME NEW k \in Jobs PROVE (Guarded(k) /\ Cleared(k))'
        BY <1>4, <2>2 DEF Age, Job, UploadsTypeOK, Guarded, Cleared, Alone, Claimed,
            Parsing, Rescuing, Enqueueing, Pending
    <2> QED
        BY <2>1, <2>2
<1> QED
    BY <1>1, <1>2, <1>3, <1>4

\* The retention task.
LEMMA CleanupStep == UploadsAssumption /\ UInv /\ CleanupUploadJobs => UInv'
<1> SUFFICES ASSUME UploadsAssumption, UInv, CleanupUploadJobs PROVE UInv'
    OBVIOUS
<1> USE DEF UInv
<1> DEFINE gone == [NoJob EXCEPT !.status = "deleted"]
<1>1. gone \in Job /\ gone.status = "deleted" /\ ~gone.text /\ ~gone.preview
    BY DEF NoJob, Job
<1>2. \A j \in Jobs : jobs'[j] = jobs[j] \/ (Expired(jobs[j]) /\ jobs'[j] = gone)
    BY DEF CleanupUploadJobs
<1>3. UploadsTypeOK'
    <2>1. jobs' \in [Jobs -> Job]
        BY <1>1 DEF CleanupUploadJobs, UploadsTypeOK
    <2> QED
        BY <2>1 DEF CleanupUploadJobs, UploadsTypeOK
<1>4. ASSUME NEW k \in Jobs PROVE (Guarded(k) /\ Cleared(k))'
    BY <1>1, <1>2, <1>4 DEF CleanupUploadJobs, UploadsTypeOK, Guarded, Cleared, Alone, Claimed,
            Parsing, Rescuing, Enqueueing, Pending, Expired, Ended
<1> QED
    BY <1>3, <1>4

-----------------------------------------------------------------------------
\* The invariant holds throughout.
LEMMA StepGood == UploadsAssumption /\ UInv /\ [UploadsNext]_uploadVars => UInv'
<1> SUFFICES ASSUME UploadsAssumption, UInv, [UploadsNext]_uploadVars PROVE UInv'
    OBVIOUS
<1>1. ASSUME NEW j \in Jobs, OfJob(j) PROVE UInv'
    BY <1>1, RouterStep, TimeStep DEF OfJob
<1>2. ASSUME NEW w \in Workers, OfWorker(w) PROVE UInv'
    BY <1>2, TakeStep, WorkerStep DEF OfWorker
<1>3. ASSUME NEW r \in Rescuers, OfRescuer(r) PROVE UInv'
    BY <1>3, RescuerStep, RescueStarts DEF OfRescuer
<1>4. CASE CleanupUploadJobs
    BY <1>4, CleanupStep
<1>5. CASE UNCHANGED uploadVars
    BY <1>5 DEF uploadVars, UInv, UploadsTypeOK, Guarded, Cleared, Alone, Claimed, Parsing,
        Rescuing, Enqueueing, Pending
<1> QED
    BY <1>1, <1>2, <1>3, <1>4, <1>5 DEF UploadsNext

LEMMA Invariance == UploadsSpec => []UInv
BY InitGood, StepGood, UploadsAssumption, PTL DEF UploadsSpec

\* Every reachable state of Uploads is well typed.
THEOREM UploadsTypes == UploadsSpec => []UploadsTypeOK
<1>1. UInv => UploadsTypeOK
    BY DEF UInv
<1> QED
    BY <1>1, Invariance, PTL

\* The text of a holdings file is on its row only while the job is pending, and
\* a preview only on a success, or on a job that two have ended at once.
THEOREM TextIsCleared == UploadsSpec => []TextOnlyWhilePending
<1>1. UInv => TextOnlyWhilePending
    BY DEF UInv, TextOnlyWhilePending, Cleared
<1> QED
    BY <1>1, Invariance, PTL

\* A step leaves a job alone that has ended, since nobody may still write it.
LEMMA EndedStands ==
    ASSUME UInv, [UploadsNext]_uploadVars, NEW j \in Jobs,
           jobs[j].status \in Ended, ~overlapped[j]
    PROVE  \/ jobs'[j].status = "deleted"
           \/ jobs'[j].status = jobs[j].status /\ jobs'[j].preview = jobs[j].preview
<1> DEFINE Stands == \/ jobs'[j].status = "deleted"
                     \/ jobs'[j].status = jobs[j].status /\ jobs'[j].preview = jobs[j].preview
<1>1. UploadsTypeOK /\ ~Claimed(j)
    BY DEF UInv, Guarded, Ended
<1>2. ASSUME NEW k \in Jobs, OfJob(k) PROVE Stands
    BY <1>1, <1>2 DEF OfJob, Upload, Enqueue, EnqueueFails, RouterDies, Redeliver, HookMissed, Stale,
        Age, End, Pending, Claimed, Enqueueing, Ended, UploadsTypeOK, Job
<1>3. ASSUME NEW w \in Workers, OfWorker(w) PROVE Stands
    <2>1. CASE FinishParse(w)
        <3>1. worker[w].job # j
            BY <1>1, <2>1 DEF FinishParse, Claimed, Parsing, UploadsTypeOK, Worker
        <3> QED
            BY <1>1, <2>1, <3>1 DEF FinishParse, End, UploadsTypeOK
    <2>2. CASE ~FinishParse(w)
        BY <1>3, <2>2 DEF OfWorker, StartParse, SkipParse, Acknowledge, CommitFails, HardLimit,
            WorkerDies
    <2> QED
        BY <2>1, <2>2
<1>4. ASSUME NEW r \in Rescuers, OfRescuer(r) PROVE Stands
    BY <1>1, <1>4 DEF OfRescuer, RescueReads, RescueWrites, RescueFails, End, Claimed, Rescuing,
        UploadsTypeOK
<1>5. CASE CleanupUploadJobs
    BY <1>5 DEF CleanupUploadJobs, NoJob
<1>6. CASE UNCHANGED uploadVars
    BY <1>6 DEF uploadVars
<1> QED
    BY <1>2, <1>3, <1>4, <1>5, <1>6 DEF UploadsNext

\* A job that has ended stays as it ended, whatever is delivered, swept or killed,
\* unless two had read it as pending at once.
THEOREM ResultsStand == UploadsSpec => ResultStands
<1>1. UInv /\ [UploadsNext]_uploadVars =>
        [\A j \in Jobs :
            jobs[j].status \in Ended /\ ~overlapped[j] =>
                \/ jobs'[j].status = "deleted"
                \/ /\ jobs'[j].status = jobs[j].status
                   /\ jobs'[j].preview = jobs[j].preview]_uploadVars
    BY EndedStands
<1> QED
    BY <1>1, Invariance, PTL DEF UploadsSpec, ResultStands

-----------------------------------------------------------------------------
(* The page: a step of one half leaves the other as it is.                 *)

LEMMA PageSpecs == PageSpec => Spec /\ UploadsSpec
<1>1. PageInit => Init /\ UploadsInit
    BY DEF PageInit
<1>2. [BookStep \/ UploadStep]_pageVars => [Next]_vars /\ [UploadsNext]_uploadVars
    BY DEF BookStep, UploadStep, pageVars, vars, uploadVars
<1> QED
    BY <1>1, <1>2, PTL DEF PageSpec, Spec, UploadsSpec

\* Whatever is proved of the book and of the upload holds of the page, which
\* is what the runs check.
THEOREM PageKeepsItsWord ==
    PageSpec => /\ []VersionTellsBook /\ []RollbackExact /\ []AppliedOnce
                /\ RowsWithinCap /\ RollbackAsShown /\ ResultStands
BY PageSpecs, VersionIsBook, RequestsApplyOnce, HistoryLeadsBack, RollbackKeepsItsWord,
   CapHolds, ResultsStand, PTL

=============================================================================
