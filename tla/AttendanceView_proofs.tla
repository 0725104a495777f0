-------------------------- MODULE AttendanceView_proofs --------------------------
(***************************************************************************)
(* What the queries are built from, for any rows: ORDER BY enumerates its  *)
(* rows, and the visits that 0106 pairs by their numbers never overlap, so *)
(* that no day has more hours than a day.                                  *)
(***************************************************************************)
EXTENDS AttendanceView, Totals_proofs

-----------------------------------------------------------------------------
(* ORDER BY. *)

Keys == Nat \X Nat

LEMMA KeysAreOrdered ==
  ASSUME NEW p \in Keys, NEW q \in Keys
  PROVE  /\ p # q <=> Precedes(p, q) \/ Precedes(q, p)
         /\ ~ (Precedes(p, q) /\ Precedes(q, p))
         /\ \A r \in Keys : Precedes(p, q) /\ ~Precedes(r, q) => Precedes(p, r)
BY DEF Keys, Precedes

\* The rows up to row i.
Upto(S, key, i) == {j \in S : ~Precedes(key[i], key[j])}

LEMMA RanksDiffer ==
  ASSUME NEW S, IsFiniteSet(S), NEW key \in [S -> Keys], NEW i \in S, NEW j \in S
  PROVE  /\ Cardinality(Upto(S, key, i)) \in 1..Cardinality(S)
         /\ Precedes(key[i], key[j]) =>
              Cardinality(Upto(S, key, i)) < Cardinality(Upto(S, key, j))
<1>1. \A k \in S : /\ IsFiniteSet(Upto(S, key, k))
                   /\ Cardinality(Upto(S, key, k)) \in Nat
                   /\ Cardinality(Upto(S, key, k)) <= Cardinality(S)
  <2>1. TAKE k \in S
  <2>2. Upto(S, key, k) \in SUBSET S
    BY DEF Upto
  <2>3. QED
    BY <2>2, FS_Subset, FS_CardinalityType
<1>2. Cardinality(S) \in Nat
  BY FS_CardinalityType
<1>3. i \in Upto(S, key, i)
  BY KeysAreOrdered DEF Upto
<1>4. Cardinality(Upto(S, key, i)) # 0
  BY <1>1, <1>3, FS_EmptySet
<1>5. ASSUME Precedes(key[i], key[j])
      PROVE  Cardinality(Upto(S, key, i)) < Cardinality(Upto(S, key, j))
  <2>1. Upto(S, key, i) \in SUBSET Upto(S, key, j)
    BY <1>5, KeysAreOrdered DEF Upto
  <2>2. j \in Upto(S, key, j) /\ j \notin Upto(S, key, i)
    BY <1>5, KeysAreOrdered DEF Upto
  <2>3. Upto(S, key, i) # Upto(S, key, j)
    BY <2>2
  <2>4. QED
    BY <1>1, <2>1, <2>3, FS_Subset
<1>6. QED
  BY <1>1, <1>2, <1>4, <1>5

\* The row at place n is the one with n rows up to it.
LEMMA PlacesAreRanks ==
  ASSUME NEW S, IsFiniteSet(S), NEW key \in [S -> Keys],
         \A i, j \in S : key[i] = key[j] => i = j
  PROVE  /\ \A i, j \in S : Cardinality(Upto(S, key, i)) = Cardinality(Upto(S, key, j)) => i = j
         /\ \A n \in 1..Cardinality(S) :
              /\ InOrder(S, key)[n] \in S
              /\ Cardinality(Upto(S, key, InOrder(S, key)[n])) = n
<1> DEFINE N == Cardinality(S)
           rank == [i \in S |-> Cardinality(Upto(S, key, i))]
           order == InOrder(S, key)
<1>1. N \in Nat
  BY FS_CardinalityType
<1>2. \A i, j \in S : rank[i] = rank[j] => i = j
  <2>1. TAKE i, j \in S
  <2>2. /\ rank[i] \in 1..N /\ rank[j] \in 1..N
        /\ Precedes(key[i], key[j]) => rank[i] < rank[j]
        /\ Precedes(key[j], key[i]) => rank[j] < rank[i]
    BY RanksDiffer
  <2>3. i # j => Precedes(key[i], key[j]) \/ Precedes(key[j], key[i])
    BY KeysAreOrdered
  <2>4. QED
    BY <1>1, <2>2, <2>3
<1>3. rank \in Injection(S, 1..N)
  <2>1. rank \in [S -> 1..N]
    BY RanksDiffer
  <2>2. QED
    BY <1>2, <2>1 DEF Injection, IsInjective
<1>4. rank \in Surjection(S, 1..N)
  <2>1. IsFiniteSet(1..N) /\ Cardinality(1..N) = N
    BY <1>1, FS_Interval
  <2>2. QED
    BY <1>3, <2>1, FS_Injection
<1>5. \A n \in 1..N : order[n] \in S /\ rank[order[n]] = n
  <2>1. TAKE n \in 1..N
  <2>2. \E i \in S : rank[i] = n
    BY <1>4 DEF Surjection
  <2>3. order[n] = CHOOSE i \in S : rank[i] = n
    BY DEF InOrder, Upto
  <2>4. QED
    BY <2>2, <2>3
<1>6. QED
  BY <1>2, <1>5

\* Every row has one place, and the places are in the order of the keys.
LEMMA OrderIsComplete ==
  ASSUME NEW S, IsFiniteSet(S), NEW key \in [S -> Keys],
         \A i, j \in S : key[i] = key[j] => i = j
  PROVE  /\ InOrder(S, key) \in [1..Cardinality(S) -> S] /\ Cardinality(S) \in Nat
         /\ \A i \in S : \E n \in 1..Cardinality(S) : InOrder(S, key)[n] = i
         /\ \A m, n \in 1..Cardinality(S) : InOrder(S, key)[m] = InOrder(S, key)[n] => m = n
         /\ \A m, n \in 1..Cardinality(S) :
              m < n => Precedes(key[InOrder(S, key)[m]], key[InOrder(S, key)[n]])
<1> DEFINE N == Cardinality(S)
           rank == [i \in S |-> Cardinality(Upto(S, key, i))]
           order == InOrder(S, key)
<1>1. N \in Nat
  BY FS_CardinalityType
<1>2. \A i, j \in S : rank[i] = rank[j] => i = j
  BY PlacesAreRanks
<1>3. \A n \in 1..N : order[n] \in S /\ rank[order[n]] = n
  BY PlacesAreRanks
<1>4. order \in [1..N -> S]
  <2>1. order = [n \in 1..N |-> CHOOSE i \in S : Cardinality({j \in S : ~Precedes(key[i], key[j])}) = n]
    BY DEF InOrder
  <2> HIDE DEF order, rank, N
  <2>2. QED
    BY <1>3, <2>1
<1> HIDE DEF order
<1>5. \A i \in S : \E n \in 1..N : order[n] = i
  <2>1. TAKE i \in S
  <2>2. rank[i] \in 1..N
    BY RanksDiffer
  <2>3. QED
    BY <1>2, <1>3, <2>2
<1>6. \A m, n \in 1..N : order[m] = order[n] => m = n
  <2> HIDE DEF rank
  <2>1. QED
    BY <1>3
<1>7. \A m, n \in 1..N : m < n => Precedes(key[order[m]], key[order[n]])
  <2>1. SUFFICES ASSUME NEW m \in 1..N, NEW n \in 1..N, m < n,
                        ~Precedes(key[order[m]], key[order[n]])
                 PROVE  FALSE
    OBVIOUS
  <2>2. order[m] \in S /\ order[n] \in S /\ rank[order[m]] = m /\ rank[order[n]] = n
    BY <1>3
  <2>3. order[m] # order[n]
    BY <2>1, <2>2
  <2>4. Precedes(key[order[n]], key[order[m]])
    BY <2>1, <2>2, <2>3, KeysAreOrdered
  <2>5. rank[order[n]] < rank[order[m]]
    BY <2>2, <2>4, RanksDiffer
  <2>6. QED
    BY <1>1, <2>1, <2>2, <2>5
<1>8. QED
  BY <1>1, <1>4, <1>5, <1>6, <1>7 DEF order

\* Rows whose keys are all larger come after the others.
LEMMA OrderExtends ==
  ASSUME NEW T, IsFiniteSet(T), NEW S \in SUBSET T,
         NEW key \in [T -> Keys], NEW part \in [S -> Keys],
         \A i, j \in T : key[i] = key[j] => i = j,
         \A i \in S : part[i] = key[i],
         \A i \in S : \A j \in T \ S : Precedes(key[i], key[j])
  PROVE  /\ Cardinality(S) \in 0..Cardinality(T) /\ Cardinality(T) \in Nat
         /\ \A n \in 1..Cardinality(S) : InOrder(T, key)[n] = InOrder(S, part)[n]
<1>1. IsFiniteSet(S) /\ Cardinality(S) \in 0..Cardinality(T) /\ Cardinality(T) \in Nat
  BY FS_Subset, FS_CardinalityType
<1>2. ASSUME NEW n \in 1..Cardinality(S) PROVE InOrder(T, key)[n] = InOrder(S, part)[n]
  <2>1. PICK i : i = InOrder(S, part)[n]
    OBVIOUS
  <2>2. PICK j : j = InOrder(T, key)[n]
    OBVIOUS
  <2>3. i \in S /\ Cardinality(Upto(S, part, i)) = n
    BY <1>1, <2>1, PlacesAreRanks
  <2>4. n \in 1..Cardinality(T)
    BY <1>1
  <2>5. j \in T /\ Cardinality(Upto(T, key, j)) = n
    BY <2>2, <2>4, PlacesAreRanks
  <2>6. Upto(T, key, i) = Upto(S, part, i)
    BY <2>3 DEF Upto
  <2>7. Cardinality(Upto(T, key, i)) = n
    BY <2>3, <2>6, Zenon
  <2>8. i = j
    BY <2>3, <2>5, <2>7, PlacesAreRanks
  <2>9. QED
    BY <2>1, <2>2, <2>8
<1>3. QED
  BY <1>1, <1>2

-----------------------------------------------------------------------------
(* The visits of a badge.  Its first start comes before its first end, and   *)
(* from then on starts and ends alternate, whatever its swipes are: the      *)
(* counter of 0106 goes up and down by one.                                 *)

\* The granted events of a badge, in the order of their times.
InTime(events, N) ==
  /\ N \in Nat /\ DOMAIN events = 1..N
  /\ \A i \in 1..N : events[i].time \in Nat /\ events[i].direction \in {"IN", "OUT"}
  /\ \A i, j \in 1..N : i < j => events[i].time <= events[j].time

\* The rows of S up to the i-th.
First(S, i) == {j \in S : j <= i}

LEMMA FirstRows ==
  ASSUME NEW N \in Nat, NEW S \in SUBSET (1..N), NEW i \in 0..N
  PROVE  /\ IsFiniteSet(First(S, i)) /\ Cardinality(First(S, i)) \in Nat
         /\ RowNumber(S, i) = Cardinality(First(S, i))
         /\ \A j \in S : i < j => Cardinality(First(S, i)) < Cardinality(First(S, j))
<1>1. IsFiniteSet(1..N)
  BY FS_Interval
<1>2. \A k : First(S, k) \in SUBSET (1..N)
  BY DEF First
<1>3. \A k : IsFiniteSet(First(S, k)) /\ Cardinality(First(S, k)) \in Nat
  BY <1>1, <1>2, FS_Subset, FS_CardinalityType
<1>4. ASSUME NEW j \in S, i < j PROVE Cardinality(First(S, i)) < Cardinality(First(S, j))
  <2>1. First(S, i) \in SUBSET First(S, j)
    <3>1. \A k \in S : k <= i => k <= j
      BY <1>4
    <3>2. QED
      BY <3>1 DEF First
  <2>2. j \in First(S, j) /\ j \notin First(S, i)
    BY <1>4 DEF First
  <2>3. First(S, i) # First(S, j)
    BY <2>2
  <2>4. QED
    BY <1>3, <2>1, <2>3, FS_Subset
<1>5. RowNumber(S, i) = Cardinality(First(S, i))
  BY DEF RowNumber, First
<1>6. QED
  BY <1>3, <1>4, <1>5

\* One more row.
LEMMA NextRow ==
  ASSUME NEW N \in Nat, NEW S \in SUBSET (1..N), NEW i \in 0..(N - 1)
  PROVE  Cardinality(First(S, i + 1)) =
           IF i + 1 \in S THEN Cardinality(First(S, i)) + 1 ELSE Cardinality(First(S, i))
<1>1. IsFiniteSet(First(S, i))
  BY FirstRows
<1> \A k \in S : /\ k <= i + 1 <=> k <= i \/ k = i + 1
                 /\ k = i + 1 => ~ (k <= i)
  OBVIOUS
<1>2. CASE i + 1 \in S
  <2>1. First(S, i + 1) = First(S, i) \cup {i + 1} /\ i + 1 \notin First(S, i)
    BY <1>2 DEF First
  <2>2. Cardinality(First(S, i) \cup {i + 1}) = Cardinality(First(S, i)) + 1
    BY <1>1, <2>1, FS_AddElement, Zenon
  <2>3. Cardinality(First(S, i + 1)) = Cardinality(First(S, i) \cup {i + 1})
    BY <2>1, Zenon
  <2>4. QED
    BY <1>2, <2>2, <2>3
<1>3. CASE i + 1 \notin S
  <2>1. First(S, i + 1) = First(S, i)
    BY <1>3 DEF First
  <2>2. Cardinality(First(S, i + 1)) = Cardinality(First(S, i))
    BY <2>1, Zenon
  <2>3. QED
    BY <1>3, <2>2
<1>4. QED
  BY <1>2, <1>3

Passages(events, direction) == {j \in DOMAIN events : events[j].direction = direction}

\* An entry takes the badge one gate deeper, an exit one back.
LEMMA InsideSteps ==
  ASSUME NEW events, NEW N, InTime(events, N)
  PROVE  /\ InsideAfter(events, 0) = 0
         /\ \A i \in 0..N : InsideAfter(events, i) \in Int
         /\ \A i \in 0..(N - 1) :
              InsideAfter(events, i + 1) = InsideAfter(events, i)
                + (IF events[i + 1].direction = "IN" THEN 1 ELSE -1)
<1> DEFINE I == Passages(events, "IN")
           O == Passages(events, "OUT")
<1>1. N \in Nat /\ I \in SUBSET (1..N) /\ O \in SUBSET (1..N)
  BY DEF InTime, Passages
<1>2. \A i \in 0..N : InsideAfter(events, i) = Cardinality(First(I, i)) - Cardinality(First(O, i))
  <2>1. TAKE i \in 0..N
  <2>2. /\ First(I, i) = {j \in 1..i : events[j].direction = "IN"}
        /\ First(O, i) = {j \in 1..i : events[j].direction = "OUT"}
    BY DEF First, Passages, InTime
  <2>3. QED
    BY <2>2, Zenon DEF InsideAfter
<1>3. \A i \in 0..N : Cardinality(First(I, i)) \in Nat /\ Cardinality(First(O, i)) \in Nat
  BY <1>1, FirstRows
<1>4. InsideAfter(events, 0) = 0
  <2>1. First(I, 0) = {} /\ First(O, 0) = {}
    BY <1>1 DEF First
  <2>2. Cardinality(First(I, 0)) = 0 /\ Cardinality(First(O, 0)) = 0
    BY <2>1, FS_EmptySet
  <2>3. QED
    BY <1>1, <1>2, <2>2
<1>5. ASSUME NEW i \in 0..(N - 1)
      PROVE  InsideAfter(events, i + 1) = InsideAfter(events, i)
               + (IF events[i + 1].direction = "IN" THEN 1 ELSE -1)
  <2>1. i \in 0..N /\ i + 1 \in 0..N /\ i + 1 \in 1..N
    BY <1>1
  <2>2. (i + 1 \in I <=> events[i + 1].direction = "IN") /\ (i + 1 \in O <=> events[i + 1].direction # "IN")
    BY <2>1 DEF Passages, InTime
  <2>3. /\ Cardinality(First(I, i + 1)) =
             IF i + 1 \in I THEN Cardinality(First(I, i)) + 1 ELSE Cardinality(First(I, i))
        /\ Cardinality(First(O, i + 1)) =
             IF i + 1 \in O THEN Cardinality(First(O, i)) + 1 ELSE Cardinality(First(O, i))
    BY <1>1, NextRow
  <2> HIDE DEF I, O
  <2>4. QED
    BY <1>2, <1>3, <2>1, <2>2, <2>3
<1>6. QED
  BY <1>2, <1>3, <1>4, <1>5

LEMMA StartsAndEnds ==
  ASSUME NEW events, NEW N, InTime(events, N)
  PROVE  /\ N \in Nat /\ Starts(events) \in SUBSET (1..N) /\ Ends(events) \in SUBSET (1..N)
         /\ \A i \in 1..N : /\ i \in Starts(events) <=> /\ events[i].direction = "IN"
                                                        /\ InsideAfter(events, i) = 1
                            /\ i \in Ends(events) <=> /\ events[i].direction = "OUT"
                                                      /\ InsideAfter(events, i) = 0
BY DEF InTime, Starts, Ends

\* There is one start more than ends while the badge is inside.
LEMMA StartsLead ==
  ASSUME NEW events, NEW N, InTime(events, N), NEW i \in 0..N
  PROVE  Cardinality(First(Starts(events), i)) - Cardinality(First(Ends(events), i))
           = IF InsideAfter(events, i) >= 1 THEN 1 ELSE 0
<1> DEFINE s(k) == Cardinality(First(Starts(events), k))
           e(k) == Cardinality(First(Ends(events), k))
           in(k) == InsideAfter(events, k)
           P == {k \in Nat : k <= N => s(k) - e(k) = IF in(k) >= 1 THEN 1 ELSE 0}
<1>1. N \in Nat /\ Starts(events) \in SUBSET (1..N) /\ Ends(events) \in SUBSET (1..N)
  BY StartsAndEnds
<1>2. \A k \in 0..N : s(k) \in Nat /\ e(k) \in Nat /\ in(k) \in Int
  BY <1>1, FirstRows, InsideSteps
<1>3. 0 \in P
  <2>1. First(Starts(events), 0) = {} /\ First(Ends(events), 0) = {}
    BY <1>1 DEF First
  <2>2. s(0) = 0 /\ e(0) = 0
    BY <2>1, FS_EmptySet
  <2>3. in(0) = 0
    BY InsideSteps
  <2> HIDE DEF s, e, in
  <2>4. QED
    BY <2>2, <2>3
<1>4. ASSUME NEW k \in P PROVE k + 1 \in P
  <2>1. k \in Nat /\ k + 1 \in Nat
    OBVIOUS
  <2>2. SUFFICES ASSUME k + 1 <= N
                 PROVE  s(k + 1) - e(k + 1) = IF in(k + 1) >= 1 THEN 1 ELSE 0
    BY <2>1
  <2>3. k \in 0..N /\ k \in 0..(N - 1) /\ k + 1 \in 1..N /\ k + 1 \in 0..N
    BY <1>1, <2>1, <2>2
  <2>4. /\ s(k + 1) = IF k + 1 \in Starts(events) THEN s(k) + 1 ELSE s(k)
        /\ e(k + 1) = IF k + 1 \in Ends(events) THEN e(k) + 1 ELSE e(k)
    BY <1>1, <2>3, NextRow
  <2>5. in(k + 1) = in(k) + (IF events[k + 1].direction = "IN" THEN 1 ELSE -1)
    BY <2>3, InsideSteps
  <2>6. /\ k + 1 \in Starts(events) <=> events[k + 1].direction = "IN" /\ in(k + 1) = 1
        /\ k + 1 \in Ends(events) <=> events[k + 1].direction = "OUT" /\ in(k + 1) = 0
        /\ events[k + 1].direction \in {"IN", "OUT"}
    BY <2>3, StartsAndEnds DEF InTime
  <2>7. s(k) - e(k) = IF in(k) >= 1 THEN 1 ELSE 0
    BY <1>1, <2>1, <2>2
  <2>8. s(k) \in Nat /\ e(k) \in Nat /\ in(k) \in Int
    BY <1>2, <2>3
  <2> HIDE DEF s, e, in
  <2>9. QED
    BY <2>4, <2>5, <2>6, <2>7, <2>8
<1>5. P = Nat
  <2>1. P \in SUBSET Nat
    OBVIOUS
  <2> HIDE DEF P
  <2>2. QED
    BY <1>3, <1>4, <2>1, NumbersByInduction
<1>6. QED
  BY <1>1, <1>5

\* A visit starts before it ends.
LEMMA VisitsLast ==
  ASSUME NEW events, NEW N, InTime(events, N), NEW v \in Visits(events)
  PROVE  /\ v[1] \in Starts(events) /\ v[2] \in Ends(events)
         /\ v[1] \in 1..N /\ v[2] \in 1..N /\ v = <<v[1], v[2]>>
         /\ v[1] < v[2]
         /\ Cardinality(First(Starts(events), v[1])) = Cardinality(First(Ends(events), v[2]))
<1>1. N \in Nat /\ Starts(events) \in SUBSET (1..N) /\ Ends(events) \in SUBSET (1..N)
  BY StartsAndEnds
<1>2. /\ v \in Starts(events) \X Ends(events) /\ v[1] \in Starts(events) /\ v[2] \in Ends(events)
      /\ RowNumber(Starts(events), v[1]) = RowNumber(Ends(events), v[2])
  BY DEF Visits
<1>3. v[1] \in 1..N /\ v[2] \in 1..N /\ v[1] \in 0..N /\ v[2] \in 0..N
  BY <1>1, <1>2
<1>4. Cardinality(First(Starts(events), v[1])) = Cardinality(First(Ends(events), v[2]))
  BY <1>1, <1>2, <1>3, FirstRows
<1>5. InsideAfter(events, v[1]) = 1
  BY <1>2, <1>3, StartsAndEnds
<1>6. Cardinality(First(Starts(events), v[1])) - Cardinality(First(Ends(events), v[1])) = 1
  BY <1>3, <1>5, StartsLead
<1>7. /\ Cardinality(First(Starts(events), v[1])) \in Nat
      /\ Cardinality(First(Ends(events), v[1])) \in Nat
      /\ Cardinality(First(Ends(events), v[2])) \in Nat
  BY <1>1, <1>3, FirstRows
<1>8. ~ (v[2] <= v[1])
  <2>1. v[2] < v[1] => Cardinality(First(Ends(events), v[2])) <= Cardinality(First(Ends(events), v[1]))
    <3>1. IsFiniteSet(First(Ends(events), v[1]))
      BY <1>1, <1>3, FirstRows
    <3>2. v[2] < v[1] => First(Ends(events), v[2]) \in SUBSET First(Ends(events), v[1])
      <4>1. v[2] < v[1] => \A k \in Ends(events) : k <= v[2] => k <= v[1]
        BY <1>1, <1>3
      <4>2. QED
        BY <4>1 DEF First
    <3>3. QED
      BY <3>1, <3>2, FS_Subset
  <2>2. v[1] # v[2]
    BY <1>2, <1>3, StartsAndEnds
  <2>3. QED
    BY <1>3, <1>4, <1>6, <1>7, <2>1, <2>2
<1>9. QED
  BY <1>2, <1>3, <1>4, <1>8

\* Of two visits one is over when the other starts.
LEMMA VisitsAreApart ==
  ASSUME NEW events, NEW N, InTime(events, N),
         NEW v \in Visits(events), NEW w \in Visits(events), v # w
  PROVE  v[2] < w[1] \/ w[2] < v[1]
<1> DEFINE s(k) == Cardinality(First(Starts(events), k))
           e(k) == Cardinality(First(Ends(events), k))
<1>1. N \in Nat /\ Starts(events) \in SUBSET (1..N) /\ Ends(events) \in SUBSET (1..N)
  BY StartsAndEnds
<1>2. \A k \in 0..N : s(k) \in Nat /\ e(k) \in Nat
  BY <1>1, FirstRows
<1>3. \A x \in Visits(events) : /\ x[1] \in Starts(events) /\ x[2] \in Ends(events)
                                /\ x[1] \in 1..N /\ x[2] \in 1..N /\ x[1] \in 0..N /\ x[2] \in 0..N
                                /\ x = <<x[1], x[2]>> /\ s(x[1]) = e(x[2])
  BY <1>1, VisitsLast
<1>4. ASSUME NEW x \in Visits(events), NEW y \in Visits(events), s(x[1]) < s(y[1])
      PROVE  x[2] < y[1]
  <2>1. InsideAfter(events, y[1]) = 1
    BY <1>3, StartsAndEnds
  <2>2. s(y[1]) - e(y[1]) = 1
    BY <1>3, <2>1, StartsLead
  <2>3. y[1] < x[2] => e(y[1]) < e(x[2])
    BY <1>1, <1>3, FirstRows
  <2>4. x[2] # y[1]
    BY <1>3, StartsAndEnds
  <2>5. s(x[1]) = e(x[2]) /\ x[2] \in 1..N /\ y[1] \in 1..N
    BY <1>3
  <2>6. s(x[1]) \in Nat /\ s(y[1]) \in Nat /\ e(y[1]) \in Nat /\ e(x[2]) \in Nat
    BY <1>2, <1>3
  <2> HIDE DEF s, e
  <2>7. QED
    BY <1>4, <2>2, <2>3, <2>4, <2>5, <2>6
<1>5. s(v[1]) # s(w[1])
  <2>1. SUFFICES ASSUME s(v[1]) = s(w[1]) PROVE FALSE
    OBVIOUS
  <2>2. v[1] = w[1]
    <3>1. (v[1] < w[1] => s(v[1]) < s(w[1])) /\ (w[1] < v[1] => s(w[1]) < s(v[1]))
      BY <1>1, <1>3, FirstRows
    <3>2. s(v[1]) \in Nat /\ s(w[1]) \in Nat /\ v[1] \in 1..N /\ w[1] \in 1..N
      BY <1>2, <1>3
    <3> HIDE DEF s
    <3>3. QED
      BY <2>1, <3>1, <3>2
  <2>3. v[2] = w[2]
    <3>1. (v[2] < w[2] => e(v[2]) < e(w[2])) /\ (w[2] < v[2] => e(w[2]) < e(v[2]))
      BY <1>1, <1>3, FirstRows
    <3>2. e(v[2]) \in Nat /\ e(w[2]) \in Nat /\ v[2] \in 1..N /\ w[2] \in 1..N /\ e(v[2]) = e(w[2])
      BY <1>2, <1>3, <2>1
    <3> HIDE DEF e
    <3>3. QED
      BY <3>1, <3>2
  <2>4. QED
    BY <1>3, <2>2, <2>3
<1>6. s(v[1]) \in Nat /\ s(w[1]) \in Nat
  BY <1>2, <1>3
<1>7. s(v[1]) < s(w[1]) \/ s(w[1]) < s(v[1])
  <2> HIDE DEF s
  <2>1. QED
    BY <1>5, <1>6
<1>8. QED
  BY <1>4, <1>7

-----------------------------------------------------------------------------
(* The stay of a day. *)

LEMMA DaysAreDays ==
  ASSUME NEW d \in Int
  PROVE  DayStart(d) \in Int /\ DayStart(d + 1) = DayStart(d) + DayLength /\ DayLength \in Nat \ {0}
BY DayAssumption DEF DayStart

LEMMA DaysFollowTimes ==
  ASSUME NEW t \in Nat
  PROVE  /\ DayOf(t) \in Nat
         /\ DayStart(DayOf(t)) <= t /\ t < DayStart(DayOf(t) + 1)
         /\ \A u \in Nat : t <= u => DayOf(t) <= DayOf(u)
<1>1. DayLength \in Nat \ {0} /\ TimeZone \in Nat
  BY DayAssumption
<1>2. \A n \in Nat : /\ n \div DayLength \in Nat
                     /\ (n \div DayLength) * DayLength <= n
                     /\ n < (n \div DayLength) * DayLength + DayLength
  BY <1>1
<1>3. ASSUME NEW m \in Nat, NEW n \in Nat, m <= n PROVE m \div DayLength <= n \div DayLength
  <2>1. PICK p, q : p = m \div DayLength /\ q = n \div DayLength
    OBVIOUS
  <2>2. p \in Nat /\ q \in Nat /\ p * DayLength <= m /\ n < q * DayLength + DayLength
    BY <1>2, <2>1
  <2>3. q < p => q * DayLength + DayLength <= p * DayLength
    <3>1. q < p => q + 1 <= p
      BY <2>2
    <3>2. \A a, b \in Nat : a <= b => a * DayLength <= b * DayLength
      BY <1>1
    <3>3. (q + 1) * DayLength = q * DayLength + DayLength
      BY <1>1, <2>2
    <3>4. QED
      BY <2>2, <3>1, <3>2, <3>3
  <2>4. p * DayLength \in Nat /\ q * DayLength \in Nat
    BY <1>1, <2>2
  <2>5. p <= q
    BY <1>1, <1>3, <2>2, <2>3, <2>4
  <2>6. QED
    BY <2>1, <2>5
<1>4. t + TimeZone \in Nat /\ \A u \in Nat : u + TimeZone \in Nat /\ (t <= u => t + TimeZone <= u + TimeZone)
  BY <1>1
<1>5. DayOf(t) \in Nat /\ \A u \in Nat : t <= u => DayOf(t) <= DayOf(u)
  BY <1>2, <1>3, <1>4 DEF DayOf
<1>6. DayStart(DayOf(t)) <= t /\ t < DayStart(DayOf(t) + 1)
  <2>1. PICK n, p : n = t + TimeZone /\ p = n \div DayLength
    OBVIOUS
  <2>2. n \in Nat /\ p \in Nat /\ p * DayLength <= n /\ n < p * DayLength + DayLength
    BY <1>2, <1>4, <2>1
  <2>3. p * DayLength \in Nat /\ (p + 1) * DayLength = p * DayLength + DayLength
    BY <1>1, <2>2
  <2>4. p * DayLength - TimeZone <= t /\ t < (p + 1) * DayLength - TimeZone
    BY <1>1, <2>1, <2>2, <2>3
  <2>5. QED
    BY <2>1, <2>4 DEF DayOf, DayStart
<1>7. QED
  BY <1>5, <1>6

\* The ticks of a day.
LEMMA TicksOfDay ==
  ASSUME NEW t \in Nat, NEW d \in Int
  PROVE  DayOf(t) = d <=> DayStart(d) <= t /\ t < DayStart(d + 1)
<1>1. DayOf(t) \in Nat /\ DayStart(DayOf(t)) <= t /\ t < DayStart(DayOf(t) + 1)
  BY DaysFollowTimes
<1>2. DayLength \in Nat \ {0} /\ TimeZone \in Nat
  BY DayAssumption
<1>3. ASSUME NEW m \in Int, NEW n \in Int, m < n PROVE DayStart(m + 1) <= DayStart(n)
  <2>1. n - (m + 1) \in Nat
    BY <1>3
  <2>2. (n - (m + 1)) * DayLength \in Nat
    BY <1>2, <2>1
  <2>3. (n - (m + 1)) * DayLength = n * DayLength - (m + 1) * DayLength
    BY <1>2
  <2>4. n * DayLength \in Int /\ (m + 1) * DayLength \in Int
    BY <1>2
  <2>5. QED
    BY <1>2, <2>2, <2>3, <2>4 DEF DayStart
<1>4. \A n \in Int : DayStart(n) \in Int /\ DayStart(n + 1) \in Int
  BY DaysAreDays
<1>5. DayOf(t) < d => DayStart(DayOf(t) + 1) <= DayStart(d)
  BY <1>1, <1>3
<1>6. d < DayOf(t) => DayStart(d + 1) <= DayStart(DayOf(t))
  BY <1>1, <1>3
<1>7. /\ DayStart(d) \in Int /\ DayStart(d + 1) \in Int
      /\ DayStart(DayOf(t)) \in Int /\ DayStart(DayOf(t) + 1) \in Int
  BY <1>1, <1>4
<1>8. QED
  BY <1>1, <1>5, <1>6, <1>7

\* The slice of a visit counts its ticks of that day, from the first one on.
LEMMA SliceFits ==
  ASSUME NEW events, NEW N, InTime(events, N), NEW v \in Visits(events), NEW d \in Int
  PROVE  /\ events[v[1]].time \in Nat /\ events[v[2]].time \in Nat
         /\ Slice(events, v, d) \in Nat
         /\ Later(events[v[1]].time, DayStart(d)) \in Int
         /\ \A k \in 1..Slice(events, v, d) :
              LET t == Later(events[v[1]].time, DayStart(d)) + k - 1
              IN  /\ DayStart(d) <= t /\ t < DayStart(d + 1) /\ t \in Nat
                  /\ events[v[1]].time <= t /\ t < events[v[2]].time
         /\ \A t \in Nat : DayStart(d) <= t /\ t < DayStart(d + 1)
                           /\ events[v[1]].time <= t /\ t < events[v[2]].time =>
              t - Later(events[v[1]].time, DayStart(d)) + 1 \in 1..Slice(events, v, d)
<1>1. v[1] \in 1..N /\ v[2] \in 1..N
  BY VisitsLast
<1>2. events[v[1]].time \in Nat /\ events[v[2]].time \in Nat
  BY <1>1 DEF InTime
<1>3. DayStart(d) \in Int /\ DayStart(d + 1) \in Int
  BY DaysAreDays
<1>4. PICK a, b, p, q : a = events[v[1]].time /\ b = events[v[2]].time /\ p = DayStart(d) /\ q = DayStart(d + 1)
  OBVIOUS
<1>5. Slice(events, v, d) = Later(0, Earlier(b, q) - Later(a, p))
  BY <1>4 DEF Slice
<1>6. a \in Nat /\ b \in Nat /\ p \in Int /\ q \in Int
  BY <1>2, <1>3, <1>4
<1>7. Later(0, Earlier(b, q) - Later(a, p)) \in Nat /\ Later(a, p) \in Int
  BY <1>6 DEF Later, Earlier
<1>8. \A k \in 1..Later(0, Earlier(b, q) - Later(a, p)) :
        /\ p <= Later(a, p) + k - 1 /\ Later(a, p) + k - 1 < q /\ Later(a, p) + k - 1 \in Nat
        /\ a <= Later(a, p) + k - 1 /\ Later(a, p) + k - 1 < b
  BY <1>6 DEF Later, Earlier
<1>9. \A t \in Nat : p <= t /\ t < q /\ a <= t /\ t < b =>
        t - Later(a, p) + 1 \in 1..Later(0, Earlier(b, q) - Later(a, p))
  BY <1>6 DEF Later, Earlier
<1>10. QED
  BY <1>2, <1>4, <1>5, <1>7, <1>8, <1>9

LEMMA VisitsAreFinite ==
  ASSUME NEW events, NEW N, InTime(events, N)
  PROVE  IsFiniteSet(Visits(events))
<1>1. N \in Nat /\ Starts(events) \in SUBSET (1..N) /\ Ends(events) \in SUBSET (1..N)
  BY StartsAndEnds
<1>2. IsFiniteSet(1..N)
  BY <1>1, FS_Interval
<1>3. IsFiniteSet((1..N) \X (1..N))
  BY <1>2, FS_Product
<1>4. Visits(events) \in SUBSET ((1..N) \X (1..N))
  BY <1>1 DEF Visits
<1>5. QED
  BY <1>3, <1>4, FS_Subset

\* The ticks of day d that fall into a visit.
Covered(events, d) ==
  {t \in Nat : /\ DayOf(t) = d
               /\ \E v \in Visits(events) : events[v[1]].time <= t /\ t < events[v[2]].time}

\* Visits do not overlap, so the stay of a day counts each of its ticks once,
\* whatever rows are late, missing, of the future or in the table twice.
LEMMA StayIsCovered ==
  ASSUME NEW events, NEW N, InTime(events, N), NEW d \in Int
  PROVE  /\ IsFiniteSet(Covered(events, d))
         /\ Stay(events, d) = Cardinality(Covered(events, d)) /\ Stay(events, d) \in Nat
<1> DEFINE V == Visits(events)
           g == [v \in V |-> Slice(events, v, d)]
           at(v) == Later(events[v[1]].time, DayStart(d))
           tick == [p \in Pile(g, V) |-> at(p[1]) + p[2] - 1]
<1>1. IsFiniteSet(V)
  BY VisitsAreFinite
<1>2. g \in [V -> Nat]
  BY SliceFits
<1>3. Stay(events, d) = Cardinality(Pile(g, V)) /\ Stay(events, d) \in Nat
  BY <1>1, <1>2, TotalIsPile DEF Stay
<1>4. \A p \in Pile(g, V) : /\ p = <<p[1], p[2]>> /\ p[1] \in V /\ p[2] \in 1..Slice(events, p[1], d)
  BY DEF Pile
<1>5. \A v \in V : /\ at(v) \in Int /\ Slice(events, v, d) \in Nat
                   /\ events[v[1]].time \in Nat /\ events[v[2]].time \in Nat
  BY SliceFits
<1>6. \A p \in Pile(g, V) :
        /\ tick[p] \in Nat /\ DayStart(d) <= tick[p] /\ tick[p] < DayStart(d + 1)
        /\ events[p[1][1]].time <= tick[p] /\ tick[p] < events[p[1][2]].time
  BY <1>4, SliceFits
<1>7. \A p, q \in Pile(g, V) : tick[p] = tick[q] => p = q
  <2>1. TAKE p, q \in Pile(g, V)
  <2>2. HAVE tick[p] = tick[q]
  <2>3. CASE p[1] = q[1]
    <3>1. at(p[1]) \in Int /\ p[2] \in Int /\ q[2] \in Int
      BY <1>4, <1>5
    <3>2. tick[p] = at(p[1]) + p[2] - 1 /\ tick[q] = at(q[1]) + q[2] - 1
      OBVIOUS
    <3>3. at(q[1]) = at(p[1])
      BY <2>3, Zenon
    <3> HIDE DEF tick, at
    <3>4. p[2] = q[2]
      <4>1. \A a, x, y \in Int : a + x - 1 = a + y - 1 => x = y
        OBVIOUS
      <4>2. at(p[1]) + p[2] - 1 = at(p[1]) + q[2] - 1
        BY <2>2, <3>2, <3>3, Zenon
      <4>3. QED
        BY <3>1, <4>1, <4>2, Zenon
    <3>5. QED
      BY <1>4, <2>3, <3>4
  <2>4. ASSUME NEW v \in V, NEW w \in V, v[2] < w[1]
        PROVE  events[v[2]].time <= events[w[1]].time
    <3>1. v[2] \in 1..N /\ w[1] \in 1..N
      BY VisitsLast
    <3>2. QED
      BY <2>4, <3>1 DEF InTime
  <2>5. CASE p[1] # q[1]
    <3>1. \/ events[p[1][2]].time <= events[q[1][1]].time
          \/ events[q[1][2]].time <= events[p[1][1]].time
      BY <1>4, <2>4, <2>5, VisitsAreApart
    <3>2. /\ events[p[1][1]].time \in Nat /\ events[p[1][2]].time \in Nat
          /\ events[q[1][1]].time \in Nat /\ events[q[1][2]].time \in Nat
      BY <1>4, <1>5
    <3> HIDE DEF tick
    <3>3. QED
      BY <1>6, <2>2, <3>1, <3>2
  <2>6. QED
    BY <2>3, <2>5
<1>8. \A p \in Pile(g, V) : tick[p] \in Covered(events, d)
  <2>1. TAKE p \in Pile(g, V)
  <2>2. DayOf(tick[p]) = d
    <3> HIDE DEF tick
    <3>1. QED
      BY <1>6, TicksOfDay
  <2> HIDE DEF tick
  <2>3. QED
    BY <1>4, <1>6, <2>2 DEF Covered
<1>9. \A t \in Covered(events, d) : \E p \in Pile(g, V) : tick[p] = t
  <2>1. TAKE t \in Covered(events, d)
  <2>2. PICK v \in V : events[v[1]].time <= t /\ t < events[v[2]].time
    BY DEF Covered
  <2>3. t \in Nat /\ DayStart(d) <= t /\ t < DayStart(d + 1)
    BY TicksOfDay DEF Covered
  <2> DEFINE k == t - at(v) + 1
  <2>4. k \in 1..Slice(events, v, d)
    BY <2>2, <2>3, SliceFits
  <2>5. <<v, k>> \in Pile(g, V)
    <3> HIDE DEF k
    <3>1. QED
      BY <2>4 DEF Pile
  <2>6. tick[<<v, k>>] = at(v) + k - 1
    BY <2>5
  <2>7. at(v) + k - 1 = t
    <3>1. at(v) \in Int
      BY <1>5
    <3> HIDE DEF at
    <3>2. QED
      BY <2>3, <3>1
  <2>8. QED
    BY <2>5, <2>6, <2>7
<1>10. tick \in [Pile(g, V) -> Covered(events, d)]
  BY <1>8
<1>11. IsFiniteSet(Pile(g, V))
  <2>1. V \in SUBSET V
    OBVIOUS
  <2> HIDE DEF V, g
  <2>2. QED
    BY <1>1, <1>2, <2>1, PilesAreFinite
<1>12. IsFiniteSet(Covered(events, d)) /\ Cardinality(Covered(events, d)) = Cardinality(Pile(g, V))
  <2>1. PICK S, h : S = Pile(g, V) /\ h = tick
    OBVIOUS
  <2> HIDE DEF tick, g, V
  <2>2. h \in [S -> Covered(events, d)] /\ IsFiniteSet(S)
    BY <1>10, <1>11, <2>1
  <2>3. \A p, q \in S : h[p] = h[q] => p = q
    BY <1>7, <2>1
  <2>4. \A t \in Covered(events, d) : \E p \in S : h[p] = t
    BY <1>9, <2>1
  <2>5. QED
    BY <2>1, <2>2, <2>3, <2>4, OneToOne
<1>13. QED
  BY <1>3, <1>12

\* So no day has more hours than a day.
LEMMA StayFitsDay ==
  ASSUME NEW events, NEW N, InTime(events, N), NEW d \in Int
  PROVE  Stay(events, d) \in 0..DayLength
<1> DEFINE day == DayStart(d)..(DayStart(d + 1) - 1)
<1>1. DayStart(d) \in Int /\ DayStart(d + 1) = DayStart(d) + DayLength /\ DayLength \in Nat \ {0}
  BY DaysAreDays
<1>2. IsFiniteSet(day) /\ Cardinality(day) = DayLength
  BY <1>1, FS_Interval, SMTT(30)
<1>3. Covered(events, d) \in SUBSET day
  <2>1. \A t \in Covered(events, d) : t \in Nat /\ DayStart(d) <= t /\ t < DayStart(d + 1)
    BY TicksOfDay DEF Covered
  <2>2. QED
    BY <1>1, <2>1
<1>4. Cardinality(Covered(events, d)) <= DayLength
  <2> HIDE DEF day
  <2>1. QED
    BY <1>2, <1>3, FS_Subset
<1>5. QED
  BY <1>1, <1>4, StayIsCovered

-----------------------------------------------------------------------------
(* The row of a day. *)

\* MIN and MAX.
LEMMA Extremes ==
  ASSUME NEW S \in SUBSET Nat, IsFiniteSet(S), S # {}
  PROVE  /\ Min(S) \in S /\ \A x \in S : Min(S) <= x
         /\ Max(S) \in S /\ \A x \in S : x <= Max(S)
<1> DEFINE P == {T \in SUBSET S : T # {} => /\ \E x \in T : \A y \in T : x <= y
                                            /\ \E x \in T : \A y \in T : x >= y}
<1>1. {} \in P
  OBVIOUS
<1>2. ASSUME NEW T \in P, NEW z \in S \ T PROVE T \cup {z} \in P
  <2>1. CASE T = {}
    BY <2>1
  <2>2. CASE T # {}
    <3>1. PICK m \in T : \A y \in T : m <= y
      BY <2>2
    <3>2. PICK n \in T : \A y \in T : n >= y
      BY <2>2
    <3>3. \E x \in T \cup {z} : \A y \in T \cup {z} : x <= y
      <4>1. CASE m <= z
        <5>1. m \in T \cup {z} /\ \A y \in T \cup {z} : m <= y
          BY <3>1, <4>1
        <5>2. QED
          BY <5>1
      <4>2. CASE ~ (m <= z)
        <5>1. z \in T \cup {z} /\ \A y \in T \cup {z} : z <= y
          BY <3>1, <4>2
        <5>2. QED
          BY <5>1
      <4>3. QED
        BY <4>1, <4>2
    <3>4. \E x \in T \cup {z} : \A y \in T \cup {z} : x >= y
      <4>1. CASE n >= z
        <5>1. n \in T \cup {z} /\ \A y \in T \cup {z} : n >= y
          BY <3>2, <4>1
        <5>2. QED
          BY <5>1
      <4>2. CASE ~ (n >= z)
        <5>1. z \in T \cup {z} /\ \A y \in T \cup {z} : z >= y
          BY <3>2, <4>2
        <5>2. QED
          BY <5>1
      <4>3. QED
        BY <4>1, <4>2
    <3>5. T \cup {z} \in SUBSET S
      OBVIOUS
    <3>6. QED
      BY <3>3, <3>4, <3>5
  <2>3. QED
    BY <2>1, <2>2
<1>3. S \in P
  <2>1. P \in SUBSET SUBSET S
    OBVIOUS
  <2> HIDE DEF P
  <2>2. P = SUBSET S
    BY <1>1, <1>2, <2>1, SubsetsByInduction
  <2>3. QED
    BY <2>2
<1>4. (\E x \in S : \A y \in S : x <= y) /\ (\E x \in S : \A y \in S : x >= y)
  BY <1>3
<1>5. Min(S) \in S /\ \A x \in S : Min(S) <= x
  BY <1>4 DEF Min
<1>6. Max(S) \in S /\ \A x \in S : Max(S) >= x
  BY <1>4 DEF Max
<1>7. QED
  BY <1>5, <1>6

LEMMA RowIsTyped ==
  ASSUME NEW events, NEW N, InTime(events, N), NEW d \in DaysWithEvents(events)
  PROVE  /\ DailyRow(events, d) \in
              [first_in : Nat, last_out : Nat, swipe_count : Nat \ {0}, stay : 0..DayLength]
         /\ d \in Nat
         /\ \E i \in 1..N : d = DayOf(events[i].time)
<1>1. PICK i \in 1..N : d = DayOf(events[i].time)
  BY DEF DaysWithEvents, InTime
<1>2. N \in Nat /\ \A k \in 1..N : events[k].time \in Nat
  BY DEF InTime
<1>3. d \in Nat
  BY <1>1, <1>2, DaysFollowTimes
<1>4. Stay(events, d) \in 0..DayLength
  BY <1>3, StayFitsDay
<1>5. Cardinality({k \in DOMAIN events : DayOf(events[k].time) = d}) \in Nat \ {0}
  <2> DEFINE S == {k \in DOMAIN events : DayOf(events[k].time) = d}
  <2>1. IsFiniteSet(1..N)
    BY <1>2, FS_Interval
  <2>2. S \in SUBSET (1..N) /\ i \in S
    BY <1>1 DEF InTime
  <2>3. IsFiniteSet(S) /\ Cardinality(S) \in Nat
    BY <2>1, <2>2, FS_Subset, FS_CardinalityType
  <2>4. Cardinality(S) # 0
    <3> HIDE DEF S
    <3>1. QED
      BY <2>2, <2>3, FS_EmptySet
  <2>5. QED
    BY <2>3, <2>4
<1>6. ASSUME NEW direction, TimesOn(events, d, direction) # {}
      PROVE  Min(TimesOn(events, d, direction)) \in Nat /\ Max(TimesOn(events, d, direction)) \in Nat
  <2>1. N \in 1..N /\ \A k \in 1..N : events[k].time <= events[N].time
    <3>1. N \in 1..N
      BY <1>1, <1>2
    <3>2. \A k \in 1..N : k = N \/ k < N
      BY <1>2
    <3>3. events[N].time <= events[N].time
      BY <1>2, <3>1
    <3>4. QED
      BY <3>1, <3>2, <3>3 DEF InTime
  <2>2. TimesOn(events, d, direction) \in SUBSET (0..events[N].time)
    <3>1. \A k \in 1..N : events[k].time \in 0..events[N].time
      BY <1>2, <2>1
    <3>2. QED
      BY <3>1 DEF TimesOn, InTime
  <2>3. IsFiniteSet(0..events[N].time)
    BY <1>2, <2>1, FS_Interval, SMTT(30)
  <2>4. IsFiniteSet(TimesOn(events, d, direction))
    BY <2>2, <2>3, FS_Subset
  <2>5. TimesOn(events, d, direction) \in SUBSET Nat
    BY <2>2
  <2>6. QED
    BY <1>6, <2>4, <2>5, Extremes
<1>7. QED
  BY <1>1, <1>3, <1>4, <1>5, <1>6 DEF DailyRow

-----------------------------------------------------------------------------
(* Events that come after all the others leave the visits there are as they *)
(* are, and can only add to them.                                           *)

\* events, and then others.
Extends(later, M, events, N) ==
  /\ InTime(later, M) /\ N \in 0..M
  /\ DOMAIN events = 1..N
  /\ \A n \in 1..N : events[n] = later[n]

LEMMA FirstEvents ==
  ASSUME NEW later, NEW M, NEW events, NEW N, Extends(later, M, events, N)
  PROVE  /\ InTime(events, N) /\ N \in Nat /\ M \in Nat /\ 1..N \in SUBSET (1..M)
         /\ \A i \in 1..N : /\ i \in Starts(events) <=> i \in Starts(later)
                            /\ i \in Ends(events) <=> i \in Ends(later)
<1>1. /\ N \in Nat /\ M \in Nat /\ 1..N \in SUBSET (1..M)
      /\ DOMAIN events = 1..N /\ DOMAIN later = 1..M
      /\ \A n \in 1..N : events[n] = later[n]
  BY DEF Extends, InTime
<1>2. InTime(events, N)
  BY <1>1 DEF Extends, InTime
<1>3. \A i \in 1..N : InsideAfter(events, i) = InsideAfter(later, i)
  <2>1. TAKE i \in 1..N
  <2>2. \A j \in 1..i : events[j] = later[j]
    BY <1>1
  <2>3. ASSUME NEW d PROVE {j \in 1..i : events[j].direction = d} = {j \in 1..i : later[j].direction = d}
    BY <2>2
  <2>4. QED
    BY <2>3, Zenon DEF InsideAfter
<1>4. QED
  BY <1>1, <1>2, <1>3 DEF Starts, Ends

\* The rows among the first keep their numbers.
LEMMA RowNumbersStay ==
  ASSUME NEW N \in Nat, NEW S, NEW T, \A i \in 1..N : i \in S <=> i \in T,
         S \in SUBSET Nat, T \in SUBSET Nat, 0 \notin S, 0 \notin T,
         NEW i \in 1..N
  PROVE  RowNumber(S, i) = RowNumber(T, i)
<1>1. \A j \in Nat : j # 0 /\ j <= i => j \in 1..N
  OBVIOUS
<1>2. {j \in S : j <= i} = {j \in T : j <= i}
  BY <1>1
<1>3. QED
  BY <1>2, Zenon DEF RowNumber

LEMMA VisitsStay ==
  ASSUME NEW later, NEW M, NEW events, NEW N, Extends(later, M, events, N)
  PROVE  /\ Visits(events) \in SUBSET Visits(later)
         /\ \A v \in Visits(events) : \A d : Slice(events, v, d) = Slice(later, v, d)
<1>1. /\ InTime(events, N) /\ InTime(later, M) /\ N \in Nat /\ 1..N \in SUBSET (1..M)
      /\ \A i \in 1..N : /\ i \in Starts(events) <=> i \in Starts(later)
                         /\ i \in Ends(events) <=> i \in Ends(later)
  BY FirstEvents DEF Extends
<1>2. /\ Starts(events) \in SUBSET (1..N) /\ Ends(events) \in SUBSET (1..N)
      /\ Starts(later) \in SUBSET (1..M) /\ Ends(later) \in SUBSET (1..M) /\ M \in Nat
  BY <1>1, StartsAndEnds
<1>3. /\ Starts(events) \in SUBSET Nat /\ Ends(events) \in SUBSET Nat
      /\ Starts(later) \in SUBSET Nat /\ Ends(later) \in SUBSET Nat
      /\ 0 \notin Starts(events) /\ 0 \notin Starts(later) /\ 0 \notin Ends(events) /\ 0 \notin Ends(later)
  BY <1>2
<1>4. \A i \in 1..N : RowNumber(Starts(events), i) = RowNumber(Starts(later), i)
  BY <1>1, <1>3, RowNumbersStay
<1>5. \A i \in 1..N : RowNumber(Ends(events), i) = RowNumber(Ends(later), i)
  BY <1>1, <1>3, RowNumbersStay
<1>6. ASSUME NEW v \in Visits(events)
      PROVE  v \in Visits(later) /\ \A d : Slice(events, v, d) = Slice(later, v, d)
  <2>1. /\ v \in Starts(events) \X Ends(events)
        /\ RowNumber(Starts(events), v[1]) = RowNumber(Ends(events), v[2])
    BY DEF Visits
  <2>2. v[1] \in 1..N /\ v[2] \in 1..N
    BY <1>2, <2>1
  <2>3. v \in Starts(later) \X Ends(later)
    BY <1>1, <2>1, <2>2
  <2>4. RowNumber(Starts(later), v[1]) = RowNumber(Ends(later), v[2])
    BY <1>4, <1>5, <2>1, <2>2
  <2>5. events[v[1]] = later[v[1]] /\ events[v[2]] = later[v[2]]
    BY <2>2 DEF Extends
  <2>6. QED
    BY <2>3, <2>4, <2>5 DEF Visits, Slice
<1>7. QED
  BY <1>6

\* So no day loses any of its stay.
LEMMA StayGrows ==
  ASSUME NEW later, NEW M, NEW events, NEW N, Extends(later, M, events, N),
         NEW d \in DaysWithEvents(events)
  PROVE  d \in DaysWithEvents(later) /\ Stay(events, d) <= Stay(later, d)
<1> DEFINE V == Visits(later)
           U == Visits(events)
           g == [v \in V |-> Slice(later, v, d)]
           h == [v \in U |-> Slice(events, v, d)]
<1>1. /\ InTime(events, N) /\ InTime(later, M) /\ N \in Nat /\ 1..N \in SUBSET (1..M)
      /\ \A n \in 1..N : events[n] = later[n]
  <2>1. InTime(events, N) /\ N \in Nat /\ 1..N \in SUBSET (1..M)
    BY FirstEvents
  <2>2. InTime(later, M) /\ \A n \in 1..N : events[n] = later[n]
    BY DEF Extends
  <2>3. QED
    BY <2>1, <2>2
<1>2. PICK i \in 1..N : d = DayOf(events[i].time)
  BY <1>1, RowIsTyped
<1>3. d \in DaysWithEvents(later)
  <2>1. i \in DOMAIN later /\ events[i] = later[i]
    BY <1>1 DEF InTime
  <2>2. QED
    BY <1>2, <2>1 DEF DaysWithEvents
<1>4. d \in Int
  BY <1>1, RowIsTyped
<1>5. IsFiniteSet(V)
  BY <1>1, VisitsAreFinite
<1>6. g \in [V -> Nat]
  BY <1>1, <1>4, SliceFits
<1>7. U \in SUBSET V /\ h = [v \in U |-> g[v]]
  BY VisitsStay
<1>8. Stay(later, d) = Total(g) /\ Stay(events, d) = Total(h)
  BY DEF Stay
<1> HIDE DEF V, U, g, h
<1>9. Total(g) = Cardinality(Pile(g, V)) /\ Total(g) \in Nat
  BY <1>5, <1>6, TotalIsPile
<1>10. Total([v \in U |-> g[v]]) = Cardinality(Pile(g, U))
  BY <1>5, <1>6, <1>7, PartIsPile
<1>11. Cardinality(Pile(g, U)) <= Cardinality(Pile(g, V))
  <2>1. IsFiniteSet(Pile(g, V))
    <3>1. V \in SUBSET V
      OBVIOUS
    <3>2. QED
      BY <1>5, <1>6, <3>1, PilesAreFinite
  <2>2. Pile(g, U) \in SUBSET Pile(g, V)
    BY <1>7 DEF Pile
  <2>3. QED
    BY <2>1, <2>2, FS_Subset
<1>12. Total(h) = Total([v \in U |-> g[v]])
  BY <1>7, Zenon
<1>13. QED
  BY <1>3, <1>8, <1>9, <1>10, <1>11, <1>12

-----------------------------------------------------------------------------
(* A badge is in one of the visits exactly while the counter of 0106 is     *)
(* above zero, if it comes back to zero later.                              *)

\* n events have happened by time t.
Reached(events, N, t, n) == n \in 0..N /\ \A i \in 1..N : events[i].time <= t <=> i <= n

LEMMA SomeReached ==
  ASSUME NEW events, NEW N, InTime(events, N), NEW t \in Nat
  PROVE  \E n \in 0..N : Reached(events, N, t, n)
<1> DEFINE A == {i \in 1..N : events[i].time <= t}
<1>1. /\ N \in Nat /\ \A i \in 1..N : events[i].time \in Nat
      /\ \A i, j \in 1..N : i < j => events[i].time <= events[j].time
  BY DEF InTime
<1>2. CASE A = {}
  <2>1. \A i \in 1..N : ~ (events[i].time <= t)
    BY <1>2
  <2>2. 0 \in 0..N /\ \A i \in 1..N : ~ (i <= 0)
    BY <1>1
  <2>3. QED
    BY <2>1, <2>2 DEF Reached
<1>3. CASE A # {}
  <2>1. IsFiniteSet(1..N) /\ A \in SUBSET (1..N) /\ A \in SUBSET Nat
    BY <1>1, FS_Interval
  <2>2. IsFiniteSet(A)
    BY <2>1, FS_Subset
  <2> HIDE DEF A
  <2>3. PICK n : n \in A /\ \A i \in A : i <= n
    BY <1>3, <2>1, <2>2, Extremes
  <2>4. n \in 1..N /\ events[n].time <= t
    BY <2>3 DEF A
  <2>5. ASSUME NEW i \in 1..N, i <= n PROVE events[i].time <= t
    <3>1. i = n \/ i < n
      BY <2>4, <2>5
    <3>2. events[i].time <= events[n].time
      BY <1>1, <2>4, <3>1
    <3>3. events[i].time \in Nat /\ events[n].time \in Nat
      BY <1>1, <2>4
    <3>4. QED
      BY <2>4, <3>2, <3>3
  <2>6. ASSUME NEW i \in 1..N, events[i].time <= t PROVE i <= n
    BY <2>3, <2>6 DEF A
  <2>7. n \in 0..N
    BY <1>1, <2>4
  <2>8. QED
    BY <2>5, <2>6, <2>7 DEF Reached
<1>4. QED
  BY <1>2, <1>3

LEMMA VisitsAreInside ==
  ASSUME NEW events, NEW N, InTime(events, N), NEW v \in Visits(events),
         NEW n \in 0..N, v[1] <= n, n < v[2]
  PROVE  InsideAfter(events, n) >= 1 /\ InsideAfter(events, v[2]) <= 0 /\ v[2] \in n..N
<1> DEFINE s(k) == Cardinality(First(Starts(events), k))
           e(k) == Cardinality(First(Ends(events), k))
<1>1. N \in Nat /\ Starts(events) \in SUBSET (1..N) /\ Ends(events) \in SUBSET (1..N)
  BY StartsAndEnds
<1>2. v[1] \in Starts(events) /\ v[2] \in Ends(events) /\ v[1] \in 1..N /\ v[2] \in 1..N
      /\ s(v[1]) = e(v[2])
  BY VisitsLast
<1>3. InsideAfter(events, v[2]) = 0 /\ v[2] \in n..N
  BY <1>1, <1>2, StartsAndEnds
<1>4. e(n) < e(v[2])
  BY <1>1, <1>2, FirstRows
<1>5. s(v[1]) <= s(n)
  <2>1. IsFiniteSet(First(Starts(events), n))
    BY <1>1, FirstRows
  <2>2. \A k \in Starts(events) : k <= v[1] => k <= n
    BY <1>1, <1>2
  <2>3. First(Starts(events), v[1]) \in SUBSET First(Starts(events), n)
    BY <2>2 DEF First
  <2>4. QED
    BY <2>1, <2>3, FS_Subset
<1>6. s(n) - e(n) = IF InsideAfter(events, n) >= 1 THEN 1 ELSE 0
  BY StartsLead
<1>7. s(n) \in Nat /\ e(n) \in Nat /\ s(v[1]) \in Nat /\ e(v[2]) \in Nat
  <2>1. n \in 0..N /\ v[1] \in 0..N /\ v[2] \in 0..N
    BY <1>1, <1>2
  <2>2. QED
    BY <1>1, <2>1, FirstRows
<1>8. InsideAfter(events, n) >= 1
  <2> HIDE DEF s, e
  <2>1. QED
    BY <1>2, <1>4, <1>5, <1>6, <1>7
<1>9. QED
  BY <1>3, <1>8

LEMMA InsideIsAVisit ==
  ASSUME NEW events, NEW N, InTime(events, N), NEW n \in 0..N, NEW m \in n..N,
         InsideAfter(events, n) >= 1, InsideAfter(events, m) <= 0
  PROVE  \E v \in Visits(events) : v[1] \in 1..n /\ v[2] \in (n + 1)..N
<1> DEFINE S == Starts(events)
           E == Ends(events)
           s(k) == Cardinality(First(S, k))
           e(k) == Cardinality(First(E, k))
           after == {j \in E : n < j}
<1>1. N \in Nat /\ S \in SUBSET (1..N) /\ E \in SUBSET (1..N) /\ m \in 0..N
  BY StartsAndEnds
<1>2. \A k \in 0..N : /\ s(k) \in Nat /\ e(k) \in Nat
                      /\ IsFiniteSet(First(S, k)) /\ IsFiniteSet(First(E, k))
  BY <1>1, FirstRows
<1>3. s(n) - e(n) = 1 /\ s(m) - e(m) = 0
  <2>1. InsideAfter(events, n) \in Int /\ InsideAfter(events, m) \in Int
    BY <1>1, InsideSteps
  <2>2. ~ (InsideAfter(events, m) >= 1)
    BY <2>1
  <2>3. QED
    BY <1>1, <2>2, StartsLead
<1>4. s(n) <= s(m)
  <2>1. \A k \in S : k <= n => k <= m
    BY <1>1
  <2>2. First(S, n) \in SUBSET First(S, m)
    BY <2>1 DEF First
  <2>3. QED
    BY <1>1, <1>2, <2>2, FS_Subset
<1>5. First(S, n) # {}
  <2>1. s(n) # 0
    <3> HIDE DEF s, e
    <3>1. QED
      BY <1>2, <1>3
  <2>2. QED
    BY <2>1, FS_EmptySet
<1>6. after # {}
  <2>1. SUFFICES ASSUME after = {} PROVE FALSE
    OBVIOUS
  <2>2. \A j \in E : j <= n
    BY <1>1, <2>1
  <2>3. First(E, m) \in SUBSET First(E, n)
    BY <2>2 DEF First
  <2>4. e(m) <= e(n)
    BY <1>2, <2>3, FS_Subset
  <2> HIDE DEF s, e
  <2>5. QED
    BY <1>1, <1>2, <1>3, <1>4, <2>4
<1>7. PICK i : i \in First(S, n) /\ \A j \in First(S, n) : j <= i
  <2>1. First(S, n) \in SUBSET Nat
    BY <1>1 DEF First
  <2>2. QED
    BY <1>2, <1>5, <2>1, Extremes
<1>8. PICK k : k \in after /\ \A j \in after : k <= j
  <2>1. after \in SUBSET Nat /\ after \in SUBSET (1..N)
    BY <1>1
  <2>2. IsFiniteSet(after)
    <3>1. IsFiniteSet(1..N)
      BY <1>1, FS_Interval
    <3> HIDE DEF after
    <3>2. QED
      BY <2>1, <3>1, FS_Subset
  <2> HIDE DEF after
  <2>3. QED
    BY <1>6, <2>1, <2>2, Extremes
<1>9. i \in S /\ i \in 1..n /\ i \in 1..N /\ i \in 0..N
  BY <1>1, <1>7 DEF First
<1>10. k \in E /\ k \in (n + 1)..N /\ k \in 1..N /\ k \in 0..N
  BY <1>1, <1>8
<1>11. RowNumber(S, i) = s(n)
  <2>1. First(S, i) = First(S, n)
    <3>1. \A j \in S : j <= i <=> j <= n
      BY <1>1, <1>7, <1>9 DEF First
    <3>2. QED
      BY <3>1 DEF First
  <2>2. RowNumber(S, i) = Cardinality(First(S, i))
    BY <1>1, <1>9, FirstRows
  <2>3. QED
    BY <2>1, <2>2, Zenon
<1>12. RowNumber(E, k) = e(n) + 1
  <2>1. First(E, k) = First(E, n) \cup {k} /\ k \notin First(E, n)
    <3>1. \A j \in E : j <= k <=> j <= n \/ j = k
      BY <1>1, <1>8, <1>10
    <3>2. ~ (k <= n)
      BY <1>10
    <3>3. QED
      BY <1>10, <3>1, <3>2 DEF First
  <2>2. Cardinality(First(E, n) \cup {k}) = e(n) + 1
    BY <1>2, <2>1, FS_AddElement, Zenon
  <2>3. RowNumber(E, k) = Cardinality(First(E, k))
    BY <1>1, <1>10, FirstRows
  <2>4. QED
    BY <2>1, <2>2, <2>3, Zenon
<1>13. s(n) = e(n) + 1
  <2> HIDE DEF s, e
  <2>1. QED
    BY <1>2, <1>3
<1>14. <<i, k>> \in Visits(events)
  <2>1. RowNumber(S, i) = RowNumber(E, k)
    BY <1>11, <1>12, <1>13, Zenon
  <2>2. QED
    BY <1>9, <1>10, <2>1 DEF Visits
<1>15. QED
  BY <1>9, <1>10, <1>14

\* The tick falls into a visit.
LEMMA CoveredIsInside ==
  ASSUME NEW events, NEW N, InTime(events, N), NEW t \in Nat, NEW n, Reached(events, N, t, n)
  PROVE  (\E v \in Visits(events) : events[v[1]].time <= t /\ t < events[v[2]].time)
           <=> /\ InsideAfter(events, n) >= 1
               /\ \E m \in n..N : InsideAfter(events, m) <= 0
<1>1. N \in Nat /\ n \in 0..N /\ \A i \in 1..N : events[i].time <= t <=> i <= n
  BY DEF Reached, InTime
<1>2. \A i \in 1..N : events[i].time \in Nat
  BY DEF InTime
<1>3. ASSUME NEW v \in Visits(events), events[v[1]].time <= t, t < events[v[2]].time
      PROVE  InsideAfter(events, n) >= 1 /\ \E m \in n..N : InsideAfter(events, m) <= 0
  <2>1. v[1] \in 1..N /\ v[2] \in 1..N
    BY VisitsLast
  <2>2. v[1] <= n /\ n < v[2]
    BY <1>1, <1>2, <1>3, <2>1
  <2>3. QED
    BY <1>1, <2>2, VisitsAreInside
<1>4. ASSUME InsideAfter(events, n) >= 1, NEW m \in n..N, InsideAfter(events, m) <= 0
      PROVE  \E v \in Visits(events) : events[v[1]].time <= t /\ t < events[v[2]].time
  <2>1. PICK v \in Visits(events) : v[1] \in 1..n /\ v[2] \in (n + 1)..N
    BY <1>1, <1>4, InsideIsAVisit
  <2>2. v[1] \in 1..N /\ v[2] \in 1..N /\ v[1] <= n /\ ~ (v[2] <= n)
    BY <1>1, <2>1
  <2>3. events[v[1]].time <= t /\ t < events[v[2]].time
    BY <1>1, <1>2, <2>2
  <2>4. QED
    BY <2>3
<1>5. QED
  BY <1>3, <1>4

-----------------------------------------------------------------------------
(* The counter of 0106 and the gates: it is the number of keys a badge is    *)
(* inside of, more by the entries at a key it was inside of already and less *)
(* by the exits at one it was not.                                           *)

\* gate[n] is the key of the n-th event.  The keys whose last event among the
\* first n is an entry:
LastAt(gate, n, i) == \A j \in 1..n : i < j => gate[j] # gate[i]

Open(events, gate, n) ==
  {gate[i] : i \in {j \in 1..n : events[j].direction = "IN" /\ LastAt(gate, n, j)}}

\* The entries at a key that is open already, and the exits at one that is not.
Again(events, gate, n) ==
  {i \in 1..n : events[i].direction = "IN" /\ gate[i] \in Open(events, gate, i - 1)}

Odd(events, gate, n) ==
  {i \in 1..n : events[i].direction = "OUT" /\ gate[i] \notin Open(events, gate, i - 1)}

LEMMA KeysAreFinite ==
  ASSUME NEW events, NEW gate, NEW n \in Nat
  PROVE  /\ IsFiniteSet(Open(events, gate, n)) /\ Cardinality(Open(events, gate, n)) \in Nat
         /\ IsFiniteSet(Again(events, gate, n)) /\ Cardinality(Again(events, gate, n)) \in Nat
         /\ IsFiniteSet(Odd(events, gate, n)) /\ Cardinality(Odd(events, gate, n)) \in Nat
<1>1. ASSUME NEW S \in SUBSET (1..n) PROVE IsFiniteSet(S) /\ Cardinality(S) \in Nat
  <2>1. IsFiniteSet(1..n)
    BY FS_Interval
  <2>2. QED
    BY <2>1, FS_Subset, FS_CardinalityType
<1>2. ASSUME NEW S \in SUBSET (1..n)
      PROVE  IsFiniteSet({gate[i] : i \in S}) /\ Cardinality({gate[i] : i \in S}) \in Nat
  <2>1. PICK T : T = {gate[i] : i \in S}
    OBVIOUS
  <2>2. PICK h : h = [i \in S |-> gate[i]]
    OBVIOUS
  <2>3. h \in [S -> T] /\ \A y \in T : \E i \in S : h[i] = y
    BY <2>1, <2>2
  <2>4. IsFiniteSet({gate[i] : i \in S})
    BY <1>1, <2>1, <2>3, Onto
  <2>5. QED
    BY <2>4, FS_CardinalityType
<1>3. {j \in 1..n : events[j].direction = "IN" /\ LastAt(gate, n, j)} \in SUBSET (1..n)
  OBVIOUS
<1>4. Again(events, gate, n) \in SUBSET (1..n) /\ Odd(events, gate, n) \in SUBSET (1..n)
  BY DEF Again, Odd
<1>5. IsFiniteSet(Open(events, gate, n)) /\ Cardinality(Open(events, gate, n)) \in Nat
  BY <1>2, <1>3, Zenon DEF Open
<1>6. QED
  BY <1>1, <1>4, <1>5, Zenon

\* What one more event does to the three sets.
LEMMA OpenSteps ==
  ASSUME NEW events, NEW N, InTime(events, N), NEW gate, NEW n \in 0..(N - 1)
  PROVE  /\ Open(events, gate, n + 1) =
              (Open(events, gate, n) \ {gate[n + 1]})
                \cup (IF events[n + 1].direction = "IN" THEN {gate[n + 1]} ELSE {})
         /\ Again(events, gate, n + 1) =
              Again(events, gate, n)
                \cup (IF events[n + 1].direction = "IN" /\ gate[n + 1] \in Open(events, gate, n)
                        THEN {n + 1} ELSE {})
         /\ Odd(events, gate, n + 1) =
              Odd(events, gate, n)
                \cup (IF events[n + 1].direction = "OUT" /\ gate[n + 1] \notin Open(events, gate, n)
                        THEN {n + 1} ELSE {})
<1>1. N \in Nat /\ n \in Nat /\ n + 1 \in 1..(n + 1) /\ (n + 1) - 1 = n
  BY DEF InTime
<1>2. \A j : j \in 1..(n + 1) <=> j \in 1..n \/ j = n + 1
  BY <1>1
<1>3. \A j \in 1..n : /\ j < n + 1 /\ j # n + 1
                      /\ LastAt(gate, n + 1, j) <=> LastAt(gate, n, j) /\ gate[j] # gate[n + 1]
  BY <1>1, <1>2 DEF LastAt
<1>4. LastAt(gate, n + 1, n + 1)
  BY <1>1, <1>2, <1>3 DEF LastAt
<1>5. Open(events, gate, n + 1) =
        (Open(events, gate, n) \ {gate[n + 1]})
          \cup (IF events[n + 1].direction = "IN" THEN {gate[n + 1]} ELSE {})
  <2>1. ASSUME NEW k
        PROVE  k \in Open(events, gate, n + 1) <=>
                 \/ k \in Open(events, gate, n) /\ k # gate[n + 1]
                 \/ events[n + 1].direction = "IN" /\ k = gate[n + 1]
    BY <1>2, <1>3, <1>4 DEF Open
  <2>2. QED
    BY <2>1
<1>6. Again(events, gate, n + 1) =
        Again(events, gate, n)
          \cup (IF events[n + 1].direction = "IN" /\ gate[n + 1] \in Open(events, gate, n)
                  THEN {n + 1} ELSE {})
  BY <1>1, <1>2 DEF Again
<1>7. Odd(events, gate, n + 1) =
        Odd(events, gate, n)
          \cup (IF events[n + 1].direction = "OUT" /\ gate[n + 1] \notin Open(events, gate, n)
                  THEN {n + 1} ELSE {})
  BY <1>1, <1>2 DEF Odd
<1>8. QED
  BY <1>5, <1>6, <1>7

LEMMA CounterCountsKeys ==
  ASSUME NEW events, NEW N, InTime(events, N), NEW gate, NEW n \in 0..N
  PROVE  InsideAfter(events, n) =
           Cardinality(Open(events, gate, n)) + Cardinality(Again(events, gate, n))
             - Cardinality(Odd(events, gate, n))
<1> DEFINE open(k) == Cardinality(Open(events, gate, k))
           again(k) == Cardinality(Again(events, gate, k))
           odd(k) == Cardinality(Odd(events, gate, k))
           in(k) == InsideAfter(events, k)
           P == {k \in Nat : k <= N => in(k) = open(k) + again(k) - odd(k)}
<1>1. N \in Nat
  BY DEF InTime
<1>2. \A k \in 0..N : in(k) \in Int
  BY InsideSteps
<1>3. \A k \in Nat : /\ open(k) \in Nat /\ IsFiniteSet(Open(events, gate, k))
                     /\ again(k) \in Nat /\ IsFiniteSet(Again(events, gate, k))
                     /\ odd(k) \in Nat /\ IsFiniteSet(Odd(events, gate, k))
  BY KeysAreFinite
<1>4. 0 \in P
  <2>1. Open(events, gate, 0) = {} /\ Again(events, gate, 0) = {} /\ Odd(events, gate, 0) = {}
    BY DEF Open, Again, Odd
  <2>2. open(0) = 0 /\ again(0) = 0 /\ odd(0) = 0
    BY <2>1, FS_EmptySet
  <2>3. in(0) = 0
    BY InsideSteps
  <2> HIDE DEF open, again, odd, in
  <2>4. QED
    BY <2>2, <2>3
<1>5. ASSUME NEW k \in P PROVE k + 1 \in P
  <2>1. k \in Nat /\ k + 1 \in Nat
    OBVIOUS
  <2>2. SUFFICES ASSUME k + 1 <= N PROVE in(k + 1) = open(k + 1) + again(k + 1) - odd(k + 1)
    BY <2>1
  <2>3. k \in 0..N /\ k \in 0..(N - 1) /\ k + 1 \in 1..N /\ k + 1 \in 0..N
    BY <1>1, <2>1, <2>2
  <2>4. in(k) = open(k) + again(k) - odd(k)
    BY <1>1, <2>1, <2>2
  <2>5. in(k + 1) = in(k) + (IF events[k + 1].direction = "IN" THEN 1 ELSE -1)
    BY <2>3, InsideSteps
  <2>6. events[k + 1].direction \in {"IN", "OUT"}
    BY <2>3 DEF InTime
  <2>7. PICK O, O2, A, A2, D, D2, x, y :
          /\ O = Open(events, gate, k) /\ O2 = Open(events, gate, k + 1)
          /\ A = Again(events, gate, k) /\ A2 = Again(events, gate, k + 1)
          /\ D = Odd(events, gate, k) /\ D2 = Odd(events, gate, k + 1)
          /\ x = gate[k + 1] /\ y = k + 1
    OBVIOUS
  <2>8. /\ O2 = (O \ {x}) \cup (IF events[k + 1].direction = "IN" THEN {x} ELSE {})
        /\ A2 = A \cup (IF events[k + 1].direction = "IN" /\ x \in O THEN {y} ELSE {})
        /\ D2 = D \cup (IF events[k + 1].direction = "OUT" /\ x \notin O THEN {y} ELSE {})
    BY <2>3, <2>7, OpenSteps
  <2>9. y \notin A /\ y \notin D
    BY <2>1, <2>7 DEF Again, Odd
  <2>10. IsFiniteSet(O) /\ IsFiniteSet(A) /\ IsFiniteSet(D)
    BY <1>3, <2>1, <2>7
  <2>11. /\ Cardinality(O) = open(k) /\ Cardinality(O2) = open(k + 1)
         /\ Cardinality(A) = again(k) /\ Cardinality(A2) = again(k + 1)
         /\ Cardinality(D) = odd(k) /\ Cardinality(D2) = odd(k + 1)
    BY <2>7, Zenon
  <2>12. open(k) \in Nat /\ again(k) \in Nat /\ odd(k) \in Nat /\ in(k) \in Int
    BY <1>2, <1>3, <2>3
  <2>13. CASE events[k + 1].direction = "IN" /\ x \notin O
    <3>1. O2 = O \cup {x} /\ A2 = A /\ D2 = D
      BY <2>8, <2>13
    <3>2. Cardinality(O \cup {x}) = Cardinality(O) + 1
      BY <2>10, <2>13, FS_AddElement, Zenon
    <3>3. open(k + 1) = open(k) + 1 /\ again(k + 1) = again(k) /\ odd(k + 1) = odd(k)
      BY <2>11, <3>1, <3>2, Zenon
    <3> HIDE DEF open, again, odd, in
    <3>4. QED
      BY <2>4, <2>5, <2>12, <2>13, <3>3
  <2>14. CASE events[k + 1].direction = "IN" /\ x \in O
    <3>1. O2 = O /\ A2 = A \cup {y} /\ D2 = D
      BY <2>8, <2>14
    <3>2. Cardinality(A \cup {y}) = Cardinality(A) + 1
      BY <2>9, <2>10, FS_AddElement, Zenon
    <3>3. open(k + 1) = open(k) /\ again(k + 1) = again(k) + 1 /\ odd(k + 1) = odd(k)
      BY <2>11, <3>1, <3>2, Zenon
    <3> HIDE DEF open, again, odd, in
    <3>4. QED
      BY <2>4, <2>5, <2>12, <2>14, <3>3
  <2>15. CASE events[k + 1].direction = "OUT" /\ x \in O
    <3>1. O2 = O \ {x} /\ A2 = A /\ D2 = D
      BY <2>8, <2>15
    <3>2. Cardinality(O \ {x}) = Cardinality(O) - 1
      BY <2>10, <2>15, FS_RemoveElement, Zenon
    <3>3. open(k + 1) = open(k) - 1 /\ again(k + 1) = again(k) /\ odd(k + 1) = odd(k)
      BY <2>11, <3>1, <3>2, Zenon
    <3> HIDE DEF open, again, odd, in
    <3>4. QED
      BY <2>4, <2>5, <2>12, <2>15, <3>3
  <2>16. CASE events[k + 1].direction = "OUT" /\ x \notin O
    <3>1. O2 = O /\ A2 = A /\ D2 = D \cup {y}
      BY <2>8, <2>16
    <3>2. Cardinality(D \cup {y}) = Cardinality(D) + 1
      BY <2>9, <2>10, FS_AddElement, Zenon
    <3>3. open(k + 1) = open(k) /\ again(k + 1) = again(k) /\ odd(k + 1) = odd(k) + 1
      BY <2>11, <3>1, <3>2, Zenon
    <3> HIDE DEF open, again, odd, in
    <3>4. QED
      BY <2>4, <2>5, <2>12, <2>16, <3>3
  <2>17. QED
    BY <2>6, <2>13, <2>14, <2>15, <2>16
<1>6. P = Nat
  <2>1. P \in SUBSET Nat
    OBVIOUS
  <2> HIDE DEF P
  <2>2. QED
    BY <1>4, <1>5, <2>1, NumbersByInduction
<1>7. QED
  BY <1>1, <1>6

\* Without a repeated entry the badge is inside of a gate while the counter
\* is above zero; without an odd exit either, only then.  Without an odd exit
\* the counter comes down to zero only if no entry was repeated.
LEMMA CounterShowsInside ==
  ASSUME NEW events, NEW N, InTime(events, N), NEW gate, NEW n \in 0..N
  PROVE  LET again == Again(events, gate, n)
             odd == Odd(events, gate, n)
         IN  /\ again = {} /\ InsideAfter(events, n) >= 1 => Open(events, gate, n) # {}
             /\ odd = {} /\ Open(events, gate, n) # {} => InsideAfter(events, n) >= 1
             /\ odd = {} /\ InsideAfter(events, n) <= 0 => again = {}
             /\ InsideAfter(events, n) <= 0 <=> ~ (InsideAfter(events, n) >= 1)
<1>1. n \in Nat
  BY DEF InTime
<1>2. PICK O, A, D : O = Open(events, gate, n) /\ A = Again(events, gate, n) /\ D = Odd(events, gate, n)
  OBVIOUS
<1>3. /\ IsFiniteSet(O) /\ Cardinality(O) \in Nat
      /\ IsFiniteSet(A) /\ Cardinality(A) \in Nat
      /\ IsFiniteSet(D) /\ Cardinality(D) \in Nat
      /\ InsideAfter(events, n) = Cardinality(O) + Cardinality(A) - Cardinality(D)
  BY <1>1, <1>2, KeysAreFinite, CounterCountsKeys
<1>4. (Cardinality(O) = 0 <=> O = {}) /\ (Cardinality(A) = 0 <=> A = {}) /\ (Cardinality(D) = 0 <=> D = {})
  BY <1>3, FS_EmptySet
<1>5. QED
  BY <1>2, <1>3, <1>4
=============================================================================
