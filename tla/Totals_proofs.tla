------------------------------ MODULE Totals_proofs ------------------------------
(***************************************************************************)
(* Sums, for any finite set of summands, by induction over sets: a sum of  *)
(* numbers counts a pile of things, sums of groups add up, and so do       *)
(* distinct heads, within bounds.                                          *)
(***************************************************************************)
EXTENDS Totals, FiniteSetTheorems, WellFoundedInduction, TLAPS

-----------------------------------------------------------------------------
(* Induction, over the members of a set of numbers or of finite sets. *)

LEMMA NumbersByInduction ==
  ASSUME NEW P \in SUBSET Nat, 0 \in P, \A n \in P : n + 1 \in P
  PROVE  P = Nat
<1>1. SUFFICES ASSUME Nat \ P # {} PROVE FALSE
  OBVIOUS
<1> DEFINE less == {p \in Nat \X Nat : p[1] < p[2]}
<1>2. PICK m \in Nat \ P : \A n \in Nat \ P : ~ (<<n, m>> \in less)
  <2>1. IsWellFoundedOn(less, Nat)
    BY NatLessThanWellFounded DEF OpToRel
  <2> DEFINE Q == Nat \ P
  <2>2. Q \subseteq Nat /\ Q # {}
    BY <1>1
  <2> HIDE DEF less, Q
  <2>3. \E m \in Q : \A n \in Q : ~ (<<n, m>> \in less)
    BY <2>1, <2>2, WFMin
  <2>4. QED
    BY <2>3 DEF Q
<1>3. m # 0 /\ m - 1 \in Nat /\ m = (m - 1) + 1
  OBVIOUS
<1>4. m - 1 \notin P
  BY <1>3
<1>5. <<m - 1, m>> \in less
  BY <1>3
<1>6. QED
  BY <1>2, <1>3, <1>4, <1>5

\* A smallest one among sets of members of V.
LEMMA SmallestSubset ==
  ASSUME NEW V, IsFiniteSet(V), NEW Q \in SUBSET SUBSET V, Q # {}
  PROVE  \E s \in Q : \A t \in SUBSET s : t # s => t \notin Q
<1>1. IsWellFoundedOn(StrictSubsetOrdering(V), SUBSET V)
  BY FS_StrictSubsetOrderingWellFounded, FS_FiniteSubsetsOfFinite
<1>2. PICK s \in Q : \A t \in Q : ~ (<<t, s>> \in StrictSubsetOrdering(V))
  BY <1>1, WFMin
<1>3. ASSUME NEW t \in SUBSET s, t # s, t \in Q PROVE FALSE
  BY <1>2, <1>3 DEF StrictSubsetOrdering
<1>4. QED
  BY <1>3

LEMMA SubsetsByInduction ==
  ASSUME NEW V, IsFiniteSet(V), NEW P \in SUBSET SUBSET V, {} \in P,
         \A s \in P : \A x \in V \ s : s \cup {x} \in P
  PROVE  P = SUBSET V
<1>1. SUFFICES ASSUME (SUBSET V) \ P # {} PROVE FALSE
  OBVIOUS
<1> DEFINE Q == (SUBSET V) \ P
<1>2. PICK s \in Q : \A t \in SUBSET s : t # s => t \notin Q
  <2>1. Q \in SUBSET SUBSET V /\ Q # {}
    BY <1>1
  <2> HIDE DEF Q
  <2>2. QED
    BY <2>1, SmallestSubset
<1>3. PICK x \in s : TRUE
  BY <1>2
<1>4. s \ {x} \in P
  BY <1>2, <1>3
<1>5. (s \ {x}) \cup {x} = s
  BY <1>3
<1>6. QED
  BY <1>2, <1>3, <1>4, <1>5

-----------------------------------------------------------------------------
(* SUM.  A sum of numbers is the size of a pile of that many things, so      *)
(* that sums are compared as sets are.                                      *)

\* g[x] things for every x in T.
Pile(g, T) == UNION {{x} \X (1..g[x]) : x \in T}

LEMMA PileAdds ==
  ASSUME NEW S, NEW g \in [S -> Nat], NEW T \in SUBSET S, IsFiniteSet(Pile(g, T)), NEW x \in S \ T
  PROVE  /\ IsFiniteSet(Pile(g, T \cup {x}))
         /\ Cardinality(Pile(g, T \cup {x})) = g[x] + Cardinality(Pile(g, T))
<1> DEFINE column == {x} \X (1..g[x])
<1>1. g[x] \in Nat
  OBVIOUS
<1>2. IsFiniteSet(column) /\ Cardinality(column) = g[x]
  <2>1. IsFiniteSet(1..g[x]) /\ Cardinality(1..g[x]) = g[x]
    BY <1>1, FS_Interval
  <2>2. IsFiniteSet({x}) /\ Cardinality({x}) = 1
    BY FS_Singleton
  <2>3. QED
    BY <1>1, <2>1, <2>2, FS_Product
<1>3. Pile(g, T \cup {x}) = Pile(g, T) \cup column
  BY DEF Pile
<1>4. Pile(g, T) \cap column = {}
  BY DEF Pile
<1>5. Cardinality(Pile(g, T)) \in Nat
  BY FS_CardinalityType
<1> HIDE DEF column
<1>6. /\ IsFiniteSet(Pile(g, T) \cup column)
      /\ Cardinality(Pile(g, T) \cup column)
           = Cardinality(Pile(g, T)) + Cardinality(column) - Cardinality(Pile(g, T) \cap column)
  BY <1>2, FS_Union
<1>7. Cardinality(Pile(g, T) \cap column) = 0
  BY <1>4, FS_EmptySet
<1>8. /\ IsFiniteSet(Pile(g, T \cup {x}))
      /\ Cardinality(Pile(g, T \cup {x}))
           = Cardinality(Pile(g, T)) + Cardinality(column) - Cardinality(Pile(g, T) \cap column)
  BY <1>3, <1>6, Zenon
<1>9. QED
  BY <1>1, <1>2, <1>5, <1>7, <1>8

LEMMA PilesAreFinite ==
  ASSUME NEW S, IsFiniteSet(S), NEW g \in [S -> Nat], NEW T \in SUBSET S
  PROVE  IsFiniteSet(Pile(g, T)) /\ Cardinality(Pile(g, T)) \in Nat
<1> DEFINE P == {U \in SUBSET S : IsFiniteSet(Pile(g, U))}
<1>1. {} \in P
  <2>1. Pile(g, {}) = {}
    BY DEF Pile
  <2>2. QED
    BY <2>1, FS_EmptySet
<1>2. \A U \in P : \A x \in S \ U : U \cup {x} \in P
  BY PileAdds
<1>3. P = SUBSET S
  <2> HIDE DEF P
  <2>1. P \in SUBSET SUBSET S
    BY DEF P
  <2>2. QED
    BY <1>1, <1>2, <2>1, SubsetsByInduction
<1>4. QED
  BY <1>3, FS_CardinalityType

\* The function by which FoldFunction adds up.
Adds(iter, g, S) ==
  iter = [s \in SUBSET S |->
            IF s = {} THEN 0
            ELSE g[CHOOSE x \in s : TRUE] + iter[s \ {CHOOSE x \in s : TRUE}]]

LEMMA PilesAddUp ==
  ASSUME NEW S, IsFiniteSet(S), NEW g \in [S -> Nat]
  PROVE  Adds([s \in SUBSET S |-> Cardinality(Pile(g, s))], g, S)
<1> DEFINE w == [s \in SUBSET S |-> Cardinality(Pile(g, s))]
<1>1. ASSUME NEW s \in SUBSET S
      PROVE  w[s] = IF s = {} THEN 0
                    ELSE g[CHOOSE x \in s : TRUE] + w[s \ {CHOOSE x \in s : TRUE}]
  <2>1. CASE s = {}
    <3>1. Pile(g, s) = {}
      BY <2>1 DEF Pile
    <3>2. QED
      BY <2>1, <3>1, FS_EmptySet
  <2>2. CASE s # {}
    <3>1. PICK x : x = CHOOSE y \in s : TRUE
      OBVIOUS
    <3>2. x \in s
      BY <2>2, <3>1
    <3>3. s \ {x} \in SUBSET S /\ x \in S \ (s \ {x}) /\ (s \ {x}) \cup {x} = s
      BY <3>2
    <3>4. IsFiniteSet(Pile(g, s \ {x}))
      BY <3>3, PilesAreFinite
    <3>5. Cardinality(Pile(g, s)) = g[x] + Cardinality(Pile(g, s \ {x}))
      BY <3>3, <3>4, PileAdds
    <3>6. w[s] = g[x] + w[s \ {x}]
      BY <3>3, <3>5
    <3> HIDE DEF w
    <3>7. QED
      BY <2>2, <3>1, <3>6
  <2>3. QED
    BY <2>1, <2>2
<1>2. w = [s \in SUBSET S |-> w[s]]
  OBVIOUS
<1> HIDE DEF w
<1>3. Adds(w, g, S)
  BY <1>1, <1>2 DEF Adds
<1>4. QED
  BY <1>3 DEF w

LEMMA OneWayToAdd ==
  ASSUME NEW S, IsFiniteSet(S), NEW g \in [S -> Nat], NEW v, NEW w,
         Adds(v, g, S), Adds(w, g, S)
  PROVE  \A s \in SUBSET S : v[s] = w[s]
<1> DEFINE Q == {s \in SUBSET S : v[s] # w[s]}
<1>1. SUFFICES ASSUME Q # {} PROVE FALSE
  OBVIOUS
<1>2. PICK s \in Q : \A t \in SUBSET s : t # s => t \notin Q
  <2>1. Q \in SUBSET SUBSET S
    OBVIOUS
  <2> HIDE DEF Q
  <2>2. QED
    BY <1>1, <2>1, SmallestSubset
<1>3. s # {}
  <2>1. v[{}] = 0 /\ w[{}] = 0
    BY DEF Adds
  <2>2. QED
    BY <1>2, <2>1
<1>4. PICK x : x = CHOOSE y \in s : TRUE
  OBVIOUS
<1>5. x \in s
  BY <1>3, <1>4
<1>6. s \in SUBSET S
  BY <1>2
<1>7. v[s] = g[x] + v[s \ {x}] /\ w[s] = g[x] + w[s \ {x}]
  BY <1>3, <1>4, <1>6 DEF Adds
<1>8. v[s \ {x}] = w[s \ {x}]
  <2>1. s \ {x} \in SUBSET s /\ s \ {x} # s /\ s \ {x} \in SUBSET S
    BY <1>5, <1>6
  <2>2. s \ {x} \notin Q
    BY <1>2, <2>1
  <2>3. QED
    BY <2>1, <2>2
<1>9. QED
  BY <1>2, <1>7, <1>8

\* A sum is the size of the pile.
LEMMA TotalIsPile ==
  ASSUME NEW S, IsFiniteSet(S), NEW g \in [S -> Nat]
  PROVE  Total(g) = Cardinality(Pile(g, S)) /\ Total(g) \in Nat
<1>1. DOMAIN g = S
  OBVIOUS
<1>2. Total(g) = (CHOOSE iter : iter = [s \in SUBSET DOMAIN g |->
                    IF s = {} THEN 0
                    ELSE g[CHOOSE x \in s : TRUE] + iter[s \ {CHOOSE x \in s : TRUE}]])[DOMAIN g]
  BY Zenon DEF Total, FoldFunction, FoldFunctionOnSet, MapThenFoldSet
<1>3. Total(g) = (CHOOSE iter : Adds(iter, g, S))[S]
  BY <1>1, <1>2, Zenon DEF Adds
<1>4. PICK v : v = CHOOSE iter : Adds(iter, g, S)
  OBVIOUS
<1>5. Adds([s \in SUBSET S |-> Cardinality(Pile(g, s))], g, S)
  BY PilesAddUp
<1>6. Adds(v, g, S)
  BY <1>4, <1>5, Zenon
<1>7. v[S] = [s \in SUBSET S |-> Cardinality(Pile(g, s))][S]
  BY <1>5, <1>6, OneWayToAdd
<1>8. v[S] = Cardinality(Pile(g, S))
  BY <1>7
<1>9. QED
  BY <1>3, <1>4, <1>8, PilesAreFinite

LEMMA PileOfPart ==
  ASSUME NEW S, NEW g \in [S -> Nat], NEW T \in SUBSET S
  PROVE  [x \in T |-> g[x]] \in [T -> Nat] /\ Pile([x \in T |-> g[x]], T) = Pile(g, T)
BY DEF Pile

\* The sum over a part of the rows.
LEMMA PartIsPile ==
  ASSUME NEW S, IsFiniteSet(S), NEW g \in [S -> Nat], NEW T \in SUBSET S
  PROVE  /\ Total([x \in T |-> g[x]]) = Cardinality(Pile(g, T))
         /\ Total([x \in T |-> g[x]]) \in Nat
<1>1. IsFiniteSet(T)
  BY FS_Subset
<1>2. [x \in T |-> g[x]] \in [T -> Nat] /\ Pile([x \in T |-> g[x]], T) = Pile(g, T)
  BY PileOfPart
<1>3. QED
  BY <1>1, <1>2, TotalIsPile

\* The same numbers in rows of another shape have the same sum.
LEMMA TotalsAgree ==
  ASSUME NEW S, IsFiniteSet(S), NEW g \in [S -> Nat], NEW T, NEW f \in [T -> Nat],
         NEW h \in Bijection(S, T), \A x \in S : f[h[x]] = g[x]
  PROVE  Total(f) = Total(g)
<1>1. IsFiniteSet(T)
  BY FS_Bijection DEF ExistsBijection
<1>2. /\ h \in [S -> T]
      /\ \A x, y \in S : h[x] = h[y] => x = y
      /\ \A y \in T : \E x \in S : h[x] = y
  BY DEF Bijection, Injection, Surjection, IsInjective
<1> DEFINE up == [p \in Pile(g, S) |-> <<h[p[1]], p[2]>>]
<1>3. up \in Bijection(Pile(g, S), Pile(f, T))
  <2>1. \A p \in Pile(g, S) : p = <<p[1], p[2]>> /\ p[1] \in S /\ p[2] \in 1..g[p[1]]
    BY DEF Pile
  <2>2. \A p \in Pile(g, S) : up[p] \in Pile(f, T)
    <3>1. TAKE p \in Pile(g, S)
    <3>2. h[p[1]] \in T /\ p[2] \in 1..f[h[p[1]]]
      BY <1>2, <2>1
    <3>3. QED
      BY <3>2 DEF Pile
  <2>3. \A p, q \in Pile(g, S) : up[p] = up[q] => p = q
    <3>1. TAKE p, q \in Pile(g, S)
    <3>2. HAVE up[p] = up[q]
    <3>3. h[p[1]] = h[q[1]] /\ p[2] = q[2]
      BY <3>2
    <3>4. QED
      BY <1>2, <2>1, <3>3
  <2>4. \A q \in Pile(f, T) : \E p \in Pile(g, S) : up[p] = q
    <3>1. TAKE q \in Pile(f, T)
    <3>2. q = <<q[1], q[2]>> /\ q[1] \in T /\ q[2] \in 1..f[q[1]]
      BY DEF Pile
    <3>3. PICK x \in S : h[x] = q[1]
      BY <1>2, <3>2
    <3>4. <<x, q[2]>> \in Pile(g, S)
      BY <3>2, <3>3 DEF Pile
    <3>5. up[<<x, q[2]>>] = q
      BY <3>2, <3>3, <3>4
    <3>6. QED
      BY <3>4, <3>5
  <2>5. up \in [Pile(g, S) -> Pile(f, T)]
    BY <2>2
  <2> HIDE DEF up
  <2>6. QED
    BY <2>3, <2>4, <2>5 DEF Bijection, Injection, Surjection, IsInjective
<1>4. Cardinality(Pile(f, T)) = Cardinality(Pile(g, S))
  <2>1. IsFiniteSet(Pile(g, S))
    BY PilesAreFinite
  <2>2. ExistsBijection(Pile(g, S), Pile(f, T))
    BY <1>3 DEF ExistsBijection
  <2>3. QED
    BY <2>1, <2>2, FS_Bijection
<1>5. QED
  BY <1>1, <1>4, TotalIsPile

\* GROUP BY: the groups of rows for which part is the same.
Group(S, part, k) == {x \in S : part[x] = k}

LEMMA GroupsAddUp ==
  ASSUME NEW S, IsFiniteSet(S), NEW g \in [S -> Nat],
         NEW K, IsFiniteSet(K), NEW part \in [S -> K]
  PROVE  Total([k \in K |-> Total([x \in Group(S, part, k) |-> g[x]])]) = Total(g)
<1> DEFINE sum == [k \in K |-> Total([x \in Group(S, part, k) |-> g[x]])]
           In(U) == {x \in S : part[x] \in U}
           P == {U \in SUBSET K : Cardinality(Pile(sum, U)) = Cardinality(Pile(g, In(U)))}
<1>1. \A k \in K : sum[k] = Cardinality(Pile(g, Group(S, part, k))) /\ sum[k] \in Nat
  <2>1. TAKE k \in K
  <2>2. Group(S, part, k) \in SUBSET S
    BY DEF Group
  <2>3. QED
    BY <2>2, PartIsPile
<1>2. sum \in [K -> Nat]
  BY <1>1
<1> HIDE DEF sum
<1>3. {} \in P
  <2>1. Pile(sum, {}) = {} /\ Pile(g, In({})) = {}
    BY DEF Pile
  <2>2. QED
    BY <2>1
<1>4. ASSUME NEW U \in P, NEW k \in K \ U PROVE U \cup {k} \in P
  <2>1. U \in SUBSET K /\ k \in K \ U /\ IsFiniteSet(Pile(sum, U))
    BY <1>2, PilesAreFinite
  <2>2. Cardinality(Pile(sum, U \cup {k})) = sum[k] + Cardinality(Pile(sum, U))
    BY <1>2, <2>1, PileAdds
  <2> DEFINE G == Group(S, part, k)
             A == Pile(g, In(U))
             B == Pile(g, G)
  <2>3. Pile(g, In(U \cup {k})) = A \cup B
    BY DEF Pile, Group
  <2>4. A \cap B = {}
    BY DEF Pile, Group
  <2>5. IsFiniteSet(A) /\ IsFiniteSet(B) /\ Cardinality(A) \in Nat /\ Cardinality(B) \in Nat
    <3>1. In(U) \in SUBSET S /\ G \in SUBSET S
      BY DEF Group
    <3>2. QED
      BY <3>1, PilesAreFinite
  <2>6. Cardinality(Pile(sum, U)) = Cardinality(A) /\ sum[k] = Cardinality(B)
    BY <1>1
  <2>7. Cardinality(Pile(g, In(U \cup {k}))) = Cardinality(A) + Cardinality(B)
    <3> HIDE DEF A, B, In
    <3>1. Cardinality(A \cup B) = Cardinality(A) + Cardinality(B) - Cardinality(A \cap B)
      BY <2>5, FS_Union
    <3>2. Cardinality(A \cap B) = 0
      BY <2>4, FS_EmptySet
    <3>3. Cardinality(Pile(g, In(U \cup {k}))) = Cardinality(A \cup B)
      BY <2>3, Zenon
    <3>4. QED
      BY <2>5, <3>1, <3>2, <3>3
  <2>8. Cardinality(Pile(sum, U \cup {k})) = Cardinality(Pile(g, In(U \cup {k})))
    <3> HIDE DEF A, B, In
    <3>1. QED
      BY <2>2, <2>5, <2>6, <2>7
  <2>9. QED
    BY <2>1, <2>8
<1>5. K \in P
  <2>1. P \in SUBSET SUBSET K
    OBVIOUS
  <2> HIDE DEF P
  <2>2. P = SUBSET K
    BY <1>3, <1>4, <2>1, SubsetsByInduction
  <2>3. QED
    BY <2>2
<1>6. In(K) = S
  OBVIOUS
<1>7. Total(sum) = Cardinality(Pile(sum, K)) /\ Total(g) = Cardinality(Pile(g, S))
  BY <1>2, TotalIsPile
<1>8. QED
  BY <1>5, <1>6, <1>7 DEF sum

\* A function that hits every row of T once, and one that hits it at least once.
LEMMA OneToOne ==
  ASSUME NEW S, NEW T, NEW h \in [S -> T],
         \A x, y \in S : h[x] = h[y] => x = y,
         \A y \in T : \E x \in S : h[x] = y
  PROVE  /\ h \in Bijection(S, T)
         /\ IsFiniteSet(S) => IsFiniteSet(T) /\ Cardinality(T) = Cardinality(S)
<1>1. h \in Bijection(S, T)
  BY DEF Bijection, Injection, Surjection, IsInjective
<1>2. ExistsBijection(S, T)
  BY <1>1 DEF ExistsBijection
<1>3. QED
  BY <1>1, <1>2, FS_Bijection

LEMMA Onto ==
  ASSUME NEW S, IsFiniteSet(S), NEW T, NEW h \in [S -> T], \A y \in T : \E x \in S : h[x] = y
  PROVE  IsFiniteSet(T) /\ Cardinality(T) <= Cardinality(S)
<1>1. h \in Surjection(S, T)
  BY DEF Surjection
<1>2. QED
  BY <1>1, FS_Surjection

\* A sum of larger numbers is larger.
LEMMA TotalGrows ==
  ASSUME NEW S, IsFiniteSet(S), NEW f \in [S -> Nat], NEW g \in [S -> Nat],
         \A x \in S : f[x] <= g[x]
  PROVE  Total(f) <= Total(g)
<1>1. Pile(f, S) \in SUBSET Pile(g, S)
  BY DEF Pile
<1>2. IsFiniteSet(Pile(g, S))
  BY PilesAreFinite
<1>3. Cardinality(Pile(f, S)) <= Cardinality(Pile(g, S))
  BY <1>1, <1>2, FS_Subset
<1>4. QED
  BY <1>3, TotalIsPile

\* COUNT: the sizes of the groups add up to that of the table.
LEMMA GroupsCount ==
  ASSUME NEW S, IsFiniteSet(S), NEW K, IsFiniteSet(K), NEW part \in [S -> K]
  PROVE  Total([k \in K |-> Cardinality(Group(S, part, k))]) = Cardinality(S)
<1> DEFINE one == [x \in S |-> 1]
<1>1. one \in [S -> Nat]
  OBVIOUS
<1>2. ASSUME NEW T \in SUBSET S PROVE Total([x \in T |-> one[x]]) = Cardinality(T)
  <2> DEFINE h == [x \in T |-> <<x, 1>>]
  <2>1. IsFiniteSet(T)
    BY FS_Subset
  <2>2. Pile(one, T) = {<<x, 1>> : x \in T}
    <3>1. \A x \in T : one[x] = 1
      OBVIOUS
    <3>2. 1..1 = {1}
      OBVIOUS
    <3>3. Pile(one, T) = {p \in T \X (1..1) : TRUE}
      <4>1. ASSUME NEW p \in Pile(one, T) PROVE p \in T \X (1..1)
        BY <3>1 DEF Pile
      <4>2. ASSUME NEW p \in T \X (1..1) PROVE p \in Pile(one, T)
        BY <3>1 DEF Pile
      <4>3. QED
        BY <4>1, <4>2
    <3>4. QED
      BY <3>2, <3>3
  <2>3. h \in [T -> Pile(one, T)]
    BY <2>2
  <2>4. \A x, y \in T : h[x] = h[y] => x = y
    OBVIOUS
  <2>5. \A p \in Pile(one, T) : \E x \in T : h[x] = p
    BY <2>2
  <2>6. Cardinality(Pile(one, T)) = Cardinality(T)
    BY <2>1, <2>3, <2>4, <2>5, OneToOne, ZenonT(40)
  <2>7. QED
    BY <1>1, <2>6, PartIsPile
<1>3. \A k \in K : Group(S, part, k) \in SUBSET S
  BY DEF Group
<1>4. [k \in K |-> Total([x \in Group(S, part, k) |-> one[x]])]
        = [k \in K |-> Cardinality(Group(S, part, k))]
  BY <1>2, <1>3
<1>5. Total([k \in K |-> Total([x \in Group(S, part, k) |-> one[x]])]) = Total(one)
  <2> HIDE DEF one
  <2>1. QED
    BY <1>1, GroupsAddUp
<1>6. Total(one) = Cardinality(S)
  <2>1. [x \in S |-> one[x]] = one
    OBVIOUS
  <2>2. QED
    BY <1>2, <2>1
<1>7. QED
  BY <1>4, <1>5, <1>6, Zenon

HeadCount(who, T) == Cardinality({who[x] : x \in T})

GroupHeads(who, S, part, K) == [k \in K |-> HeadCount(who, Group(S, part, k))]

\* COUNT(DISTINCT ...): who is counted once in the table is counted at least
\* once in the groups, and at most once for each row.
LEMMA HeadsOfGroups ==
  ASSUME NEW S, IsFiniteSet(S), NEW K, IsFiniteSet(K), NEW part \in [S -> K],
         NEW B, NEW who \in [S -> B]
  PROVE  /\ HeadCount(who, S) <= Total(GroupHeads(who, S, part, K))
         /\ Total(GroupHeads(who, S, part, K)) <= Cardinality(S)
<1> DEFINE Who(T) == {who[x] : x \in T}
           heads == [k \in K |-> Cardinality(Who(Group(S, part, k)))]
           sizes == [k \in K |-> Cardinality(Group(S, part, k))]
<1>1. \A k \in K : Group(S, part, k) \in SUBSET S
  BY DEF Group
<1>2. ASSUME NEW T \in SUBSET S
      PROVE  /\ IsFiniteSet(T) /\ Cardinality(T) \in Nat
             /\ IsFiniteSet(Who(T)) /\ Cardinality(Who(T)) \in Nat
             /\ Cardinality(Who(T)) <= Cardinality(T)
  <2> DEFINE h == [x \in T |-> who[x]]
  <2>1. IsFiniteSet(T)
    BY FS_Subset
  <2>2. h \in [T -> Who(T)] /\ \A y \in Who(T) : \E x \in T : h[x] = y
    OBVIOUS
  <2> HIDE DEF h, Who
  <2>3. IsFiniteSet(Who(T)) /\ Cardinality(Who(T)) <= Cardinality(T)
    BY <2>1, <2>2, Onto
  <2>4. QED
    BY <2>1, <2>3, FS_CardinalityType
<1>3. heads \in [K -> Nat] /\ sizes \in [K -> Nat]
      /\ \A k \in K : heads[k] <= sizes[k]
  BY <1>1, <1>2
<1>4. Total(sizes) = Cardinality(S)
  BY GroupsCount
<1>5. Total(heads) <= Cardinality(S)
  <2> HIDE DEF heads, sizes
  <2>1. QED
    BY <1>3, <1>4, TotalGrows
<1> DEFINE first == [b \in Who(S) |-> CHOOSE x \in S : who[x] = b]
           T == {first[b] : b \in Who(S)}
           partT == [x \in T |-> part[x]]
           sizesT == [k \in K |-> Cardinality(Group(T, partT, k))]
<1>6. \A b \in Who(S) : first[b] \in S /\ who[first[b]] = b
  OBVIOUS
<1>7. T \in SUBSET S
  BY <1>6, ZenonT(40)
<1>8. Cardinality(T) = Cardinality(Who(S))
  <2>1. IsFiniteSet(Who(S))
    BY <1>2
  <2>2. first \in [Who(S) -> T] /\ \A y \in T : \E x \in Who(S) : first[x] = y
    OBVIOUS
  <2>3. \A x, y \in Who(S) : first[x] = first[y] => x = y
    BY <1>6, Zenon
  <2> HIDE DEF T, first, Who
  <2>4. QED
    BY <2>1, <2>2, <2>3, OneToOne
<1>9. partT \in [T -> K] /\ IsFiniteSet(T)
  BY <1>2, <1>7
<1>10. Total(sizesT) = Cardinality(T)
  <2> HIDE DEF T, partT
  <2>1. QED
    BY <1>9, GroupsCount
<1>11. ASSUME NEW k \in K
       PROVE  Cardinality(Group(T, partT, k)) \in Nat
              /\ Cardinality(Group(T, partT, k)) <= Cardinality(Who(Group(S, part, k)))
  <2> DEFINE U == Group(T, partT, k)
             h == [x \in U |-> who[x]]
  <2>1. U \in SUBSET S /\ U \in SUBSET T /\ U \in SUBSET Group(S, part, k)
    BY <1>7, <1>9 DEF Group
  <2>2. \A x, y \in U : who[x] = who[y] => x = y
    <3>1. TAKE x, y \in U
    <3>2. x \in T /\ y \in T
      <4> HIDE DEF T, U
      <4>1. QED
        BY <2>1
    <3>4. PICK b, c \in Who(S) : x = first[b] /\ y = first[c]
      BY <3>2
    <3> HIDE DEF first, U, Who, T
    <3>3. QED
      BY <1>6, <3>4
  <2>3. IsFiniteSet(U) /\ Cardinality(U) \in Nat
    BY <1>2, <2>1
  <2>4. h \in [U -> Who(U)]
    OBVIOUS
  <2>5. \A x, y \in U : h[x] = h[y] => x = y
    BY <2>2
  <2>6. \A y \in Who(U) : \E x \in U : h[x] = y
    OBVIOUS
  <2>7. Cardinality(Who(U)) = Cardinality(U)
    <3> HIDE DEF U, h, Who
    <3>1. QED
      BY <2>3, <2>4, <2>5, <2>6, OneToOne
  <2>8. Who(U) \in SUBSET Who(Group(S, part, k))
    BY <2>1
  <2>9. IsFiniteSet(Who(Group(S, part, k)))
    BY <1>1, <1>2
  <2>10. Cardinality(Who(U)) <= Cardinality(Who(Group(S, part, k)))
    <3> HIDE DEF U, Who
    <3>1. QED
      BY <2>8, <2>9, FS_Subset
  <2>11. QED
    BY <2>3, <2>7, <2>10
<1>12. Total(sizesT) <= Total(heads)
  <2>1. sizesT \in [K -> Nat] /\ \A k \in K : sizesT[k] <= heads[k]
    BY <1>11
  <2> HIDE DEF sizesT, heads
  <2>2. QED
    BY <1>3, <2>1, TotalGrows
<1>13. Cardinality(Who(S)) <= Total(heads)
  BY <1>8, <1>10, <1>12
<1>14. heads = GroupHeads(who, S, part, K) /\ HeadCount(who, S) = Cardinality(Who(S))
  BY Zenon DEF GroupHeads, HeadCount
<1>15. QED
  <2> HIDE DEF heads, Who
  <2>1. QED
    BY <1>5, <1>13, <1>14

\* A sum in which one summand is replaced.
LEMMA TotalWith ==
  ASSUME NEW S, IsFiniteSet(S), NEW f \in [S -> Nat], NEW g \in [S -> Nat],
         NEW p \in S, \A x \in S \ {p} : g[x] = f[x]
  PROVE  Total(g) + f[p] = Total(f) + g[p]
<1> DEFINE R == S \ {p}
<1>1. \A x \in R : g[x] = f[x]
  OBVIOUS
<1>2. R \in SUBSET S /\ p \in S \ R /\ R \cup {p} = S
  OBVIOUS
<1>3. Pile(g, R) = Pile(f, R)
  BY <1>1 DEF Pile
<1> HIDE DEF R
<1>4. IsFiniteSet(Pile(f, R)) /\ Cardinality(Pile(f, R)) \in Nat
  BY <1>2, PilesAreFinite
<1>5. Cardinality(Pile(f, S)) = f[p] + Cardinality(Pile(f, R))
  BY <1>2, <1>4, PileAdds
<1>6. Cardinality(Pile(g, S)) = g[p] + Cardinality(Pile(f, R))
  <2>1. IsFiniteSet(Pile(g, R))
    BY <1>3, <1>4
  <2>2. Cardinality(Pile(g, R \cup {p})) = g[p] + Cardinality(Pile(g, R))
    BY <1>2, <2>1, PileAdds
  <2>3. QED
    BY <1>2, <1>3, <2>2
<1>7. Total(f) = Cardinality(Pile(f, S)) /\ Total(g) = Cardinality(Pile(g, S))
  BY TotalIsPile
<1>8. f[p] \in Nat /\ g[p] \in Nat
  OBVIOUS
<1>9. QED
  BY <1>4, <1>5, <1>6, <1>7, <1>8
=============================================================================
