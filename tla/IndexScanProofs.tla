-------------------------- MODULE IndexScanProofs --------------------------
(***************************************************************************)
(* Searches and scans, proved: the inductive invariant of a search says    *)
(* that the heap has the best of all documents that were looked at or      *)
(* passed over; that of a scan, what has been returned.  On the way the    *)
(* heap, the sums of scores, the seeks and the order of the cursors.       *)
(***************************************************************************)
EXTENDS IndexScan, FunctionTheorems, SequenceTheorems, FiniteSetTheorems,
        WellFoundedInduction, TLAPS

\* A set of natural numbers has a least one.
LEMMA LeastNumber ==
    ASSUME NEW T, T \subseteq Nat, T # {}
    PROVE  \E m \in T : \A n \in T : m <= n
<1>1. PICK m \in T : \A n \in T : ~ (<<n, m>> \in OpToRel(<, Nat))
  BY WFMin, NatLessThanWellFounded
<1>2. \A n \in T : n \in Nat /\ m \in Nat /\ ~ (n < m)
  BY <1>1 DEF OpToRel
<1> QED
  BY <1>2

\* Of the elements of a finite set some one has the fewest others above it.
LEMMA GreatestExists ==
    ASSUME NEW T, T \subseteq Int, T # {}, IsFiniteSet(T)
    PROVE  \E m \in T : \A n \in T : n <= m
<1> DEFINE beyond == [x \in T |-> {y \in T : y > x}]
           number == [x \in T |-> Cardinality(beyond[x])]
           C      == {number[x] : x \in T}
<1>1. \A x, y \in T : y \in beyond[x] <=> y > x
  OBVIOUS
<1>2. \A x \in T : beyond[x] \in SUBSET T
  OBVIOUS
<1> HIDE DEF beyond
<1>3. \A x \in T : IsFiniteSet(beyond[x]) /\ number[x] = Cardinality(beyond[x]) /\ number[x] \in Nat
  BY <1>2, FS_Subset, FS_CardinalityType
<1> HIDE DEF number
<1>4. PICK c \in C : \A d \in C : c <= d
  <2>1. C \subseteq Nat /\ C # {}
    BY <1>3
  <2> HIDE DEF C
  <2> QED
    BY <2>1, LeastNumber
<1>5. PICK m \in T : c = number[m]
  OBVIOUS
<1>6. ASSUME NEW n \in T, n > m PROVE FALSE
  <2>1. beyond[n] \in SUBSET beyond[m]
    <3> SUFFICES ASSUME NEW y \in beyond[n] PROVE y \in beyond[m]
      OBVIOUS
    <3>1. y \in T /\ y > n
      BY <1>1, <1>2
    <3>2. y \in Int /\ n \in Int /\ m \in Int
      BY <3>1
    <3>3. y > m
      BY <3>1, <3>2, <1>6
    <3> QED
      BY <1>1, <3>1, <3>3
  <2>2. n \in beyond[m] /\ n \notin beyond[n]
    BY <1>1, <1>6
  <2>3. number[n] < number[m]
    BY <2>1, <2>2, <1>3, FS_Subset
  <2> QED
    BY <2>3, <1>3, <1>4, <1>5
<1> QED
  BY <1>6

\* And some one has the fewest below it.
LEMMA LeastExists ==
    ASSUME NEW T, T \subseteq Int, T # {}, IsFiniteSet(T)
    PROVE  \E m \in T : \A n \in T : m <= n
<1> DEFINE beyond == [x \in T |-> {y \in T : y < x}]
           number == [x \in T |-> Cardinality(beyond[x])]
           C      == {number[x] : x \in T}
<1>1. \A x, y \in T : y \in beyond[x] <=> y < x
  OBVIOUS
<1>2. \A x \in T : beyond[x] \in SUBSET T
  OBVIOUS
<1> HIDE DEF beyond
<1>3. \A x \in T : IsFiniteSet(beyond[x]) /\ number[x] = Cardinality(beyond[x]) /\ number[x] \in Nat
  BY <1>2, FS_Subset, FS_CardinalityType
<1> HIDE DEF number
<1>4. PICK c \in C : \A d \in C : c <= d
  <2>1. C \subseteq Nat /\ C # {}
    BY <1>3
  <2> HIDE DEF C
  <2> QED
    BY <2>1, LeastNumber
<1>5. PICK m \in T : c = number[m]
  OBVIOUS
<1>6. ASSUME NEW n \in T, n < m PROVE FALSE
  <2>1. beyond[n] \in SUBSET beyond[m]
    <3> SUFFICES ASSUME NEW y \in beyond[n] PROVE y \in beyond[m]
      OBVIOUS
    <3>1. y \in T /\ y < n
      BY <1>1, <1>2
    <3>2. y \in Int /\ n \in Int /\ m \in Int
      BY <3>1
    <3>3. y < m
      BY <3>1, <3>2, <1>6
    <3> QED
      BY <1>1, <3>1, <3>3
  <2>2. n \in beyond[m] /\ n \notin beyond[n]
    BY <1>1, <1>6
  <2>3. number[n] < number[m]
    BY <2>1, <2>2, <1>3, FS_Subset
  <2> QED
    BY <2>3, <1>3, <1>4, <1>5
<1> QED
  BY <1>6

\* Max and Min of a finite set are what they are called.
LEMMA MaxIs ==
    ASSUME NEW T, T \subseteq Int, T # {}, IsFiniteSet(T)
    PROVE  Max(T) \in T /\ \A n \in T : n <= Max(T)
  BY GreatestExists DEF Max
\* The least of some integers is one of them.
LEMMA MinIs ==
    ASSUME NEW T, T \subseteq Int, T # {}, IsFiniteSet(T)
    PROVE  Min(T) \in T /\ \A n \in T : Min(T) <= n
  BY LeastExists DEF Min

-----------------------------------------------------------------------------
(* Sums. *)

\* One element for each unit of each summand.
Units(f, T) == UNION {{x} \X (1..f[x]) : x \in T}

\* A set of units has one member for each unit of each value.
LEMMA UnitsOf ==
    ASSUME NEW S, IsFiniteSet(S), NEW f \in [S -> Nat], NEW T \in SUBSET S
    PROVE  /\ IsFiniteSet(Units(f, T))
           /\ Cardinality(Units(f, T)) \in Nat
           /\ \A u : u \in Units(f, T) <=> \E x \in T : \E k \in 1..f[x] : u = <<x, k>>
<1> DEFINE C    == {{x} \X (1..f[x]) : x \in T}
           g    == [x \in T |-> {x} \X (1..f[x])]
<1>1. IsFiniteSet(T)
  BY FS_Subset
<1>2. IsFiniteSet(C)
  <2>1. g \in Surjection(T, C)
    BY DEF Surjection
  <2> QED
    BY <1>1, <2>1, FS_Surjection
<1>3. \A c \in C : IsFiniteSet(c)
  <2>1. SUFFICES ASSUME NEW x \in T PROVE IsFiniteSet({x} \X (1..f[x]))
    OBVIOUS
  <2>2. IsFiniteSet({x}) /\ IsFiniteSet(1..f[x])
    <3>1. f[x] \in Int
      OBVIOUS
    <3>2. IsFiniteSet(1..f[x])
      BY <3>1, FS_Interval
    <3> QED
      BY <3>2, FS_Singleton
  <2> QED
    BY <2>2, FS_Product
<1>4. IsFiniteSet(UNION C)
  BY <1>2, <1>3, FS_UNION
<1>5. \A u : u \in Units(f, T) <=> \E x \in T : \E k \in 1..f[x] : u = <<x, k>>
  BY DEF Units
<1> QED
  BY <1>4, <1>5, FS_CardinalityType DEF Units

\* One summand more.
LEMMA UnitsAdd ==
    ASSUME NEW S, IsFiniteSet(S), NEW f \in [S -> Nat], NEW T \in SUBSET S, NEW x \in T
    PROVE  Cardinality(Units(f, T)) = f[x] + Cardinality(Units(f, T \ {x}))
<1> DEFINE A == {x} \X (1..f[x])
           B == Units(f, T \ {x})
<1>1. IsFiniteSet(A) /\ Cardinality(A) = f[x]
  <2> DEFINE X == {x}
             k == f[x]
             Y == 1..k
  <2>1. IsFiniteSet(X) /\ Cardinality(X) = 1
    BY FS_Singleton
  <2>2. k \in Nat /\ k \in Int /\ 1 \in Int
    OBVIOUS
  <2> HIDE DEF k
  <2>3. IsFiniteSet(1..k) /\ Cardinality(1..k) = IF 1 > k THEN 0 ELSE k - 1 + 1
    BY ONLY <2>2, FS_Interval
  <2>4. IsFiniteSet(Y) /\ Cardinality(Y) = k
    BY <2>2, <2>3
  <2> HIDE DEF X, Y
  <2>5. IsFiniteSet(X \X Y) /\ Cardinality(X \X Y) = Cardinality(X) * Cardinality(Y)
    BY ONLY <2>1, <2>4, FS_Product
  <2>6. A = X \X Y
    BY DEF X, Y, k
  <2> HIDE DEF A
  <2> QED
    BY <2>1, <2>2, <2>4, <2>5, <2>6 DEF k
<1>2. IsFiniteSet(B) /\ Cardinality(B) \in Nat
  BY UnitsOf
<1>3. A \cap B = {}
  BY UnitsOf
<1>4. Units(f, T) = A \cup B
  <2>1. ASSUME NEW u PROVE u \in Units(f, T) <=> u \in A \cup B
    <3>1. u \in Units(f, T) <=> \E z \in T : \E k \in 1..f[z] : u = <<z, k>>
      BY UnitsOf
    <3>2. u \in B <=> \E z \in T \ {x} : \E k \in 1..f[z] : u = <<z, k>>
      BY UnitsOf
    <3> QED
      BY <3>1, <3>2
  <2> QED
    BY <2>1
<1>5. Cardinality(A \cup B) = Cardinality(A) + Cardinality(B) - Cardinality({})
  <2> HIDE DEF A, B
  <2> QED
    BY <1>1, <1>2, <1>3, FS_Union
<1> QED
  BY <1>1, <1>2, <1>4, <1>5, FS_EmptySet

\* SumFunction adds up all values.
LEMMA SumIs ==
    ASSUME NEW S, IsFiniteSet(S), NEW f \in [S -> Nat]
    PROVE  SumFunction(f) = Cardinality(Units(f, S))
<1> DEFINE Body(it) == [s \in SUBSET S |-> IF s = {} THEN 0
                          ELSE f[CHOOSE x \in s : TRUE] + it[s \ {CHOOSE x \in s : TRUE}]]
           total == [s \in SUBSET S |-> Cardinality(Units(f, s))]
           chosen == CHOOSE it : it = Body(it)
<1>1. SumFunction(f) = chosen[S]
  BY DEF SumFunction, SumFunctionOnSet, FoldFunctionOnSet, MapThenFoldSet
<1>2. total = Body(total)
  <2>1. ASSUME NEW s \in SUBSET S PROVE total[s] = Body(total)[s]
    <3>1. CASE s = {}
      <4>1. Units(f, s) = {}
        BY <3>1 DEF Units
      <4> QED
        BY <4>1, <3>1, FS_EmptySet
    <3>2. CASE s # {}
      <4> DEFINE c == CHOOSE x \in s : TRUE
      <4>1. c \in s
        BY <3>2
      <4> HIDE DEF c
      <4>2. Cardinality(Units(f, s)) = f[c] + Cardinality(Units(f, s \ {c}))
        BY <4>1, UnitsAdd
      <4> QED
        BY <4>1, <4>2, <3>2 DEF c
    <3> QED
      BY <3>1, <3>2
  <2> QED
    BY <2>1
<1>3. chosen = Body(chosen)
  BY <1>2
<1> HIDE DEF chosen, total
<1>4. ASSUME NEW s \in SUBSET S, chosen[s] # total[s] PROVE FALSE
  <2> DEFINE Bad == {t \in SUBSET S : chosen[t] # total[t]}
             number == [t \in SUBSET S |-> Cardinality(t)]
             C   == {number[t] : t \in Bad}
  <2>1. \A t \in SUBSET S : IsFiniteSet(t) /\ Cardinality(t) \in Nat
    BY FS_Subset, FS_CardinalityType
  <2>2. PICK m \in C : \A n \in C : m <= n
    <3>1. C \subseteq Nat /\ C # {}
      BY <1>4, <2>1
    <3> HIDE DEF C
    <3> QED
      BY <3>1, LeastNumber
  <2>3. PICK t \in Bad : m = Cardinality(t)
    OBVIOUS
  <2> DEFINE c == CHOOSE x \in t : TRUE
  <2>4. chosen[t] = IF t = {} THEN 0 ELSE f[c] + chosen[t \ {c}]
    BY <1>3
  <2>5. total[t] = IF t = {} THEN 0 ELSE f[c] + total[t \ {c}]
    BY <1>2
  <2>6. t # {} /\ chosen[t \ {c}] # total[t \ {c}]
    BY <2>4, <2>5
  <2>7. c \in t
    BY <2>6
  <2> HIDE DEF c
  <2>8. Cardinality(t \ {c}) = Cardinality(t) - 1 /\ t \ {c} \in Bad
    BY <2>1, <2>6, <2>7, FS_RemoveElement
  <2>9. number[t \ {c}] \in C /\ number[t \ {c}] = Cardinality(t) - 1 /\ m = Cardinality(t)
    BY <2>8, <2>3
  <2> HIDE DEF C, number
  <2> QED
    BY <2>1, <2>2, <2>3, <2>8, <2>9
<1> QED
  BY <1>1, <1>4 DEF total

\* A sum of natural numbers is one.
LEMMA SumNat ==
    ASSUME NEW S, IsFiniteSet(S), NEW f \in [S -> Nat]
    PROVE  SumFunction(f) \in Nat
  BY SumIs, UnitsOf

\* A sum is not larger than another if distinct summands of it, apart from the
\* zeros, are bounded by distinct summands of the other.
LEMMA SumLeq ==
    ASSUME NEW S, IsFiniteSet(S), NEW f \in [S -> Nat],
           NEW R, IsFiniteSet(R), NEW g \in [R -> Nat],
           NEW h, \A x \in S : f[x] > 0 => h[x] \in R /\ f[x] <= g[h[x]],
           \A x, y \in S : f[x] > 0 /\ f[y] > 0 /\ h[x] = h[y] => x = y
    PROVE  SumFunction(f) <= SumFunction(g)
<1> DEFINE F == Units(f, S)
           G == Units(g, R)
           j == [u \in F |-> <<h[u[1]], u[2]>>]
<1>1. ASSUME NEW u \in F PROVE j[u] \in G /\ u[1] \in S /\ f[u[1]] > 0 /\ u = <<u[1], u[2]>>
  <2>1. PICK x \in S : \E k \in 1..f[x] : u = <<x, k>>
    BY UnitsOf
  <2>5. PICK k \in 1..f[x] : u = <<x, k>>
    BY <2>1
  <2>2. f[x] > 0 /\ h[x] \in R /\ k \in 1..g[h[x]]
    OBVIOUS
  <2>3. <<h[x], k>> \in G
    BY <2>2, UnitsOf
  <2> QED
    BY <2>5, <2>2, <2>3
<1>2. j \in Injection(F, G)
  <2>1. ASSUME NEW u \in F, NEW v \in F, j[u] = j[v] PROVE u = v
    BY <2>1, <1>1
  <2> QED
    BY <2>1, <1>1 DEF Injection, IsInjective
<1>3. Cardinality(F) <= Cardinality(G)
  BY <1>2, UnitsOf, FS_Injection
<1> QED
  BY <1>3, SumIs

\* It is smaller if a positive summand of the other is left over.
LEMMA SumLess ==
    ASSUME NEW S, IsFiniteSet(S), NEW f \in [S -> Nat],
           NEW R, IsFiniteSet(R), NEW g \in [R -> Nat],
           NEW h, \A x \in S : f[x] > 0 => h[x] \in R /\ f[x] <= g[h[x]],
           \A x, y \in S : f[x] > 0 /\ f[y] > 0 /\ h[x] = h[y] => x = y,
           NEW z \in R, g[z] > 0, \A x \in S : f[x] > 0 => h[x] # z
    PROVE  SumFunction(f) < SumFunction(g)
<1> DEFINE g2 == [g EXCEPT ![z] = 0]
<1>1. g2 \in [R -> Nat] /\ \A x \in R : g2[x] = IF x = z THEN 0 ELSE g[x]
  OBVIOUS
<1>2. SumFunction(f) <= SumFunction(g2)
  <2> HIDE DEF g2
  <2>1. \A x \in S : f[x] > 0 => h[x] \in R /\ f[x] <= g2[h[x]]
    BY <1>1
  <2> QED
    BY <1>1, <2>1, SumLeq
<1>3. Units(g2, R) = Units(g, R \ {z})
  <2> HIDE DEF g2
  <2>1. ASSUME NEW u PROVE u \in Units(g2, R) <=> u \in Units(g, R \ {z})
    <3>1. u \in Units(g2, R) <=> \E x \in R : \E k \in 1..g2[x] : u = <<x, k>>
      BY <1>1, UnitsOf
    <3>2. u \in Units(g, R \ {z}) <=> \E x \in R \ {z} : \E k \in 1..g[x] : u = <<x, k>>
      BY UnitsOf
    <3> QED
      BY <3>1, <3>2, <1>1
  <2> QED
    BY <2>1
<1>4. Cardinality(Units(g, R)) = g[z] + Cardinality(Units(g, R \ {z}))
  BY UnitsAdd
<1>5. SumFunction(g2) = Cardinality(Units(g, R \ {z})) /\ SumFunction(g) = Cardinality(Units(g, R))
  <2> HIDE DEF g2
  <2> QED
    BY <1>1, <1>3, SumIs
<1>6. SumFunction(f) \in Nat /\ Cardinality(Units(g, R \ {z})) \in Nat /\ g[z] \in Nat
  BY SumNat, UnitsOf
<1> QED
  BY <1>2, <1>4, <1>5, <1>6

\* A sum is positive exactly if a summand is.
LEMMA SumPositive ==
    ASSUME NEW S, IsFiniteSet(S), NEW f \in [S -> Nat]
    PROVE  SumFunction(f) > 0 <=> \E x \in S : f[x] > 0
<1>1. SumFunction(f) = Cardinality(Units(f, S)) /\ IsFiniteSet(Units(f, S))
  BY SumIs, UnitsOf
<1>2. Cardinality(Units(f, S)) > 0 <=> Units(f, S) # {}
  BY <1>1, FS_EmptySet, FS_CardinalityType
<1>3. ASSUME NEW x \in S, f[x] > 0 PROVE <<x, 1>> \in Units(f, S)
  BY <1>3, UnitsOf
<1>4. ASSUME NEW u \in Units(f, S) PROVE \E x \in S : f[x] > 0
  BY <1>4, UnitsOf
<1> QED
  BY <1>1, <1>2, <1>3, <1>4

-----------------------------------------------------------------------------
(* Orders and ranks. *)

\* In a strict total order of a finite set the number of elements before an
\* element is its rank: all ranks are taken, each by one element.
StrictlyOrders(R, S) ==
    /\ \A x, y \in S : <<x, y>> \in R => <<y, x>> \notin R
    /\ \A x, y, z \in S : <<x, y>> \in R /\ <<y, z>> \in R => <<x, z>> \in R
    /\ \A x, y \in S : x # y => <<x, y>> \in R \/ <<y, x>> \in R
Rank(R, S) == [x \in S |-> Cardinality({y \in S : <<y, x>> \in R})]

\* The rank in a strict order tells everything that the order does.
LEMMA RankOrders ==
    ASSUME NEW S, IsFiniteSet(S), NEW R, StrictlyOrders(R, S)
    PROVE  /\ Rank(R, S) \in [S -> Nat]
           /\ \A x, y \in S : <<x, y>> \in R <=> Rank(R, S)[x] < Rank(R, S)[y]
           /\ \A x \in S : Rank(R, S)[x] < Cardinality(S)
<1> DEFINE before == [x \in S |-> {y \in S : <<y, x>> \in R}]
           r      == [x \in S |-> Cardinality(before[x])]
<1>1. Rank(R, S) = r
  BY DEF Rank
<1>2. \A x \in S : before[x] \in SUBSET S
  OBVIOUS
<1>3. \A x, y \in S : y \in before[x] <=> <<y, x>> \in R
  OBVIOUS
<1> HIDE DEF before
<1>4. \A x \in S : IsFiniteSet(before[x]) /\ r[x] = Cardinality(before[x]) /\ r[x] \in Nat
  BY <1>2, FS_Subset, FS_CardinalityType
<1>5. r \in [S -> Nat]
  BY <1>4
<1> HIDE DEF r
<1>6. ASSUME NEW x \in S, NEW y \in S, <<x, y>> \in R PROVE r[x] < r[y]
  <2>1. before[x] \in SUBSET before[y]
    BY <1>2, <1>3, <1>6 DEF StrictlyOrders
  <2>2. x \in before[y] /\ x \notin before[x]
    BY <1>3, <1>6 DEF StrictlyOrders
  <2> QED
    BY <2>1, <2>2, <1>4, FS_Subset
<1>7. ASSUME NEW x \in S, NEW y \in S, r[x] < r[y] PROVE <<x, y>> \in R
  <2>1. x # y
    BY <1>5, <1>7
  <2>2. ~ r[y] < r[x]
    BY <1>5, <1>7
  <2> QED
    BY <2>1, <2>2, <1>6 DEF StrictlyOrders
<1>8. ASSUME NEW x \in S PROVE r[x] < Cardinality(S)
  <2>1. x \notin before[x]
    BY <1>3 DEF StrictlyOrders
  <2>2. Cardinality(before[x]) <= Cardinality(S) /\ Cardinality(before[x]) # Cardinality(S)
    BY <2>1, <1>2, FS_Subset
  <2> QED
    BY <2>2, <1>4, FS_CardinalityType
<1> QED
  BY <1>1, <1>5, <1>6, <1>7, <1>8

\* Every rank below the size of the set is somebody's.
LEMMA RankTaken ==
    ASSUME NEW S, IsFiniteSet(S), NEW R, StrictlyOrders(R, S), NEW i \in 0..(Cardinality(S) - 1)
    PROVE  \E x \in S : Rank(R, S)[x] = i
<1> DEFINE r == Rank(R, S)
           n == Cardinality(S)
<1>1. r \in [S -> 0..(n - 1)] /\ \A x, y \in S : r[x] = r[y] => x = y
  <2>1. n \in Nat
    BY FS_CardinalityType
  <2>2. \A x \in S : r[x] \in 0..(n - 1)
    BY <2>1, RankOrders
  <2>3. r \in [S -> 0..(n - 1)]
    BY <2>2, RankOrders
  <2>4. ASSUME NEW x \in S, NEW y \in S, r[x] = r[y] PROVE x = y
    BY <2>4, RankOrders DEF StrictlyOrders
  <2> QED
    BY <2>3, <2>4
<1>2. IsFiniteSet(0..(n - 1)) /\ Cardinality(0..(n - 1)) = n
  <2>1. n \in Nat
    BY FS_CardinalityType
  <2>2. n - 1 \in Int
    BY <2>1
  <2> QED
    BY <2>1, <2>2, FS_Interval
<1> HIDE DEF r
<1>3. r \in Injection(S, 0..(n - 1))
  BY <1>1 DEF Injection, IsInjective
<1>4. r \in Surjection(S, 0..(n - 1))
  BY <1>2, <1>3, FS_Injection
<1> QED
  BY <1>4 DEF Surjection, r

-----------------------------------------------------------------------------
(* Loops: Iterated, and the heap's sifting.                                 *)

\* b goes from x along f for n steps, as long as it stays in S.
Follows(b, f, S, x, n) == b[0] = x /\ \A i \in 1..n : b[i - 1] \in S => b[i] = f[b[i - 1]]

\* Every step along f lessens m, but where f rests; at x it is no more than n.
Lessens(m, f, S, x, n) ==
    /\ m \in [S -> Nat]
    /\ \A s \in S : f[s] = s \/ m[f[s]] < m[s]
    /\ m[x] <= n

Rests(y, f, S) == y \in S /\ f[y] = y

\* Whatever follows f from x for n steps has come to where f rests, if every
\* step that does not rest lessens a measure.
LEMMA IterationRests ==
    ASSUME NEW S, NEW f \in [S -> S], NEW x \in S, NEW n \in Nat,
           NEW m, Lessens(m, f, S, x, n),
           NEW b, Follows(b, f, S, x, n)
    PROVE  Rests(b[n], f, S)
<1> DEFINE Good(i) == b[i] \in S /\ (f[b[i]] = b[i] \/ m[b[i]] <= n - i)
           Bad     == {i \in 0..n : ~Good(i)}
<1>1. ASSUME NEW k \in Bad PROVE FALSE
  <2>1. PICK i \in Bad : \A j \in Bad : i <= j
    <3>1. Bad \subseteq Nat /\ Bad # {}
      BY <1>1
    <3> HIDE DEF Bad
    <3> QED
      BY <3>1, LeastNumber
  <2>2. CASE i = 0
    BY <2>2 DEF Follows, Lessens
  <2>3. CASE i # 0
    <3>1. i - 1 \in 0..n /\ i \in 1..n
      BY <2>3
    <3>2. Good(i - 1)
      BY <2>1, <3>1
    <3>3. b[i] = f[b[i - 1]] /\ b[i - 1] \in S /\ b[i] \in S
      BY <3>1, <3>2 DEF Follows
    <3>4. CASE f[b[i - 1]] = b[i - 1]
      BY <3>3, <3>4
    <3>5. CASE f[b[i - 1]] # b[i - 1]
      <4>1. m[b[i]] < m[b[i - 1]] /\ m[b[i - 1]] <= n - (i - 1)
        BY <3>2, <3>3, <3>5 DEF Lessens
      <4>2. m[b[i]] \in Nat /\ m[b[i - 1]] \in Nat
        BY <3>3 DEF Lessens
      <4>3. m[b[i]] <= n - i
        BY <4>1, <4>2
      <4> QED
        BY <3>3, <4>3
    <3> QED
      BY <3>4, <3>5
  <2> QED
    BY <2>2, <2>3
<1>2. Good(n)
  BY <1>1
<1>3. m[b[n]] <= 0 => f[b[n]] = b[n]
  BY <1>2 DEF Lessens
<1> QED
  BY <1>2, <1>3 DEF Rests

\* A function can be applied any number of times.
LEMMA IterationExists ==
    ASSUME NEW S, NEW f \in [S -> S], NEW x \in S, NEW n \in Nat
    PROVE  \E a \in [0..n -> S] : Follows(a, f, S, x, n)
<1> DEFINE Is(a, k) == a[0] = x /\ \A i \in 1..k : a[i] = f[a[i - 1]]
           Bad      == {k \in Nat : ~ \E a \in [0..k -> S] : Is(a, k)}
<1>1. ASSUME NEW k \in Bad PROVE FALSE
  <2>1. PICK i \in Bad : \A j \in Bad : i <= j
    <3>1. Bad \subseteq Nat /\ Bad # {}
      BY <1>1
    <3> HIDE DEF Bad
    <3> QED
      BY <3>1, LeastNumber
  <2>2. CASE i = 0
    <3> DEFINE a == [j \in 0..0 |-> x]
    <3>1. a \in [0..0 -> S] /\ Is(a, 0)
      OBVIOUS
    <3> QED
      BY <2>2, <3>1
  <2>3. CASE i # 0
    <3>1. i - 1 \in Nat /\ i - 1 \notin Bad
      BY <2>1, <2>3
    <3>2. PICK a \in [0..(i - 1) -> S] : Is(a, i - 1)
      BY <3>1
    <3> DEFINE c == [j \in 0..i |-> IF j = i THEN f[a[i - 1]] ELSE a[j]]
    <3>3. a[i - 1] \in S
      BY <2>3
    <3>4. c \in [0..i -> S]
      BY <3>3
    <3>5. ASSUME NEW j \in 1..i PROVE c[j] = f[c[j - 1]]
      BY <3>2
    <3>6. c[0] = x
      BY <3>2, <2>3
    <3>7. Is(c, i)
      BY <3>5, <3>6
    <3> QED
      BY <3>4, <3>7
  <2> QED
    BY <2>2, <2>3
<1> QED
  BY <1>1 DEF Follows

\* Rising comes to rest within as many steps as there are levels.
LEMMA RisenRests ==
    ASSUME NEW S, \A s \in S : Risen(s) \in S, NEW x \in S, NEW n \in Nat,
           NEW m \in [S -> Nat], \A s \in S : Risen(s) = s \/ m[Risen(s)] < m[s], m[x] <= n
    PROVE  /\ Iterated(Risen, x, n) \in S
           /\ Risen(Iterated(Risen, x, n)) = Iterated(Risen, x, n)
<1> DEFINE f == [s \in S |-> Risen(s)]
           b == CHOOSE a : a = [i \in 0..n |-> IF i = 0 THEN x ELSE Risen(a[i - 1])]
<1>1. f \in [S -> S] /\ \A s \in S : f[s] = Risen(s)
  OBVIOUS
<1> HIDE DEF f
<1>2. PICK a \in [0..n -> S] : Follows(a, f, S, x, n)
  BY <1>1, IterationExists
<1>3. a = [i \in 0..n |-> IF i = 0 THEN x ELSE Risen(a[i - 1])]
  <2>1. ASSUME NEW i \in 0..n PROVE a[i] = IF i = 0 THEN x ELSE Risen(a[i - 1])
    BY <1>1, <1>2 DEF Follows
  <2> QED
    BY <2>1
<1>4. b = [i \in 0..n |-> IF i = 0 THEN x ELSE Risen(b[i - 1])]
  BY <1>3
<1>5. Iterated(Risen, x, n) = b[n]
  BY DEF Iterated
<1> HIDE DEF b
<1>6. Follows(b, f, S, x, n)
  <2>1. \A i \in 0..n : b[i] = IF i = 0 THEN x ELSE Risen(b[i - 1])
    BY <1>4
  <2>2. b[0] = x
    BY <2>1
  <2>3. ASSUME NEW i \in 1..n, b[i - 1] \in S PROVE b[i] = f[b[i - 1]]
    <3>1. b[i] = IF i = 0 THEN x ELSE Risen(b[i - 1])
      BY <2>1
    <3>2. b[i - 1] \in S /\ i # 0
      BY <2>3
    <3>3. f[b[i - 1]] = Risen(b[i - 1])
      BY ONLY <1>1, <3>2
    <3> QED
      BY <3>1, <3>2, <3>3
  <2> QED
    BY <2>2, <2>3 DEF Follows
<1>8. Lessens(m, f, S, x, n)
  BY <1>1 DEF Lessens
<1>9. f \in [S -> S]
  BY <1>1
<1>7. Rests(b[n], f, S)
  BY ONLY <1>6, <1>8, <1>9, x \in S, n \in Nat, IterationRests
<1> QED
  BY <1>1, <1>5, <1>7 DEF Rests

\* So does sinking.
LEMMA SunkRests ==
    ASSUME NEW S, \A s \in S : Sunk(s) \in S, NEW x \in S, NEW n \in Nat,
           NEW m \in [S -> Nat], \A s \in S : Sunk(s) = s \/ m[Sunk(s)] < m[s], m[x] <= n
    PROVE  /\ Iterated(Sunk, x, n) \in S
           /\ Sunk(Iterated(Sunk, x, n)) = Iterated(Sunk, x, n)
<1> DEFINE f == [s \in S |-> Sunk(s)]
           b == CHOOSE a : a = [i \in 0..n |-> IF i = 0 THEN x ELSE Sunk(a[i - 1])]
<1>1. f \in [S -> S] /\ \A s \in S : f[s] = Sunk(s)
  OBVIOUS
<1> HIDE DEF f
<1>2. PICK a \in [0..n -> S] : Follows(a, f, S, x, n)
  BY <1>1, IterationExists
<1>3. a = [i \in 0..n |-> IF i = 0 THEN x ELSE Sunk(a[i - 1])]
  <2>1. ASSUME NEW i \in 0..n PROVE a[i] = IF i = 0 THEN x ELSE Sunk(a[i - 1])
    BY <1>1, <1>2 DEF Follows
  <2> QED
    BY <2>1
<1>4. b = [i \in 0..n |-> IF i = 0 THEN x ELSE Sunk(b[i - 1])]
  BY <1>3
<1>5. Iterated(Sunk, x, n) = b[n]
  BY DEF Iterated
<1> HIDE DEF b
<1>6. Follows(b, f, S, x, n)
  <2>1. \A i \in 0..n : b[i] = IF i = 0 THEN x ELSE Sunk(b[i - 1])
    BY <1>4
  <2>2. b[0] = x
    BY <2>1
  <2>3. ASSUME NEW i \in 1..n, b[i - 1] \in S PROVE b[i] = f[b[i - 1]]
    <3>1. b[i] = IF i = 0 THEN x ELSE Sunk(b[i - 1])
      BY <2>1
    <3>2. b[i - 1] \in S /\ i # 0
      BY <2>3
    <3>3. f[b[i - 1]] = Sunk(b[i - 1])
      BY ONLY <1>1, <3>2
    <3> QED
      BY <3>1, <3>2, <3>3
  <2> QED
    BY <2>2, <2>3 DEF Follows
<1>8. Lessens(m, f, S, x, n)
  BY <1>1 DEF Lessens
<1>9. f \in [S -> S]
  BY <1>1
<1>7. Rests(b[n], f, S)
  BY ONLY <1>6, <1>8, <1>9, x \in S, n \in Nat, IterationRests
<1> QED
  BY <1>1, <1>5, <1>7 DEF Rests

-----------------------------------------------------------------------------
(* The heap. *)

Distinct(h) == \A i, j \in DOMAIN h : h[i] = h[j] => i = j

\* A grading of entries that Weaker follows, ties aside.
Grades(r, E) ==
    /\ r \in [E -> Int]
    /\ \A e, f \in E : IF Weaker(e, f) THEN r[e] <= r[f] ELSE r[f] <= r[e]

\* Nothing is above its parent, but perhaps at position i.
Over(h, j) == h[j \div 2]
Heaped(h, r)        == \A j \in 2..Len(h) : r[Over(h, j)] <= r[h[j]]

\* Sequences of the same distinct entries.
Same(E, n, Z) == {h \in Seq(E) : Len(h) = n /\ Distinct(h) /\ Range(h) = Z}

\* A swap keeps the entries of a heap.
LEMMA SwappedSame ==
    ASSUME NEW E, NEW n \in Nat, NEW Z, NEW h \in Same(E, n, Z), NEW i \in 1..n, NEW j \in 1..n
    PROVE  Swapped(h, i, j) \in Same(E, n, Z)
<1> DEFINE g == Swapped(h, i, j)
<1>1. h \in Seq(E) /\ Len(h) = n /\ DOMAIN h = 1..n /\ Distinct(h) /\ Range(h) = Z
  BY DEF Same
<1>2. \A k \in 1..n : h[k] \in E
  BY <1>1
<1>3. g = [k \in 1..n |-> IF k = j THEN h[i] ELSE IF k = i THEN h[j] ELSE h[k]]
  BY <1>1 DEF Swapped
<1> HIDE DEF g
<1>4. g \in Seq(E) /\ Len(g) = n /\ DOMAIN g = 1..n
  BY <1>2, <1>3
<1>5. Distinct(g)
  BY <1>1, <1>3, <1>4 DEF Distinct
<1>6. Range(g) = Range(h)
  <2>1. ASSUME NEW e PROVE e \in Range(g) <=> e \in Range(h)
    <3>1. e \in Range(g) <=> \E k \in 1..n : e = g[k]
      BY <1>4 DEF Range
    <3>2. e \in Range(h) <=> \E k \in 1..n : e = h[k]
      BY <1>1 DEF Range
    <3>3. g[i] = h[j] /\ g[j] = h[i]
      BY <1>3
    <3>4. \A k \in 1..n : k # i /\ k # j => g[k] = h[k]
      BY <1>3
    <3> QED
      BY <3>1, <3>2, <3>3, <3>4
  <2> QED
    BY <2>1
<1> QED
  BY <1>1, <1>3, <1>4, <1>5, <1>6 DEF Same, g

\* On its way up: in order but for the entry that rises.
Rising(E, n, Z, r) == {s \in [heap : Same(E, n, Z), at : 1..n] :
    /\ \A j \in 2..n : j # s.at => r[Over(s.heap, j)] <= r[s.heap[j]]
    /\ \A j \in 2..n : j \div 2 = s.at /\ s.at > 1 => r[Over(s.heap, s.at)] <= r[s.heap[j]]}

\* A step of rising keeps all in order but the entry that rises.
LEMMA RisenRises ==
    ASSUME NEW E, NEW n \in Nat, NEW Z, NEW r, Grades(r, E), NEW s \in Rising(E, n, Z, r)
    PROVE  /\ Risen(s) \in Rising(E, n, Z, r)
           /\ Risen(s) = s => Heaped(s.heap, r)
           /\ Risen(s) = s \/ Risen(s).at < s.at
<1> DEFINE h == s.heap
           i == s.at
           p == i \div 2
<1>1. h \in Same(E, n, Z) /\ h \in Seq(E) /\ Len(h) = n /\ i \in 1..n /\ s = [heap |-> h, at |-> i]
  BY DEF Rising, Same
<1>2. \A k \in 1..n : h[k] \in E /\ r[h[k]] \in Int
  BY <1>1 DEF Grades
<1>3. \A j \in 2..n : j # i => r[h[j \div 2]] <= r[h[j]]
  BY DEF Rising, Over
<1>4. \A j \in 2..n : j \div 2 = i /\ i > 1 => r[h[p]] <= r[h[j]]
  BY DEF Rising, Over
<1>5. Risen(s) = IF i > 1 /\ Weaker(h[i], h[p]) THEN [heap |-> Swapped(h, i, p), at |-> p] ELSE s
  BY DEF Risen
<1> HIDE DEF h, i
<1>0. p < i /\ (i > 1 => p \in 1..n)
  BY <1>1
<1>6. CASE i > 1 /\ Weaker(h[i], h[p])
  <2> DEFINE g == Swapped(h, i, p)
  <2>1. p \in 1..n /\ p < i /\ i \in 2..n
    BY <1>1, <1>6
  <2>2. g \in Same(E, n, Z) /\ \A k \in 1..n : g[k] =
          IF k = p THEN h[i] ELSE IF k = i THEN h[p] ELSE h[k]
    <3> HIDE DEF p
    <3>1. \A k \in 1..n : g[k] = IF k = p THEN h[i] ELSE IF k = i THEN h[p] ELSE h[k]
      BY <1>1, <2>1 DEF Swapped
    <3> QED
      BY <1>1, <2>1, <3>1, SwappedSame
  <2> HIDE DEF g
  <2>3. r[h[i]] <= r[h[p]]
    BY <1>1, <1>2, <1>6, <2>1 DEF Grades
  <2>4. ASSUME NEW j \in 2..n, j # p PROVE r[g[j \div 2]] <= r[g[j]]
    <3>0. j \div 2 \in 1..n /\ j \div 2 < j
      OBVIOUS
    <3>1. CASE j = i
      BY <3>1, <2>1, <2>2, <2>3
    <3>2. CASE j # i /\ j \div 2 = i
      BY <3>0, <3>2, <2>1, <2>2, <1>4, <1>6, <2>4
    <3>3. CASE j # i /\ j \div 2 = p
      <4>1. g[j] = h[j] /\ g[p] = h[i] /\ r[h[p]] <= r[h[j]]
        BY <3>3, <2>1, <2>2, <2>4, <1>3
      <4>2. r[h[i]] \in Int /\ r[h[p]] \in Int /\ r[h[j]] \in Int
        BY <1>1, <1>2, <2>1
      <4> QED
        BY <4>1, <4>2, <2>3, <3>3
    <3>4. CASE j # i /\ j \div 2 # i /\ j \div 2 # p
      BY <3>0, <3>4, <2>2, <2>4, <1>3
    <3> QED
      BY <3>1, <3>2, <3>3, <3>4
  <2>5. ASSUME NEW j \in 2..n, j \div 2 = p, p > 1 PROVE r[g[p \div 2]] <= r[g[j]]
    <3>1. p \div 2 \in 1..n /\ p \div 2 < p /\ p \in 2..n /\ j # p
      BY <2>1, <2>5
    <3>2. r[h[p \div 2]] <= r[h[p]] /\ g[p \div 2] = h[p \div 2]
      BY <3>1, <2>1, <2>2, <1>3
    <3>3. CASE j = i
      BY <3>2, <3>3, <2>1, <2>2
    <3>4. CASE j # i
      <4>1. g[j] = h[j] /\ r[h[p]] <= r[h[j]]
        BY <3>4, <3>1, <2>2, <2>5, <1>3
      <4>2. r[h[p \div 2]] \in Int /\ r[h[p]] \in Int /\ r[h[j]] \in Int
        BY <1>2, <2>1, <3>1
      <4> QED
        BY <4>1, <4>2, <3>2
    <3> QED
      BY <3>3, <3>4
  <2>6. Risen(s) = [heap |-> g, at |-> p]
    BY <1>5, <1>6 DEF g
  <2>7. [heap |-> g, at |-> p] \in Rising(E, n, Z, r)
    BY <2>1, <2>2, <2>4, <2>5 DEF Rising, Over
  <2>8. Risen(s).at = p /\ Risen(s) # s
    BY <2>1, <2>6, <1>1
  <2> QED
    BY <2>1, <2>6, <2>7, <2>8, <1>1
<1>7. CASE ~(i > 1 /\ Weaker(h[i], h[p]))
  <2>1. Risen(s) = s
    BY <1>5, <1>7
  <2>2. ASSUME NEW j \in 2..n PROVE r[h[j \div 2]] <= r[h[j]]
    <3>1. CASE j # i
      BY <3>1, <1>3
    <3>2. CASE j = i
      <4>1. p \in 1..n /\ h[p] \in E /\ h[i] \in E
        BY <3>2, <1>2
      <4> QED
        BY <4>1, <3>2, <1>7 DEF Grades
    <3> QED
      BY <3>1, <3>2
  <2>3. Heaped(h, r)
    BY <2>2, <1>1 DEF Heaped, Over
  <2> QED
    BY <2>1, <2>3 DEF h
<1> QED
  BY <1>6, <1>7

\* heap_sift_up restores the order.
LEMMA SiftUpHeaps ==
    ASSUME NEW E, NEW n \in Nat, NEW Z, NEW r, Grades(r, E), NEW h, NEW i,
           [heap |-> h, at |-> i] \in Rising(E, n, Z, r)
    PROVE  SiftUp(h, i) \in Same(E, n, Z) /\ Heaped(SiftUp(h, i), r)
<1> DEFINE S == Rising(E, n, Z, r)
           m == [s \in S |-> s.at]
           x == [heap |-> h, at |-> i]
           y == Iterated(Risen, x, n)
<1>1. m \in [S -> Nat] /\ \A s \in S : Risen(s) = s \/ m[Risen(s)] < m[s]
  <2>1. \A s \in S : s.at \in Nat
    BY DEF Rising
  <2>2. \A s \in S : Risen(s) \in S /\ (Risen(s) = s \/ Risen(s).at < s.at)
    BY RisenRises
  <2> QED
    BY <2>1, <2>2
<1>2. m[x] <= n /\ h \in Same(E, n, Z)
  BY DEF Rising
<1>3. \A s \in S : Risen(s) \in S
  BY RisenRises
<1> HIDE DEF S, m
<1>4. y \in S /\ Risen(y) = y
  BY <1>1, <1>2, <1>3, RisenRests DEF S
<1>5. SiftUp(h, i) = y.heap
  BY <1>2 DEF SiftUp, Same
<1> HIDE DEF y
<1>6. Heaped(y.heap, r)
  BY <1>4, RisenRises DEF S
<1>7. y.heap \in Same(E, n, Z)
  BY <1>4 DEF S, Rising
<1> QED
  BY <1>5, <1>6, <1>7

\* On its way down: in order but for what is below the entry that sinks.
Sinking(E, n, Z, r) == {s \in [heap : Same(E, n, Z), at : 1..n] :
    /\ \A j \in 2..n : j \div 2 # s.at => r[Over(s.heap, j)] <= r[s.heap[j]]
    /\ \A j \in 2..n : j \div 2 = s.at /\ s.at > 1 => r[Over(s.heap, s.at)] <= r[s.heap[j]]}

\* The weakest of a position and its children is graded no higher than they are.
LEMMA WeakestIs ==
    ASSUME NEW E, NEW n \in Nat, NEW r, Grades(r, E), NEW h \in Seq(E), Len(h) = n, NEW i \in 1..n
    PROVE  /\ Weakest(h, i) = i \/ (Weakest(h, i) \in 2..n /\ Weakest(h, i) \div 2 = i)
           /\ \A j \in {i, 2 * i, 2 * i + 1} \cap (1..n) : r[h[Weakest(h, i)]] <= r[h[j]]
<1>1. \A k \in 1..n : h[k] \in E /\ r[h[k]] \in Int
  BY DEF Grades
<1> DEFINE l == IF 2 * i <= n /\ Weaker(h[2 * i], h[i]) THEN 2 * i ELSE i
           w == IF 2 * i + 1 <= n /\ Weaker(h[2 * i + 1], h[l]) THEN 2 * i + 1 ELSE l
<1>2. Weakest(h, i) = w
  BY DEF Weakest
<1>3. l \in {i, 2 * i} /\ l \in 1..n
  OBVIOUS
<1>4. r[h[l]] <= r[h[i]] /\ (2 * i <= n => r[h[l]] <= r[h[2 * i]])
  <2>1. CASE 2 * i <= n
    <3>1. h[2 * i] \in E /\ h[i] \in E
      BY <2>1, <1>1
    <3> QED
      BY <3>1, <2>1, <1>1 DEF Grades
  <2>2. CASE ~ 2 * i <= n
    BY <2>2, <1>1
  <2> QED
    BY <2>1, <2>2
<1> HIDE DEF l
<1>5. w \in 1..n /\ w \in {i, 2 * i, 2 * i + 1}
  BY <1>3
<1>6. r[h[w]] <= r[h[l]] /\ (2 * i + 1 <= n => r[h[w]] <= r[h[2 * i + 1]])
  <2>1. CASE 2 * i + 1 <= n
    <3>1. h[2 * i + 1] \in E /\ h[l] \in E
      BY <2>1, <1>1, <1>3
    <3> QED
      BY <3>1, <2>1, <1>1, <1>3 DEF Grades
  <2>2. CASE ~ 2 * i + 1 <= n
    BY <2>2, <1>1, <1>3
  <2> QED
    BY <2>1, <2>2
<1> HIDE DEF w
<1>7. \A j \in {i, 2 * i, 2 * i + 1} \cap (1..n) : r[h[w]] <= r[h[j]]
  <2>1. r[h[w]] \in Int /\ r[h[l]] \in Int /\ r[h[i]] \in Int /\ (2 * i <= n => r[h[2 * i]] \in Int)
    BY <1>1, <1>3, <1>5
  <2>2. r[h[w]] <= r[h[i]] /\ (2 * i <= n => r[h[w]] <= r[h[2 * i]])
    BY <2>1, <1>4, <1>6
  <2> QED
    BY <2>2, <1>6
<1>8. w = i \/ (w \in 2..n /\ w \div 2 = i)
  BY <1>5
<1> QED
  BY <1>2, <1>7, <1>8

\* A step of sinking keeps all in order but the entry that sinks.
LEMMA SunkSinks ==
    ASSUME NEW E, NEW n \in Nat, NEW Z, NEW r, Grades(r, E), NEW s \in Sinking(E, n, Z, r)
    PROVE  /\ Sunk(s) \in Sinking(E, n, Z, r)
           /\ Sunk(s) = s => Heaped(s.heap, r)
           /\ Sunk(s) = s \/ Sunk(s).at > s.at
<1> DEFINE h == s.heap
           i == s.at
           w == Weakest(h, i)
<1>1. h \in Same(E, n, Z) /\ h \in Seq(E) /\ Len(h) = n /\ i \in 1..n /\ s = [heap |-> h, at |-> i]
  BY DEF Sinking, Same
<1>2. \A k \in 1..n : h[k] \in E /\ r[h[k]] \in Int
  BY <1>1 DEF Grades
<1>3. \A j \in 2..n : j \div 2 # i => r[h[j \div 2]] <= r[h[j]]
  BY DEF Sinking, Over
<1>4. \A j \in 2..n : j \div 2 = i /\ i > 1 => r[h[i \div 2]] <= r[h[j]]
  BY DEF Sinking, Over
<1>5. Sunk(s) = IF w # i THEN [heap |-> Swapped(h, i, w), at |-> w] ELSE s
  BY DEF Sunk
<1>6. /\ w = i \/ (w \in 2..n /\ w \div 2 = i)
      /\ \A j \in {i, 2 * i, 2 * i + 1} \cap (1..n) : r[h[w]] <= r[h[j]]
  <2>1. /\ n \in Nat /\ Grades(r, E) /\ h \in Seq(E) /\ Len(h) = n /\ i \in 1..n
    BY <1>1
  <2> HIDE DEF h, i
  <2> QED
    BY ONLY <2>1, WeakestIs
<1> HIDE DEF h, i, w
<1>7. \A j \in 2..n : j \div 2 = i => r[h[w]] <= r[h[j]]
  <2>1. ASSUME NEW j \in 2..n, j \div 2 = i PROVE j \in {i, 2 * i, 2 * i + 1} \cap (1..n)
    BY <2>1, <1>1
  <2> QED
    BY <2>1, <1>6
<1>8. CASE w # i
  <2> DEFINE g == Swapped(h, i, w)
  <2>1. w \in 2..n /\ w \div 2 = i /\ i < w
    BY <1>1, <1>6, <1>8
  <2>2. g \in Same(E, n, Z) /\ \A k \in 1..n : g[k] =
          IF k = w THEN h[i] ELSE IF k = i THEN h[w] ELSE h[k]
    <3>1. \A k \in 1..n : g[k] = IF k = w THEN h[i] ELSE IF k = i THEN h[w] ELSE h[k]
      BY <1>1, <2>1 DEF Swapped
    <3> QED
      BY <1>1, <2>1, <3>1, SwappedSame
  <2> HIDE DEF g
  <2>3. r[h[w]] <= r[h[i]]
    BY <1>1, <1>6
  <2>4. ASSUME NEW j \in 2..n, j \div 2 # w PROVE r[g[j \div 2]] <= r[g[j]]
    <3>0. j \div 2 \in 1..n /\ j \div 2 < j
      OBVIOUS
    <3>1. CASE j = w
      BY <3>1, <2>1, <2>2, <2>3
    <3>2. CASE j # w /\ j \div 2 = i
      BY <3>0, <3>2, <2>2, <1>7
    <3>3. CASE j # w /\ j = i
      BY <3>0, <3>3, <2>1, <2>2, <2>4, <1>1, <1>4
    <3>4. CASE j # w /\ j \div 2 # i /\ j # i
      BY <3>0, <3>4, <2>2, <2>4, <1>3
    <3> QED
      BY <3>1, <3>2, <3>3, <3>4
  <2>5. ASSUME NEW j \in 2..n, j \div 2 = w PROVE r[g[w \div 2]] <= r[g[j]]
    <3>1. j # w /\ j # i /\ j \div 2 # i
      BY <2>1, <2>5
    <3>2. g[j] = h[j] /\ g[w \div 2] = h[w]
      BY <3>1, <2>1, <2>2, <1>1
    <3>3. r[h[w]] <= r[h[j]]
      BY <3>1, <2>5, <1>3
    <3> QED
      BY <3>2, <3>3
  <2>6. Sunk(s) = [heap |-> g, at |-> w]
    BY <1>5, <1>8 DEF g
  <2>7. [heap |-> g, at |-> w] \in Sinking(E, n, Z, r)
    BY <2>1, <2>2, <2>4, <2>5 DEF Sinking, Over
  <2>8. Sunk(s).at = w /\ Sunk(s) # s
    BY <2>1, <2>6, <1>1
  <2> QED
    BY <2>1, <2>6, <2>7, <2>8, <1>1
<1>9. CASE w = i
  <2>1. Sunk(s) = s
    BY <1>5, <1>9
  <2>2. ASSUME NEW j \in 2..n PROVE r[h[j \div 2]] <= r[h[j]]
    BY <1>3, <1>7, <1>9
  <2>3. Heaped(h, r)
    BY <2>2, <1>1 DEF Heaped, Over
  <2> QED
    BY <2>1, <2>3 DEF h
<1> QED
  BY <1>8, <1>9

\* heap_sift_down restores the order.
LEMMA SiftDownHeaps ==
    ASSUME NEW E, NEW n \in Nat, NEW Z, NEW r, Grades(r, E), NEW h, NEW i,
           [heap |-> h, at |-> i] \in Sinking(E, n, Z, r)
    PROVE  SiftDown(h, i) \in Same(E, n, Z) /\ Heaped(SiftDown(h, i), r)
<1> DEFINE S == Sinking(E, n, Z, r)
           m == [s \in S |-> n - s.at]
           x == [heap |-> h, at |-> i]
           y == Iterated(Sunk, x, n)
<1>1. m \in [S -> Nat] /\ \A s \in S : Sunk(s) = s \/ m[Sunk(s)] < m[s]
  <2>1. \A s \in S : s.at \in 1..n
    BY DEF Sinking
  <2>2. \A s \in S : Sunk(s) \in S /\ (Sunk(s) = s \/ Sunk(s).at > s.at)
    BY SunkSinks
  <2> QED
    BY <2>1, <2>2
<1>2. m[x] <= n /\ h \in Same(E, n, Z)
  BY DEF Sinking
<1>3. \A s \in S : Sunk(s) \in S
  BY SunkSinks
<1> HIDE DEF S, m
<1>4. y \in S /\ Sunk(y) = y
  BY <1>1, <1>2, <1>3, SunkRests DEF S
<1>5. SiftDown(h, i) = y.heap
  BY <1>2 DEF SiftDown, Same
<1> HIDE DEF y
<1>6. Heaped(y.heap, r)
  BY <1>4, SunkSinks DEF S
<1>7. y.heap \in Same(E, n, Z)
  BY <1>4 DEF S, Sinking
<1> QED
  BY <1>5, <1>6, <1>7

\* A heap of at most k distinct entries of E, in the order of r.
Heap(h, E, r, k) == h \in Seq(E) /\ Distinct(h) /\ Heaped(h, r) /\ Len(h) <= k

\* The root of a heap is graded lowest.
LEMMA RootLowest ==
    ASSUME NEW E, NEW r, Grades(r, E), NEW k \in Nat, NEW h, Heap(h, E, r, k), NEW e \in Range(h)
    PROVE  Len(h) > 0 /\ h[1] \in E /\ h[1] \in Range(h) /\ r[h[1]] <= r[e]
<1>1. h \in Seq(E) /\ DOMAIN h = 1..Len(h) /\ Len(h) \in Nat
  BY DEF Heap
<1>2. PICK i \in 1..Len(h) : e = h[i]
  BY <1>1 DEF Range
<1>3. \A j \in 1..Len(h) : h[j] \in E /\ r[h[j]] \in Int
  BY <1>1 DEF Grades
<1> DEFINE Bad == {j \in 1..Len(h) : ~ r[h[1]] <= r[h[j]]}
<1>4. ASSUME NEW j \in Bad PROVE FALSE
  <2>1. PICK m \in Bad : \A n \in Bad : m <= n
    <3>1. Bad \subseteq Nat /\ Bad # {}
      BY <1>4
    <3> HIDE DEF Bad
    <3> QED
      BY <3>1, LeastNumber
  <2>2. m # 1
    BY <1>2, <1>3
  <2>3. m \in 2..Len(h) /\ m \div 2 \in 1..Len(h) /\ m \div 2 < m
    BY <2>2
  <2>4. r[h[1]] <= r[h[m \div 2]]
    BY <2>1, <2>3
  <2>5. r[h[m \div 2]] <= r[h[m]]
    BY <2>3 DEF Heap, Heaped, Over
  <2>6. r[h[1]] \in Int /\ r[h[m]] \in Int /\ r[h[m \div 2]] \in Int
    BY <1>2, <1>3, <2>3
  <2> QED
    BY <2>4, <2>5, <2>6
<1>5. r[h[1]] <= r[h[i]]
  BY <1>4
<1> QED
  BY <1>1, <1>2, <1>3, <1>5 DEF Range

\* An entry is appended and rises.
LEMMA AppendHeaps ==
    ASSUME NEW E, NEW r, Grades(r, E), NEW k \in Nat, NEW h, Heap(h, E, r, k),
           NEW e \in E, e \notin Range(h)
    PROVE  /\ SiftUp(Append(h, e), Len(h) + 1) \in Same(E, Len(h) + 1, Range(h) \union {e})
           /\ Heaped(SiftUp(Append(h, e), Len(h) + 1), r)
<1> DEFINE a == Append(h, e)
           n == Len(h) + 1
           Z == Range(h) \union {e}
<1>1. h \in Seq(E) /\ DOMAIN h = 1..Len(h) /\ Len(h) \in Nat /\ Distinct(h)
  BY DEF Heap
<1>2. a \in Seq(E) /\ Len(a) = n /\ DOMAIN a = 1..n
  BY <1>1
<1>3. \A i \in 1..n : a[i] = IF i = n THEN e ELSE h[i]
  BY <1>1
<1>4. \A i \in 1..Len(h) : h[i] \in Range(h) /\ h[i] # e
  BY <1>1 DEF Range
<1> HIDE DEF a
<1>5. Distinct(a)
  BY <1>1, <1>2, <1>3, <1>4 DEF Distinct
<1>6. Range(a) = Z
  <2>1. \A x : x \in Range(a) <=> \E i \in 1..n : x = a[i]
    BY <1>2 DEF Range
  <2>2. \A x : x \in Range(h) <=> \E i \in 1..Len(h) : x = h[i]
    BY <1>1 DEF Range
  <2>3. n \in 1..n /\ \A i \in 1..Len(h) : i \in 1..n /\ i # n
    BY <1>1
  <2> QED
    BY <1>1, <1>3, <2>1, <2>2, <2>3
<1>7. a \in Same(E, n, Z)
  BY <1>2, <1>5, <1>6 DEF Same
<1>8. ASSUME NEW j \in 2..n, j # n PROVE r[a[j \div 2]] <= r[a[j]]
  <2>1. j \in 2..Len(h) /\ j \div 2 \in 1..Len(h) /\ j \div 2 # n
    BY <1>1, <1>8
  <2>2. r[h[j \div 2]] <= r[h[j]]
    BY <2>1 DEF Heap, Heaped, Over
  <2> QED
    BY <1>1, <1>3, <2>1, <2>2
<1>9. \A j \in 2..n : j \div 2 # n
  BY <1>1
<1>10. [heap |-> a, at |-> n] \in Rising(E, n, Z, r)
  BY <1>1, <1>7, <1>8, <1>9 DEF Rising, Over
<1> HIDE DEF n, Z
<1>11. SiftUp(a, n) \in Same(E, n, Z) /\ Heaped(SiftUp(a, n), r)
  <2>1. n \in Nat
    BY <1>1 DEF n
  <2> QED
    BY <1>10, <2>1, SiftUpHeaps
<1> QED
  BY <1>11 DEF a, n, Z

\* The root is replaced by an entry, which sinks.
LEMMA ReplaceHeaps ==
    ASSUME NEW E, NEW r, Grades(r, E), NEW k \in Nat, NEW h, Heap(h, E, r, k), Len(h) > 0,
           NEW e \in E, e \notin Range(h)
    PROVE  /\ SiftDown([h EXCEPT ![1] = e], 1)
                \in Same(E, Len(h), (Range(h) \ {h[1]}) \union {e})
           /\ Heaped(SiftDown([h EXCEPT ![1] = e], 1), r)
<1> DEFINE a == [h EXCEPT ![1] = e]
           n == Len(h)
           Z == (Range(h) \ {h[1]}) \union {e}
<1>1. h \in Seq(E) /\ DOMAIN h = 1..n /\ n \in Nat \ {0} /\ Distinct(h)
  BY DEF Heap
<1>2. a \in Seq(E) /\ Len(a) = n /\ DOMAIN a = 1..n
  BY <1>1
<1>3. \A i \in 1..n : a[i] = IF i = 1 THEN e ELSE h[i]
  BY <1>1
<1>4. \A i \in 1..n : h[i] \in Range(h) /\ h[i] # e
  BY <1>1 DEF Range
<1> HIDE DEF a
<1>5. Distinct(a)
  BY <1>1, <1>2, <1>3, <1>4 DEF Distinct
<1>6. Range(a) = Z
  <2>1. \A x : x \in Range(a) <=> \E i \in 1..n : x = a[i]
    BY <1>2 DEF Range
  <2>2. \A x : x \in Range(h) <=> \E i \in 1..n : x = h[i]
    BY <1>1 DEF Range
  <2>3. 1 \in 1..n /\ \A i \in 1..n : h[i] = h[1] => i = 1
    BY <1>1 DEF Distinct
  <2>4. a[1] = e /\ \A i \in 1..n : i # 1 => a[i] = h[i]
    BY <1>3, <2>3
  <2>5. ASSUME NEW x \in Range(a) PROVE x \in Z
    <3>1. PICK i \in 1..n : x = a[i]
      BY <2>1
    <3> QED
      BY <3>1, <2>2, <2>3, <2>4
  <2>6. ASSUME NEW x \in Z PROVE x \in Range(a)
    <3>1. CASE x = e
      BY <3>1, <2>1, <2>3, <2>4
    <3>2. CASE x # e
      <4>1. PICK i \in 1..n : x = h[i]
        BY <2>2, <3>2
      <4>2. i # 1
        BY <3>2, <4>1
      <4> QED
        BY <4>1, <4>2, <2>1, <2>4
    <3> QED
      BY <3>1, <3>2
  <2> QED
    BY <2>5, <2>6
<1>7. a \in Same(E, n, Z)
  BY <1>2, <1>5, <1>6 DEF Same
<1>8. ASSUME NEW j \in 2..n, j \div 2 # 1 PROVE r[a[j \div 2]] <= r[a[j]]
  <2>1. j \div 2 \in 1..n /\ j # 1
    BY <1>1
  <2>2. r[h[j \div 2]] <= r[h[j]]
    BY DEF Heap, Heaped, Over
  <2> QED
    BY <1>3, <1>8, <2>1, <2>2
<1>10. [heap |-> a, at |-> 1] \in Sinking(E, n, Z, r)
  BY <1>1, <1>7, <1>8 DEF Sinking, Over
<1> HIDE DEF n, Z
<1>11. SiftDown(a, 1) \in Same(E, n, Z) /\ Heaped(SiftDown(a, 1), r)
  BY <1>1, <1>10, SiftDownHeaps
<1> QED
  BY <1>11 DEF a, n, Z

\* h is what a heap of size k should be once the entries in C have been offered:
\* whatever of C is not in it is graded no higher than all of it, and it is full.
Top(h, E, r, k, C) ==
    /\ Heap(h, E, r, k)
    /\ \A c \in C \ Range(h) : Len(h) = k /\ r[c] <= r[h[1]]

\* heap_beats_root agrees with the grades.
BeatsFairly(h, r, e) == IF BeatsRoot(h, e) THEN r[h[1]] <= r[e] ELSE r[e] <= r[h[1]]

\* tp_topk_add keeps the best of all entries that it has been given, each given once.
LEMMA TopAdd ==
    ASSUME NEW E, NEW r, Grades(r, E), NEW k \in Nat \ {0}, NEW C \in SUBSET E, NEW h,
           Top(h, E, r, k, C), NEW e \in E, e \notin Range(h), Len(h) = k => BeatsFairly(h, r, e)
    PROVE  /\ Top(Add(h, k, e), E, r, k, C \union {e})
           /\ Range(Add(h, k, e)) \subseteq Range(h) \union {e}
<1> DEFINE g == Add(h, k, e)
<1>0. Heap(h, E, r, k) /\ Len(h) \in Nat /\ Len(h) <= k /\ k \in Nat /\ h \in Seq(E)
  BY DEF Top, Heap
<1>e. r[e] \in Int /\ \A c \in E : r[c] \in Int
  BY DEF Grades
<1>1. CASE Len(h) < k
  <2>1. g = SiftUp(Append(h, e), Len(h) + 1)
    BY <1>1 DEF Add
  <2> HIDE DEF g
  <2>2. g \in Same(E, Len(h) + 1, Range(h) \union {e}) /\ Heaped(g, r)
    <3>1. /\ SiftUp(Append(h, e), Len(h) + 1) \in Same(E, Len(h) + 1, Range(h) \union {e})
          /\ Heaped(SiftUp(Append(h, e), Len(h) + 1), r)
      BY <1>0, AppendHeaps
    <3> QED
      BY <2>1, <3>1
  <2>3. Range(g) = Range(h) \union {e} /\ Heap(g, E, r, k)
    BY <1>0, <1>1, <2>2 DEF Same, Heap
  <2>4. C \ Range(h) = {}
    BY <1>0, <1>1 DEF Top
  <2> QED
    BY <2>3, <2>4 DEF Top, g
<1>2. CASE Len(h) = k /\ BeatsRoot(h, e)
  <2>0. Len(h) > 0 /\ ~ Len(h) < k
    BY <1>0, <1>2
  <2>1. g = SiftDown([h EXCEPT ![1] = e], 1)
    BY ONLY <1>2, <2>0 DEF Add, g
  <2>2. g \in Same(E, Len(h), (Range(h) \ {h[1]}) \union {e}) /\ Heaped(g, r)
    BY <1>0, <2>0, <2>1, ReplaceHeaps
  <2> HIDE DEF g
  <2>3. Range(g) = (Range(h) \ {h[1]}) \union {e} /\ Heap(g, E, r, k) /\ Len(g) = k /\ g \in Seq(E)
    BY <1>0, <1>2, <2>2 DEF Same, Heap
  <2>4. h[1] \in Range(h) /\ h[1] \in E
    BY <1>0, <2>0 DEF Range
  <2>5. g[1] \in Range(g) /\ g[1] \in E
    BY <1>0, <2>0, <1>2, <2>3 DEF Range
  <2>6. r[h[1]] <= r[g[1]]
    <3>1. CASE g[1] = e
      BY <3>1, <1>2 DEF BeatsFairly
    <3>2. CASE g[1] # e
      BY <3>2, <1>0, <2>3, <2>5, RootLowest
    <3> QED
      BY <3>1, <3>2
  <2>7. ASSUME NEW c \in (C \union {e}) \ Range(g) PROVE r[c] <= r[g[1]]
    <3>1. c \in C /\ c # e /\ c \in E
      BY <2>3
    <3>2. CASE c = h[1]
      BY <3>2, <2>6
    <3>3. CASE c # h[1]
      <4>1. c \notin Range(h)
        BY <3>1, <3>3, <2>3
      <4>2. r[c] <= r[h[1]]
        BY <4>1, <3>1 DEF Top
      <4> QED
        BY <4>2, <2>4, <2>5, <2>6, <3>1, <1>e
    <3> QED
      BY <3>2, <3>3
  <2> QED
    BY <2>3, <2>7 DEF Top, g
<1>3. CASE Len(h) = k /\ ~BeatsRoot(h, e)
  <2>1. g = h
    BY <1>0, <1>3 DEF Add
  <2>2. r[e] <= r[h[1]]
    BY <1>3 DEF BeatsFairly
  <2> QED
    BY <2>1, <2>2, <1>3 DEF Top
<1> QED
  BY <1>0, <1>1, <1>2, <1>3

-----------------------------------------------------------------------------
(* Lists in the order of Better. *)

Rows == [ctid : Int, score : Int]
BetterThan(F) == {p \in F \X F : Better(p[1], p[2])}
Ahead(F, x)   == {y \in F : Better(y, x)}

\* Score and ctid order rows with different ctids strictly.
LEMMA BetterOrders ==
    ASSUME NEW F \in SUBSET Rows
    PROVE  StrictlyOrders(BetterThan(F), F)
<1>1. \A x, y \in F : <<x, y>> \in BetterThan(F) <=> Better(x, y)
  BY DEF BetterThan
<1>2. \A x \in F : x.ctid \in Int /\ x.score \in Int /\ x = [ctid |-> x.ctid, score |-> x.score]
  BY DEF Rows
<1>3. ASSUME NEW x \in F, NEW y \in F, x # y PROVE Better(x, y) \/ Better(y, x)
  BY <1>2, <1>3 DEF Better
<1>4. ASSUME NEW x \in F, NEW y \in F, Better(x, y) PROVE ~Better(y, x)
  BY <1>2, <1>4 DEF Better
<1>5. ASSUME NEW x \in F, NEW y \in F, NEW z \in F, Better(x, y), Better(y, z) PROVE Better(x, z)
  BY <1>2, <1>5 DEF Better
<1> QED
  BY <1>1, <1>3, <1>4, <1>5 DEF StrictlyOrders

\* How many are better than x.
LEMMA AheadCounts ==
    ASSUME NEW F \in SUBSET Rows, IsFiniteSet(F), NEW x \in F
    PROVE  /\ IsFiniteSet(Ahead(F, x))
           /\ Cardinality(Ahead(F, x)) \in Nat
           /\ Rank(BetterThan(F), F)[x] = Cardinality(Ahead(F, x))
<1>1. Ahead(F, x) \in SUBSET F
  BY DEF Ahead
<1>2. {y \in F : <<y, x>> \in BetterThan(F)} = Ahead(F, x)
  BY DEF Ahead, BetterThan
<1>3. Rank(BetterThan(F), F)[x] = Cardinality({y \in F : <<y, x>> \in BetterThan(F)})
  BY DEF Rank
<1> QED
  BY <1>1, <1>2, <1>3, FS_Subset, FS_CardinalityType

\* q lists the rows of F, the best first.
Lists(q, F) ==
    /\ IsFiniteSet(F)
    /\ Len(q) = Cardinality(F)
    /\ q = [i \in 1..Len(q) |-> q[i]]
    /\ \A i \in 1..Len(q) : \E x \in F :
         Cardinality(Ahead(F, x)) = i - 1 /\ q[i] = <<x.ctid, x.score>>

\* The reference definition lists all that is found.
LEMMA RankingLists ==
    ASSUME IsFiniteSet(Found), Found \in SUBSET Rows
    PROVE  Lists(Ranking, Found)
<1> DEFINE F == Found
           n == Cardinality(F)
           at(i) == CHOOSE x \in F : Cardinality(Ahead(F, x)) = i - 1
<1>0. n \in Nat
  BY FS_CardinalityType
<1>1. Ranking = [i \in 1..n |-> <<at(i).ctid, at(i).score>>]
  BY DEF Ranking, Ahead
<1> HIDE DEF F
<1>2. Len(Ranking) = n
  BY <1>0, <1>1
<1>3. ASSUME NEW i \in 1..n
      PROVE \E x \in F : Cardinality(Ahead(F, x)) = i - 1 /\ Ranking[i] = <<x.ctid, x.score>>
  <2>1. i - 1 \in 0..(n - 1)
    BY <1>0
  <2>2. \E x \in F : Rank(BetterThan(F), F)[x] = i - 1
    BY <2>1, BetterOrders, RankTaken DEF F
  <2>3. \E x \in F : Cardinality(Ahead(F, x)) = i - 1
    BY <2>2, AheadCounts DEF F
  <2>4. at(i) \in F /\ Cardinality(Ahead(F, at(i))) = i - 1
    BY <2>3
  <2>5. Ranking[i] = <<at(i).ctid, at(i).score>>
    BY <1>1
  <2> HIDE DEF at
  <2> QED
    BY <2>4, <2>5
<1>4. Ranking = [i \in 1..n |-> Ranking[i]]
  BY <1>1
<1> HIDE DEF n
<1> QED
  BY <1>2, <1>3, <1>4 DEF Lists, F, n

\* tp_topk_extract lists the rows of the heap, if they differ.
RowOf(e)  == [ctid |-> e.ctid, score |-> e.score]
RowsIn(h) == {RowOf(h[i]) : i \in DOMAIN h}

\* tp_topk_extract lists the heap's rows in their order.
LEMMA ExtractedLists ==
    ASSUME NEW n \in Nat, NEW h, DOMAIN h = 1..n,
           \A i \in 1..n : h[i].ctid \in Int /\ h[i].score \in Int,
           \A i, j \in 1..n : h[i].ctid = h[j].ctid => i = j
    PROVE  Lists(Extracted(h), RowsIn(h)) /\ RowsIn(h) \in SUBSET Rows /\ Cardinality(RowsIn(h)) = n
<1> DEFINE D == 1..n
           F == RowsIn(h)
           R == {p \in D \X D : Better(h[p[1]], h[p[2]])}
           g == [i \in D |-> RowOf(h[i])]
<1>1. F \in SUBSET Rows
  BY DEF RowsIn, RowOf, Rows
<1>2. IsFiniteSet(D) /\ Cardinality(D) = n
  BY FS_Interval
<1>3. g \in Surjection(D, F) /\ g \in Injection(D, F)
  BY DEF Surjection, Injection, IsInjective, RowsIn, RowOf
<1>4. IsFiniteSet(F) /\ Cardinality(F) = n
  BY <1>2, <1>3, FS_Surjection
<1>5. \A i, j \in D : <<i, j>> \in R <=> Better(h[i], h[j])
  OBVIOUS
<1>6. StrictlyOrders(R, D)
  <2> HIDE DEF R
  <2>1. ASSUME NEW i \in D, NEW j \in D, i # j PROVE Better(h[i], h[j]) \/ Better(h[j], h[i])
    BY <2>1 DEF Better
  <2>2. ASSUME NEW i \in D, NEW j \in D, Better(h[i], h[j]) PROVE ~Better(h[j], h[i])
    BY <2>2 DEF Better
  <2>3. ASSUME NEW i \in D, NEW j \in D, NEW k \in D, Better(h[i], h[j]), Better(h[j], h[k])
        PROVE  Better(h[i], h[k])
    BY <2>3 DEF Better
  <2> QED
    BY <1>5, <2>1, <2>2, <2>3 DEF StrictlyOrders
<1> HIDE DEF R
<1>7. ASSUME NEW i \in D
      PROVE  Place(h, i) = 1 + Rank(R, D)[i] /\ Rank(R, D)[i] = Cardinality(Ahead(F, RowOf(h[i])))
  <2> DEFINE B == {j \in D : <<j, i>> \in R}
  <2>1. Rank(R, D)[i] = Cardinality(B)
    BY DEF Rank
  <2>2. \A j \in D : Better(h[j], h[i]) \/ (~Better(h[i], h[j]) /\ j < i) <=> j \in B
    <3>1. SUFFICES ASSUME NEW j \in D
                   PROVE  (Better(h[j], h[i]) \/ (~Better(h[i], h[j]) /\ j < i)) <=> j \in B
      OBVIOUS
    <3>2. CASE j = i
      BY <3>2, <1>5
    <3>3. CASE j # i
      BY <3>3, <1>5 DEF Better
    <3> QED
      BY <3>2, <3>3
  <2>3. {j \in DOMAIN h : Better(h[j], h[i]) \/ (~Better(h[i], h[j]) /\ j < i)} = B
    BY <2>2
  <2>4. Place(h, i) = 1 + Cardinality(B)
    BY <2>3 DEF Place
  <2> DEFINE A == Ahead(F, RowOf(h[i]))
             f == [j \in B |-> RowOf(h[j])]
  <2>5. IsFiniteSet(B)
    BY <1>2, FS_Subset
  <2>6. \A j \in B : f[j] \in A
    BY <1>5 DEF Ahead, RowsIn, RowOf, Better
  <2>7. \A a \in A : \E j \in B : a = f[j]
    <3>1. SUFFICES ASSUME NEW a \in A PROVE \E j \in B : a = f[j]
      OBVIOUS
    <3>2. a \in F /\ Better(a, RowOf(h[i]))
      BY DEF Ahead
    <3>3. PICK j \in D : a = RowOf(h[j])
      BY <3>2 DEF RowsIn
    <3>4. Better(h[j], h[i])
      BY <3>2, <3>3 DEF RowOf, Better
    <3> QED
      BY <3>3, <3>4, <1>5
  <2>8. f \in Surjection(B, A) /\ f \in Injection(B, A)
    <3>1. \A j, k \in B : f[j] = f[k] => j = k
      BY DEF RowOf
    <3> HIDE DEF A
    <3> QED
      BY <2>6, <2>7, <3>1 DEF Surjection, Injection, IsInjective
  <2>9. Cardinality(A) = Cardinality(B)
    <3> HIDE DEF A, B, f
    <3> QED
      BY <2>5, <2>8, FS_Surjection
  <2> QED
    BY <2>1, <2>4, <2>9
<1>8. ASSUME NEW i \in 1..n
      PROVE  \E x \in F : Cardinality(Ahead(F, x)) = i - 1 /\ Extracted(h)[i] = <<x.ctid, x.score>>
  <2> DEFINE p == CHOOSE j \in DOMAIN h : Place(h, j) = i
  <2>1. Extracted(h)[i] = <<h[p].ctid, h[p].score>>
    BY DEF Extracted
  <2>2. i - 1 \in 0..(Cardinality(D) - 1)
    BY <1>2
  <2>3. PICK j \in D : Rank(R, D)[j] = i - 1
    BY <2>2, <1>2, <1>6, RankTaken
  <2>4. Place(h, j) = i
    BY <2>3, <1>7
  <2>5. p \in D /\ Place(h, p) = i
    BY <2>4
  <2> HIDE DEF p
  <2>6. Rank(R, D)[p] = i - 1
    <3>1. Rank(R, D)[p] \in Nat /\ i = 1 + Rank(R, D)[p]
      BY <2>5, <1>2, <1>6, <1>7, RankOrders
    <3> QED
      BY <3>1
  <2>7. Cardinality(Ahead(F, RowOf(h[p]))) = i - 1 /\ RowOf(h[p]) \in F
    BY <2>5, <2>6, <1>7 DEF RowsIn
  <2>8. Extracted(h)[i] = <<RowOf(h[p]).ctid, RowOf(h[p]).score>>
    BY <2>1 DEF RowOf
  <2> QED
    BY <2>7, <2>8
<1>9. Len(Extracted(h)) = n /\ Extracted(h) = [i \in 1..n |-> Extracted(h)[i]]
  <2> DEFINE row(i) == LET p == CHOOSE j \in DOMAIN h : Place(h, j) = i IN <<h[p].ctid, h[p].score>>
             x == Extracted(h)
  <2>1. x = [i \in 1..n |-> row(i)]
    BY DEF Extracted
  <2> HIDE DEF row, x
  <2>2. x = [i \in 1..n |-> x[i]] /\ DOMAIN x = 1..n
    BY <2>1
  <2>3. Len(x) = n
    BY <2>2
  <2> QED
    BY <2>2, <2>3 DEF x
<1> QED
  BY <1>1, <1>4, <1>8, <1>9 DEF Lists

\* If nothing left out is better than what is listed, the list begins as the list
\* of everything does.
LEMMA ListsAgree ==
    ASSUME NEW F \in SUBSET Rows, NEW R \in SUBSET F, NEW q, NEW all, Lists(q, R), Lists(all, F),
           \A x \in R, y \in F : Better(y, x) => y \in R,
           NEW i \in 1..Len(q)
    PROVE  i \in 1..Len(all) /\ q[i] = all[i]
<1>1. Cardinality(R) <= Cardinality(F) /\ Cardinality(R) \in Nat /\ Cardinality(F) \in Nat
  BY FS_Subset, FS_CardinalityType DEF Lists
<1>2. i \in 1..Len(all)
  BY <1>1 DEF Lists
<1>3. PICK x \in R : Cardinality(Ahead(R, x)) = i - 1 /\ q[i] = <<x.ctid, x.score>>
  BY DEF Lists
<1>4. PICK z \in F : Cardinality(Ahead(F, z)) = i - 1 /\ all[i] = <<z.ctid, z.score>>
  BY <1>2 DEF Lists
<1>5. Ahead(F, x) = Ahead(R, x)
  BY DEF Ahead
<1>6. Rank(BetterThan(F), F)[x] = Rank(BetterThan(F), F)[z]
  BY <1>3, <1>4, <1>5, AheadCounts DEF Lists
<1>7. x = z
  <2>1. StrictlyOrders(BetterThan(F), F) /\ IsFiniteSet(F)
    BY BetterOrders DEF Lists
  <2>2. Rank(BetterThan(F), F)[x] \in Nat
    BY <2>1, RankOrders
  <2>3. <<x, z>> \notin BetterThan(F) /\ <<z, x>> \notin BetterThan(F)
    BY <2>1, <2>2, <1>6, RankOrders
  <2> QED
    BY <2>1, <2>3 DEF StrictlyOrders
<1> QED
  BY <1>2, <1>3, <1>4, <1>7

\* If nothing left out has a higher score than what is listed, the scores are
\* the scores that the list of everything begins with.
LEMMA ScoresAgree ==
    ASSUME NEW F \in SUBSET Rows, NEW R \in SUBSET F, NEW q, NEW all, Lists(q, R), Lists(all, F),
           \A x \in R, y \in F \ R : y.score <= x.score,
           NEW i \in 1..Len(q)
    PROVE  i \in 1..Len(all) /\ q[i][2] = all[i][2]
<1>1. Cardinality(R) <= Cardinality(F) /\ Cardinality(R) \in Nat /\ Cardinality(F) \in Nat
  BY FS_Subset, FS_CardinalityType DEF Lists
<1>2. i \in 1..Len(all)
  BY <1>1 DEF Lists
<1>3. PICK x \in R : Cardinality(Ahead(R, x)) = i - 1 /\ q[i] = <<x.ctid, x.score>>
  BY DEF Lists
<1>4. PICK z \in F : Cardinality(Ahead(F, z)) = i - 1 /\ all[i] = <<z.ctid, z.score>>
  BY <1>2 DEF Lists
<1>5. \A y \in F : y.score \in Int /\ y.ctid \in Int
  BY DEF Rows
<1>a. ASSUME NEW y \in F, NEW S \in SUBSET F PROVE y \notin Ahead(S, y)
  <2>1. y.score \in Int /\ y.ctid \in Int
    BY <1>5
  <2>2. ~ Better(y, y)
    BY <2>1 DEF Better
  <2> QED
    BY <2>2 DEF Ahead
<1>6. IsFiniteSet(Ahead(R, x)) /\ IsFiniteSet(Ahead(F, z))
  BY AheadCounts DEF Lists
<1>7. ~ x.score < z.score
  <2>1. ASSUME x.score < z.score PROVE FALSE
    <3> DEFINE A == Ahead(F, z) \union {z}
    <3>1. Cardinality(A) = i /\ z \notin Ahead(F, z)
      <4>1. z \notin Ahead(F, z)
        BY <1>a
      <4>2. Cardinality(A) = i - 1 + 1
        BY <4>1, <1>4, <1>6, FS_AddElement
      <4> QED
        BY <4>1, <4>2
    <3>2. \A a \in A : a \in F /\ a.score > x.score
      BY <2>1, <1>5 DEF Ahead, Better
    <3>3. A \subseteq R
      BY <3>2, <1>5
    <3>4. A \in SUBSET Ahead(R, x)
      BY <3>2, <3>3 DEF Ahead, Better
    <3> HIDE DEF A
    <3>5. Cardinality(A) <= Cardinality(Ahead(R, x))
      BY <3>4, <1>6, FS_Subset
    <3> QED
      BY <3>1, <3>5, <1>3
  <2> QED
    BY <2>1
<1>8. ~ z.score < x.score
  <2>1. ASSUME z.score < x.score PROVE FALSE
    <3> DEFINE A == Ahead(R, x) \union {x}
    <3>1. Cardinality(A) = i
      <4>1. x \notin Ahead(R, x)
        BY <1>a
      <4>2. Cardinality(A) = i - 1 + 1
        BY <4>1, <1>3, <1>6, FS_AddElement
      <4> QED
        BY <4>2
    <3>2. \A a \in A : a \in F /\ a.score > z.score
      BY <2>1, <1>5 DEF Ahead, Better
    <3>4. A \in SUBSET Ahead(F, z)
      BY <3>2 DEF Ahead, Better
    <3> HIDE DEF A
    <3>5. Cardinality(A) <= Cardinality(Ahead(F, z))
      BY <3>4, <1>6, FS_Subset
    <3> QED
      BY <3>1, <3>5, <1>4
  <2> QED
    BY <2>1
<1> QED
  BY <1>2, <1>3, <1>4, <1>5, <1>7, <1>8

-----------------------------------------------------------------------------
(* The weights and scores of an index, whatever the state of the search.    *)

PostingsOf(ix, s, t) == ix.segments[s].postings[t]
Docs(ix, s) == DOMAIN ix.segments[s].ctids

\* An index has finitely many segments, numbered from 1.
LEMMA SegmentsAre ==
    ASSUME NEW ix, WellFormed(ix)
    PROVE  /\ DOMAIN ix.segments = 1..Len(ix.segments) /\ Len(ix.segments) \in Nat
           /\ IsFiniteSet(DOMAIN ix.segments)
<1>1. DOMAIN ix.segments = 1..Len(ix.segments) /\ Len(ix.segments) \in Nat
  BY DEF WellFormed
<1>2. IsFiniteSet(1..Len(ix.segments))
  BY <1>1, FS_Interval
<1> QED
  BY <1>1, <1>2

\* The documents of a segment are numbered in the order of their ctids, below NoDoc.
LEMMA SegmentIs ==
    ASSUME NEW ix, WellFormed(ix), NEW s \in DOMAIN ix.segments
    PROVE  /\ ix.segments[s].ctids \in Seq(Nat \ {0})
           /\ Docs(ix, s) \subseteq 1..NoDoc
           /\ \A d \in Docs(ix, s) : d \in Nat \ {0} /\ d < NoDoc
                /\ ix.segments[s].ctids[d] \in Nat \ {0}
           /\ \A d, e \in Docs(ix, s) : d < e => ix.segments[s].ctids[d] < ix.segments[s].ctids[e]
<1>2. ix.segments[s].ctids \in Seq(Nat \ {0}) /\ Len(ix.segments[s].ctids) < NoDoc
  BY DEF WellFormed
<1>3. \A d, e \in Docs(ix, s) : d < e => ix.segments[s].ctids[d] < ix.segments[s].ctids[e]
  BY DEF WellFormed, Docs
<1>4. Docs(ix, s) = 1..Len(ix.segments[s].ctids) /\ Len(ix.segments[s].ctids) \in Nat
  BY <1>2 DEF Docs
<1>5. \A d \in Docs(ix, s) : ix.segments[s].ctids[d] \in Nat \ {0}
  BY <1>2, <1>4
<1> QED
  BY <1>2, <1>3, <1>4, <1>5, BlockAssumption

\* A query has finitely many terms, each of them at least once.
LEMMA QueryIs ==
    ASSUME NEW ix, WellFormed(ix)
    PROVE  /\ DOMAIN ix.query = 1..Len(ix.query) /\ Len(ix.query) \in Nat
           /\ IsFiniteSet(DOMAIN ix.query)
           /\ \A t \in DOMAIN ix.query : ix.query[t] \in Nat \ {0}
<1>1. ix.query \in Seq(Nat \ {0})
  BY DEF WellFormed
<1>2. DOMAIN ix.query = 1..Len(ix.query) /\ Len(ix.query) \in Nat
  BY <1>1
<1>3. IsFiniteSet(1..Len(ix.query))
  BY <1>2, FS_Interval
<1> QED
  BY <1>1, <1>2, <1>3

\* The postings of a term are in the order of their documents.
LEMMA PostingsAre ==
    ASSUME NEW ix, WellFormed(ix), NEW s \in DOMAIN ix.segments, NEW t \in DOMAIN ix.query
    PROVE  /\ PostingsOf(ix, s, t) \in Seq([doc : Docs(ix, s), tf : Frequencies, len : Lengths])
           /\ \A i, j \in 1..Len(PostingsOf(ix, s, t)) :
                i < j => PostingsOf(ix, s, t)[i].doc < PostingsOf(ix, s, t)[j].doc
<1> DEFINE E == [doc : Docs(ix, s), tf : Frequencies, len : Lengths]
           ps == ix.segments[s].postings
<1>1. ps \in Seq(Seq(E)) /\ Len(ps) = Len(ix.query)
  BY DEF WellFormed, Docs
<1>2. \A u \in DOMAIN ps : \A i, j \in DOMAIN ps[u] : i < j => ps[u][i].doc < ps[u][j].doc
  BY DEF WellFormed
<1>3. PostingsOf(ix, s, t) = ps[t]
  BY DEF PostingsOf
<1> HIDE DEF E, ps
<1>4. t \in DOMAIN ps
  BY <1>1, QueryIs
<1>5. ps[t] \in Seq(E)
  BY <1>1, <1>4
<1>6. DOMAIN ps[t] = 1..Len(ps[t])
  BY <1>5
<1> QED
  BY <1>2, <1>3, <1>4, <1>5, <1>6 DEF E

\* Weight and DocFreq, of an index.
DocFreqOf(ix, t) ==
  Cardinality({d \in ix.memtable : d.tf[t] > 0})
    + SumFunction([s \in DOMAIN ix.segments |-> Len(ix.segments[s].postings[t])])
Weights(ix) ==
  [t \in DOMAIN ix.query |->
     Idf(DocFreqOf(ix, t)) * (IF Len(ix.query) = 1 THEN 1 ELSE ix.query[t])]

\* A term that occurs anywhere has a document frequency.
LEMMA DocFreqIs ==
    ASSUME NEW ix, WellFormed(ix), NEW t \in DOMAIN ix.query
    PROVE  /\ DocFreqOf(ix, t) \in Nat
           /\ \A d \in ix.memtable : d.tf[t] > 0 => DocFreqOf(ix, t) > 0
           /\ \A s \in DOMAIN ix.segments : Len(PostingsOf(ix, s, t)) > 0 => DocFreqOf(ix, t) > 0
<1> DEFINE M == {d \in ix.memtable : d.tf[t] > 0}
           S == DOMAIN ix.segments
           f == [s \in S |-> Len(ix.segments[s].postings[t])]
<1>1. M \in SUBSET ix.memtable /\ IsFiniteSet(ix.memtable)
  BY DEF WellFormed
<1>2. IsFiniteSet(M) /\ Cardinality(M) \in Nat
  BY <1>1, FS_Subset, FS_CardinalityType
<1>3. IsFiniteSet(S)
  BY SegmentsAre
<1>4. f \in [S -> Nat]
  <2>1. \A s \in S : PostingsOf(ix, s, t)
          \in Seq([doc : Docs(ix, s), tf : Frequencies, len : Lengths])
    BY PostingsAre
  <2>2. \A s \in S : Len(ix.segments[s].postings[t]) \in Nat
    BY <2>1 DEF PostingsOf
  <2> QED
    BY <2>2
<1>5. DocFreqOf(ix, t) = Cardinality(M) + SumFunction(f)
  BY DEF DocFreqOf
<1>6. \A s \in S : f[s] = Len(PostingsOf(ix, s, t))
  BY DEF PostingsOf
<1>7. ASSUME NEW d \in ix.memtable, d.tf[t] > 0 PROVE Cardinality(M) > 0
  <2>1. d \in M
    BY <1>7
  <2> HIDE DEF M
  <2>2. Cardinality(M) # 0
    BY <2>1, <1>2, FS_EmptySet
  <2> QED
    BY <2>2, <1>2
<1> HIDE DEF M, S, f
<1>8. SumFunction(f) \in Nat
  BY <1>3, <1>4, SumNat
<1>9. (\E s \in S : f[s] > 0) => SumFunction(f) > 0
  BY <1>3, <1>4, SumPositive
<1> QED
  BY <1>2, <1>5, <1>6, <1>7, <1>8, <1>9 DEF S

\* The weights of the terms; one that occurs somewhere has some weight.
LEMMA WeightsAre ==
    ASSUME NEW ix, WellFormed(ix)
    PROVE  /\ Weights(ix) \in [DOMAIN ix.query -> Nat]
           /\ \A t \in DOMAIN ix.query : DocFreqOf(ix, t) > 0 => Weights(ix)[t] > 0
<1> SUFFICES ASSUME NEW t \in DOMAIN ix.query
             PROVE  Weights(ix)[t] \in Nat /\ (DocFreqOf(ix, t) > 0 => Weights(ix)[t] > 0)
  BY DEF Weights
<1>1. DocFreqOf(ix, t) \in Nat
  BY DocFreqIs
<1>2. Idf(DocFreqOf(ix, t)) \in 0..3 /\ (DocFreqOf(ix, t) > 0 => Idf(DocFreqOf(ix, t)) \in 1..3)
  BY <1>1 DEF Idf
<1> DEFINE i == Idf(DocFreqOf(ix, t))
           q == IF Len(ix.query) = 1 THEN 1 ELSE ix.query[t]
<1>3. q \in Nat \ {0}
  BY QueryIs
<1>4. Weights(ix)[t] = i * q
  BY DEF Weights
<1> HIDE DEF q, i
<1>5. i \in Nat => i * q \in Nat
  BY <1>3
<1>6. i \in 1..3 => i * q > 0
  BY <1>3
<1>7. i \in 0..3 /\ (DocFreqOf(ix, t) > 0 => i \in 1..3)
  BY <1>2 DEF i
<1> QED
  BY <1>4, <1>5, <1>6, <1>7

\* What a term contributes to the score of a document of a segment.
Share(ix, s, t, d) ==
  LET ps == {p \in Range(PostingsOf(ix, s, t)) : p.doc = d}
  IN  IF ps = {} THEN 0
      ELSE Weights(ix)[t] * Saturation((CHOOSE p \in ps : TRUE).tf, (CHOOSE p \in ps : TRUE).len)
Shares(ix, s, d) == [t \in DOMAIN ix.query |-> Share(ix, s, t, d)]
Score(ix, s, d)  == SumFunction(Shares(ix, s, d))

\* A product of two naturals grows with the second.
LEMMA Product ==
    ASSUME NEW w \in Nat, NEW x \in Nat \ {0}, NEW y \in Nat \ {0}
    PROVE  /\ w * x \in Nat
           /\ w > 0 => w * x > 0
           /\ x <= y => w * x <= w * y
<1>1. w * x \in Nat /\ w * y \in Nat
  OBVIOUS
<1>2. ASSUME x <= y PROVE w * x <= w * y
  <2>1. PICK z \in Nat : y = x + z
    <3>1. y - x \in Nat /\ y = x + (y - x)
      BY <1>2
    <3> QED
      BY <3>1
  <2>2. w * y = w * x + w * z
    BY <2>1
  <2>3. w * z \in Nat
    OBVIOUS
  <2> QED
    BY <1>1, <2>2, <2>3
<1>3. ASSUME w > 0 PROVE w * x > 0
  BY <1>3
<1> QED
  BY <1>1, <1>2, <1>3

\* Frequencies and lengths are positive numbers.
LEMMA FrequenciesAre ==
    /\ \A f \in Frequencies : f \in Nat /\ f > 0
    /\ \A l \in Lengths : l \in Nat /\ l > 0
  BY SaturationAssumption

\* A frequency in a document of some length counts for something.
LEMMA SaturationIs ==
    ASSUME NEW f \in Frequencies, NEW l \in Lengths
    PROVE  Saturation(f, l) \in Nat \ {0}
  BY SaturationAssumption

\* A term that is in a document contributes something, and nothing if it is not.
LEMMA ShareIs ==
    ASSUME NEW ix, WellFormed(ix), NEW s \in DOMAIN ix.segments, NEW t \in DOMAIN ix.query
    PROVE  /\ \A d : Share(ix, s, t, d) \in Nat
           /\ \A i \in 1..Len(PostingsOf(ix, s, t)) :
                LET p == PostingsOf(ix, s, t)[i]
                IN  /\ Share(ix, s, t, p.doc) = Weights(ix)[t] * Saturation(p.tf, p.len)
                    /\ Share(ix, s, t, p.doc) > 0
           /\ \A d : Share(ix, s, t, d) > 0 =>
                \E i \in 1..Len(PostingsOf(ix, s, t)) : PostingsOf(ix, s, t)[i].doc = d
<1> DEFINE P == PostingsOf(ix, s, t)
           E == [doc : Docs(ix, s), tf : Frequencies, len : Lengths]
           w == Weights(ix)[t]
           ps(d) == {p \in Range(P) : p.doc = d}
<1>1. P \in Seq(E) /\ DOMAIN P = 1..Len(P) /\ Len(P) \in Nat
  BY PostingsAre
<1>2. \A i, j \in 1..Len(P) : i < j => P[i].doc < P[j].doc
  BY PostingsAre
<1>3. w \in Nat /\ (Len(P) > 0 => w > 0)
  BY WeightsAre, DocFreqIs
<1>4. \A i \in 1..Len(P) : P[i] \in E
  <2> HIDE DEF P, E
  <2> QED
    BY <1>1
<1>5. \A d : Share(ix, s, t, d) = IF ps(d) = {} THEN 0
        ELSE w * Saturation((CHOOSE p \in ps(d) : TRUE).tf, (CHOOSE p \in ps(d) : TRUE).len)
  BY DEF Share
<1>6. \A x : x \in Range(P) <=> \E i \in 1..Len(P) : x = P[i]
  BY <1>1 DEF Range
<1>7. \A d : d \in Docs(ix, s) => d \in Nat
  BY SegmentIs
<1> HIDE DEF P, w
<1>8. ASSUME NEW i \in 1..Len(P) PROVE ps(P[i].doc) = {P[i]}
  <2>1. ASSUME NEW p \in ps(P[i].doc) PROVE p = P[i]
    <3>1. PICK j \in 1..Len(P) : p = P[j]
      BY <1>6
    <3>2. P[i].doc \in Nat /\ P[j].doc = P[i].doc
      BY <3>1, <1>4, <1>7
    <3>3. ~ i < j /\ ~ j < i
      BY <3>2, <1>2
    <3> QED
      BY <3>1, <3>3, <1>1
  <2> QED
    BY <2>1, <1>6
<1>9. ASSUME NEW i \in 1..Len(P)
      PROVE  /\ Share(ix, s, t, P[i].doc) = w * Saturation(P[i].tf, P[i].len)
             /\ Share(ix, s, t, P[i].doc) \in Nat /\ Share(ix, s, t, P[i].doc) > 0
  <2>1. (CHOOSE p \in ps(P[i].doc) : TRUE) = P[i] /\ ps(P[i].doc) # {}
    BY <1>8
  <2>2. Share(ix, s, t, P[i].doc) = w * Saturation(P[i].tf, P[i].len)
    BY <1>5, <2>1
  <2>3. Saturation(P[i].tf, P[i].len) \in Nat \ {0}
    BY <1>4, SaturationIs
  <2>4. w > 0
    BY <1>1, <1>3
  <2> QED
    BY <2>2, <2>3, <2>4, <1>3, Product
<1>10. ASSUME NEW d, ps(d) # {} PROVE \E i \in 1..Len(P) : P[i].doc = d
  BY <1>6, <1>10
<1>11. ASSUME NEW d, ps(d) = {} PROVE Share(ix, s, t, d) = 0
  BY <1>5, <1>11
<1> HIDE DEF ps
<1> QED
  BY <1>9, <1>10, <1>11 DEF P, w

\* A posting gives its document a share.
LEMMA SharePosted ==
    ASSUME NEW ix, WellFormed(ix), NEW s \in DOMAIN ix.segments, NEW t \in DOMAIN ix.query,
           NEW i \in 1..Len(PostingsOf(ix, s, t))
    PROVE  /\ Share(ix, s, t, PostingsOf(ix, s, t)[i].doc)
                = Weights(ix)[t] * Saturation(PostingsOf(ix, s, t)[i].tf,
                  PostingsOf(ix, s, t)[i].len)
           /\ Share(ix, s, t, PostingsOf(ix, s, t)[i].doc) > 0
<1>1. \A k \in 1..Len(PostingsOf(ix, s, t)) :
        LET p == PostingsOf(ix, s, t)[k]
        IN  /\ Share(ix, s, t, p.doc) = Weights(ix)[t] * Saturation(p.tf, p.len)
            /\ Share(ix, s, t, p.doc) > 0
  BY ShareIs
<1> QED
  BY <1>1

\* A document has a share only from a posting.
LEMMA ShareFrom ==
    ASSUME NEW ix, WellFormed(ix), NEW s \in DOMAIN ix.segments, NEW t \in DOMAIN ix.query,
           NEW d, Share(ix, s, t, d) > 0
    PROVE  \E i \in 1..Len(PostingsOf(ix, s, t)) : PostingsOf(ix, s, t)[i].doc = d
<1>1. \A x : Share(ix, s, t, x) > 0 =>
        \E i \in 1..Len(PostingsOf(ix, s, t)) : PostingsOf(ix, s, t)[i].doc = x
  BY ShareIs
<1> QED
  BY <1>1

\* A document of a segment has a score exactly if some term gives it a share.
LEMMA ScoreIs ==
    ASSUME NEW ix, WellFormed(ix), NEW s \in DOMAIN ix.segments, NEW d
    PROVE  /\ Shares(ix, s, d) \in [DOMAIN ix.query -> Nat]
           /\ Score(ix, s, d) \in Nat
           /\ Score(ix, s, d) > 0 <=> \E t \in DOMAIN ix.query : Share(ix, s, t, d) > 0
<1>1. Shares(ix, s, d) \in [DOMAIN ix.query -> Nat]
  BY ShareIs DEF Shares
<1>2. IsFiniteSet(DOMAIN ix.query)
  BY QueryIs
<1>3. Score(ix, s, d) \in Nat
  BY <1>1, <1>2, SumNat DEF Score
<1>4. Score(ix, s, d) > 0 <=> \E t \in DOMAIN ix.query : Shares(ix, s, d)[t] > 0
  BY <1>1, <1>2, SumPositive DEF Score
<1> QED
  BY <1>1, <1>3, <1>4 DEF Shares

\* The score of a document of the memtable.
MemtableSum(ix, d) ==
  SumFunction([t \in DOMAIN ix.query |->
    IF d.tf[t] = 0 THEN 0 ELSE Weights(ix)[t] * Saturation(d.tf[t], d.len)])

\* A document of the memtable has a score exactly if it has some term.
LEMMA MemtableSumIs ==
    ASSUME NEW ix, WellFormed(ix), NEW d \in ix.memtable
    PROVE  /\ MemtableSum(ix, d) \in Nat
           /\ MemtableSum(ix, d) > 0 <=> \E t \in DOMAIN ix.query : d.tf[t] > 0
<1> DEFINE f == [t \in DOMAIN ix.query |->
                   IF d.tf[t] = 0 THEN 0 ELSE Weights(ix)[t] * Saturation(d.tf[t], d.len)]
<1>1. d.len \in Lengths /\ d.tf \in [DOMAIN ix.query -> Frequencies \union {0}]
  BY DEF WellFormed
<1>2. ASSUME NEW t \in DOMAIN ix.query
      PROVE  f[t] \in Nat /\ d.tf[t] \in Nat /\ (f[t] > 0 <=> d.tf[t] > 0)
  <2>1. CASE d.tf[t] = 0
    BY <2>1
  <2>2. CASE d.tf[t] # 0
    <3>1. d.tf[t] \in Frequencies
      BY <1>1, <2>2
    <3>2. Saturation(d.tf[t], d.len) \in Nat \ {0}
      BY <3>1, <1>1, SaturationIs
    <3>3. d.tf[t] \in Nat /\ d.tf[t] > 0
      BY ONLY <3>1, FrequenciesAre
    <3>4. Weights(ix)[t] \in Nat /\ Weights(ix)[t] > 0
      BY <3>3, WeightsAre, DocFreqIs
    <3>5. f[t] = Weights(ix)[t] * Saturation(d.tf[t], d.len)
      BY <2>2
    <3> HIDE DEF f
    <3> QED
      BY <3>2, <3>3, <3>4, <3>5, Product
  <2> QED
    BY <2>1, <2>2
<1>3. f = [t \in DOMAIN ix.query |-> f[t]]
  OBVIOUS
<1>4. MemtableSum(ix, d) = SumFunction(f)
  BY DEF MemtableSum
<1> HIDE DEF f
<1>5. f \in [DOMAIN ix.query -> Nat] /\ IsFiniteSet(DOMAIN ix.query)
  BY <1>2, <1>3, QueryIs
<1>6. SumFunction(f) \in Nat
  BY <1>5, SumNat
<1>7. SumFunction(f) > 0 <=> \E t \in DOMAIN ix.query : f[t] > 0
  BY <1>5, SumPositive
<1> QED
  BY <1>2, <1>4, <1>6, <1>7

-----------------------------------------------------------------------------
(* What can be in the heap, and how it is graded.                           *)

\* The image of a finite set is finite.
LEMMA ImageFinite ==
    ASSUME NEW S, IsFiniteSet(S), NEW f, DOMAIN f = S
    PROVE  IsFiniteSet({f[x] : x \in S})
<1> DEFINE T == {f[x] : x \in S}
           g == [x \in S |-> f[x]]
<1>1. g \in Surjection(S, T)
  BY DEF Surjection
<1> QED
  BY <1>1, FS_Surjection

\* The entries of all documents that match.
MemtableEntries(ix) == {FromMemtable(d.ctid, MemtableSum(ix, d)) : d \in ix.memtable}
SegmentPlaces(ix)   == {p \in (DOMAIN ix.segments) \X (1..NoDoc) : p[2] \in Docs(ix, p[1])}
SegmentEntries(ix)  == {FromSegment(p[1], p[2], Score(ix, p[1], p[2])) : p \in SegmentPlaces(ix)}
Entries(ix) == {e \in MemtableEntries(ix) \union SegmentEntries(ix) : e.score > 0}

\* There are finitely many entries.
LEMMA EntriesFinite ==
    ASSUME NEW ix, WellFormed(ix)
    PROVE  IsFiniteSet(Entries(ix))
<1>1. IsFiniteSet(MemtableEntries(ix))
  <2> DEFINE f == [d \in ix.memtable |-> FromMemtable(d.ctid, MemtableSum(ix, d))]
  <2>1. IsFiniteSet(ix.memtable)
    BY DEF WellFormed
  <2>2. MemtableEntries(ix) = {f[d] : d \in ix.memtable}
    BY DEF MemtableEntries
  <2>3. DOMAIN f = ix.memtable
    OBVIOUS
  <2> HIDE DEF f
  <2> QED
    BY <2>1, <2>2, <2>3, ImageFinite
<1>2. IsFiniteSet(SegmentPlaces(ix))
  <2>1. IsFiniteSet(DOMAIN ix.segments)
    BY SegmentsAre
  <2>2. IsFiniteSet(1..NoDoc)
    BY BlockAssumption, FS_Interval
  <2>3. IsFiniteSet((DOMAIN ix.segments) \X (1..NoDoc))
    BY <2>1, <2>2, FS_Product
  <2>4. SegmentPlaces(ix) \in SUBSET ((DOMAIN ix.segments) \X (1..NoDoc))
    BY DEF SegmentPlaces
  <2> QED
    BY <2>3, <2>4, FS_Subset
<1>3. IsFiniteSet(SegmentEntries(ix))
  <2> DEFINE f == [p \in SegmentPlaces(ix) |-> FromSegment(p[1], p[2], Score(ix, p[1], p[2]))]
  <2>2. SegmentEntries(ix) = {f[p] : p \in SegmentPlaces(ix)}
    BY DEF SegmentEntries
  <2>3. DOMAIN f = SegmentPlaces(ix)
    OBVIOUS
  <2> HIDE DEF f
  <2> QED
    BY <1>2, <2>2, <2>3, ImageFinite
<1>4. IsFiniteSet(MemtableEntries(ix) \union SegmentEntries(ix))
  BY <1>1, <1>3, FS_Union
<1>5. Entries(ix) \in SUBSET (MemtableEntries(ix) \union SegmentEntries(ix))
  BY DEF Entries
<1> QED
  BY <1>4, <1>5, FS_Subset

\* An entry of a document of the memtable, or of a segment.
OfMemtable(ix, e) ==
  /\ e.seg = 0 /\ e.doc = 1
  /\ \E d \in ix.memtable : e.ctid = d.ctid /\ e.score = MemtableSum(ix, d)
OfSegment(ix, e) ==
  /\ e.seg \in DOMAIN ix.segments /\ e.doc \in Docs(ix, e.seg)
  /\ e.ctid = 0 /\ e.score = Score(ix, e.seg, e.doc)

\* An entry stands for a document of the memtable, or for one of a segment.
LEMMA EntryIs ==
    ASSUME NEW ix, WellFormed(ix), NEW e \in Entries(ix)
    PROVE  /\ e = [score |-> e.score, ctid |-> e.ctid, seg |-> e.seg, doc |-> e.doc]
           /\ e.score \in Nat /\ e.score > 0 /\ e.ctid \in Nat /\ e.doc \in Nat
           /\ e.seg \in 0..Len(ix.segments)
           /\ IF e.seg = 0 THEN OfMemtable(ix, e) /\ e.ctid > 0 ELSE OfSegment(ix, e)
<1>1. e.score > 0 /\ e \in MemtableEntries(ix) \union SegmentEntries(ix)
  BY DEF Entries
<1>2. CASE e \in MemtableEntries(ix)
  <2>1. PICK d \in ix.memtable : e = FromMemtable(d.ctid, MemtableSum(ix, d))
    BY <1>2 DEF MemtableEntries
  <2>2. d.ctid \in Nat \ {0} /\ MemtableSum(ix, d) \in Nat
    BY MemtableSumIs DEF WellFormed
  <2>3. 0 \in 0..Len(ix.segments)
    BY SegmentsAre
  <2> QED
    BY <1>1, <2>1, <2>2, <2>3 DEF FromMemtable, FirstDocId, InMemtable, OfMemtable
<1>3. CASE e \in SegmentEntries(ix)
  <2>1. PICK p \in SegmentPlaces(ix) : e = FromSegment(p[1], p[2], Score(ix, p[1], p[2]))
    BY <1>3 DEF SegmentEntries
  <2>2. p[1] \in DOMAIN ix.segments /\ p[2] \in Docs(ix, p[1])
    BY DEF SegmentPlaces
  <2>3. Score(ix, p[1], p[2]) \in Nat /\ p[2] \in Nat
    BY <2>2, ScoreIs, SegmentIs
  <2>4. p[1] \in 1..Len(ix.segments) /\ Len(ix.segments) \in Nat
    BY <2>2, SegmentsAre
  <2>5. p[1] \in 0..Len(ix.segments) /\ p[1] # 0
    BY <2>4
  <2>6. e = [score |-> Score(ix, p[1], p[2]), ctid |-> 0, seg |-> p[1], doc |-> p[2]]
    BY <2>1 DEF FromSegment, Unresolved
  <2> QED
    BY <1>1, <2>2, <2>3, <2>5, <2>6 DEF OfSegment
<1> QED
  BY <1>1, <1>2, <1>3

\* Every document with a score has an entry.
LEMMA EntriesHave ==
    ASSUME NEW ix, WellFormed(ix)
    PROVE  /\ \A d \in ix.memtable : MemtableSum(ix, d) > 0 =>
                FromMemtable(d.ctid, MemtableSum(ix, d)) \in Entries(ix)
           /\ \A s \in DOMAIN ix.segments : \A d \in Docs(ix, s) : Score(ix, s, d) > 0 =>
                FromSegment(s, d, Score(ix, s, d)) \in Entries(ix)
<1>1. ASSUME NEW d \in ix.memtable, MemtableSum(ix, d) > 0
      PROVE  FromMemtable(d.ctid, MemtableSum(ix, d)) \in Entries(ix)
  BY <1>1 DEF FromMemtable, Entries, MemtableEntries
<1>2. ASSUME NEW s \in DOMAIN ix.segments, NEW d \in Docs(ix, s), Score(ix, s, d) > 0
      PROVE  FromSegment(s, d, Score(ix, s, d)) \in Entries(ix)
  <2>1. d \in 1..NoDoc
    BY SegmentIs
  <2>2. <<s, d>> \in SegmentPlaces(ix)
    BY <2>1 DEF SegmentPlaces
  <2>3. FromSegment(s, d, Score(ix, s, d)) \in SegmentEntries(ix)
    BY <2>2 DEF SegmentEntries
  <2>4. FromSegment(s, d, Score(ix, s, d)).score > 0
    BY <1>2 DEF FromSegment
  <2> QED
    BY <2>3, <2>4 DEF Entries
<1> QED
  BY <1>1, <1>2

\* Two entries of the same document are the same.
LEMMA EntriesDiffer ==
    ASSUME NEW ix, WellFormed(ix), NEW e \in Entries(ix), NEW f \in Entries(ix),
           e.seg = f.seg, IF e.seg = 0 THEN e.ctid = f.ctid ELSE e.doc = f.doc
    PROVE  e = f
<1>1. CASE e.seg = 0
  <2>1. PICK d \in ix.memtable : e.ctid = d.ctid /\ e.score = MemtableSum(ix, d)
    BY <1>1, EntryIs DEF OfMemtable
  <2>2. PICK c \in ix.memtable : f.ctid = c.ctid /\ f.score = MemtableSum(ix, c)
    BY <1>1, EntryIs DEF OfMemtable
  <2>3. d = c
    BY <1>1, <2>1, <2>2 DEF WellFormed
  <2>4. e.doc = 1 /\ f.doc = 1
    BY <1>1, EntryIs DEF OfMemtable
  <2>5. e.score = f.score /\ e.ctid = f.ctid
    BY <2>1, <2>2, <2>3
  <2>6. e = [score |-> e.score, ctid |-> e.ctid, seg |-> e.seg, doc |-> e.doc]
    BY EntryIs
  <2>7. f = [score |-> f.score, ctid |-> f.ctid, seg |-> f.seg, doc |-> f.doc]
    BY EntryIs
  <2> QED
    BY <2>4, <2>5, <2>6, <2>7
<1>2. CASE e.seg # 0
  <2>1. OfSegment(ix, e) /\ OfSegment(ix, f)
    BY <1>2, EntryIs
  <2>2. e.score = f.score /\ e.ctid = f.ctid /\ e.doc = f.doc
    BY <1>2, <2>1 DEF OfSegment
  <2>6. e = [score |-> e.score, ctid |-> e.ctid, seg |-> e.seg, doc |-> e.doc]
    BY EntryIs
  <2>7. f = [score |-> f.score, ctid |-> f.ctid, seg |-> f.seg, doc |-> f.doc]
    BY EntryIs
  <2> QED
    BY <2>2, <2>6, <2>7
<1> QED
  BY <1>1, <1>2

\* Where all documents come from one source Weaker orders the entries strictly,
\* and an entry is graded by the number of weaker ones; elsewhere by its score.
One(ix) == Len(ix.segments) = 0 \/ (Len(ix.segments) = 1 /\ ix.memtable = {})
WeakerThan(ix) == {p \in Entries(ix) \X Entries(ix) : Weaker(p[1], p[2])}
Grade(ix) ==
  IF One(ix) THEN Rank(WeakerThan(ix), Entries(ix)) ELSE [e \in Entries(ix) |-> e.score]

\* Where all documents come from one source their entries agree on it.
LEMMA OneKind ==
    ASSUME NEW ix, WellFormed(ix), One(ix), NEW e \in Entries(ix), NEW f \in Entries(ix)
    PROVE  e.seg = f.seg /\ (e.seg # 0 => ix.memtable = {})
<1>1. CASE Len(ix.segments) = 0
  <2>1. e.seg \in 0..0 /\ f.seg \in 0..0
    BY <1>1, EntryIs
  <2> QED
    BY <2>1
<1>2. CASE Len(ix.segments) = 1 /\ ix.memtable = {}
  <2>1. e.seg \in 0..1 /\ f.seg \in 0..1
    BY <1>2, EntryIs
  <2>2. e.seg # 0 /\ f.seg # 0
    BY <1>2, EntryIs DEF OfMemtable
  <2> QED
    BY <2>1, <2>2, <1>2
<1> QED
  BY <1>1, <1>2 DEF One

\* Among entries of one kind the ctids decide, or the documents.
LEMMA WeakerIs ==
    ASSUME NEW ix, WellFormed(ix), NEW e \in Entries(ix), NEW f \in Entries(ix), e.seg = f.seg
    PROVE  Weaker(e, f) <=>
             IF e.score # f.score THEN e.score < f.score
             ELSE IF e.seg = 0 THEN e.ctid > f.ctid ELSE e.doc > f.doc
<1>1. /\ e.score \in Nat /\ e.ctid \in Nat /\ e.doc \in Nat
      /\ f.score \in Nat /\ f.ctid \in Nat /\ f.doc \in Nat
      /\ e.seg \in Nat /\ f.seg \in Nat
  <2>1. e.seg \in 0..Len(ix.segments) /\ f.seg \in 0..Len(ix.segments)
    BY EntryIs
  <2> QED
    BY <2>1, EntryIs
<1>2. CASE e.seg = 0
  <2>1. e.ctid > 0 /\ f.ctid > 0
    BY <1>2, EntryIs
  <2> QED
    BY <1>1, <1>2, <2>1 DEF Weaker, LaterBlock, Unresolved
<1>3. CASE e.seg # 0
  <2>1. e.ctid = 0 /\ f.ctid = 0
    BY <1>3, EntryIs DEF OfSegment
  <2> QED
    BY <1>1, <1>3, <2>1 DEF Weaker, LaterBlock, Unresolved
<1> QED
  BY <1>2, <1>3

\* Then the heap's comparison orders them strictly.
LEMMA WeakerOrders ==
    ASSUME NEW ix, WellFormed(ix), One(ix)
    PROVE  StrictlyOrders(WeakerThan(ix), Entries(ix))
<1> DEFINE E == Entries(ix)
<1>1. \A e, f \in E : <<e, f>> \in WeakerThan(ix) <=> Weaker(e, f)
  BY DEF WeakerThan
<1>2. \A e, f \in E : e.seg = f.seg
  BY OneKind
<1>3. \A e, f \in E : Weaker(e, f) <=>
             IF e.score # f.score THEN e.score < f.score
             ELSE IF e.seg = 0 THEN e.ctid > f.ctid ELSE e.doc > f.doc
  BY <1>2, WeakerIs
<1>4. \A e \in E : e.score \in Nat /\ e.ctid \in Nat /\ e.doc \in Nat
  BY EntryIs
<1>5. \A e, f \in E : (IF e.seg = 0 THEN e.ctid = f.ctid ELSE e.doc = f.doc) => e = f
  BY <1>2, EntriesDiffer
<1> HIDE DEF E
<1>6. \A e, f \in E : Weaker(e, f) => ~Weaker(f, e)
  BY <1>2, <1>3, <1>4
<1>7. \A e, f, g \in E : Weaker(e, f) /\ Weaker(f, g) => Weaker(e, g)
  BY <1>2, <1>3, <1>4
<1>8. \A e, f \in E : e # f => Weaker(e, f) \/ Weaker(f, e)
  BY <1>2, <1>3, <1>4, <1>5
<1> QED
  BY <1>1, <1>6, <1>7, <1>8 DEF StrictlyOrders, E

\* What the grades say.
LEMMA GradeIs ==
    ASSUME NEW ix, WellFormed(ix)
    PROVE  /\ Grade(ix) \in [Entries(ix) -> Nat]
           /\ Grades(Grade(ix), Entries(ix))
           /\ \A e, f \in Entries(ix) : e.score < f.score => Grade(ix)[e] <= Grade(ix)[f]
           /\ \A e, f \in Entries(ix) : Grade(ix)[e] <= Grade(ix)[f] => e.score <= f.score
           /\ ~One(ix) => \A e \in Entries(ix) : Grade(ix)[e] = e.score
           /\ One(ix) => \A e, f \in Entries(ix) : Weaker(e, f) <=> Grade(ix)[e] < Grade(ix)[f]
<1> DEFINE E == Entries(ix)
           r == Grade(ix)
<1>1. \A e \in E : e.score \in Nat
  BY EntryIs
<1>2. CASE One(ix)
  <2>1. r = Rank(WeakerThan(ix), E)
    BY <1>2 DEF Grade
  <2>2. StrictlyOrders(WeakerThan(ix), E) /\ IsFiniteSet(E)
    BY <1>2, WeakerOrders, EntriesFinite
  <2> HIDE DEF E, r
  <2>3. r \in [E -> Nat] /\ \A e, f \in E : <<e, f>> \in WeakerThan(ix) <=> r[e] < r[f]
    BY <2>1, <2>2, RankOrders
  <2>4. \A e, f \in E : Weaker(e, f) <=> r[e] < r[f]
    BY <2>3 DEF WeakerThan, E
  <2>5. \A e, f \in E : r[e] \in Nat /\ r[f] \in Nat
    BY <2>3
  <2>6. \A e, f \in E : IF Weaker(e, f) THEN r[e] <= r[f] ELSE r[f] <= r[e]
    BY <2>4, <2>5
  <2>7. r \in [E -> Int]
    BY <2>3
  <2>8. Grades(r, E)
    BY <2>6, <2>7 DEF Grades
  <2>9. \A e, f \in E : e.score < f.score => Weaker(e, f)
    BY <1>1 DEF Weaker
  <2>10. \A e, f \in E : e.score < f.score => r[e] <= r[f]
    BY <2>4, <2>5, <2>9
  <2>11. \A e, f \in E : r[e] <= r[f] => e.score <= f.score
    <3>1. \A e, f \in E : r[e] <= r[f] => ~ f.score < e.score
      BY <2>4, <2>5, <2>9
    <3> QED
      BY <3>1, <1>1
  <2> QED
    BY <1>2, <2>3, <2>4, <2>8, <2>10, <2>11 DEF E, r
<1>3. CASE ~One(ix)
  <2>1. r = [e \in E |-> e.score]
    BY <1>3 DEF Grade
  <2> HIDE DEF E, r
  <2>2. \A e, f \in E : r[e] = e.score
    BY <2>1
  <2>3. r \in [E -> Nat] /\ r \in [E -> Int]
    BY <1>1, <2>1
  <2>4. \A e, f \in E : IF Weaker(e, f) THEN r[e] <= r[f] ELSE r[f] <= r[e]
    BY <1>1, <2>2 DEF Weaker
  <2>5. Grades(r, E)
    BY <2>3, <2>4 DEF Grades
  <2> QED
    BY <1>1, <1>3, <2>2, <2>3, <2>5 DEF E, r
<1> QED
  BY <1>2, <1>3

\* heap_beats_root agrees with the grades.
LEMMA GradesFairly ==
    ASSUME NEW ix, WellFormed(ix), NEW h, h[1] \in Entries(ix), NEW e \in Entries(ix)
    PROVE  BeatsFairly(h, Grade(ix), e)
<1> DEFINE f == h[1]
           r == Grade(ix)
<1>1. /\ e.score \in Nat /\ e.ctid \in Nat /\ e.doc \in Nat
      /\ f.score \in Nat /\ f.ctid \in Nat /\ f.doc \in Nat
      /\ r[e] \in Nat /\ r[f] \in Nat
  BY EntryIs, GradeIs
<1>2. (e.score < f.score => r[e] <= r[f]) /\ (f.score < e.score => r[f] <= r[e])
  BY GradeIs
<1>3. CASE e.score # f.score
  <2>1. BeatsRoot(h, e) <=> f.score < e.score
    BY <1>1, <1>3 DEF BeatsRoot
  <2>2. f.score < e.score \/ e.score < f.score
    BY <1>1, <1>3
  <2> QED
    BY <1>1, <1>2, <2>1, <2>2 DEF BeatsFairly
<1>4. CASE e.score = f.score /\ ~One(ix)
  <2>1. r[e] = e.score /\ r[f] = f.score
    BY <1>4, GradeIs
  <2> QED
    BY <1>1, <1>4, <2>1 DEF BeatsFairly
<1>5. CASE e.score = f.score /\ One(ix)
  <2>1. e.seg = f.seg
    BY <1>5, OneKind
  <2>2. (Weaker(e, f) <=> r[e] < r[f]) /\ (Weaker(f, e) <=> r[f] < r[e])
    BY <1>5, GradeIs
  <2>3. /\ Weaker(e, f) <=> IF e.seg = 0 THEN e.ctid > f.ctid ELSE e.doc > f.doc
        /\ Weaker(f, e) <=> IF e.seg = 0 THEN f.ctid > e.ctid ELSE f.doc > e.doc
    BY <1>5, <2>1, WeakerIs
  <2>4. IF e.seg = 0 THEN e.ctid > 0 /\ f.ctid > 0 ELSE e.ctid = 0 /\ f.ctid = 0
    BY <2>1, EntryIs DEF OfSegment
  <2>5. BeatsRoot(h, e) <=> IF e.seg = 0 THEN e.ctid < f.ctid ELSE e.doc < f.doc
    BY <1>1, <1>5, <2>4 DEF BeatsRoot, Unresolved
  <2> QED
    BY <1>1, <2>2, <2>3, <2>5 DEF BeatsFairly
<1> QED
  BY <1>3, <1>4, <1>5

\* An entry that may be left out: it does not score more than the root, and it
\* comes after the root in the segment if they are of the same one.
LEMMA GradesPassed ==
    ASSUME NEW ix, WellFormed(ix), NEW e \in Entries(ix), NEW f \in Entries(ix),
           e.score <= f.score, e.seg = f.seg => e.seg # 0 /\ f.doc < e.doc
    PROVE  Grade(ix)[e] <= Grade(ix)[f]
<1>1. /\ e.score \in Nat /\ e.doc \in Nat /\ f.score \in Nat /\ f.doc \in Nat
      /\ Grade(ix)[e] \in Nat /\ Grade(ix)[f] \in Nat
  BY EntryIs, GradeIs
<1>2. CASE ~One(ix)
  BY <1>2, GradeIs
<1>3. CASE One(ix)
  <2>1. e.seg = f.seg
    BY <1>3, OneKind
  <2>2. Weaker(e, f)
    BY <1>1, <2>1, WeakerIs
  <2>3. Grade(ix)[e] < Grade(ix)[f]
    BY <1>3, <2>2, GradeIs
  <2> QED
    BY <1>1, <2>3
<1> QED
  BY <1>2, <1>3

-----------------------------------------------------------------------------
(* Blocks and cursors of the segment being searched.                        *)

\* The smaller of two numbers.
LEMMA MinOfTwo ==
    ASSUME NEW a \in Int, NEW b \in Int
    PROVE  Min({a, b}) = IF a <= b THEN a ELSE b
<1>1. IsFiniteSet({a, b})
  <2>1. IsFiniteSet({a})
    BY FS_Singleton
  <2>2. IsFiniteSet({a} \union {b})
    BY <2>1, FS_AddElement
  <2>3. {a} \union {b} = {a, b}
    OBVIOUS
  <2> QED
    BY <2>2, <2>3
<1>2. Min({a, b}) \in {a, b} /\ \A n \in {a, b} : Min({a, b}) <= n
  BY <1>1, MinIs
<1> QED
  BY <1>2

\* A segment of a well-formed index is being searched.
Here == WellFormed(index) /\ seg \in DOMAIN index.segments /\ weight = Weights(index)

\* The postings of a term in the segment that is being searched.
LEMMA HerePostings ==
    ASSUME Here, NEW t \in DOMAIN index.query
    PROVE  /\ Postings(t) = PostingsOf(index, seg, t)
           /\ DOMAIN Postings(t) = 1..Len(Postings(t)) /\ Len(Postings(t)) \in Nat
           /\ \A i \in 1..Len(Postings(t)) :
                /\ Postings(t)[i].doc \in Docs(index, seg)
                /\ Postings(t)[i].doc \in Nat /\ Postings(t)[i].doc > 0
                     /\ Postings(t)[i].doc < NoDoc
                /\ Postings(t)[i].tf \in Frequencies
                /\ Postings(t)[i].len \in Lengths
           /\ \A i, j \in 1..Len(Postings(t)) : i < j => Postings(t)[i].doc < Postings(t)[j].doc
<1> DEFINE P == Postings(t)
           E == [doc : Docs(index, seg), tf : Frequencies, len : Lengths]
<1>1. P = PostingsOf(index, seg, t)
  BY DEF Postings, PostingsOf
<1>2. P \in Seq(E) /\ \A i, j \in 1..Len(P) : i < j => P[i].doc < P[j].doc
  BY <1>1, PostingsAre DEF Here
<1>3. \A p \in E : /\ p.doc \in Docs(index, seg) /\ p.doc \in Nat /\ p.doc > 0 /\ p.doc < NoDoc
                   /\ p.tf \in Frequencies /\ p.len \in Lengths
  BY SegmentIs DEF Here
<1> HIDE DEF P, E
<1>4. DOMAIN P = 1..Len(P) /\ Len(P) \in Nat /\ \A i \in 1..Len(P) : P[i] \in E
  BY <1>2
<1> QED
  BY <1>1, <1>2, <1>3, <1>4 DEF P

\* Division by the size of a block.
LEMMA Divided ==
    ASSUME NEW a \in Nat, NEW b \in Nat \ {0}
    PROVE  /\ a \div b \in Nat
           /\ (a \div b) * b <= a
           /\ a < (a \div b) * b + b
  OBVIOUS

\* A greater number of blocks is greater by a block at least.
LEMMA Multiplied ==
    ASSUME NEW a \in Nat, NEW c \in Nat, NEW b \in Nat \ {0}, a < c
    PROVE  a * b + b <= c * b
<1>1. PICK d \in Nat : c = a + 1 + d
  <2>1. c - (a + 1) \in Nat /\ c = a + 1 + (c - (a + 1))
    OBVIOUS
  <2> QED
    BY <2>1
<1>2. c * b = a * b + b + d * b
  BY <1>1
<1>3. d * b \in Nat /\ a * b \in Nat
  OBVIOUS
<1> QED
  BY <1>2, <1>3

\* The blocks cut the positions of the postings into consecutive pieces.
LEMMA BlocksAre ==
    ASSUME Here, NEW t \in DOMAIN index.query
    PROVE  /\ Blocks(t) \in Nat
           /\ \A b \in 1..Blocks(t) :
                /\ FirstOf(b) \in 1..LastOf(t, b) /\ LastOf(t, b) \in 1..Len(Postings(t))
                /\ IF b < Blocks(t) THEN FirstOf(b + 1) = LastOf(t, b) + 1
                   ELSE LastOf(t, b) = Len(Postings(t))
<1> DEFINE n == Len(Postings(t))
           B == BlockSize
           k == Blocks(t)
<1>1. n \in Nat /\ B \in Nat \ {0}
  BY HerePostings, BlockAssumption
<1>2. k = (n + B - 1) \div B
  BY DEF Blocks
<1>3. n + B - 1 \in Nat
  BY <1>1
<1>4. k \in Nat /\ k * B <= n + B - 1 /\ n + B - 1 < k * B + B
  BY <1>1, <1>2, <1>3, Divided
<1>5. \A b : FirstOf(b) = (b - 1) * B + 1
  BY DEF FirstOf
<1>6. \A b : LastOf(t, b) = Min({b * B, n})
  BY DEF LastOf
<1> HIDE DEF n, B, k
<1>7. ASSUME NEW b \in 1..k
      PROVE  /\ FirstOf(b) \in 1..LastOf(t, b) /\ LastOf(t, b) \in 1..n
             /\ IF b < k THEN FirstOf(b + 1) = LastOf(t, b) + 1 ELSE LastOf(t, b) = n
  <2>1. b \in Nat /\ b - 1 \in Nat /\ b - 1 < k /\ b <= k
    BY <1>4
  <2>2. (b - 1) * B \in Nat /\ b * B \in Nat
    BY <2>1, <1>1
  <2>3. b * B = (b - 1) * B + B
    BY <2>1, <1>1
  <2>4. (b - 1) * B + B <= k * B
    BY <2>1, <1>1, <1>4, Multiplied
  <2>5. (b - 1) * B + 1 <= n
    <3>1. k * B \in Nat
      BY <1>1, <1>4
    <3> QED
      BY <3>1, <2>2, <2>4, <1>1, <1>4
  <2>6. LastOf(t, b) = IF b * B <= n THEN b * B ELSE n
    <3>1. b * B \in Int /\ n \in Int
      BY <2>2, <1>1
    <3>2. LastOf(t, b) = Min({b * B, n})
      BY <1>6
    <3> QED
      BY <3>1, <3>2, MinOfTwo
  <2>7. CASE b < k
    <3>1. b * B + B <= k * B
      BY <2>1, <2>7, <1>1, <1>4, Multiplied
    <3>2. b * B <= n
      <4>1. k * B \in Nat
        BY <1>1, <1>4
      <4> QED
        BY <4>1, <3>1, <2>2, <1>1, <1>4
    <3>3. FirstOf(b + 1) = b * B + 1
      <4>1. FirstOf(b + 1) = (b + 1 - 1) * B + 1 /\ b + 1 - 1 = b
        BY <1>5, <2>1
      <4> QED
        BY <4>1
    <3> QED
      BY <1>5, <2>2, <2>3, <2>5, <2>6, <2>7, <3>2, <3>3, <1>1
  <2>8. CASE ~ b < k
    <3>1. b = k
      BY <2>1, <2>8, <1>4
    <3>2. n <= b * B
      BY <3>1, <1>4, <1>1, <2>2
    <3> QED
      BY <1>5, <2>2, <2>3, <2>5, <2>6, <2>8, <3>2, <1>1
  <2> QED
    BY <2>7, <2>8
<1> QED
  BY <1>4, <1>7 DEF k, n

\* A posting is in its block.
LEMMA InBlock ==
    ASSUME Here, NEW t \in DOMAIN index.query, NEW i \in 1..Len(Postings(t)), NEW c, c.at = i
    PROVE  /\ BlockOf(c) \in 1..Blocks(t)
           /\ i \in FirstOf(BlockOf(c))..LastOf(t, BlockOf(c))
<1> DEFINE n == Len(Postings(t))
           B == BlockSize
           k == Blocks(t)
           b == BlockOf(c)
           q == (i - 1) \div B
<1>1. n \in Nat /\ B \in Nat \ {0} /\ i - 1 \in Nat
  BY HerePostings, BlockAssumption
<1>2. k = (n + B - 1) \div B /\ n + B - 1 \in Nat
  BY <1>1 DEF Blocks
<1>4. k \in Nat /\ k * B <= n + B - 1 /\ n + B - 1 < k * B + B
  BY <1>1, <1>2, Divided
<1>5. b = q + 1
  BY DEF BlockOf
<1>6. q \in Nat /\ q * B <= i - 1 /\ i - 1 < q * B + B
  BY <1>1, Divided
<1>7. FirstOf(b) = (b - 1) * B + 1 /\ LastOf(t, b) = Min({b * B, n})
  BY DEF FirstOf, LastOf
<1>8. i \in Nat /\ i <= n
  BY <1>1
<1> HIDE DEF n, B, k, b, q
<1>9. q < k
  <2>1. ASSUME k <= q PROVE FALSE
    <3>1. k * B <= q * B
      <4>1. CASE k = q
        BY <4>1, <1>1, <1>6
      <4>2. CASE k < q
        <5>1. k * B + B <= q * B
          BY <4>2, <1>1, <1>4, <1>6, Multiplied
        <5> QED
          BY <5>1, <1>1, <1>4, <1>6
      <4> QED
        BY <4>1, <4>2, <2>1, <1>4, <1>6
    <3>2. k * B \in Nat /\ q * B \in Nat
      BY <1>1, <1>4, <1>6
    <3> QED
      BY <3>1, <3>2, <1>1, <1>4, <1>6, <1>8
  <2> QED
    BY <2>1, <1>4, <1>6
<1>10. b \in 1..k /\ b - 1 = q
  BY <1>4, <1>5, <1>6, <1>9
<1>11. b * B = q * B + B /\ q * B \in Nat /\ b * B \in Nat
  BY <1>5, <1>6, <1>1
<1>12. LastOf(t, b) = IF b * B <= n THEN b * B ELSE n
  BY <1>1, <1>7, <1>11, MinOfTwo
<1>13. FirstOf(b) = q * B + 1
  BY <1>7, <1>10
<1>14. i \in FirstOf(b)..LastOf(t, b)
  BY <1>1, <1>6, <1>8, <1>11, <1>12, <1>13
<1> QED
  BY <1>10, <1>14 DEF b, k

\* The least and the greatest value of a function.
LEMMA MaxOf ==
    ASSUME NEW S, IsFiniteSet(S), S # {}, NEW f \in [S -> Int]
    PROVE  LET T == {f[x] : x \in S}
           IN  (\E x \in S : Max(T) = f[x]) /\ \A x \in S : f[x] <= Max(T)
<1> DEFINE T == {f[x] : x \in S}
<1>1. IsFiniteSet(T) /\ T \subseteq Int /\ T # {}
  BY ImageFinite
<1>2. Max(T) \in T /\ \A n \in T : n <= Max(T)
  BY <1>1, MaxIs
<1> QED
  BY <1>2

\* The least of a finite set of values.
LEMMA MinOf ==
    ASSUME NEW S, IsFiniteSet(S), S # {}, NEW f \in [S -> Int]
    PROVE  LET T == {f[x] : x \in S}
           IN  (\E x \in S : Min(T) = f[x]) /\ \A x \in S : Min(T) <= f[x]
<1> DEFINE T == {f[x] : x \in S}
<1>1. IsFiniteSet(T) /\ T \subseteq Int /\ T # {}
  BY ImageFinite
<1>2. Min(T) \in T /\ \A n \in T : Min(T) <= n
  BY <1>1, MinIs
<1> QED
  BY <1>2

\* The maximum of a block bounds what its postings contribute.
LEMMA BlockMaxIs ==
    ASSUME Here, NEW t \in DOMAIN index.query, NEW b \in 1..Blocks(t)
    PROVE  /\ BlockMax(t, b) \in Nat
           /\ \A i \in FirstOf(b)..LastOf(t, b) :
                /\ Contribution(t, Postings(t)[i]) \in Nat
                /\ Contribution(t, Postings(t)[i]) <= BlockMax(t, b)
<1> DEFINE P == Postings(t)
           I == FirstOf(b)..LastOf(t, b)
           tf  == [i \in I |-> P[i].tf]
           len == [i \in I |-> P[i].len]
           m == Max({tf[i] : i \in I})
           l == Min({len[i] : i \in I})
<1>1. FirstOf(b) \in 1..LastOf(t, b) /\ LastOf(t, b) \in 1..Len(P) /\ Len(P) \in Nat
  BY BlocksAre, HerePostings
<1>2. I # {} /\ IsFiniteSet(I)
  <2>1. FirstOf(b) \in Int /\ LastOf(t, b) \in Int /\ FirstOf(b) <= LastOf(t, b)
    BY <1>1
  <2>2. FirstOf(b) \in I
    BY <2>1
  <2> QED
    BY <2>1, <2>2, FS_Interval
<1>3. \A i \in I : i \in 1..Len(P)
  BY <1>1
<1>4. \A i \in I : tf[i] \in Frequencies /\ len[i] \in Lengths
  BY <1>3, HerePostings
<1>5. BlockMax(t, b) = weight[t] * Saturation(m, l)
  <2>1. {tf[i] : i \in I} = {p.tf : p \in Block(t, b)}
    BY DEF Block
  <2>2. {len[i] : i \in I} = {p.len : p \in Block(t, b)}
    BY DEF Block
  <2> QED
    BY <2>1, <2>2 DEF BlockMax
<1>6. \A i \in I : tf[i] = P[i].tf /\ len[i] = P[i].len
  OBVIOUS
<1>7. tf = [i \in I |-> tf[i]] /\ len = [i \in I |-> len[i]]
  OBVIOUS
<1> HIDE DEF tf, len, I, P
<1>8. tf \in [I -> Int] /\ len \in [I -> Int]
  <2>1. \A i \in I : tf[i] \in Int /\ len[i] \in Int
    BY <1>4, FrequenciesAre
  <2> QED
    BY <2>1, <1>7
<1>9. (\E i \in I : m = tf[i]) /\ \A i \in I : tf[i] <= m
  BY <1>2, <1>8, MaxOf
<1>10. (\E i \in I : l = len[i]) /\ \A i \in I : l <= len[i]
  BY <1>2, <1>8, MinOf
<1> HIDE DEF m, l
<1>11. m \in Frequencies /\ l \in Lengths
  BY <1>4, <1>9, <1>10
<1>12. weight[t] \in Nat
  BY WeightsAre DEF Here
<1>13. Saturation(m, l) \in Nat \ {0}
  BY <1>11, SaturationIs
<1>14. ASSUME NEW i \in I
       PROVE  Contribution(t, P[i]) \in Nat /\ Contribution(t, P[i]) <= BlockMax(t, b)
  <2>1. Contribution(t, P[i]) = weight[t] * Saturation(tf[i], len[i])
    BY <1>6 DEF Contribution
  <2>2. Saturation(tf[i], len[i]) \in Nat \ {0}
    BY <1>4, SaturationIs
  <2>3. Saturation(tf[i], len[i]) <= Saturation(m, l)
    <3>1. tf[i] \in Frequencies /\ len[i] \in Lengths /\ tf[i] <= m /\ l <= len[i]
      BY <1>4, <1>9, <1>10
    <3> QED
      BY ONLY <3>1, <1>11, SaturationAssumption
  <2>4. weight[t] * Saturation(tf[i], len[i]) <= weight[t] * Saturation(m, l)
    BY <1>12, <1>13, <2>2, <2>3, Product
  <2>5. weight[t] * Saturation(tf[i], len[i]) \in Nat
    BY <1>12, <2>2, Product
  <2> QED
    BY <1>5, <2>1, <2>4, <2>5
<1>15. BlockMax(t, b) \in Nat
  BY <1>5, <1>12, <1>13, Product
<1> QED
  BY <1>14, <1>15 DEF I, P

\* The maximum of a term bounds what all its postings contribute.
LEMMA MaxScoreIs ==
    ASSUME Here, NEW t \in DOMAIN index.query
    PROVE  /\ MaxScore(t) \in Nat
           /\ \A i \in 1..Len(Postings(t)) :
                /\ Contribution(t, Postings(t)[i]) \in Nat
                /\ Contribution(t, Postings(t)[i]) <= MaxScore(t)
<1> DEFINE S == 0..Blocks(t)
           f == [b \in S |-> IF b = 0 THEN 0 ELSE BlockMax(t, b)]
<1>1. Blocks(t) \in Nat
  BY BlocksAre
<1>2. IsFiniteSet(S) /\ S # {}
  BY <1>1, FS_Interval
<1>3. \A b \in 1..Blocks(t) : BlockMax(t, b) \in Nat
  BY BlockMaxIs
<1>4. f \in [S -> Int] /\ \A b \in S : f[b] \in Nat
  BY <1>1, <1>3
<1>5. {f[b] : b \in S} = {0} \union {BlockMax(t, b) : b \in 1..Blocks(t)}
  BY <1>1
<1>6. MaxScore(t) = Max({f[b] : b \in S})
  BY <1>5 DEF MaxScore
<1>7. \A b \in 1..Blocks(t) : b \in S /\ f[b] = BlockMax(t, b)
  BY <1>1
<1> HIDE DEF f, S
<1>8. (\E b \in S : MaxScore(t) = f[b]) /\ \A b \in S : f[b] <= MaxScore(t)
  BY <1>2, <1>4, <1>6, MaxOf
<1>9. MaxScore(t) \in Nat
  BY <1>4, <1>8
<1>10. ASSUME NEW i \in 1..Len(Postings(t))
       PROVE  Contribution(t, Postings(t)[i]) \in Nat
                /\ Contribution(t, Postings(t)[i]) <= MaxScore(t)
  <2> DEFINE c == [at |-> i]
             b == BlockOf(c)
  <2>1. b \in 1..Blocks(t) /\ i \in FirstOf(b)..LastOf(t, b)
    BY InBlock
  <2> HIDE DEF b
  <2>2. /\ Contribution(t, Postings(t)[i]) \in Nat
        /\ Contribution(t, Postings(t)[i]) <= BlockMax(t, b)
    BY <2>1, BlockMaxIs
  <2>3. BlockMax(t, b) <= MaxScore(t) /\ BlockMax(t, b) \in Nat
    BY <2>1, <1>3, <1>7, <1>8
  <2> QED
    BY <2>2, <2>3, <1>9
<1> QED
  BY <1>9, <1>10

\* Where a cursor is: in no posting, or in one of its block.
LEMMA DocIs ==
    ASSUME Here, NEW c, c.term \in DOMAIN index.query, c.at \in 1..(Len(Postings(c.term)) + 1)
    PROVE  /\ Doc(c) \in Nat /\ Doc(c) <= NoDoc
           /\ Exhausted(c) <=> c.at = Len(Postings(c.term)) + 1
           /\ Exhausted(c) <=> Doc(c) = NoDoc
           /\ ~Exhausted(c) => /\ c.at \in 1..Len(Postings(c.term))
                               /\ Doc(c) = Postings(c.term)[c.at].doc
<1>1. Len(Postings(c.term)) \in Nat
  BY HerePostings
<1>2. Exhausted(c) <=> c.at = Len(Postings(c.term)) + 1
  BY <1>1 DEF Exhausted
<1>3. CASE Exhausted(c)
  BY <1>2, <1>3, BlockAssumption DEF Doc
<1>4. CASE ~Exhausted(c)
  <2>1. c.at \in 1..Len(Postings(c.term))
    BY <1>1, <1>2, <1>4
  <2>2. Doc(c) = Postings(c.term)[c.at].doc
    BY <1>4 DEF Doc
  <2>3. Doc(c) \in Nat /\ Doc(c) < NoDoc
    BY <2>1, <2>2, HerePostings
  <2> QED
    BY <1>2, <1>4, <2>1, <2>2, <2>3, BlockAssumption
<1> QED
  BY <1>3, <1>4

\* The position that a cursor is moved to when it seeks: all it passes is
\* before the target.
Passes(t, i, j, target) == \A k \in i..(j - 1) : Postings(t)[k].doc < target

\* tp_segment_seek_in_block stops at the first posting not before its target.
LEMMA FirstInIs ==
    ASSUME Here, NEW t \in DOMAIN index.query, NEW b \in 1..Blocks(t),
           NEW i \in FirstOf(b)..(LastOf(t, b) + 1), NEW target \in Nat
    PROVE  /\ FirstIn(t, b, i, target) \in i..(LastOf(t, b) + 1)
           /\ Passes(t, i, FirstIn(t, b, i, target), target)
<1> DEFINE l == LastOf(t, b)
           T == {l + 1} \union {j \in i..l : Postings(t)[j].doc >= target}
           m == FirstIn(t, b, i, target)
<1>1. FirstOf(b) \in 1..l /\ l \in 1..Len(Postings(t)) /\ Len(Postings(t)) \in Nat
  BY BlocksAre, HerePostings
<1>2. i \in Nat /\ l \in Nat /\ i >= 1 /\ i <= l + 1
  BY <1>1
<1>3. T \in SUBSET (i..(l + 1)) /\ T # {} /\ T \subseteq Int
  BY <1>2
<1>4. IsFiniteSet(i..(l + 1))
  BY <1>2, FS_Interval
<1>5. IsFiniteSet(T)
  BY <1>3, <1>4, FS_Subset
<1>6. m = Min(T)
  BY DEF FirstIn
<1>7. m \in T /\ \A n \in T : m <= n
  <2> HIDE DEF T, m
  <2> QED
    BY <1>3, <1>5, <1>6, MinIs
<1> HIDE DEF m
<1>8. m \in i..(l + 1)
  BY <1>3, <1>7
<1>9. ASSUME NEW k \in i..(m - 1) PROVE Postings(t)[k].doc < target
  <2>1. k \in i..l /\ k < m /\ k \in 1..Len(Postings(t))
    BY <1>1, <1>2, <1>8
  <2>2. k \notin T
    BY <2>1, <1>7, <1>8
  <2>3. Postings(t)[k].doc \in Nat
    BY <2>1, HerePostings
  <2> QED
    BY <2>1, <2>2, <2>3
<1> QED
  BY <1>8, <1>9 DEF Passes, m

\* Windows of the binary search: the blocks from the first on up to the left end
\* are all before the target.
Windows(t, first, target) ==
    {w \in [left : first..(Blocks(t) + 1), right : {n \in Int : n <= Blocks(t)}] :
       \A b \in first..(w.left - 1) : LastDoc(t, b) < target}

\* The last document of a block is not before any of this block or an earlier one.
LEMMA LastDocIs ==
    ASSUME Here, NEW t \in DOMAIN index.query, NEW b \in 1..Blocks(t)
    PROVE  /\ LastDoc(t, b) \in Nat
           /\ \A i \in 1..LastOf(t, b) : Postings(t)[i].doc <= LastDoc(t, b)
           /\ \A c \in 1..b : LastDoc(t, c) <= LastDoc(t, b)
<1> DEFINE P == Postings(t)
<1>1. LastOf(t, b) \in 1..Len(P) /\ Len(P) \in Nat
  BY BlocksAre, HerePostings
<1>2. LastDoc(t, b) = P[LastOf(t, b)].doc
  BY DEF LastDoc
<1>3. \A i \in 1..Len(P) : P[i].doc \in Nat
  BY HerePostings
<1>4. \A i, j \in 1..Len(P) : i < j => P[i].doc < P[j].doc
  BY HerePostings
<1> HIDE DEF P
<1>5. ASSUME NEW i \in 1..LastOf(t, b) PROVE P[i].doc <= LastDoc(t, b)
  <2>1. i \in 1..Len(P) /\ (i = LastOf(t, b) \/ i < LastOf(t, b))
    BY <1>1
  <2>2. P[i].doc \in Nat /\ P[LastOf(t, b)].doc \in Nat
    BY <2>1, <1>1, <1>3
  <2> QED
    BY <2>1, <2>2, <1>1, <1>2, <1>4
<1>6. \A c \in 1..b : LastOf(t, c) <= LastOf(t, b) /\ LastOf(t, c) \in 1..Len(P)
  <2>0. Blocks(t) \in Nat
    BY BlocksAre
  <2> SUFFICES ASSUME NEW c \in 1..b
                      PROVE LastOf(t, c) <= LastOf(t, b) /\ LastOf(t, c) \in 1..Len(P)
    OBVIOUS
  <2>1. c \in 1..Blocks(t)
    BY <2>0
  <2>2. LastOf(t, c) \in 1..Len(P)
    BY <2>1, BlocksAre DEF P
  <2>3. LastOf(t, c) = Min({c * BlockSize, Len(P)}) /\ LastOf(t, b) = Min({b * BlockSize, Len(P)})
    BY DEF LastOf, P
  <2>4. c * BlockSize <= b * BlockSize /\ c * BlockSize \in Nat /\ b * BlockSize \in Nat
    <3>1. c \in Nat \ {0} /\ b \in Nat \ {0} /\ BlockSize \in Nat /\ c <= b
      BY <2>0, BlockAssumption
    <3>2. BlockSize * c <= BlockSize * b /\ BlockSize * c \in Nat /\ BlockSize * b \in Nat
      BY <3>1, Product
    <3>3. BlockSize * c = c * BlockSize /\ BlockSize * b = b * BlockSize
      BY <3>1
    <3> QED
      BY <3>2, <3>3
  <2> DEFINE x == c * BlockSize
             y == b * BlockSize
  <2>5. LastOf(t, c) = (IF x <= Len(P) THEN x ELSE Len(P))
          /\ LastOf(t, b) = (IF y <= Len(P) THEN y ELSE Len(P))
    <3> HIDE DEF x, y
    <3>1. x \in Int /\ y \in Int /\ Len(P) \in Int
      BY <2>4, <1>1 DEF x, y
    <3>2. LastOf(t, c) = Min({x, Len(P)}) /\ LastOf(t, b) = Min({y, Len(P)})
      BY <2>3 DEF x, y
    <3> QED
      BY <3>1, <3>2, MinOfTwo
  <2> HIDE DEF x, y
  <2> QED
    BY <2>2, <2>4, <2>5, <1>1 DEF x, y
<1>7. ASSUME NEW c \in 1..b PROVE LastDoc(t, c) <= LastDoc(t, b)
  <2>1. LastOf(t, c) \in 1..LastOf(t, b)
    BY <1>1, <1>6
  <2>2. LastDoc(t, c) = P[LastOf(t, c)].doc
    BY DEF LastDoc, P
  <2> QED
    BY <1>5, <2>1, <2>2
<1> QED
  BY <1>1, <1>2, <1>3, <1>5, <1>7 DEF P

\* A step of the binary search keeps the answer in its window.
LEMMA HalvedStays ==
    ASSUME Here, NEW t \in DOMAIN index.query, NEW first \in 1..(Blocks(t) + 1), NEW target \in Nat,
           NEW w \in Windows(t, first, target)
    PROVE  Halved(t, w, target) \in Windows(t, first, target)
<1>0. Blocks(t) \in Nat /\ first \in Nat
  BY BlocksAre
<1>1. /\ w.left \in first..(Blocks(t) + 1) /\ w.right \in Int /\ w.right <= Blocks(t)
      /\ \A b \in first..(w.left - 1) : LastDoc(t, b) < target
      /\ w = [left |-> w.left, right |-> w.right]
  BY DEF Windows
<1> DEFINE mid == w.left + (w.right - w.left) \div 2
<1>2. CASE w.left >= w.right
  BY <1>2 DEF Halved
<1>3. CASE ~ w.left >= w.right
  <2>0. w.left \in Nat /\ w.left < w.right
    BY <1>0, <1>1, <1>3
  <2>1. mid \in w.left..(w.right - 1) /\ mid \in 1..Blocks(t)
    <3>1. (w.right - w.left) \div 2 \in 0..(w.right - w.left - 1)
      BY <2>0, <1>1
    <3> QED
      BY <3>1, <2>0, <1>0, <1>1
  <2>2. CASE LastDoc(t, mid) < target
    <3>1. Halved(t, w, target) = [w EXCEPT !.left = mid + 1]
      BY <1>3, <2>2 DEF Halved
    <3>2. Halved(t, w, target) = [left |-> mid + 1, right |-> w.right]
      BY <3>1, <1>1
    <3> HIDE DEF mid
    <3>3. mid + 1 \in first..(Blocks(t) + 1)
      BY <2>0, <2>1, <1>0, <1>1
    <3>4. ASSUME NEW b \in first..mid PROVE LastDoc(t, b) < target
      <4>1. b \in 1..mid /\ b \in 1..Blocks(t)
        BY <1>0, <2>1
      <4>2. LastDoc(t, b) <= LastDoc(t, mid) /\ LastDoc(t, b) \in Nat /\ LastDoc(t, mid) \in Nat
        BY <4>1, <2>1, LastDocIs
      <4> QED
        BY <4>2, <2>2
    <3> DEFINE v == [left |-> mid + 1, right |-> w.right]
    <3>5. v.left - 1 = mid
      BY <2>1
    <3>6. v \in [left : first..(Blocks(t) + 1), right : {n \in Int : n <= Blocks(t)}]
      BY <3>3, <1>1
    <3>7. \A b \in first..(v.left - 1) : LastDoc(t, b) < target
      BY <3>4, <3>5
    <3> HIDE DEF v
    <3>8. v \in Windows(t, first, target)
      BY <3>6, <3>7 DEF Windows
    <3> QED
      BY <3>2, <3>8 DEF v
  <2>3. CASE ~ LastDoc(t, mid) < target
    <3>1. Halved(t, w, target) = [w EXCEPT !.right = mid]
      BY <1>3, <2>3 DEF Halved
    <3>2. Halved(t, w, target) = [left |-> w.left, right |-> mid]
      BY <3>1, <1>1
    <3> HIDE DEF mid
    <3>3. mid \in Int /\ mid <= Blocks(t)
      BY <2>1, <1>0
    <3>4. [left |-> w.left, right |-> mid].left = w.left
      OBVIOUS
    <3>5. [left |-> w.left, right |-> mid]
            \in [left : first..(Blocks(t) + 1), right : {n \in Int : n <= Blocks(t)}]
      BY <3>3, <1>1
    <3>6. [left |-> w.left, right |-> mid] \in Windows(t, first, target)
      BY <3>4, <3>5, <1>1 DEF Windows
    <3> QED
      BY <3>2, <3>6
  <2> QED
    BY <2>2, <2>3
<1> QED
  BY <1>2, <1>3

\* Iterating a function on a set stays in the set.
LEMMA IterationStays ==
    ASSUME NEW S, NEW f \in [S -> S], NEW x \in S, NEW n \in Nat,
           NEW b, Follows(b, f, S, x, n)
    PROVE  b[n] \in S
<1> DEFINE Bad == {i \in 0..n : b[i] \notin S}
<1>1. ASSUME NEW k \in Bad PROVE FALSE
  <2>1. PICK i \in Bad : \A j \in Bad : i <= j
    <3>1. Bad \subseteq Nat /\ Bad # {}
      BY <1>1
    <3> HIDE DEF Bad
    <3> QED
      BY <3>1, LeastNumber
  <2>2. CASE i = 0
    BY <2>2 DEF Follows
  <2>3. CASE i # 0
    <3>1. i - 1 \in 0..n /\ i \in 1..n
      BY <2>3
    <3>2. b[i - 1] \in S
      BY <2>1, <3>1
    <3>3. b[i] = f[b[i - 1]]
      BY <3>1, <3>2 DEF Follows
    <3> QED
      BY <3>2, <3>3
  <2> QED
    BY <2>2, <2>3
<1> QED
  BY <1>1

\* The binary search passes only blocks that end before the target.
LEMMA BisectIs ==
    ASSUME Here, NEW t \in DOMAIN index.query, NEW first \in 1..(Blocks(t) + 1), NEW target \in Nat
    PROVE  /\ Bisect(t, first, Blocks(t), target) \in first..(Blocks(t) + 1)
           /\ \A b \in first..(Bisect(t, first, Blocks(t), target) - 1) : LastDoc(t, b) < target
<1> DEFINE x == [left |-> first, right |-> Blocks(t)]
           n == Blocks(t)
           S == Windows(t, first, target)
           f == [w \in S |-> Halved(t, w, target)]
           b == CHOOSE a : a = [i \in 0..n |-> IF i = 0 THEN x ELSE Halved(t, a[i - 1], target)]
<1>0. n \in Nat /\ first \in Nat
  BY BlocksAre
<1>1. f \in [S -> S] /\ \A w \in S : f[w] = Halved(t, w, target)
  BY HalvedStays
<1>2. x \in S
  BY <1>0 DEF Windows
<1>3. Bisect(t, first, Blocks(t), target) = b[n].left
  BY DEF Bisect, Iterated
<1> HIDE DEF x, n, S, f
<1>4. PICK a \in [0..n -> S] : Follows(a, f, S, x, n)
  BY <1>0, <1>1, <1>2, IterationExists
<1>5. a = [i \in 0..n |-> IF i = 0 THEN x ELSE Halved(t, a[i - 1], target)]
  <2>1. ASSUME NEW i \in 0..n PROVE a[i] = IF i = 0 THEN x ELSE Halved(t, a[i - 1], target)
    BY <1>0, <1>1, <1>4 DEF Follows
  <2> QED
    BY <2>1
<1>6. b = [i \in 0..n |-> IF i = 0 THEN x ELSE Halved(t, b[i - 1], target)]
  BY <1>5
<1> HIDE DEF b
<1>7. Follows(b, f, S, x, n)
  <2>1. \A i \in 0..n : b[i] = IF i = 0 THEN x ELSE Halved(t, b[i - 1], target)
    BY <1>6
  <2>2. b[0] = x
    BY <2>1, <1>0
  <2>3. \A i \in 1..n : b[i] = Halved(t, b[i - 1], target)
    BY <2>1, <1>0
  <2> QED
    BY <2>2, <2>3, <1>1 DEF Follows
<1>8. b[n] \in S
  BY <1>0, <1>1, <1>2, <1>7, IterationStays
<1> QED
  BY <1>3, <1>8 DEF S, Windows

\* A cursor seeks forward, over postings that are before the target.
LEMMA SoughtIs ==
    ASSUME Here, NEW c, c.term \in DOMAIN index.query, c.at \in 1..Len(Postings(c.term)),
           NEW target \in Nat
    PROVE  /\ Sought(c, target) \in c.at..(Len(Postings(c.term)) + 1)
           /\ Passes(c.term, c.at, Sought(c, target), target)
<1> DEFINE t == c.term
           n == Len(Postings(t))
           here == BlockOf(c)
           b == Bisect(t, here + 1, Blocks(t), target)
           at == Sought(c, target)
<1>1. here \in 1..Blocks(t) /\ c.at \in FirstOf(here)..LastOf(t, here)
  BY InBlock
<1>2. n \in Nat /\ Blocks(t) \in Nat /\ c.at \in Nat
  BY HerePostings, BlocksAre
<1>3. LastOf(t, here) \in 1..n /\ FirstOf(here) \in 1..n
  <2>1. FirstOf(here) \in 1..LastOf(t, here) /\ LastOf(t, here) \in 1..n
    BY <1>1, BlocksAre
  <2> QED
    BY <2>1, <1>2
<1>4. at = IF target <= LastDoc(t, here) THEN FirstIn(t, here, c.at, target)
           ELSE IF b > Blocks(t) THEN n + 1 ELSE FirstIn(t, b, FirstOf(b), target)
  BY DEF Sought
<1> HIDE DEF at, b, n, here, t
<1>5. CASE target <= LastDoc(t, here)
  <2>1. c.at \in FirstOf(here)..(LastOf(t, here) + 1) /\ t \in DOMAIN index.query
    BY <1>1, <1>2, <1>3 DEF t
  <2>2. FirstIn(t, here, c.at, target) \in c.at..(LastOf(t, here) + 1)
        /\ Passes(t, c.at, FirstIn(t, here, c.at, target), target)
    BY <1>1, <2>1, FirstInIs
  <2>3. at = FirstIn(t, here, c.at, target)
    BY <1>4, <1>5
  <2>4. at \in c.at..(n + 1)
    BY <2>2, <2>3, <1>2, <1>3
  <2> QED
    BY <2>2, <2>3, <2>4 DEF at, t, n
<1>6. CASE ~ target <= LastDoc(t, here)
  <2>0. t \in DOMAIN index.query
    BY DEF t
  <2>1. here + 1 \in 1..(Blocks(t) + 1)
    BY <1>1, <1>2
  <2>2. b \in (here + 1)..(Blocks(t) + 1) /\ \A m \in (here + 1)..(b - 1) : LastDoc(t, m) < target
    BY <2>0, <2>1, BisectIs DEF b
  <2>3. \A m \in here..(b - 1) : LastDoc(t, m) < target
    <3>1. LastDoc(t, here) \in Nat
      BY <2>0, <1>1, LastDocIs
    <3>2. LastDoc(t, here) < target
      BY <3>1, <1>6
    <3>3. \A m \in here..(b - 1) : m = here \/ m \in (here + 1)..(b - 1)
      BY <2>2, <1>1
    <3> QED
      BY <3>2, <3>3, <2>2
  <2>4. b - 1 \in here..Blocks(t) /\ b - 1 \in 1..Blocks(t)
    BY <2>2, <1>1, <1>2
  <2>5. LastOf(t, b - 1) \in 1..n /\ (IF b - 1 < Blocks(t) THEN FirstOf(b) = LastOf(t, b - 1) + 1
                                     ELSE LastOf(t, b - 1) = n)
    <3>1. (b - 1) + 1 = b
      BY <2>2, <1>1
    <3> QED
      BY <3>1, <2>0, <2>4, BlocksAre DEF n
  <2>6. \A i \in 1..LastOf(t, b - 1) : Postings(t)[i].doc < target
    <3> SUFFICES ASSUME NEW i \in 1..LastOf(t, b - 1) PROVE Postings(t)[i].doc < target
      OBVIOUS
    <3>1. Postings(t)[i].doc <= LastDoc(t, b - 1) /\ LastDoc(t, b - 1) \in Nat
      BY <2>0, <2>4, LastDocIs
    <3>2. LastDoc(t, b - 1) < target
      <4>1. b - 1 \in here..(b - 1)
        BY <2>4, <1>1
      <4> QED
        BY <4>1, <2>3
    <3>3. i \in 1..Len(Postings(t))
      BY <2>5, <1>2 DEF n
    <3>4. Postings(t)[i].doc \in Nat
      BY <3>3, <2>0, HerePostings
    <3> QED
      BY <3>1, <3>2, <3>4
  <2>7. LastOf(t, here) <= LastOf(t, b - 1)
    <3>1. LastOf(t, here) < FirstOf(b) \/ here = b - 1 \/ TRUE
      OBVIOUS
    <3>2. CASE LastOf(t, b - 1) < LastOf(t, here)
      <4>1. LastOf(t, here) \in 1..n /\ LastOf(t, b - 1) \in 1..n
        BY <1>3, <2>5
      <4>2. Postings(t)[LastOf(t, b - 1)].doc < Postings(t)[LastOf(t, here)].doc
        BY <4>1, <3>2, <2>0, HerePostings DEF n
      <4>3. LastDoc(t, here) <= LastDoc(t, b - 1)
        <5>1. here \in 1..(b - 1)
          BY <1>1, <2>4
        <5> QED
          BY <5>1, <2>0, <2>4, LastDocIs
      <4>4. LastDoc(t, here) \in Nat /\ LastDoc(t, b - 1) \in Nat
        BY <2>0, <2>4, <1>1, LastDocIs
      <4> QED
        BY <4>2, <4>3, <4>4 DEF LastDoc
    <3> QED
      BY <3>2, <1>3, <2>5
  <2>8. CASE b > Blocks(t)
    <3>0. ~ b - 1 < Blocks(t)
      BY <2>2, <2>8, <1>1, <1>2
    <3>1. at = n + 1 /\ LastOf(t, b - 1) = n
      BY <1>4, <1>6, <2>5, <2>8, <3>0
    <3>2. at \in c.at..(n + 1)
      BY <3>1, <1>1, <1>2, <1>3
    <3>3. Passes(t, c.at, at, target)
      <4>1. \A k \in c.at..(at - 1) : k \in 1..LastOf(t, b - 1)
        BY <3>1, <1>1, <1>2, <1>3
      <4> QED
        BY <4>1, <2>6 DEF Passes
    <3> QED
      BY <3>2, <3>3 DEF at, t, n
  <2>9. CASE ~ b > Blocks(t)
    <3>1. b \in 1..Blocks(t) /\ b - 1 < Blocks(t)
      BY <2>2, <2>9, <1>1, <1>2
    <3>2. FirstOf(b) \in 1..LastOf(t, b) /\ LastOf(t, b) \in 1..n
      BY <2>0, <3>1, BlocksAre DEF n
    <3>3. FirstOf(b) \in FirstOf(b)..(LastOf(t, b) + 1)
      BY <3>2, <1>2
    <3>4. at = FirstIn(t, b, FirstOf(b), target)
      BY <1>4, <1>6, <2>9
    <3>5. at \in FirstOf(b)..(LastOf(t, b) + 1) /\ Passes(t, FirstOf(b), at, target)
      BY <2>0, <3>1, <3>3, <3>4, FirstInIs
    <3>6. FirstOf(b) = LastOf(t, b - 1) + 1
      BY <3>1, <2>5
    <3>7. at \in c.at..(n + 1)
      <4>1. /\ at \in Int /\ FirstOf(b) <= at /\ at <= LastOf(t, b) + 1 /\ LastOf(t, b) \in Int
            /\ LastOf(t, b) <= n /\ FirstOf(b) \in Int
        BY <3>2, <3>5, <1>2
      <4>2. c.at \in Int /\ c.at <= LastOf(t, here) /\ LastOf(t, here) \in Int
        BY <1>1, <1>2, <1>3
      <4>3. LastOf(t, b - 1) \in Int /\ n \in Int
        BY <2>5, <1>2
      <4> QED
        BY ONLY <4>1, <4>2, <4>3, <3>6, <2>7
    <3>8. Passes(t, c.at, at, target)
      <4> SUFFICES ASSUME NEW k \in c.at..(at - 1) PROVE Postings(t)[k].doc < target
        BY DEF Passes
      <4>1. k \in 1..LastOf(t, b - 1) \/ k \in FirstOf(b)..(at - 1)
        <5>0. c.at >= 1 /\ c.at \in Int
          BY <1>1, <1>2, <1>3
        <5>1. k \in Int /\ k <= at - 1 /\ k >= 1 /\ at \in Int /\ FirstOf(b) \in Int
          BY <5>0, <3>2, <3>7, <1>2
        <5>2. LastOf(t, b - 1) \in Int
          BY <2>5, <1>2
        <5> QED
          BY ONLY <5>1, <5>2, <3>6
      <4> QED
        BY <4>1, <2>6, <3>5 DEF Passes
    <3> QED
      BY <3>7, <3>8 DEF at, t, n
  <2> QED
    BY <2>8, <2>9
<1> QED
  BY <1>5, <1>6

-----------------------------------------------------------------------------
(* The order of the cursors.                                                *)

\* A sequence without one of its elements.
LEMMA RemoveAtIs ==
    ASSUME NEW E, NEW s \in Seq(E), NEW i \in 1..Len(s)
    PROVE  /\ RemoveAt(s, i) \in Seq(E) /\ Len(RemoveAt(s, i)) = Len(s) - 1
           /\ \A j \in 1..(Len(s) - 1) : RemoveAt(s, i)[j] = IF j < i THEN s[j] ELSE s[j + 1]
<1> DEFINE a == SubSeq(s, 1, i - 1)
           b == SubSeq(s, i + 1, Len(s))
<1>1. RemoveAt(s, i) = a \o b
  BY DEF RemoveAt
<1>2. Len(s) \in Nat /\ i \in Nat /\ i >= 1 /\ i <= Len(s)
  OBVIOUS
<1>3. a \in Seq(E) /\ Len(a) = i - 1 /\ \A j \in 1..(i - 1) : a[j] = s[j]
  BY <1>2
<1>4. b \in Seq(E) /\ Len(b) = Len(s) - i /\ \A j \in 1..(Len(s) - i) : b[j] = s[i + j]
  BY <1>2
<1> HIDE DEF a, b
<1>5. a \o b \in Seq(E) /\ Len(a \o b) = Len(s) - 1
  <2>1. a \o b \in Seq(E)
    BY <1>3, <1>4
  <2>2. Len(a \o b) = Len(a) + Len(b)
    BY <1>3, <1>4, ConcatProperties
  <2> QED
    BY <2>1, <2>2, <1>2, <1>3, <1>4
<1>6. ASSUME NEW j \in 1..(Len(s) - 1) PROVE (a \o b)[j] = IF j < i THEN s[j] ELSE s[j + 1]
  <2>1. (a \o b)[j] = IF j <= Len(a) THEN a[j] ELSE b[j - Len(a)]
    BY <1>2, <1>3, <1>4
  <2>2. CASE j < i
    BY <2>1, <2>2, <1>2, <1>3
  <2>3. CASE ~ j < i
    <3>1. j - (i - 1) \in 1..(Len(s) - i) /\ i + (j - (i - 1)) = j + 1
      BY <2>3, <1>2
    <3> QED
      BY <2>1, <2>3, <3>1, <1>2, <1>3, <1>4
  <2> QED
    BY <2>2, <2>3
<1> QED
  BY <1>1, <1>5, <1>6

\* t is s with one element more, at position i.
Inserted(t, E, s, i, e) ==
  /\ t \in Seq(E) /\ Len(t) = Len(s) + 1
  /\ \A j \in 1..(Len(s) + 1) : t[j] = IF j < i THEN s[j] ELSE IF j = i THEN e ELSE s[j - 1]

\* InsertAt makes such a sequence.
LEMMA InsertAtIs ==
    ASSUME NEW E, NEW s \in Seq(E), NEW i \in 1..(Len(s) + 1), NEW e \in E
    PROVE  Inserted(InsertAt(s, i, e), E, s, i, e)
<1> DEFINE a == SubSeq(s, 1, i - 1)
           b == SubSeq(s, i, Len(s))
           ae == Append(a, e)
<1>1. InsertAt(s, i, e) = (a \o <<e>>) \o b
  BY DEF InsertAt
<1>2. Len(s) \in Nat /\ i \in Nat /\ i >= 1 /\ i <= Len(s) + 1
  OBVIOUS
<1>3. a \in Seq(E) /\ Len(a) = i - 1 /\ \A j \in 1..(i - 1) : a[j] = s[j]
  BY <1>2
<1>4. b \in Seq(E) /\ Len(b) = Len(s) - i + 1 /\ \A j \in 1..(Len(s) - i + 1) : b[j] = s[i + j - 1]
  BY <1>2
<1> HIDE DEF a, b
<1>5. a \o <<e>> = ae
  BY <1>3
<1>6. ae \in Seq(E) /\ Len(ae) = i /\ \A j \in 1..i : ae[j] = IF j = i THEN e ELSE s[j]
  BY <1>2, <1>3
<1> HIDE DEF ae
<1>7. ae \o b \in Seq(E) /\ Len(ae \o b) = Len(s) + 1
  <2>1. ae \o b \in Seq(E)
    BY <1>4, <1>6
  <2>2. Len(ae \o b) = Len(ae) + Len(b)
    BY <1>4, <1>6, ConcatProperties
  <2> QED
    BY <2>1, <2>2, <1>2, <1>4, <1>6
<1>8. ASSUME NEW j \in 1..(Len(s) + 1)
      PROVE  (ae \o b)[j] = IF j < i THEN s[j] ELSE IF j = i THEN e ELSE s[j - 1]
  <2>1. (ae \o b)[j] = IF j <= i THEN ae[j] ELSE b[j - i]
    BY <1>2, <1>4, <1>6
  <2>2. CASE j <= i
    BY <2>1, <2>2, <1>2, <1>6
  <2>3. CASE ~ j <= i
    <3>1. j - i \in 1..(Len(s) - i + 1) /\ i + (j - i) - 1 = j - 1
      BY <2>3, <1>2
    <3> QED
      BY <2>1, <2>3, <3>1, <1>2, <1>4
  <2> QED
    BY <2>2, <2>3
<1> QED
  BY <1>1, <1>5, <1>7, <1>8 DEF Inserted

\* A set of numbers from i on, without a gap below any of them.
LEMMA Gapless ==
    ASSUME NEW i \in Nat, NEW n \in Int, n >= i - 1, NEW S \in SUBSET (i..n),
           \A j, k \in i..n : k \in S /\ j < k => j \in S
    PROVE  Cardinality(S) \in 0..(n - i + 1) /\ S = i..(i + Cardinality(S) - 1)
<1>1. CASE S = {}
  BY <1>1, FS_EmptySet
<1>2. CASE S # {}
  <2>1. IsFiniteSet(i..n) /\ S \subseteq Int
    BY FS_Interval
  <2>2. IsFiniteSet(S)
    BY <2>1, FS_Subset
  <2>3. PICK m \in S : \A j \in S : j <= m
    BY <1>2, <2>1, <2>2, GreatestExists
  <2>4. m \in i..n
    OBVIOUS
  <2>5. S = i..m
    <3>1. ASSUME NEW j \in S PROVE j \in i..m
      BY <2>3
    <3>2. ASSUME NEW j \in i..m PROVE j \in S
      <4>1. j \in i..n /\ (j = m \/ j < m)
        BY <2>4
      <4> QED
        BY <4>1, <2>3, <2>4
    <3> QED
      BY <3>1, <3>2
  <2>6. Cardinality(i..m) = m - i + 1
    <3>1. i \in Int /\ m \in Int /\ i <= m
      BY <2>4
    <3> QED
      BY <3>1, FS_Interval
  <2> QED
    BY <2>4, <2>5, <2>6
<1> QED
  BY <1>1, <1>2

\* One cursor per term, each at one of its postings or past them, in the order
\* of the documents.
Cursors(cs) ==
  /\ cs \in Seq([term : DOMAIN index.query, at : Nat])
  /\ Len(cs) = Len(index.query)
  /\ \A i, j \in 1..Len(cs) : cs[i].term = cs[j].term => i = j
  /\ \A t \in DOMAIN index.query : \E i \in 1..Len(cs) : cs[i].term = t
  /\ \A i \in 1..Len(cs) : cs[i].at \in 1..(Len(Postings(cs[i].term)) + 1)
  /\ \A i, j \in 1..Len(cs) : i < j => Doc(cs[i]) <= Doc(cs[j])

\* A cursor is at a posting of its term, or past the last one.
LEMMA CursorIs ==
    ASSUME Here, NEW cs, Cursors(cs), NEW i \in 1..Len(cs)
    PROVE  /\ DOMAIN cs = 1..Len(cs) /\ Len(cs) \in Nat
           /\ cs[i] \in [term : DOMAIN index.query, at : Nat]
           /\ cs[i].term \in DOMAIN index.query
           /\ cs[i].at \in 1..(Len(Postings(cs[i].term)) + 1)
           /\ Doc(cs[i]) \in Nat
<1> DEFINE E == [term : DOMAIN index.query, at : Nat]
<1>1. cs \in Seq(E)
  BY DEF Cursors
<1>2. cs[i] \in E /\ DOMAIN cs = 1..Len(cs) /\ Len(cs) \in Nat
  <2> HIDE DEF E
  <2> QED
    BY <1>1
<1>3. cs[i].at \in 1..(Len(Postings(cs[i].term)) + 1)
  BY DEF Cursors
<1>4. cs[i].term \in DOMAIN index.query
  BY <1>2
<1> QED
  BY <1>2, <1>3, <1>4, DocIs

\* new is cs but that cursor i, as c, has come to be at place m.
Placed(cs, new, i, m, c) ==
  /\ new \in Seq([term : DOMAIN index.query, at : Nat]) /\ Len(new) = Len(cs)
  /\ i \in 1..Len(cs) /\ m \in i..Len(cs)
  /\ \A j \in 1..Len(cs) :
       new[j] = IF j < i THEN cs[j] ELSE IF j < m THEN cs[j + 1] ELSE IF j = m THEN c ELSE cs[j]
  /\ \A j \in (i + 1)..m : Doc(cs[j]) < Doc(c)
  /\ \A j \in (m + 1)..Len(cs) : Doc(c) <= Doc(cs[j])

\* Restoring the order after a move puts the cursor at some later place.
LEMMA MovedPlaces ==
    ASSUME Here, NEW cs, Cursors(cs), NEW i \in 1..Len(cs),
           NEW at \in 1..(Len(Postings(cs[i].term)) + 1)
    PROVE  \E m \in i..Len(cs) : Placed(cs, Moved(cs, i, at), i, m, [cs[i] EXCEPT !.at = at])
<1> DEFINE E == [term : DOMAIN index.query, at : Nat]
           n == Len(cs)
           c == [cs[i] EXCEPT !.at = at]
           others == RemoveAt(cs, i)
           passed == {j \in i..Len(others) : Doc(others[j]) < Doc(c)}
           k == Cardinality(passed)
           new == Moved(cs, i, at)
<1>1. cs \in Seq(E) /\ n \in Nat /\ DOMAIN cs = 1..n /\ i \in Nat /\ i >= 1 /\ i <= n
  BY CursorIs DEF Cursors
<1>2. c \in E /\ c.term = cs[i].term /\ c.at = at
  <2>1. cs[i] \in E
    BY CursorIs
  <2>2. at \in Nat
    BY HerePostings, CursorIs
  <2> QED
    BY <2>1, <2>2
<1>3. Doc(c) \in Nat
  BY <1>2, CursorIs, DocIs
<1>4. others \in Seq(E) /\ Len(others) = n - 1
      /\ \A j \in 1..(n - 1) : others[j] = IF j < i THEN cs[j] ELSE cs[j + 1]
  <2>1. cs \in Seq(E) /\ i \in 1..Len(cs)
    BY <1>1
  <2> HIDE DEF E
  <2>2. /\ RemoveAt(cs, i) \in Seq(E) /\ Len(RemoveAt(cs, i)) = Len(cs) - 1
        /\ \A j \in 1..(Len(cs) - 1) : RemoveAt(cs, i)[j] = IF j < i THEN cs[j] ELSE cs[j + 1]
    BY ONLY <2>1, RemoveAtIs
  <2> QED
    BY <2>2
<1>5. new = InsertAt(others, i + k, c)
  BY DEF Moved
<1> HIDE DEF E, c, others, new
<1>6. \A j \in i..(n - 1) : others[j] = cs[j + 1] /\ Doc(others[j]) \in Nat
  <2> SUFFICES ASSUME NEW j \in i..(n - 1) PROVE others[j] = cs[j + 1] /\ Doc(others[j]) \in Nat
    OBVIOUS
  <2>1. j \in 1..(n - 1) /\ ~ j < i /\ j + 1 \in 1..n
    BY <1>1
  <2>2. others[j] = cs[j + 1]
    BY <2>1, <1>4
  <2>3. Doc(cs[j + 1]) \in Nat
    BY <2>1, CursorIs
  <2> QED
    BY <2>2, <2>3
<1>7. \A j, l \in i..(n - 1) : j < l => Doc(others[j]) <= Doc(others[l])
  <2> SUFFICES ASSUME NEW j \in i..(n - 1), NEW l \in i..(n - 1), j < l
               PROVE  Doc(others[j]) <= Doc(others[l])
    OBVIOUS
  <2>1. j + 1 \in 1..n /\ l + 1 \in 1..n /\ j + 1 < l + 1
    BY <1>1
  <2>2. Doc(cs[j + 1]) <= Doc(cs[l + 1])
    BY <2>1 DEF Cursors
  <2> QED
    BY <2>2, <1>6
<1>8. k \in 0..(n - i) /\ passed = i..(i + k - 1)
  <2>1. passed \in SUBSET (i..(n - 1)) /\ passed = {j \in i..(n - 1) : Doc(others[j]) < Doc(c)}
    BY <1>4
  <2>2. \A j, l \in i..(n - 1) : l \in passed /\ j < l => j \in passed
    <3> SUFFICES ASSUME NEW j \in i..(n - 1), NEW l \in i..(n - 1), l \in passed, j < l
                 PROVE  j \in passed
      OBVIOUS
    <3>1. Doc(others[l]) < Doc(c) /\ Doc(others[j]) <= Doc(others[l])
      BY <1>7
    <3>2. Doc(others[j]) < Doc(c)
      BY <3>1, <1>3, <1>6
    <3> QED
      BY <3>2, <2>1
  <2> HIDE DEF passed
  <2>3. n - 1 \in Int /\ n - 1 >= i - 1 /\ (n - 1) - i + 1 = n - i
    BY <1>1
  <2>4. k \in 0..((n - 1) - i + 1) /\ passed = i..(i + k - 1)
    BY <2>1, <2>2, <2>3, <1>1, Gapless
  <2> QED
    BY <2>3, <2>4
<1>9. \A j \in i..(n - 1) : j < i + k <=> Doc(others[j]) < Doc(c)
  <2>1. \A j \in i..(n - 1) : j \in passed <=> Doc(others[j]) < Doc(c)
    BY <1>4
  <2> HIDE DEF passed, k
  <2> QED
    BY <2>1, <1>8, <1>1
<1> HIDE DEF k, passed
<1>10. new \in Seq(E) /\ Len(new) = n
       /\ \A j \in 1..n : new[j] = IF j < i + k THEN others[j] ELSE IF j = i + k THEN c
            ELSE others[j - 1]
  <2>1. i + k \in 1..(Len(others) + 1) /\ Len(others) + 1 = n
    BY <1>1, <1>4, <1>8
  <2>2. others \in Seq(E) /\ c \in E
    BY <1>2, <1>4
  <2> DEFINE p == i + k
  <2>3. p \in 1..(Len(others) + 1)
    BY <2>1
  <2>4. new = InsertAt(others, p, c)
    BY <1>5
  <2> HIDE DEF p
  <2>5. Inserted(InsertAt(others, p, c), E, others, p, c)
    BY ONLY <2>2, <2>3, InsertAtIs
  <2>6. Inserted(new, E, others, p, c)
    BY ONLY <2>4, <2>5
  <2> QED
    BY ONLY <2>1, <2>6 DEF Inserted, p
<1>11. ASSUME NEW j \in 1..n
       PROVE  new[j] = IF j < i THEN cs[j] ELSE IF j < i + k THEN cs[j + 1]
                       ELSE IF j = i + k THEN c ELSE cs[j]
  <2>1. CASE j < i
    <3>1. j < i + k /\ j \in 1..(n - 1)
      BY <2>1, <1>1, <1>8
    <3>2. new[j] = others[j] /\ others[j] = cs[j]
      BY <2>1, <3>1, <1>4, <1>10
    <3> QED
      BY <2>1, <3>2
  <2>2. CASE ~ j < i /\ j < i + k
    BY <2>2, <1>1, <1>4, <1>8, <1>10
  <2>3. CASE j = i + k
    BY <2>3, <1>1, <1>8, <1>10
  <2>4. CASE j > i + k
    <3>1. j - 1 \in 1..(n - 1) /\ ~ j - 1 < i /\ (j - 1) + 1 = j
      BY <2>4, <1>1, <1>8
    <3>2. new[j] = others[j - 1]
      BY <2>4, <1>1, <1>8, <1>10
    <3>3. others[j - 1] = cs[j]
      BY <3>1, <1>4
    <3> QED
      BY <2>4, <3>2, <3>3, <1>1, <1>8
  <2> QED
    BY <2>1, <2>2, <2>3, <2>4, <1>1, <1>8
<1>12. ASSUME NEW j \in (i + 1)..(i + k) PROVE Doc(cs[j]) < Doc(c)
  <2>1. j - 1 \in i..(n - 1) /\ j - 1 < i + k /\ (j - 1) + 1 = j
    BY <1>1, <1>8
  <2>2. others[j - 1] = cs[j]
    BY <2>1, <1>6
  <2> QED
    BY <2>1, <2>2, <1>9
<1>13. ASSUME NEW j \in (i + k + 1)..n PROVE Doc(c) <= Doc(cs[j])
  <2>1. j - 1 \in i..(n - 1) /\ ~ j - 1 < i + k /\ (j - 1) + 1 = j
    BY <1>1, <1>8
  <2>2. others[j - 1] = cs[j] /\ Doc(cs[j]) \in Nat
    BY <2>1, <1>6
  <2>3. ~ Doc(cs[j]) < Doc(c)
    BY <2>1, <2>2, <1>9
  <2> QED
    BY <2>2, <2>3, <1>3
<1>14. i + k \in i..n
  BY <1>1, <1>8
<1>15. Placed(cs, new, i, i + k, c)
  BY <1>1, <1>10, <1>11, <1>12, <1>13, <1>14 DEF Placed, E
<1> QED
  BY <1>14, <1>15 DEF c, new

\* A cursor that advances comes to a greater document.
LEMMA DocAdvances ==
    ASSUME Here, NEW b, NEW c, b.term \in DOMAIN index.query, c.term = b.term,
           b.at \in 1..(Len(Postings(b.term)) + 1), c.at \in b.at..(Len(Postings(b.term)) + 1)
    PROVE  /\ c.at \in 1..(Len(Postings(c.term)) + 1)
           /\ Doc(b) \in Nat /\ Doc(c) \in Nat /\ Doc(b) <= Doc(c)
           /\ b.at < c.at => Exhausted(c) \/ Doc(b) < Doc(c)
<1> DEFINE P == Postings(b.term)
<1>1. Len(P) \in Nat
  BY HerePostings
<1>2. c.at \in 1..(Len(Postings(c.term)) + 1)
  BY <1>1
<1>3. Doc(b) \in Nat /\ Doc(c) \in Nat /\ Doc(b) <= NoDoc
  BY <1>2, DocIs
<1>4. CASE Exhausted(c)
  <2>1. Doc(c) = NoDoc
    BY <1>2, <1>4, DocIs
  <2> QED
    BY <1>2, <1>3, <1>4, <2>1
<1>5. CASE ~Exhausted(c)
  <2>1. c.at \in 1..Len(P) /\ Doc(c) = P[c.at].doc
    BY <1>2, <1>5, DocIs
  <2>2. b.at \in 1..Len(P)
    BY <1>1, <2>1
  <2>3. ~Exhausted(b)
    BY <1>1, <2>2 DEF Exhausted
  <2>4. Doc(b) = P[b.at].doc
    BY <2>3, DocIs
  <2>5. \A i, j \in 1..Len(P) : i < j => P[i].doc < P[j].doc
    BY HerePostings
  <2>6. b.at = c.at \/ b.at < c.at
    BY <1>1, <2>1, <2>2
  <2>7. b.at < c.at => Doc(b) < Doc(c)
    BY <2>1, <2>2, <2>4, <2>5
  <2>8. b.at = c.at => Doc(b) = Doc(c)
    BY <2>1, <2>4
  <2> QED
    BY <1>2, <1>3, <2>6, <2>7, <2>8
<1> QED
  BY <1>4, <1>5

\* Cursor i goes forward and is put at place m.
Advanced(cs, new, i, m, c) ==
  /\ Placed(cs, new, i, m, c)
  /\ c = [cs[i] EXCEPT !.at = c.at]
  /\ c.at \in cs[i].at..(Len(Postings(cs[i].term)) + 1)

\* Where the cursor at place j was.
Origin(i, m, j) == IF j < i THEN j ELSE IF j < m THEN j + 1 ELSE IF j = m THEN i ELSE j

\* The cursors after one of them has advanced.
LEMMA AdvancedIs ==
    ASSUME Here, NEW cs, Cursors(cs), NEW i, NEW m, NEW c, NEW new, Advanced(cs, new, i, m, c)
    PROVE  /\ i \in 1..Len(cs) /\ m \in i..Len(cs) /\ Len(cs) \in Nat /\ Len(new) = Len(cs)
           /\ c.term = cs[i].term /\ c.at \in 1..(Len(Postings(c.term)) + 1)
           /\ Doc(c) \in Nat /\ Doc(cs[i]) <= Doc(c)
           /\ new[m] = c
           /\ \A j \in 1..Len(cs) : j # m =>
                Origin(i, m, j) \in 1..Len(cs) \ {i} /\ new[j] = cs[Origin(i, m, j)]
           /\ \A k \in 1..Len(cs) : k # i => \E j \in 1..Len(cs) \ {m} : Origin(i, m, j) = k
           /\ \A j, k \in 1..Len(cs) : Origin(i, m, j) = Origin(i, m, k) => j = k
<1>1. Placed(cs, new, i, m, c) /\ c = [cs[i] EXCEPT !.at = c.at]
      /\ c.at \in cs[i].at..(Len(Postings(cs[i].term)) + 1)
  BY DEF Advanced
<1>2. i \in 1..Len(cs) /\ m \in i..Len(cs) /\ Len(new) = Len(cs)
  BY <1>1 DEF Placed
<1>3. Len(cs) \in Nat /\ cs[i] \in [term : DOMAIN index.query, at : Nat]
      /\ cs[i].term \in DOMAIN index.query /\ cs[i].at \in 1..(Len(Postings(cs[i].term)) + 1)
  BY <1>2, CursorIs
<1>4. c.term = cs[i].term
  BY <1>1, <1>3
<1>5. c.at \in 1..(Len(Postings(c.term)) + 1) /\ Doc(c) \in Nat /\ Doc(cs[i]) <= Doc(c)
  BY <1>1, <1>3, <1>4, DocAdvances
<1>6. \A j \in 1..Len(cs) :
        new[j] = IF j < i THEN cs[j] ELSE IF j < m THEN cs[j + 1] ELSE IF j = m THEN c ELSE cs[j]
  BY <1>1 DEF Placed
<1>7. new[m] = c
  BY <1>2, <1>3, <1>6
<1>8. ASSUME NEW j \in 1..Len(cs), j # m
      PROVE  Origin(i, m, j) \in 1..Len(cs) \ {i} /\ new[j] = cs[Origin(i, m, j)]
  <2>1. Origin(i, m, j) \in 1..Len(cs) \ {i}
    BY <1>2, <1>3, <1>8 DEF Origin
  <2>2. new[j] = cs[Origin(i, m, j)]
    BY <1>6, <1>8 DEF Origin
  <2> QED
    BY <2>1, <2>2
<1>9. ASSUME NEW k \in 1..Len(cs), k # i PROVE \E j \in 1..Len(cs) \ {m} : Origin(i, m, j) = k
  <2> DEFINE j == IF k < i THEN k ELSE IF k <= m THEN k - 1 ELSE k
  <2>1. j \in 1..Len(cs) \ {m} /\ Origin(i, m, j) = k
    BY <1>2, <1>3, <1>9 DEF Origin
  <2> QED
    BY <2>1
<1>10. ASSUME NEW j \in 1..Len(cs), NEW k \in 1..Len(cs), Origin(i, m, j) = Origin(i, m, k)
       PROVE  j = k
  BY <1>2, <1>3, <1>10 DEF Origin
<1> QED
  BY <1>2, <1>3, <1>4, <1>5, <1>7, <1>8, <1>9, <1>10

\* They are in the order of their documents again.
LEMMA AdvancedCursors ==
    ASSUME Here, NEW cs, Cursors(cs), NEW i, NEW m, NEW c, NEW new, Advanced(cs, new, i, m, c)
    PROVE  Cursors(new)
<1> DEFINE n == Len(cs)
<1>0. /\ i \in 1..n /\ m \in i..n /\ n \in Nat /\ Len(new) = n
      /\ c.term = cs[i].term /\ c.at \in 1..(Len(Postings(c.term)) + 1)
      /\ Doc(c) \in Nat /\ Doc(cs[i]) <= Doc(c)
      /\ new[m] = c
  BY AdvancedIs
<1>1. \A j \in 1..n : j # m => Origin(i, m, j) \in 1..n \ {i} /\ new[j] = cs[Origin(i, m, j)]
  BY AdvancedIs
<1>2. \A k \in 1..n : k # i => \E j \in 1..n \ {m} : Origin(i, m, j) = k
  BY AdvancedIs
<1>3. \A j, k \in 1..n : Origin(i, m, j) = Origin(i, m, k) => j = k
  BY AdvancedIs
<1>4. Origin(i, m, m) = i
  BY <1>0 DEF Origin
<1>5. \A j \in 1..n : Origin(i, m, j) \in 1..n /\ new[j].term = cs[Origin(i, m, j)].term
  BY <1>0, <1>1, <1>4
<1>6. \A j, k \in 1..n : new[j].term = new[k].term => j = k
  <2> SUFFICES ASSUME NEW j \in 1..n, NEW k \in 1..n, new[j].term = new[k].term
               PROVE  j = k
    OBVIOUS
  <2> DEFINE a == Origin(i, m, j)
             b == Origin(i, m, k)
  <2>1. a \in 1..n /\ b \in 1..n /\ cs[a].term = cs[b].term
    <3>1. a \in 1..n /\ new[j].term = cs[a].term
      BY <1>5
    <3>2. b \in 1..n /\ new[k].term = cs[b].term
      BY <1>5
    <3> QED
      BY <3>1, <3>2
  <2> HIDE DEF a, b
  <2>2. a = b
    BY <2>1 DEF Cursors
  <2> QED
    BY <2>2, <1>3 DEF a, b
<1>7. \A t \in DOMAIN index.query : \E j \in 1..n : new[j].term = t
  <2> SUFFICES ASSUME NEW t \in DOMAIN index.query PROVE \E j \in 1..n : new[j].term = t
    OBVIOUS
  <2>1. PICK k \in 1..n : cs[k].term = t
    BY DEF Cursors
  <2>2. CASE k = i
    BY <2>1, <2>2, <1>0
  <2>3. CASE k # i
    BY <2>1, <2>3, <1>1, <1>2
  <2> QED
    BY <2>2, <2>3
<1>8. \A j \in 1..n : new[j].at \in 1..(Len(Postings(new[j].term)) + 1)
  <2> SUFFICES ASSUME NEW j \in 1..n PROVE new[j].at \in 1..(Len(Postings(new[j].term)) + 1)
    OBVIOUS
  <2>1. CASE j = m
    BY <2>1, <1>0
  <2>2. CASE j # m
    BY <2>2, <1>1 DEF Cursors
  <2> QED
    BY <2>1, <2>2
<1>9. \A j \in 1..n : Doc(cs[j]) \in Nat
  BY CursorIs
<1>10. \A j, k \in 1..n : j < k => Doc(cs[j]) <= Doc(cs[k])
  BY DEF Cursors
<1>11. /\ \A j \in (i + 1)..m : Doc(cs[j]) < Doc(c)
       /\ \A j \in (m + 1)..n : Doc(c) <= Doc(cs[j])
       /\ new \in Seq([term : DOMAIN index.query, at : Nat])
  BY DEF Advanced, Placed
<1> HIDE DEF n
<1>12. ASSUME NEW j \in 1..n, NEW k \in 1..n, j < k PROVE Doc(new[j]) <= Doc(new[k])
  <2>1. CASE k = m /\ j < i
    <3>1. new[j] = cs[j] /\ Doc(cs[j]) <= Doc(cs[i]) /\ new[k] = c
      <4>1. j # m /\ Origin(i, m, j) = j
        BY <1>0, <2>1 DEF Origin
      <4> QED
        BY <4>1, <1>0, <1>1, <1>10, <2>1
    <3> QED
      BY <3>1, <1>0, <1>9
  <2>2. CASE k = m /\ ~ j < i
    <3>1. j # m /\ Origin(i, m, j) = j + 1 /\ j + 1 \in (i + 1)..m
      BY <1>0, <1>12, <2>2 DEF Origin
    <3>2. new[j] = cs[j + 1] /\ Doc(cs[j + 1]) < Doc(c) /\ j + 1 \in 1..n
      BY <3>1, <1>0, <1>1, <1>11
    <3> QED
      BY <2>2, <3>2, <1>0, <1>9
  <2>3. CASE j = m
    <3>1. k # m /\ Origin(i, m, k) = k /\ k \in (m + 1)..n
      BY <1>0, <1>12, <2>3 DEF Origin
    <3> QED
      BY <2>3, <3>1, <1>0, <1>1, <1>11
  <2>4. CASE j # m /\ k # m
    <3>1. Origin(i, m, j) < Origin(i, m, k) /\ Origin(i, m, j) \in 1..n /\ Origin(i, m, k) \in 1..n
      BY <1>0, <1>12, <2>4 DEF Origin
    <3> QED
      BY <2>4, <3>1, <1>1, <1>10
  <2> QED
    BY <2>1, <2>2, <2>3, <2>4
<1>13. n = Len(index.query)
  BY DEF Cursors, n
<1> QED
  BY <1>0, <1>6, <1>7, <1>8, <1>11, <1>12, <1>13 DEF Cursors

\* The terms whose cursors are not past the end.
OpenTerms(cs) ==
  {t \in DOMAIN index.query : \E i \in 1..Len(cs) : cs[i].term = t /\ cs[i].at <= Len(Postings(t))}

\* One fewer is open exactly if the one that advanced is exhausted.
LEMMA AdvancedOpen ==
    ASSUME Here, NEW cs, Cursors(cs), NEW i, NEW m, NEW c, NEW new, Advanced(cs, new, i, m, c),
           ~Exhausted(cs[i])
    PROVE  /\ Cardinality(OpenTerms(cs)) \in Nat /\ Cardinality(OpenTerms(new)) \in Nat
           /\ Cardinality(OpenTerms(new)) =
                IF c.at > Len(Postings(cs[i].term)) THEN Cardinality(OpenTerms(cs)) - 1
                ELSE Cardinality(OpenTerms(cs))
<1> DEFINE n == Len(cs)
           A == OpenTerms(cs)
           B == OpenTerms(new)
<1>0. /\ i \in 1..n /\ m \in i..n /\ n \in Nat /\ Len(new) = n
      /\ c.term = cs[i].term /\ c.at \in 1..(Len(Postings(c.term)) + 1)
      /\ new[m] = c /\ m \in 1..n
  <2>1. i \in 1..n /\ m \in i..n /\ n \in Nat
    BY AdvancedIs
  <2>2. m \in 1..n
    BY <2>1
  <2> QED
    BY <2>1, <2>2, AdvancedIs
<1>1. \A j \in 1..n : j # m => Origin(i, m, j) \in 1..n \ {i} /\ new[j] = cs[Origin(i, m, j)]
  BY AdvancedIs
<1>2. \A k \in 1..n : k # i => \E j \in 1..n \ {m} : Origin(i, m, j) = k
  BY AdvancedIs
<1>3. \A j, k \in 1..n : cs[j].term = cs[k].term => j = k
  BY DEF Cursors
<1>4. cs[i].term \in DOMAIN index.query /\ Len(Postings(cs[i].term)) \in Nat
  BY <1>0, CursorIs, HerePostings
<1>5. cs[i].at <= Len(Postings(cs[i].term))
  <2>1. cs[i].at \in 1..(Len(Postings(cs[i].term)) + 1)
    BY <1>0, CursorIs
  <2>2. ~ cs[i].at > Len(Postings(cs[i].term))
    BY DEF Exhausted
  <2> QED
    BY <2>1, <2>2, <1>4
<1>6. cs[i].term \in A
  BY <1>0, <1>4, <1>5 DEF OpenTerms
<1>7. IsFiniteSet(A) /\ IsFiniteSet(B)
  <2>1. A \in SUBSET (DOMAIN index.query) /\ B \in SUBSET (DOMAIN index.query)
    BY DEF OpenTerms
  <2> QED
    BY <2>1, QueryIs, FS_Subset DEF Here
<1>8. ASSUME NEW t \in DOMAIN index.query, t # cs[i].term PROVE t \in A <=> t \in B
  <2>1. ASSUME t \in A PROVE t \in B
    <3>1. PICK k \in 1..n : cs[k].term = t /\ cs[k].at <= Len(Postings(t))
      BY <2>1 DEF OpenTerms
    <3>2. PICK j \in 1..n \ {m} : Origin(i, m, j) = k
      BY <1>2, <1>8, <3>1
    <3>3. new[j] = cs[k]
      BY <1>1, <3>2
    <3> QED
      BY <1>0, <3>1, <3>3 DEF OpenTerms
  <2>2. ASSUME t \in B PROVE t \in A
    <3>1. PICK j \in 1..n : new[j].term = t /\ new[j].at <= Len(Postings(t))
      BY <2>2, <1>0 DEF OpenTerms
    <3>2. j # m
      BY <1>0, <1>8, <3>1
    <3> QED
      BY <1>1, <3>1, <3>2 DEF OpenTerms
  <2> QED
    BY <2>1, <2>2
<1>9. cs[i].term \in B <=> c.at <= Len(Postings(cs[i].term))
  <2>1. ASSUME cs[i].term \in B PROVE c.at <= Len(Postings(cs[i].term))
    <3>1. PICK j \in 1..n : new[j].term = cs[i].term /\ new[j].at <= Len(Postings(cs[i].term))
      BY <2>1, <1>0 DEF OpenTerms
    <3>2. j = m
      BY <1>0, <1>1, <1>3, <3>1
    <3> QED
      BY <1>0, <3>1, <3>2
  <2>2. ASSUME c.at <= Len(Postings(cs[i].term)) PROVE cs[i].term \in B
    BY <1>0, <1>4, <2>2 DEF OpenTerms
  <2> QED
    BY <2>1, <2>2
<1>10. A \subseteq DOMAIN index.query /\ B \subseteq DOMAIN index.query
  BY DEF OpenTerms
<1>11. c.at \in Nat
  BY <1>0, <1>4
<1> HIDE DEF A, B, n
<1>12. Cardinality(A) \in Nat /\ Cardinality(B) \in Nat
  BY <1>7, FS_CardinalityType
<1>13. CASE c.at > Len(Postings(cs[i].term))
  <2>1. cs[i].term \notin B
    BY <1>4, <1>9, <1>11, <1>13
  <2>2. B = A \ {cs[i].term}
    BY <1>8, <1>10, <2>1
  <2>3. Cardinality(B) = Cardinality(A) - 1
    BY <1>6, <1>7, <2>2, FS_RemoveElement
  <2> QED
    BY <1>12, <1>13, <2>3 DEF A, B
<1>14. CASE ~ c.at > Len(Postings(cs[i].term))
  <2>1. cs[i].term \in B
    BY <1>4, <1>9, <1>11, <1>14
  <2>2. B = A
    BY <1>6, <1>8, <1>10, <2>1
  <2> QED
    BY <1>12, <1>14, <2>2 DEF A, B
<1> QED
  BY <1>13, <1>14

-----------------------------------------------------------------------------
(* Scores of documents, from the cursors that take part.                    *)

\* The place of a term's cursor.
PlaceOf(cs) == [t \in DOMAIN index.query |-> CHOOSE i \in 1..Len(cs) : cs[i].term = t]

\* Every term has one cursor.
LEMMA PlaceOfIs ==
    ASSUME Here, NEW cs, Cursors(cs)
    PROVE  /\ \A t \in DOMAIN index.query :
                PlaceOf(cs)[t] \in 1..Len(cs) /\ cs[PlaceOf(cs)[t]].term = t
           /\ \A i \in 1..Len(cs) : PlaceOf(cs)[cs[i].term] = i
<1>1. \A t \in DOMAIN index.query : \E i \in 1..Len(cs) : cs[i].term = t
  BY DEF Cursors
<1>2. \A i, j \in 1..Len(cs) : cs[i].term = cs[j].term => i = j
  BY DEF Cursors
<1>3. \A t \in DOMAIN index.query : PlaceOf(cs)[t] \in 1..Len(cs) /\ cs[PlaceOf(cs)[t]].term = t
  <2> SUFFICES ASSUME NEW t \in DOMAIN index.query
               PROVE  PlaceOf(cs)[t] \in 1..Len(cs) /\ cs[PlaceOf(cs)[t]].term = t
    OBVIOUS
  <2>1. PlaceOf(cs)[t] = CHOOSE i \in 1..Len(cs) : cs[i].term = t
    BY DEF PlaceOf
  <2> QED
    BY <2>1, <1>1
<1>4. \A i \in 1..Len(cs) : cs[i].term \in DOMAIN index.query
  BY CursorIs
<1> QED
  BY <1>2, <1>3, <1>4

\* Only leading cursors contribute, and no more than g.
LEMMA ScoreBounded ==
    ASSUME Here, NEW cs, Cursors(cs), NEW d, NEW m \in 0..Len(cs), NEW g \in [1..m -> Nat],
           \A i \in 1..Len(cs) : Share(index, seg, cs[i].term, d) > 0 =>
             i <= m /\ Share(index, seg, cs[i].term, d) <= g[i]
    PROVE  Score(index, seg, d) <= SumFunction(g)
<1> DEFINE S == DOMAIN index.query
           f == Shares(index, seg, d)
           R == 1..m
           h == PlaceOf(cs)
<1>0. WellFormed(index) /\ seg \in DOMAIN index.segments
  BY DEF Here
<1>1. IsFiniteSet(S) /\ f \in [S -> Nat]
  BY <1>0, QueryIs, ScoreIs
<1>2. m \in Nat /\ IsFiniteSet(R)
  <2>1. Len(cs) \in Nat
    BY <1>0, QueryIs DEF Cursors
  <2>2. m \in Int
    BY <2>1
  <2> QED
    BY <2>1, <2>2, FS_Interval
<1>3. \A t \in S : f[t] = Share(index, seg, t, d)
  BY DEF Shares
<1>4. \A t \in S : h[t] \in 1..Len(cs) /\ cs[h[t]].term = t
  BY PlaceOfIs
<1> HIDE DEF S, f, h
<1>5. \A t \in S : f[t] > 0 => h[t] \in R /\ f[t] <= g[h[t]]
  <2> SUFFICES ASSUME NEW t \in S, f[t] > 0 PROVE h[t] \in R /\ f[t] <= g[h[t]]
    OBVIOUS
  <2>1. Share(index, seg, cs[h[t]].term, d) > 0
    BY <1>3, <1>4
  <2>2. h[t] <= m /\ Share(index, seg, cs[h[t]].term, d) <= g[h[t]]
    BY <2>1, <1>4
  <2> QED
    BY <2>2, <1>2, <1>3, <1>4
<1>6. \A t, u \in S : f[t] > 0 /\ f[u] > 0 /\ h[t] = h[u] => t = u
  BY <1>4
<1> HIDE DEF R
<1>7. g \in [R -> Nat]
  BY DEF R
<1>8. SumFunction(f) <= SumFunction(g)
  BY ONLY <1>1, <1>2, <1>5, <1>6, <1>7, SumLeq
<1> QED
  BY <1>8 DEF Score, f

\* Exactly the leading cursors contribute, exactly g.
LEMMA ScoreExact ==
    ASSUME Here, NEW cs, Cursors(cs), NEW d, NEW m \in 0..Len(cs), NEW g \in [1..m -> Nat],
           \A i \in 1..Len(cs) : Share(index, seg, cs[i].term, d) > 0 => i <= m,
           \A i \in 1..m : g[i] = Share(index, seg, cs[i].term, d)
    PROVE  Score(index, seg, d) = SumFunction(g)
<1> DEFINE S == DOMAIN index.query
           f == Shares(index, seg, d)
           R == 1..m
           h == [i \in R |-> cs[i].term]
<1>0. WellFormed(index) /\ seg \in DOMAIN index.segments
  BY DEF Here
<1>1. IsFiniteSet(S) /\ f \in [S -> Nat]
  BY <1>0, QueryIs, ScoreIs
<1>2. m \in Nat /\ IsFiniteSet(R) /\ R \subseteq 1..Len(cs) /\ Len(cs) \in Nat
  <2>1. Len(cs) \in Nat
    BY <1>0, QueryIs DEF Cursors
  <2>2. m \in Int
    BY <2>1
  <2> QED
    BY <2>1, <2>2, FS_Interval
<1>3. \A t \in S : f[t] = Share(index, seg, t, d) /\ Share(index, seg, t, d) \in Nat
  BY <1>0, ShareIs DEF Shares
<1>4. \A i \in 1..Len(cs) : cs[i].term \in S
  BY CursorIs
<1>5. \A i, j \in 1..Len(cs) : cs[i].term = cs[j].term => i = j
  BY DEF Cursors
<1>6. Score(index, seg, d) <= SumFunction(g)
  <2>1. \A i \in 1..Len(cs) : Share(index, seg, cs[i].term, d) > 0 =>
          i <= m /\ Share(index, seg, cs[i].term, d) <= g[i]
    <3> SUFFICES ASSUME NEW i \in 1..Len(cs), Share(index, seg, cs[i].term, d) > 0
                 PROVE  i <= m /\ Share(index, seg, cs[i].term, d) <= g[i]
      OBVIOUS
    <3>1. i <= m /\ i \in 1..m
      BY <1>2
    <3>2. Share(index, seg, cs[i].term, d) \in Nat
      BY <1>3, <1>4
    <3> QED
      BY <3>1, <3>2
  <2> QED
    BY <2>1, ScoreBounded
<1> HIDE DEF S, f
<1>7. \A i \in R : g[i] > 0 => h[i] \in S /\ g[i] <= f[h[i]]
  <2> SUFFICES ASSUME NEW i \in R PROVE h[i] \in S /\ g[i] <= f[h[i]]
    OBVIOUS
  <2>1. h[i] = cs[i].term /\ h[i] \in S
    BY <1>2, <1>4
  <2>2. g[i] = f[h[i]] /\ f[h[i]] \in Nat
    BY <2>1, <1>3
  <2> QED
    BY <2>1, <2>2
<1>8. \A i, j \in R : g[i] > 0 /\ g[j] > 0 /\ h[i] = h[j] => i = j
  BY <1>2, <1>5
<1> HIDE DEF R, h
<1>9. g \in [R -> Nat]
  BY DEF R
<1>10. SumFunction(g) <= SumFunction(f)
  BY ONLY <1>1, <1>2, <1>7, <1>8, <1>9, SumLeq
<1>11. SumFunction(f) \in Nat /\ SumFunction(g) \in Nat
  BY <1>1, <1>2, <1>9, SumNat
<1>12. Score(index, seg, d) = SumFunction(f)
  BY DEF Score, f
<1> QED
  BY <1>6, <1>10, <1>11, <1>12

\* SumLess, its conditions under names.
Carries(h, f, S, g, R) ==
  /\ \A x \in S : f[x] > 0 => h[x] \in R /\ f[x] <= g[h[x]]
  /\ \A x, y \in S : f[x] > 0 /\ f[y] > 0 /\ h[x] = h[y] => x = y
Misses(h, f, S, z) == \A x \in S : f[x] > 0 => h[x] # z

\* A sum that lacks a positive summand is smaller.
LEMMA SumMisses ==
    ASSUME NEW S, IsFiniteSet(S), NEW f \in [S -> Nat],
           NEW R, IsFiniteSet(R), NEW g \in [R -> Nat],
           NEW h, Carries(h, f, S, g, R), NEW z \in R, g[z] > 0, Misses(h, f, S, z)
    PROVE  SumFunction(f) < SumFunction(g)
<1>1. \A x \in S : f[x] > 0 => h[x] \in R /\ f[x] <= g[h[x]]
  BY DEF Carries
<1>2. \A x, y \in S : f[x] > 0 /\ f[y] > 0 /\ h[x] = h[y] => x = y
  BY DEF Carries
<1>3. \A x \in S : f[x] > 0 => h[x] # z
  BY DEF Misses
<1> QED
  BY <1>1, <1>2, <1>3, SumLess

\* The leading cursors leave a term out.
LEMMA ScoreMissed ==
    ASSUME Here, NEW cs, Cursors(cs), NEW d, NEW m \in 0..Len(cs), NEW g \in [1..m -> Nat],
           \A i \in 1..m : g[i] = Share(index, seg, cs[i].term, d),
           NEW k \in 1..Len(cs), k > m, Share(index, seg, cs[k].term, d) > 0
    PROVE  SumFunction(g) < Score(index, seg, d)
<1> DEFINE S == DOMAIN index.query
           f == Shares(index, seg, d)
           R == 1..m
           h == [i \in R |-> cs[i].term]
           z == cs[k].term
<1>0. WellFormed(index) /\ seg \in DOMAIN index.segments
  BY DEF Here
<1>1. IsFiniteSet(S) /\ f \in [S -> Nat]
  BY <1>0, QueryIs, ScoreIs
<1>2. m \in Nat /\ IsFiniteSet(R) /\ R \subseteq 1..Len(cs) /\ k \notin R
  <2>1. Len(cs) \in Nat
    BY <1>0, QueryIs DEF Cursors
  <2>2. m \in Int
    BY <2>1
  <2>3. k \notin R
    BY <2>1
  <2> QED
    BY <2>1, <2>2, <2>3, FS_Interval
<1>3. \A t \in S : f[t] = Share(index, seg, t, d) /\ Share(index, seg, t, d) \in Nat
  BY <1>0, ShareIs DEF Shares
<1>4. \A i \in 1..Len(cs) : cs[i].term \in S
  BY CursorIs
<1>5. \A i, j \in 1..Len(cs) : cs[i].term = cs[j].term => i = j
  BY DEF Cursors
<1> HIDE DEF S, f
<1>7. \A i \in R : g[i] > 0 => h[i] \in S /\ g[i] <= f[h[i]]
  <2> SUFFICES ASSUME NEW i \in R PROVE h[i] \in S /\ g[i] <= f[h[i]]
    OBVIOUS
  <2>1. h[i] = cs[i].term /\ h[i] \in S
    BY <1>2, <1>4
  <2>2. g[i] = f[h[i]] /\ f[h[i]] \in Nat
    BY <2>1, <1>3
  <2> QED
    BY <2>1, <2>2
<1>8. \A i, j \in R : g[i] > 0 /\ g[j] > 0 /\ h[i] = h[j] => i = j
  BY <1>2, <1>5
<1>9. z \in S
  BY <1>4
<1>9b. f[z] > 0
  BY <1>3, <1>4
<1>10. \A i \in R : g[i] > 0 => h[i] # z
  BY <1>2, <1>5
<1> HIDE DEF R, h, z
<1>11. g \in [R -> Nat]
  BY DEF R
<1>12. Carries(h, g, R, f, S) /\ Misses(h, g, R, z)
  BY <1>7, <1>8, <1>10 DEF Carries, Misses
<1>13. SumFunction(g) < SumFunction(f)
  BY <1>1, <1>2, <1>9, <1>9b, <1>11, <1>12, SumMisses
<1> QED
  BY <1>13 DEF Score, f

-----------------------------------------------------------------------------
(* Documents that the cursors have not passed.                              *)

\* No cursor is past the document's posting of its term.
Intact(ix, s, cs, d) ==
  \A i \in 1..Len(cs) : \A k \in 1..Len(PostingsOf(ix, s, cs[i].term)) :
    PostingsOf(ix, s, cs[i].term)[k].doc = d => cs[i].at <= k

\* A cursor whose term is in such a document has come at most to it.
LEMMA IntactIs ==
    ASSUME Here, NEW cs, Cursors(cs), NEW d, Intact(index, seg, cs, d),
           NEW i \in 1..Len(cs), Share(index, seg, cs[i].term, d) > 0
    PROVE  /\ d \in Nat /\ d < NoDoc /\ d \in Docs(index, seg)
           /\ ~Exhausted(cs[i]) /\ Doc(cs[i]) <= d
           /\ Share(index, seg, cs[i].term, d) \in Nat
           /\ Share(index, seg, cs[i].term, d) <= MaxScore(cs[i].term)
           /\ \E k \in cs[i].at..Len(Postings(cs[i].term)) :
                /\ Postings(cs[i].term)[k].doc = d
                /\ Share(index, seg, cs[i].term, d)
                     = Contribution(cs[i].term, Postings(cs[i].term)[k])
<1> DEFINE t == cs[i].term
           P == Postings(t)
<1>1. t \in DOMAIN index.query /\ cs[i].at \in 1..(Len(P) + 1) /\ Doc(cs[i]) \in Nat
  BY CursorIs
<1>2. P = PostingsOf(index, seg, t) /\ Len(P) \in Nat
  BY <1>1, HerePostings
<1>3. WellFormed(index) /\ seg \in DOMAIN index.segments /\ weight = Weights(index)
  BY DEF Here
<1>4. PICK k \in 1..Len(P) : P[k].doc = d
  <2>1. \E k \in 1..Len(PostingsOf(index, seg, t)) : PostingsOf(index, seg, t)[k].doc = d
    BY <1>1, <1>3, ShareIs
  <2> HIDE DEF P
  <2> QED
    BY <2>1, <1>2
<1>5. d \in Nat /\ d < NoDoc /\ d \in Docs(index, seg)
  BY <1>1, <1>4, HerePostings
<1>6. cs[i].at <= k
  BY <1>2, <1>4 DEF Intact
<1>7. cs[i].at \in 1..Len(P) /\ k \in cs[i].at..Len(P)
  BY <1>1, <1>2, <1>4, <1>6
<1>8. ~Exhausted(cs[i]) /\ Doc(cs[i]) = P[cs[i].at].doc
  <2>1. ~Exhausted(cs[i])
    BY <1>2, <1>7 DEF Exhausted
  <2> QED
    BY <2>1, <1>1, DocIs
<1>9. Doc(cs[i]) <= d
  <2>1. P[cs[i].at].doc \in Nat /\ (cs[i].at < k => P[cs[i].at].doc < P[k].doc)
    BY <1>1, <1>4, <1>7, HerePostings
  <2>2. cs[i].at = k \/ cs[i].at < k
    BY <1>2, <1>7
  <2> QED
    BY <2>1, <2>2, <1>4, <1>5, <1>8
<1>10. Share(index, seg, t, d) = weight[t] * Saturation(P[k].tf, P[k].len)
  <2> DEFINE ps == PostingsOf(index, seg, t)
  <2>1. WellFormed(index) /\ seg \in DOMAIN index.segments /\ t \in DOMAIN index.query
        /\ k \in 1..Len(ps) /\ P = ps
    BY <1>1, <1>2, <1>3, <1>4
  <2>2. Share(index, seg, t, ps[k].doc) = Weights(index)[t] * Saturation(ps[k].tf, ps[k].len)
    BY ONLY <2>1, SharePosted
  <2> QED
    BY <2>1, <2>2, <1>3, <1>4
<1>11. Share(index, seg, t, d) = Contribution(t, P[k])
  BY <1>10 DEF Contribution
<1>12. Contribution(t, P[k]) \in Nat /\ Contribution(t, P[k]) <= MaxScore(t)
  BY <1>1, <1>4, MaxScoreIs
<1> QED
  BY <1>4, <1>5, <1>7, <1>8, <1>9, <1>11, <1>12

\* A document has a score only if it is in the postings of some cursor's term.
LEMMA ScoredIs ==
    ASSUME Here, NEW cs, Cursors(cs), NEW d, Score(index, seg, d) > 0
    PROVE  \E i \in 1..Len(cs) : Share(index, seg, cs[i].term, d) > 0
<1>1. PICK t \in DOMAIN index.query : Share(index, seg, t, d) > 0
  BY ScoreIs DEF Here
<1>2. PICK i \in 1..Len(cs) : cs[i].term = t
  BY DEF Cursors
<1> QED
  BY <1>1, <1>2

\* Where no cursor up to a document is a pivot, the document does not beat the
\* threshold.
LEMMA PivotBound ==
    ASSUME Here, Cursors(terms), NEW d, Intact(index, seg, terms, d), Score(index, seg, d) > 0,
           Threshold(heap, max_results) \in Nat,
           \A n \in 1..Len(terms) : Doc(terms[n]) <= d => ~Pivots(n)
    PROVE  Score(index, seg, d) <= Threshold(heap, max_results)
<1> DEFINE T == {i \in 1..Len(terms) : Share(index, seg, terms[i].term, d) > 0}
<1>1. Len(terms) \in Nat
  BY QueryIs DEF Cursors, Here
<1>2. T \subseteq Int /\ T # {} /\ IsFiniteSet(T)
  <2>1. T # {}
    BY ScoredIs
  <2>2. IsFiniteSet(1..Len(terms))
    BY <1>1, FS_Interval
  <2>3. T \in SUBSET (1..Len(terms))
    OBVIOUS
  <2> QED
    BY <2>1, <2>2, <2>3, FS_Subset
<1>3. PICK m \in T : \A i \in T : i <= m
  <2> HIDE DEF T
  <2> QED
    BY <1>2, GreatestExists
<1>4. m \in 1..Len(terms) /\ m \in 0..Len(terms)
  BY <1>1, <1>3
<1>5. ~Exhausted(terms[m]) /\ Doc(terms[m]) <= d
  BY <1>3, <1>4, IntactIs
<1> DEFINE g == [i \in 1..m |-> MaxScore(terms[i].term)]
<1>6. Doc(terms[m]) # NoDoc
  <2>1. terms[m].term \in DOMAIN index.query
          /\ terms[m].at \in 1..(Len(Postings(terms[m].term)) + 1)
    BY <1>4, CursorIs
  <2> QED
    BY <2>1, <1>5, DocIs
<1>7. ~ SumFunction(g) > Threshold(heap, max_results)
  BY <1>4, <1>5, <1>6 DEF Pivots
<1>8. g \in [1..m -> Nat]
  <2>1. \A i \in 1..m : i \in 1..Len(terms)
    BY <1>1, <1>4
  <2>2. \A i \in 1..m : MaxScore(terms[i].term) \in Nat
    BY <2>1, CursorIs, MaxScoreIs
  <2> QED
    BY <2>2
<1>9. \A i \in 1..Len(terms) : Share(index, seg, terms[i].term, d) > 0 =>
        i <= m /\ Share(index, seg, terms[i].term, d) <= g[i]
  <2> SUFFICES ASSUME NEW i \in 1..Len(terms), Share(index, seg, terms[i].term, d) > 0
               PROVE  i <= m /\ Share(index, seg, terms[i].term, d) <= g[i]
    OBVIOUS
  <2>1. i <= m /\ i \in 1..m
    BY <1>1, <1>3, <1>4
  <2>2. Share(index, seg, terms[i].term, d) <= MaxScore(terms[i].term)
    BY IntactIs
  <2> QED
    BY <2>1, <2>2
<1> HIDE DEF g
<1>10. Score(index, seg, d) <= SumFunction(g)
  BY <1>4, <1>8, <1>9, ScoreBounded
<1>11. IsFiniteSet(1..m)
  <2>1. m \in Int
    BY <1>1, <1>4
  <2> QED
    BY <2>1, FS_Interval
<1>12. SumFunction(g) \in Nat /\ Score(index, seg, d) \in Nat
  <2>1. SumFunction(g) \in Nat
    BY <1>8, <1>11, SumNat
  <2> QED
    BY <2>1, ScoreIs DEF Here
<1> QED
  BY <1>7, <1>10, <1>12

\* What the blocks of the leading cursors bound.
LEMMA BlockBound ==
    ASSUME Here, NEW cs, Cursors(cs), NEW d, Intact(index, seg, cs, d), NEW m \in 0..Len(cs),
           \A i \in 1..m : ~Exhausted(cs[i]) /\ d <= LastDoc(cs[i].term, BlockOf(cs[i])),
           \A i \in 1..Len(cs) : Share(index, seg, cs[i].term, d) > 0 => i <= m
    PROVE  /\ SumFunction([i \in 1..m |-> BlockMax(cs[i].term, BlockOf(cs[i]))]) \in Nat
           /\ Score(index, seg, d)
                <= SumFunction([i \in 1..m |-> BlockMax(cs[i].term, BlockOf(cs[i]))])
<1> DEFINE g == [i \in 1..m |-> BlockMax(cs[i].term, BlockOf(cs[i]))]
<1>1. Len(cs) \in Nat
  BY QueryIs DEF Cursors, Here
<1>2. ASSUME NEW i \in 1..m
      PROVE  /\ i \in 1..Len(cs) /\ cs[i].term \in DOMAIN index.query
             /\ cs[i].at \in 1..Len(Postings(cs[i].term))
             /\ BlockOf(cs[i]) \in 1..Blocks(cs[i].term)
             /\ cs[i].at \in FirstOf(BlockOf(cs[i]))..LastOf(cs[i].term, BlockOf(cs[i]))
             /\ BlockMax(cs[i].term, BlockOf(cs[i])) \in Nat
  <2>1. i \in 1..Len(cs)
    BY <1>1
  <2>2. cs[i].term \in DOMAIN index.query /\ cs[i].at \in 1..(Len(Postings(cs[i].term)) + 1)
    BY <2>1, CursorIs
  <2>3. cs[i].at \in 1..Len(Postings(cs[i].term))
    BY <2>2, DocIs
  <2>4. /\ BlockOf(cs[i]) \in 1..Blocks(cs[i].term)
        /\ cs[i].at \in FirstOf(BlockOf(cs[i]))..LastOf(cs[i].term, BlockOf(cs[i]))
    BY <2>2, <2>3, InBlock
  <2> QED
    BY <2>1, <2>2, <2>3, <2>4, BlockMaxIs
<1>3. g \in [1..m -> Nat]
  BY <1>2
<1>4. \A i \in 1..Len(cs) : Share(index, seg, cs[i].term, d) > 0 =>
        i <= m /\ Share(index, seg, cs[i].term, d) <= g[i]
  <2> SUFFICES ASSUME NEW i \in 1..Len(cs), Share(index, seg, cs[i].term, d) > 0
               PROVE  i <= m /\ Share(index, seg, cs[i].term, d) <= g[i]
    OBVIOUS
  <2> DEFINE t == cs[i].term
             b == BlockOf(cs[i])
             P == Postings(t)
  <2>1. i <= m /\ i \in 1..m
    BY <1>1
  <2>2. PICK k \in cs[i].at..Len(P) : P[k].doc = d
          /\ Share(index, seg, t, d) = Contribution(t, P[k])
    BY IntactIs
  <2>3. t \in DOMAIN index.query /\ b \in 1..Blocks(t) /\ cs[i].at \in FirstOf(b)..LastOf(t, b)
        /\ cs[i].at \in 1..Len(P)
    BY <1>2, <2>1
  <2>4. d <= LastDoc(t, b)
    BY <2>1
  <2>5. Len(P) \in Nat /\ LastOf(t, b) \in 1..Len(P) /\ FirstOf(b) \in 1..LastOf(t, b)
    BY <2>3, HerePostings, BlocksAre
  <2>6. k \in FirstOf(b)..LastOf(t, b)
    <3>1. k \in 1..Len(P) /\ k >= FirstOf(b)
      BY <2>3, <2>5
    <3>2. ASSUME LastOf(t, b) < k PROVE FALSE
      <4>1. P[LastOf(t, b)].doc < P[k].doc
        BY <2>3, <2>5, <3>1, <3>2, HerePostings
      <4>2. P[LastOf(t, b)].doc \in Nat /\ P[k].doc \in Nat
        BY <2>3, <2>5, <3>1, HerePostings
      <4>3. LastDoc(t, b) = P[LastOf(t, b)].doc
        BY DEF LastDoc
      <4> QED
        BY <4>1, <4>2, <4>3, <2>2, <2>4
    <3> QED
      BY <3>1, <3>2, <2>5
  <2>7. Contribution(t, P[k]) <= BlockMax(t, b)
    BY <2>3, <2>6, BlockMaxIs
  <2>8. g[i] = BlockMax(t, b)
    BY <2>1
  <2> QED
    BY <2>1, <2>2, <2>7, <2>8
<1>5. IsFiniteSet(1..m)
  <2>1. m \in Int
    BY <1>1
  <2> QED
    BY <2>1, FS_Interval
<1> HIDE DEF g
<1>6. Score(index, seg, d) <= SumFunction(g)
  BY <1>3, <1>4, ScoreBounded
<1>7. SumFunction(g) \in Nat
  BY <1>3, <1>5, SumNat
<1> QED
  BY <1>6, <1>7 DEF g

-----------------------------------------------------------------------------
(* The inductive invariant of a search. Its parts say of which variables     *)
(* they speak, so that they can be compared from state to state.             *)

DocIn(ix, s, c) ==
  IF c.at > Len(PostingsOf(ix, s, c.term)) THEN NoDoc ELSE PostingsOf(ix, s, c.term)[c.at].doc

CursorsIn(ix, s, cs) ==
  /\ cs \in Seq([term : DOMAIN ix.query, at : Nat])
  /\ Len(cs) = Len(ix.query)
  /\ \A i, j \in 1..Len(cs) : cs[i].term = cs[j].term => i = j
  /\ \A t \in DOMAIN ix.query : \E i \in 1..Len(cs) : cs[i].term = t
  /\ \A i \in 1..Len(cs) : cs[i].at \in 1..(Len(PostingsOf(ix, s, cs[i].term)) + 1)
  /\ \A i, j \in 1..Len(cs) : i < j => DocIn(ix, s, cs[i]) <= DocIn(ix, s, cs[j])

OpenIn(ix, s, cs) ==
  {t \in DOMAIN ix.query :
     \E i \in 1..Len(cs) : cs[i].term = t /\ cs[i].at <= Len(PostingsOf(ix, s, t))}

\* The parts of the invariant speak, in the segment that is searched, of its postings.
LEMMA InIs ==
    ASSUME NEW cs
    PROVE  /\ \A t : PostingsOf(index, seg, t) = Postings(t)
           /\ \A c : DocIn(index, seg, c) = Doc(c)
           /\ CursorsIn(index, seg, cs) <=> Cursors(cs)
           /\ OpenIn(index, seg, cs) = OpenTerms(cs)
<1>1. \A t : PostingsOf(index, seg, t) = Postings(t)
  BY DEF PostingsOf, Postings
<1>2. \A c : DocIn(index, seg, c) = Doc(c)
  BY <1>1 DEF DocIn, Doc, Exhausted
<1>3. CursorsIn(index, seg, cs) <=> Cursors(cs)
  <2> DEFINE A == \A i \in 1..Len(cs) : cs[i].at
                    \in 1..(Len(PostingsOf(index, seg, cs[i].term)) + 1)
             B == \A i \in 1..Len(cs) : cs[i].at \in 1..(Len(Postings(cs[i].term)) + 1)
             C == \A i, j \in 1..Len(cs) : i < j
                    => DocIn(index, seg, cs[i]) <= DocIn(index, seg, cs[j])
             D == \A i, j \in 1..Len(cs) : i < j => Doc(cs[i]) <= Doc(cs[j])
             X == /\ cs \in Seq([term : DOMAIN index.query, at : Nat])
                  /\ Len(cs) = Len(index.query)
                  /\ \A i, j \in 1..Len(cs) : cs[i].term = cs[j].term => i = j
                  /\ \A t \in DOMAIN index.query : \E i \in 1..Len(cs) : cs[i].term = t
  <2>1. A <=> B
    BY <1>1
  <2>2. C <=> D
    BY <1>2
  <2>3. CursorsIn(index, seg, cs) <=> X /\ A /\ C
    BY DEF CursorsIn
  <2>4. Cursors(cs) <=> X /\ B /\ D
    BY DEF Cursors
  <2> HIDE DEF A, B, C, D, X
  <2> QED
    BY <2>1, <2>2, <2>3, <2>4
<1>4. OpenIn(index, seg, cs) = OpenTerms(cs)
  BY <1>1 DEF OpenIn, OpenTerms
<1> QED
  BY <1>1, <1>2, <1>3, <1>4

\* The cursors of a segment are in order, and the open ones are counted.
CursorsKept(ix, s, cs, ac) ==
  IF s = 0 THEN cs = <<>> /\ ac = 0
  ELSE CursorsIn(ix, s, cs) /\ ac = Cardinality(OpenIn(ix, s, cs))

\* Behind the pivot's cursors are greater documents; once the seeks are over none
\* is before the pivot.
PivotKept(ix, s, st, cs, pv) ==
  /\ pv.len \in 0..Len(ix.query)
  /\ st \in {"seek", "bound", "advance"} =>
       /\ pv.len \in 1..Len(cs) /\ pv.doc \in Nat /\ pv.doc < NoDoc
       /\ \A i \in (pv.len + 1)..Len(cs) : pv.doc < DocIn(ix, s, cs[i])
  /\ st \in {"seek", "bound"} => DocIn(ix, s, cs[pv.len]) < NoDoc
  /\ st \in {"bound", "advance"} => \A i \in 1..Len(cs) : pv.doc <= DocIn(ix, s, cs[i])
  /\ st = "scan" => Len(ix.query) = 1 /\ DocIn(ix, s, cs[1]) < NoDoc

\* The search has passed a document of the segment.
Passed(ix, s, st, cs, pv, d) ==
  \/ st = "next"
  \/ ~Intact(ix, s, cs, d)
  \/ st \in {"seek", "bound"} /\ d < pv.doc
  \/ st = "advance" /\ d <= pv.doc

\* The entries that have been looked at or passed over.
Considered(ix, td, s, st, cs, pv) ==
  {e \in Entries(ix) :
     IF e.seg = 0 THEN ~\E d \in td : d.ctid = e.ctid
     ELSE e.seg < s \/ (e.seg = s /\ Passed(ix, s, st, cs, pv, e.doc))}

\* The heap has the best of them.
HeapKept(ix, k, td, s, st, cs, pv, h) ==
  Top(h, Entries(ix), Grade(ix), k, Considered(ix, td, s, st, cs, pv))

\* What is in the heap is from the segments so far, and from before the cursors.
FoundBefore(ix, s, st, cs, pv, h) ==
  \A x \in Range(h) :
    /\ x.seg <= s
    /\ x.seg = s /\ s > 0 /\ st = "advance" => x.doc <= pv.doc
    /\ x.seg = s /\ s > 0 /\ st \in {"scan", "pivot", "seek", "bound"} =>
         \A i \in 1..Len(cs) : x.doc < DocIn(ix, s, cs[i])

\* No document of the memtable that is in the heap is still to be scored.
FoundOnce(td, h) == \A x \in Range(h), d \in td : x.seg = 0 => d.ctid # x.ctid

\* The variables that say how far the search has come.
Control(ix, k, td, s, st) ==
  /\ WellFormed(ix)
  /\ k \in 1..MaxLimit
  /\ td \subseteq {d \in ix.memtable : \E t \in DOMAIN ix.query : d.tf[t] > 0}
  /\ s \in 0..Len(ix.segments)
  /\ st \in {"memtable", "next", "scan", "pivot", "seek", "bound", "advance", "done"}
  /\ st = "memtable" => s = 0
  /\ st \notin {"memtable", "done"} => td = {} /\ s > 0

\* A search that goes on.
Searching ==
  /\ Control(index, max_results, todo, seg, step)
  /\ step # "done"
  /\ weight = Weights(index)
  /\ CursorsKept(index, seg, terms, active)
  /\ PivotKept(index, seg, step, terms, pivot)
  /\ HeapKept(index, max_results, todo, seg, step, terms, pivot, heap)
  /\ FoundBefore(index, seg, step, terms, pivot, heap)
  /\ FoundOnce(todo, heap)

\* A search of a segment.
LEMMA InSegment ==
    ASSUME Searching, step # "memtable"
    PROVE  /\ Here /\ Cursors(terms) /\ active = Cardinality(OpenTerms(terms))
           /\ seg \in 1..Len(index.segments) /\ Len(index.segments) \in Nat /\ seg > 0 /\ todo = {}
           /\ Len(terms) = Len(index.query) /\ Len(terms) \in Nat
<1>1. WellFormed(index) /\ seg \in 0..Len(index.segments) /\ seg > 0 /\ todo = {}
  BY DEF Searching, Control
<1>2. DOMAIN index.segments = 1..Len(index.segments) /\ Len(index.segments) \in Nat
  BY <1>1, SegmentsAre
<1>3. seg \in 1..Len(index.segments)
  BY <1>1, <1>2
<1>4. Here
  BY <1>1, <1>2, <1>3 DEF Here, Searching
<1>5. CursorsIn(index, seg, terms) /\ active = Cardinality(OpenIn(index, seg, terms))
  BY <1>1 DEF Searching, CursorsKept
<1>6. Cursors(terms) /\ active = Cardinality(OpenTerms(terms))
  BY <1>5, InIs
<1>7. Len(terms) = Len(index.query) /\ Len(index.query) \in Nat
  BY <1>1, <1>6, QueryIs DEF Cursors
<1> QED
  BY <1>1, <1>2, <1>3, <1>4, <1>6, <1>7

\* The heap: its threshold, and its root.
LEMMA HeapIs ==
    ASSUME Searching
    PROVE  /\ max_results \in Nat \ {0}
           /\ heap \in Seq(Entries(index)) /\ Len(heap) \in Nat /\ Len(heap) <= max_results
           /\ \A x \in Range(heap) : x \in Entries(index)
           /\ Len(heap) > 0 => heap[1] \in Entries(index) /\ heap[1] \in Range(heap)
           /\ Threshold(heap, max_results) \in Nat
           /\ Threshold(heap, max_results) > 0 =>
                Len(heap) = max_results /\ Threshold(heap, max_results) = heap[1].score
<1>1. WellFormed(index) /\ max_results \in 1..MaxLimit
  BY DEF Searching, Control
<1>2. max_results \in Nat \ {0}
  BY <1>1, ScanAssumption
<1>3. heap \in Seq(Entries(index)) /\ Len(heap) <= max_results
  BY DEF Searching, HeapKept, Top, Heap
<1>4. Len(heap) \in Nat /\ DOMAIN heap = 1..Len(heap)
        /\ \A i \in 1..Len(heap) : heap[i] \in Entries(index)
  BY <1>3
<1>5. \A x \in Range(heap) : x \in Entries(index)
  BY <1>4 DEF Range
<1>6. Len(heap) > 0 => heap[1] \in Entries(index) /\ heap[1] \in Range(heap)
        /\ heap[1].score \in Nat
  <2> SUFFICES ASSUME Len(heap) > 0
               PROVE  heap[1] \in Entries(index) /\ heap[1] \in Range(heap) /\ heap[1].score \in Nat
    OBVIOUS
  <2>1. 1 \in 1..Len(heap)
    BY <1>4
  <2>2. heap[1] \in Entries(index) /\ heap[1] \in Range(heap)
    BY <2>1, <1>4 DEF Range
  <2> QED
    BY <2>2, <1>1, EntryIs
<1>7. Threshold(heap, max_results) = IF Len(heap) >= max_results THEN heap[1].score ELSE 0
  BY DEF Threshold
<1>8. CASE Len(heap) >= max_results
  <2>0. Len(heap) \in Nat /\ max_results \in Nat /\ max_results > 0 /\ Len(heap) <= max_results
    BY <1>2, <1>3, <1>4
  <2>1. Len(heap) = max_results /\ Len(heap) > 0
    BY ONLY <2>0, <1>8
  <2>2. Threshold(heap, max_results) = heap[1].score /\ heap[1].score \in Nat
    BY <1>6, <1>7, <1>8, <2>1
  <2> QED
    BY <1>2, <1>3, <1>4, <1>5, <1>6, <2>1, <2>2
<1>9. CASE ~ Len(heap) >= max_results
  <2>1. Threshold(heap, max_results) = 0
    BY <1>7, <1>9
  <2> QED
    BY <1>2, <1>3, <1>4, <1>5, <1>6, <2>1
<1> QED
  BY <1>8, <1>9

\* A document that need not be looked at.
Skippable(d) ==
  /\ Score(index, seg, d) <= Threshold(heap, max_results)
  /\ \A x \in Range(heap) : x.seg = seg => x.doc < d

\* An entry that is in the heap, or that the heap can do without.
Settled(e) ==
  e \in Range(heap) \/ (Len(heap) = max_results /\ Grade(index)[e] <= Grade(index)[heap[1]])

\* The heap can do without a document that need not be looked at.
LEMMA SkippableSettles ==
    ASSUME Searching, step # "memtable", NEW e \in Entries(index), e.seg = seg, Skippable(e.doc)
    PROVE  Settled(e)
<1>1. Here /\ seg > 0
  BY InSegment
<1>2. WellFormed(index)
  BY <1>1 DEF Here
<1>3. e.score = Score(index, seg, e.doc) /\ e.score \in Nat /\ e.score > 0
  BY <1>1, <1>2, EntryIs DEF OfSegment
<1>4. Threshold(heap, max_results) \in Nat /\ Threshold(heap, max_results) > 0
  BY <1>3, HeapIs DEF Skippable
<1>5. Len(heap) = max_results /\ Threshold(heap, max_results) = heap[1].score /\ Len(heap) > 0
  BY <1>4, HeapIs
<1>6. heap[1] \in Entries(index) /\ heap[1] \in Range(heap)
  BY <1>5, HeapIs
<1>7. e.score <= heap[1].score /\ (e.seg = heap[1].seg => e.seg # 0 /\ heap[1].doc < e.doc)
  BY <1>1, <1>3, <1>5, <1>6 DEF Skippable
<1>8. Grade(index)[e] <= Grade(index)[heap[1]]
  BY <1>2, <1>6, <1>7, GradesPassed
<1> QED
  BY <1>5, <1>8 DEF Settled

\* The heap is left as it is: what is newly passed may be skipped.
LEMMA HeapStays ==
    ASSUME Searching, step # "memtable", NEW st, NEW cs, NEW pv,
           \A d \in Docs(index, seg) :
             Score(index, seg, d) > 0 /\ Passed(index, seg, st, cs, pv, d) =>
               Passed(index, seg, step, terms, pivot, d) \/ Skippable(d)
    PROVE  HeapKept(index, max_results, todo, seg, st, cs, pv, heap)
<1> DEFINE E == Entries(index)
           C == Considered(index, todo, seg, step, terms, pivot)
           D == Considered(index, todo, seg, st, cs, pv)
<1>1. Here /\ seg > 0 /\ WellFormed(index)
  BY InSegment DEF Here
<1>2. Top(heap, E, Grade(index), max_results, C)
  BY DEF Searching, HeapKept
<1>3. ASSUME NEW e \in D PROVE Settled(e)
  <2>1. e \in E /\ (IF e.seg = 0 THEN ~\E d \in todo : d.ctid = e.ctid
                    ELSE e.seg < seg \/ (e.seg = seg /\ Passed(index, seg, st, cs, pv, e.doc)))
    BY DEF Considered
  <2>2. CASE e \in C
    BY <2>2, <1>2 DEF Top, Settled
  <2>3. CASE e \notin C
    <3>1. e.seg # 0 /\ e.seg = seg /\ Passed(index, seg, st, cs, pv, e.doc)
          /\ ~Passed(index, seg, step, terms, pivot, e.doc)
      BY <2>1, <2>3 DEF Considered
    <3>2. e.doc \in Docs(index, seg) /\ e.score = Score(index, seg, e.doc) /\ e.score > 0
      BY <1>1, <2>1, <3>1, EntryIs DEF OfSegment
    <3>3. Skippable(e.doc)
      BY <3>1, <3>2
    <3> QED
      BY <2>1, <3>1, <3>3, SkippableSettles
  <2> QED
    BY <2>2, <2>3
<1>4. Heap(heap, E, Grade(index), max_results)
  BY <1>2 DEF Top
<1> HIDE DEF D, E, C
<1>5. \A c \in D \ Range(heap) : Len(heap) = max_results /\ Grade(index)[c] <= Grade(index)[heap[1]]
  BY <1>3 DEF Settled
<1> QED
  BY <1>4, <1>5 DEF HeapKept, Top, D, E

\* The entry of a document is added: no other is newly passed.
LEMMA HeapAdds ==
    ASSUME Searching, step # "memtable", NEW st, NEW cs, NEW pv, NEW b \in Docs(index, seg),
           Score(index, seg, b) > 0,
           \A x \in Range(heap) : x.seg = seg => x.doc < b,
           \A d \in Docs(index, seg) :
             Score(index, seg, d) > 0 /\ Passed(index, seg, st, cs, pv, d) =>
               Passed(index, seg, step, terms, pivot, d) \/ d = b
    PROVE  LET h == Add(heap, max_results, FromSegment(seg, b, Score(index, seg, b)))
           IN  /\ HeapKept(index, max_results, todo, seg, st, cs, pv, h)
               /\ \A x \in Range(h) : x \in Range(heap) \/ (x.seg = seg /\ x.doc = b)
<1> DEFINE E == Entries(index)
           C == Considered(index, todo, seg, step, terms, pivot)
           D == Considered(index, todo, seg, st, cs, pv)
           e == FromSegment(seg, b, Score(index, seg, b))
           h == Add(heap, max_results, e)
           r == Grade(index)
<1>1. Here /\ seg > 0 /\ WellFormed(index) /\ seg \in DOMAIN index.segments
  BY InSegment DEF Here
<1>2. Top(heap, E, r, max_results, C) /\ C \in SUBSET E
  BY DEF Searching, HeapKept, Considered
<1>3. e \in E
  BY <1>1, EntriesHave
<1>4. e.seg = seg /\ e.doc = b
  BY DEF FromSegment
<1>5. e \notin Range(heap)
  <2>1. b \in Nat
    BY <1>1, SegmentIs
  <2> QED
    BY <1>4, <2>1
<1>6. Len(heap) = max_results => BeatsFairly(heap, r, e)
  <2> SUFFICES ASSUME Len(heap) = max_results PROVE BeatsFairly(heap, r, e)
    OBVIOUS
  <2>1. heap[1] \in E
    BY HeapIs
  <2> QED
    BY <1>1, <1>3, <2>1, GradesFairly
<1>7. max_results \in Nat \ {0} /\ Grades(r, E)
  BY <1>1, HeapIs, GradeIs
<1> HIDE DEF e, h, r, C
<1>8. Top(Add(heap, max_results, e), E, r, max_results, C \union {e})
      /\ Range(Add(heap, max_results, e)) \subseteq Range(heap) \union {e}
  BY <1>2, <1>3, <1>5, <1>6, <1>7, TopAdd
<1>9. D \subseteq C \union {e}
  <2> SUFFICES ASSUME NEW x \in D, x \notin C PROVE x = e
    OBVIOUS
  <2>1. x \in E /\ (IF x.seg = 0 THEN ~\E d \in todo : d.ctid = x.ctid
                    ELSE x.seg < seg \/ (x.seg = seg /\ Passed(index, seg, st, cs, pv, x.doc)))
    BY DEF Considered
  <2>2. x.seg # 0 /\ x.seg = seg /\ Passed(index, seg, st, cs, pv, x.doc)
        /\ ~Passed(index, seg, step, terms, pivot, x.doc)
    BY <2>1 DEF Considered, C
  <2>3. x.doc \in Docs(index, seg) /\ x.score = Score(index, seg, x.doc) /\ x.score > 0
    BY <1>1, <2>1, <2>2, EntryIs DEF OfSegment
  <2>4. x.doc = b
    BY <2>2, <2>3
  <2> QED
    BY <1>1, <1>3, <1>4, <2>1, <2>2, <2>4, EntriesDiffer
<1> HIDE DEF D, E
<1>10. Top(Add(heap, max_results, e), E, r, max_results, D)
  BY <1>8, <1>9 DEF Top
<1>11. \A x \in Range(Add(heap, max_results, e)) : x \in Range(heap) \/ (x.seg = seg /\ x.doc = b)
  BY <1>4, <1>8
<1> QED
  BY <1>10, <1>11 DEF HeapKept, D, E, e, r

-----------------------------------------------------------------------------
(* A cursor moves.                                                          *)

\* No document is before all cursors that was not before them already.
NotBefore(ix, s, cs, new) ==
  \A j \in 1..Len(new) : \E k \in 1..Len(cs) : DocIn(ix, s, cs[k]) <= DocIn(ix, s, new[j])

\* Moving one cursor keeps the others, and passes only the documents of its own postings.
LEMMA MoveIs ==
    ASSUME Searching, step # "memtable", NEW i \in 1..Len(terms), ~Exhausted(terms[i]),
           NEW at \in terms[i].at..(Len(Postings(terms[i].term)) + 1),
           NEW new, new = Moved(terms, i, at),
           NEW ac, ac = IF at > Len(Postings(terms[i].term)) THEN active - 1 ELSE active
    PROVE  /\ CursorsKept(index, seg, new, ac)
           /\ Cursors(new) /\ Len(new) = Len(terms)
           /\ NotBefore(index, seg, terms, new)
           /\ \E m \in i..Len(terms) : Advanced(terms, new, i, m, [terms[i] EXCEPT !.at = at])
           /\ \A d : Intact(index, seg, terms, d) /\ ~Intact(index, seg, new, d) =>
                \E k \in terms[i].at..(at - 1) : Postings(terms[i].term)[k].doc = d
<1> DEFINE n == Len(terms)
           c == [terms[i] EXCEPT !.at = at]
           t == terms[i].term
<1>1. Here /\ Cursors(terms) /\ active = Cardinality(OpenTerms(terms)) /\ seg > 0 /\ n \in Nat
  BY InSegment
<1>2. terms[i] \in [term : DOMAIN index.query, at : Nat] /\ t \in DOMAIN index.query
      /\ terms[i].at \in 1..(Len(Postings(t)) + 1)
  BY <1>1, CursorIs
<1>3. Len(Postings(t)) \in Nat
  BY <1>1, <1>2, HerePostings
<1>4. at \in 1..(Len(Postings(t)) + 1) /\ at \in Nat
  BY <1>2, <1>3
<1>5. c.at = at /\ c.term = t
  BY <1>2
<1>6. PICK m \in i..n : Placed(terms, new, i, m, c)
  BY <1>1, <1>4, MovedPlaces
<1> HIDE DEF c
<1>7. Advanced(terms, new, i, m, c)
  BY <1>5, <1>6 DEF Advanced, c
<1>8. Cursors(new)
  BY <1>1, <1>7, AdvancedCursors
<1>9. /\ i \in 1..n /\ m \in i..n /\ Len(new) = n
      /\ Doc(c) \in Nat /\ Doc(terms[i]) <= Doc(c) /\ new[m] = c
      /\ \A j \in 1..n : j # m => Origin(i, m, j) \in 1..n \ {i} /\ new[j] = terms[Origin(i, m, j)]
  BY <1>1, <1>7, AdvancedIs
<1>10. CursorsKept(index, seg, new, ac)
  <2>1. /\ Cardinality(OpenTerms(new))
             = IF c.at > Len(Postings(t)) THEN Cardinality(OpenTerms(terms)) - 1
                                         ELSE Cardinality(OpenTerms(terms))
    BY <1>1, <1>7, AdvancedOpen
  <2>2. ac = Cardinality(OpenTerms(new))
    BY <1>1, <1>5, <2>1
  <2>3. CursorsIn(index, seg, new) /\ ac = Cardinality(OpenIn(index, seg, new))
    BY <1>8, <2>2, InIs
  <2>4. seg # 0
    BY <1>1
  <2> QED
    BY <2>3, <2>4 DEF CursorsKept
<1>11. NotBefore(index, seg, terms, new)
  <2> SUFFICES ASSUME NEW j \in 1..n
               PROVE  \E k \in 1..n : DocIn(index, seg, terms[k]) <= DocIn(index, seg, new[j])
    BY <1>9 DEF NotBefore
  <2>1. CASE j = m
    BY <2>1, <1>9, InIs
  <2>2. CASE j # m
    <3> DEFINE k == Origin(i, m, j)
    <3>1. k \in 1..n /\ new[j] = terms[k]
      BY <2>2, <1>9
    <3> HIDE DEF k
    <3>2. Doc(terms[k]) \in Nat
      BY <1>1, <3>1, CursorIs
    <3>3. DocIn(index, seg, terms[k]) = Doc(terms[k])
      BY InIs
    <3>4. DocIn(index, seg, terms[k]) <= DocIn(index, seg, new[j])
      BY <3>1, <3>2, <3>3
    <3> QED
      BY <3>1, <3>4
  <2> QED
    BY <2>1, <2>2
<1>12. ASSUME NEW d, Intact(index, seg, terms, d), ~Intact(index, seg, new, d)
       PROVE  \E k \in terms[i].at..(at - 1) : Postings(t)[k].doc = d
  <2>1. PICK j \in 1..n : \E k \in 1..Len(PostingsOf(index, seg, new[j].term)) :
          PostingsOf(index, seg, new[j].term)[k].doc = d /\ ~ new[j].at <= k
    BY <1>9, <1>12 DEF Intact
  <2>2. CASE j # m
    <3> DEFINE o == Origin(i, m, j)
    <3>1. o \in 1..n /\ new[j] = terms[o]
      BY <2>2, <1>9
    <3> HIDE DEF o
    <3>2. PICK k \in 1..Len(PostingsOf(index, seg, terms[o].term)) :
            PostingsOf(index, seg, terms[o].term)[k].doc = d /\ ~ terms[o].at <= k
      BY <2>1, <3>1
    <3> QED
      BY <3>1, <3>2, <1>12 DEF Intact
  <2>3. CASE j = m
    <3>1. new[j] = c
      BY <2>3, <1>9
    <3>2. PICK k \in 1..Len(PostingsOf(index, seg, t)) :
            PostingsOf(index, seg, t)[k].doc = d /\ ~ at <= k
      BY <2>1, <3>1, <1>5
    <3>3. PostingsOf(index, seg, t) = Postings(t)
      BY InIs
    <3>4. terms[i].at <= k
      BY <3>2, <1>9, <1>12 DEF Intact
    <3>5. k \in Nat
      BY <3>2, <3>3, <1>3
    <3>6. k \in terms[i].at..(at - 1)
      BY <3>2, <3>4, <3>5, <1>2, <1>3, <1>4
    <3> QED
      BY <3>2, <3>3, <3>6
  <2> QED
    BY <2>2, <2>3
<1> QED
  BY <1>7, <1>8, <1>9, <1>10, <1>11, <1>12 DEF c

\* What was found before the cursors stays before them.
LEMMA FoundStays ==
    ASSUME Searching, step \in {"scan", "pivot", "seek", "bound"}, NEW st, st # "advance", NEW pv,
           NEW new, Cursors(new), NotBefore(index, seg, terms, new)
    PROVE  FoundBefore(index, seg, st, new, pv, heap)
<1>1. Here /\ Cursors(terms) /\ seg > 0 /\ WellFormed(index)
  BY InSegment DEF Here
<1>2. FoundBefore(index, seg, step, terms, pivot, heap)
  BY DEF Searching
<1>3. ASSUME NEW x \in Range(heap), x.seg = seg, NEW j \in 1..Len(new)
      PROVE  x.doc < DocIn(index, seg, new[j])
  <2>1. PICK k \in 1..Len(terms) : DocIn(index, seg, terms[k]) <= DocIn(index, seg, new[j])
    BY DEF NotBefore
  <2>2. x.doc < DocIn(index, seg, terms[k])
    BY <1>1, <1>2, <1>3 DEF FoundBefore
  <2>3. DocIn(index, seg, terms[k]) \in Nat /\ DocIn(index, seg, new[j]) \in Nat
    BY <1>1, CursorIs, InIs
  <2>4. x.doc \in Nat
    BY <1>1, HeapIs, EntryIs
  <2> QED
    BY <2>1, <2>2, <2>3, <2>4
<1> QED
  BY <1>2, <1>3 DEF FoundBefore

-----------------------------------------------------------------------------
(* The steps of a search in a segment.                                      *)

\* The parts of the invariant, after a step inside a segment.
LEMMA GoesOn ==
    ASSUME Searching, step # "memtable", UNCHANGED <<index, max_results, weight, todo, seg>>,
           step' \in {"next", "scan", "pivot", "seek", "bound", "advance"},
           CursorsKept(index, seg, terms', active'),
           PivotKept(index, seg, step', terms', pivot'),
           HeapKept(index, max_results, todo, seg, step', terms', pivot', heap'),
           FoundBefore(index, seg, step', terms', pivot', heap')
    PROVE  Searching'
<1>1. Control(index, max_results, todo, seg, step') /\ todo = {}
  BY InSegment DEF Searching, Control
<1>2. FoundOnce(todo, heap')
  BY <1>1 DEF FoundOnce
<1> QED
  BY <1>1, <1>2 DEF Searching

\* A document that is not passed comes after all that was found in the segment.
LEMMA Unseen ==
    ASSUME Searching, step \in {"scan", "pivot", "seek", "bound"}, NEW d,
           Intact(index, seg, terms, d), Score(index, seg, d) > 0
    PROVE  /\ d \in Nat
           /\ \A x \in Range(heap) : x.seg = seg => x.doc < d
           /\ \E i \in 1..Len(terms) : ~Exhausted(terms[i]) /\ Doc(terms[i]) <= d
<1>1. Here /\ Cursors(terms) /\ seg > 0 /\ WellFormed(index)
  BY InSegment DEF Here
<1>2. PICK i \in 1..Len(terms) : Share(index, seg, terms[i].term, d) > 0
  BY <1>1, ScoredIs
<1>3. d \in Nat /\ ~Exhausted(terms[i]) /\ Doc(terms[i]) <= d
  BY <1>1, <1>2, IntactIs
<1>4. ASSUME NEW x \in Range(heap), x.seg = seg PROVE x.doc < d
  <2>1. x.doc < DocIn(index, seg, terms[i])
    BY <1>1, <1>4 DEF Searching, FoundBefore
  <2>2. DocIn(index, seg, terms[i]) = Doc(terms[i]) /\ Doc(terms[i]) \in Nat
    BY <1>1, CursorIs, InIs
  <2>3. x.doc \in Nat
    BY <1>1, HeapIs, EntryIs
  <2> QED
    BY <2>1, <2>2, <2>3, <1>3
<1> QED
  BY <1>3, <1>4

\* The cursors, in the order of their documents.
LEMMA CursorsOrdered ==
    ASSUME Here, NEW cs, Cursors(cs), NEW i \in 1..Len(cs), NEW j \in 1..Len(cs), i <= j
    PROVE  Doc(cs[i]) <= Doc(cs[j]) /\ Doc(cs[i]) \in Nat /\ Doc(cs[j]) \in Nat
<1>1. Doc(cs[i]) \in Nat /\ Doc(cs[j]) \in Nat
  BY CursorIs
<1>2. i = j \/ i < j
  OBVIOUS
<1>3. i < j => Doc(cs[i]) <= Doc(cs[j])
  BY DEF Cursors
<1> QED
  BY <1>1, <1>2, <1>3

\* What PivotKept says, of the documents of the cursors.
LEMMA PivotIs ==
    ASSUME Searching, step \in {"seek", "bound", "advance"}
    PROVE  /\ pivot.len \in 1..Len(terms) /\ pivot.doc \in Nat /\ pivot.doc < NoDoc
           /\ pivot.len \in Nat /\ pivot.len <= Len(terms)
           /\ \A i \in (pivot.len + 1)..Len(terms) : pivot.doc < Doc(terms[i])
           /\ step # "advance" => Doc(terms[pivot.len]) < NoDoc
           /\ step # "seek" => \A i \in 1..Len(terms) : pivot.doc <= Doc(terms[i])
<1>1. PivotKept(index, seg, step, terms, pivot)
  BY DEF Searching
<1>2. \A c : DocIn(index, seg, c) = Doc(c)
  BY InIs
<1>3. Len(terms) \in Nat
  BY InSegment
<1>4. pivot.len \in 1..Len(terms) /\ pivot.doc \in Nat /\ pivot.doc < NoDoc
      /\ \A i \in (pivot.len + 1)..Len(terms) : pivot.doc < DocIn(index, seg, terms[i])
  BY <1>1 DEF PivotKept
<1>5. step # "advance" => DocIn(index, seg, terms[pivot.len]) < NoDoc
  BY <1>1 DEF PivotKept
<1>6. step # "seek" => \A i \in 1..Len(terms) : pivot.doc <= DocIn(index, seg, terms[i])
  BY <1>1 DEF PivotKept
<1> QED
  BY <1>2, <1>3, <1>4, <1>5, <1>6

\* find_pivot keeps the invariant: it passes nothing.
LEMMA FindPivotGoes ==
    ASSUME Searching, FindPivot
    PROVE  Searching'
<1> DEFINE S == {i \in DOMAIN terms : Pivots(i)}
           n == Min(S)
           doc == Doc(terms[n])
           T == {i \in DOMAIN terms : Doc(terms[i]) = doc}
<1>1. /\ step = "pivot" /\ step' = "seek"
      /\ S # {}
      /\ pivot' = [len |-> Max(T), doc |-> doc]
      /\ UNCHANGED <<index, max_results, weight, heap, todo, seg, terms, active>>
  BY DEF FindPivot
<1>2. /\ Here /\ Cursors(terms) /\ seg > 0 /\ Len(terms) \in Nat
      /\ Len(terms) = Len(index.query)
  BY <1>1, InSegment
<1>3. DOMAIN terms = 1..Len(terms)
  BY <1>2 DEF Cursors
<1>4. IsFiniteSet(1..Len(terms)) /\ 1..Len(terms) \subseteq Int
  BY <1>2, FS_Interval
<1>5. n \in S /\ \A i \in S : n <= i
  <2>1. S \in SUBSET (1..Len(terms))
    BY <1>3
  <2>2. S \subseteq Int /\ IsFiniteSet(S)
    BY <2>1, <1>4, FS_Subset
  <2> HIDE DEF S
  <2> QED
    BY <1>1, <2>2, MinIs
<1>6. n \in 1..Len(terms) /\ Doc(terms[n]) # NoDoc
  BY <1>3, <1>5 DEF Pivots
<1> HIDE DEF n
<1>7. Max(T) \in T /\ \A i \in T : i <= Max(T)
  <2>1. T \in SUBSET (1..Len(terms)) /\ n \in T
    BY <1>3, <1>6
  <2>2. T \subseteq Int /\ IsFiniteSet(T) /\ T # {}
    BY <2>1, <1>4, FS_Subset
  <2> HIDE DEF T
  <2> QED
    BY <2>2, MaxIs
<1>8. pivot'.len \in 1..Len(terms) /\ pivot'.len \in T /\ pivot'.doc = doc /\ n <= pivot'.len
  BY <1>1, <1>3, <1>6, <1>7
<1>9. doc \in Nat /\ doc < NoDoc
  <2>1. terms[n].term \in DOMAIN index.query
          /\ terms[n].at \in 1..(Len(Postings(terms[n].term)) + 1)
    BY <1>2, <1>6, CursorIs
  <2>2. doc \in Nat /\ doc <= NoDoc
    BY <1>2, <2>1, DocIs
  <2> QED
    BY <2>2, <1>6, BlockAssumption
<1>10. ASSUME NEW i \in (pivot'.len + 1)..Len(terms) PROVE doc < Doc(terms[i])
  <2>1. i \in 1..Len(terms) /\ n <= i /\ i > pivot'.len
    BY <1>2, <1>6, <1>8, <1>10
  <2>2. doc <= Doc(terms[i]) /\ Doc(terms[i]) \in Nat
    BY <1>2, <1>6, <2>1, CursorsOrdered
  <2>3. Doc(terms[i]) # doc
    <3> SUFFICES ASSUME Doc(terms[i]) = doc PROVE FALSE
      OBVIOUS
    <3>1. i \in T
      BY <1>3, <2>1
    <3>2. i <= pivot'.len
      BY <1>1, <1>7, <3>1
    <3> QED
      BY <2>1, <3>2, <1>2, <1>8
  <2> QED
    BY <2>2, <2>3, <1>9
<1>11. PivotKept(index, seg, step', terms', pivot')
  <2>1. \A c : DocIn(index, seg, c) = Doc(c)
    BY InIs
  <2>2. Doc(terms[pivot'.len]) = doc
    BY <1>8
  <2>3. pivot'.len \in 0..Len(index.query)
    BY <1>2, <1>8
  <2> QED
    BY <1>1, <1>8, <1>9, <1>10, <2>1, <2>2, <2>3 DEF PivotKept
<1>12. HeapKept(index, max_results, todo, seg, step', terms', pivot', heap')
  <2>1. ASSUME NEW d \in Docs(index, seg), Score(index, seg, d) > 0,
               Passed(index, seg, step', terms', pivot', d),
               ~Passed(index, seg, step, terms, pivot, d)
        PROVE  Skippable(d)
    <3>1. Intact(index, seg, terms, d)
      BY <2>1 DEF Passed
    <3>2. d < doc
      BY <2>1, <3>1, <1>1 DEF Passed
    <3>3. d \in Nat /\ \A x \in Range(heap) : x.seg = seg => x.doc < d
      BY <2>1, <3>1, <1>1, Unseen
    <3>4. ASSUME NEW k \in 1..Len(terms), Doc(terms[k]) <= d, Pivots(k) PROVE FALSE
      <4>1. n <= k
        BY <3>4, <1>3, <1>5
      <4>2. doc <= Doc(terms[k]) /\ Doc(terms[k]) \in Nat
        BY <4>1, <1>2, <1>6, CursorsOrdered
      <4> QED
        BY <4>2, <3>2, <3>3, <3>4, <1>9
    <3>5. Score(index, seg, d) <= Threshold(heap, max_results)
      BY <1>2, <2>1, <3>1, <3>4, HeapIs, PivotBound
    <3> QED
      BY <3>3, <3>5 DEF Skippable
  <2> HIDE DEF doc, S, T
  <2>2. HeapKept(index, max_results, todo, seg, step', terms', pivot', heap)
    BY <2>1, <1>1, HeapStays
  <2> QED
    BY <2>2, <1>1
<1>13. FoundBefore(index, seg, step', terms', pivot', heap')
  BY <1>1 DEF Searching, FoundBefore
<1>14. CursorsKept(index, seg, terms', active')
  BY <1>1 DEF Searching
<1> QED
  BY <1>1, <1>11, <1>12, <1>13, <1>14, GoesOn

\* Where no cursor can be a pivot, nothing of the segment is missed.
LEMMA LeaveSegmentGoes ==
    ASSUME Searching, LeaveSegment
    PROVE  Searching'
<1>1. /\ step = "pivot" /\ step' = "next"
      /\ active = 0 \/ ~\E i \in DOMAIN terms : Pivots(i)
      /\ UNCHANGED <<index, max_results, weight, heap, todo, seg, terms, active, pivot>>
  BY DEF LeaveSegment
<1>2. /\ Here /\ Cursors(terms) /\ seg > 0 /\ Len(terms) \in Nat
      /\ active = Cardinality(OpenTerms(terms))
  BY <1>1, InSegment
<1>3. DOMAIN terms = 1..Len(terms)
  BY <1>2 DEF Cursors
<1>4. PivotKept(index, seg, step', terms', pivot')
  BY <1>1 DEF Searching, PivotKept
<1>5. FoundBefore(index, seg, step', terms', pivot', heap')
  BY <1>1 DEF Searching, FoundBefore
<1>6. ASSUME NEW d \in Docs(index, seg), Score(index, seg, d) > 0,
             ~Passed(index, seg, step, terms, pivot, d)
      PROVE  Skippable(d)
  <2>1. Intact(index, seg, terms, d)
    BY <1>6 DEF Passed
  <2>2. /\ d \in Nat /\ \A x \in Range(heap) : x.seg = seg => x.doc < d
        /\ \E i \in 1..Len(terms) : ~Exhausted(terms[i]) /\ Doc(terms[i]) <= d
    BY <1>1, <1>6, <2>1, Unseen
  <2>3. active # 0
    <3>1. PICK i \in 1..Len(terms) : ~Exhausted(terms[i])
      BY <2>2
    <3>2. terms[i].term \in DOMAIN index.query /\ Len(Postings(terms[i].term)) \in Nat
          /\ terms[i].at \in 1..(Len(Postings(terms[i].term)) + 1)
      BY <1>2, CursorIs, HerePostings
    <3>3. terms[i].at <= Len(Postings(terms[i].term))
      BY <3>1, <3>2 DEF Exhausted
    <3>4. terms[i].term \in OpenTerms(terms)
      BY <3>2, <3>3 DEF OpenTerms
    <3>5. OpenTerms(terms) \in SUBSET (DOMAIN index.query) /\ IsFiniteSet(DOMAIN index.query)
      BY <1>2, QueryIs DEF OpenTerms, Here
    <3>6. IsFiniteSet(OpenTerms(terms))
      BY <3>5, FS_Subset
    <3> QED
      BY <1>2, <3>4, <3>6, FS_EmptySet
  <2>4. \A n \in 1..Len(terms) : Doc(terms[n]) <= d => ~Pivots(n)
    BY <1>1, <1>3, <2>3
  <2>5. Score(index, seg, d) <= Threshold(heap, max_results)
    BY <1>2, <1>6, <2>1, <2>4, HeapIs, PivotBound
  <2> QED
    BY <2>2, <2>5 DEF Skippable
<1>7. HeapKept(index, max_results, todo, seg, step', terms', pivot', heap)
  BY <1>1, <1>6, HeapStays
<1>8. CursorsKept(index, seg, terms', active')
  BY <1>1 DEF Searching
<1> QED
  BY <1>1, <1>4, <1>5, <1>7, <1>8, GoesOn

\* So does looking for a pivot again, where the cursors have moved past it.
LEMMA RepivotGoes ==
    ASSUME Searching, Repivot
    PROVE  Searching'
<1>1. /\ step = "bound" /\ step' = "pivot"
      /\ UNCHANGED <<index, max_results, weight, heap, todo, seg, terms, active, pivot>>
  BY DEF Repivot
<1>4. PivotKept(index, seg, step', terms', pivot')
  BY <1>1 DEF Searching, PivotKept
<1>5. FoundBefore(index, seg, step', terms', pivot', heap')
  BY <1>1 DEF Searching, FoundBefore
<1>6. \A d : Passed(index, seg, step', terms', pivot', d)
        => Passed(index, seg, step, terms, pivot, d)
  BY <1>1 DEF Passed
<1>7. HeapKept(index, max_results, todo, seg, step', terms', pivot', heap)
  BY <1>1, <1>6, HeapStays
<1>8. CursorsKept(index, seg, terms', active')
  BY <1>1 DEF Searching
<1> QED
  BY <1>1, <1>4, <1>5, <1>7, <1>8, GoesOn

\* A cursor that takes part moves: those behind the pivot stay beyond its document.
LEMMA BeyondStays ==
    ASSUME Here, NEW cs, Cursors(cs), NEW i, NEW m, NEW c, NEW new, Advanced(cs, new, i, m, c),
           NEW len \in 1..Len(cs), i <= len, NEW doc \in Nat,
           \A j \in (len + 1)..Len(cs) : doc < Doc(cs[j])
    PROVE  /\ \A j \in (len + 1)..Len(cs) : doc < Doc(new[j])
           /\ Doc(cs[len]) < NoDoc /\ Doc(c) < NoDoc => Doc(new[len]) < NoDoc
<1> DEFINE n == Len(cs)
<1>0. /\ i \in 1..n /\ m \in i..n /\ n \in Nat /\ Len(new) = n
      /\ Doc(c) \in Nat /\ new[m] = c /\ c.term = cs[i].term
      /\ c.at \in 1..(Len(Postings(c.term)) + 1)
  BY AdvancedIs
<1>1. \A j \in 1..n : j # m => Origin(i, m, j) \in 1..n \ {i} /\ new[j] = cs[Origin(i, m, j)]
  BY AdvancedIs
<1>2. \A j \in (i + 1)..m : Doc(cs[j]) < Doc(c)
  BY DEF Advanced, Placed
<1>3. \A j \in 1..n : Doc(cs[j]) \in Nat
  BY CursorIs
<1>4. Doc(c) <= NoDoc /\ NoDoc \in Nat
  <2>1. cs[i].term \in DOMAIN index.query
    BY <1>0, CursorIs
  <2> QED
    BY <2>1, <1>0, DocIs, BlockAssumption
<1> HIDE DEF n
<1>5. ASSUME NEW j \in (len + 1)..n PROVE doc < Doc(new[j])
  <2>1. j \in 1..n /\ j > len /\ j > i /\ len \in Nat
    BY <1>0 DEF n
  <2>2. CASE j = m
    <3>1. j \in (i + 1)..m
      BY <1>0, <2>1, <2>2
    <3>2. Doc(cs[j]) < Doc(c) /\ doc < Doc(cs[j])
      BY <3>1, <1>2 DEF n
    <3> QED
      BY <3>2, <2>1, <2>2, <1>0, <1>3
  <2>3. CASE j # m
    <3>1. Origin(i, m, j) \in (len + 1)..n
      BY <1>0, <1>1, <2>1, <2>3 DEF Origin
    <3> QED
      BY <1>1, <2>1, <2>3, <3>1 DEF n
  <2> QED
    BY <2>2, <2>3
<1>6. ASSUME Doc(cs[len]) < NoDoc, Doc(c) < NoDoc PROVE Doc(new[len]) < NoDoc
  <2>0. len \in 1..n /\ len \in Nat
    BY <1>0 DEF n
  <2>1. CASE len = m
    BY <2>1, <1>0, <1>6
  <2>2. CASE len < m
    <3>1. Origin(i, m, len) = len + 1 /\ len + 1 \in (i + 1)..m /\ len + 1 \in 1..n
      BY <1>0, <2>0, <2>2 DEF Origin
    <3>2. new[len] = cs[len + 1] /\ Doc(cs[len + 1]) < Doc(c)
      BY <3>1, <2>0, <2>2, <1>0, <1>1, <1>2
    <3> QED
      BY <3>1, <3>2, <1>0, <1>3, <1>4
  <2>3. CASE len > m
    <3>1. Origin(i, m, len) = len
      BY <1>0, <2>0, <2>3 DEF Origin
    <3>2. new[len] = cs[len]
      BY <3>1, <2>0, <2>3, <1>0, <1>1
    <3> QED
      BY <3>2, <1>6
  <2> QED
    BY <2>0, <2>1, <2>2, <2>3, <1>0
<1> QED
  BY <1>5, <1>6 DEF n

\* A cursor seeks to a target: it goes forward, over documents before the target.
LEMMA SeekIs ==
    ASSUME Searching, step # "memtable", NEW i \in 1..Len(terms), Doc(terms[i]) < NoDoc,
           NEW target \in Nat
    PROVE  /\ ~Exhausted(terms[i])
           /\ Sought(terms[i], target) \in terms[i].at..(Len(Postings(terms[i].term)) + 1)
           /\ \A k \in terms[i].at..(Sought(terms[i], target) - 1) :
                /\ Postings(terms[i].term)[k].doc < target
                /\ Postings(terms[i].term)[k].doc \in Nat
<1>1. Here /\ Cursors(terms)
  BY InSegment
<1>2. terms[i].term \in DOMAIN index.query /\ terms[i].at \in 1..(Len(Postings(terms[i].term)) + 1)
  BY <1>1, CursorIs
<1>3. ~Exhausted(terms[i]) /\ terms[i].at \in 1..Len(Postings(terms[i].term))
  BY <1>1, <1>2, DocIs
<1>4. /\ Sought(terms[i], target) \in terms[i].at..(Len(Postings(terms[i].term)) + 1)
      /\ Passes(terms[i].term, terms[i].at, Sought(terms[i], target), target)
  BY <1>1, <1>2, <1>3, SoughtIs
<1>5. ASSUME NEW k \in terms[i].at..(Sought(terms[i], target) - 1)
      PROVE  Postings(terms[i].term)[k].doc < target /\ Postings(terms[i].term)[k].doc \in Nat
  <2>1. Postings(terms[i].term)[k].doc < target
    BY <1>4, <1>5 DEF Passes
  <2>2. Len(Postings(terms[i].term)) \in Nat
    BY <1>1, <1>2, HerePostings
  <2>3. k \in 1..Len(Postings(terms[i].term))
    BY <1>3, <1>4, <2>2
  <2> QED
    BY <2>1, <2>3, <1>1, <1>2, HerePostings
<1> QED
  BY <1>3, <1>4, <1>5

\* Seeking the cursors before the pivot passes only what cannot enter the heap.
LEMMA SeekToPivotGoes ==
    ASSUME Searching, SeekToPivot
    PROVE  Searching'
<1>1. /\ step = "seek"
      /\ UNCHANGED <<index, max_results, weight, heap, todo, seg, pivot>>
  BY DEF SeekToPivot
<1>2. Here /\ Cursors(terms) /\ seg > 0 /\ Len(terms) \in Nat /\ Len(terms) = Len(index.query)
  BY <1>1, InSegment
<1>3. /\ pivot.len \in 1..Len(terms) /\ pivot.doc \in Nat /\ pivot.doc < NoDoc
      /\ \A i \in (pivot.len + 1)..Len(terms) : pivot.doc < Doc(terms[i])
      /\ Doc(terms[pivot.len]) < NoDoc
  BY <1>1, PivotIs
<1>4. \A c : DocIn(index, seg, c) = Doc(c)
  BY InIs
<1>5. CASE Behind = {}
  <2>1. step' = "bound" /\ UNCHANGED <<terms, active>>
    BY <1>5 DEF SeekToPivot
  <2>2. \A i \in 1..Len(terms) : pivot.doc <= Doc(terms[i])
    <3> SUFFICES ASSUME NEW i \in 1..Len(terms) PROVE pivot.doc <= Doc(terms[i])
      OBVIOUS
    <3>1. Doc(terms[i]) \in Nat
      BY <1>2, CursorIs
    <3>2. i \in 1..pivot.len \/ i \in (pivot.len + 1)..Len(terms)
      BY <1>2, <1>3
    <3>3. i \in 1..pivot.len => ~ Doc(terms[i]) < pivot.doc
      BY <1>5 DEF Behind
    <3> QED
      BY <3>1, <3>2, <3>3, <1>3
  <2>3. PivotKept(index, seg, step', terms', pivot')
    <3>1. pivot.len \in 0..Len(index.query)
      BY <1>2, <1>3
    <3> QED
      BY <1>1, <1>3, <1>4, <2>1, <2>2, <3>1 DEF PivotKept
  <2>4. FoundBefore(index, seg, step', terms', pivot', heap')
    BY <1>1, <2>1 DEF Searching, FoundBefore
  <2>5. \A d : Passed(index, seg, step', terms', pivot', d)
          => Passed(index, seg, step, terms, pivot, d)
    BY <1>1, <2>1 DEF Passed
  <2>6. HeapKept(index, max_results, todo, seg, step', terms', pivot', heap)
    BY <1>1, <2>5, HeapStays
  <2>7. CursorsKept(index, seg, terms', active')
    BY <2>1 DEF Searching
  <2> QED
    BY <1>1, <2>1, <2>3, <2>4, <2>6, <2>7, GoesOn
<1>6. CASE Behind # {}
  <2> DEFINE i == Min(Behind)
             at == Sought(terms[i], pivot.doc)
             c == [terms[i] EXCEPT !.at = at]
             last == Len(Postings(terms[i].term))
  <2>1. i \in Behind
    <3>1. Behind \in SUBSET (1..pivot.len)
      BY DEF Behind
    <3>2. IsFiniteSet(1..pivot.len) /\ 1..pivot.len \subseteq Int
      <4>1. pivot.len \in Int
        BY <1>3
      <4> QED
        BY <4>1, FS_Interval
    <3>3. IsFiniteSet(Behind) /\ Behind \subseteq Int
      BY <3>1, <3>2, FS_Subset
    <3> QED
      BY <1>6, <3>3, MinIs
  <2>2. /\ terms' = Moved(terms, i, at)
        /\ active' = IF at > last THEN active - 1 ELSE active
        /\ step' = IF at > last THEN "pivot" ELSE "seek"
    BY <1>6 DEF SeekToPivot, Move
  <2>3. i \in 1..Len(terms) /\ i \in 1..pivot.len /\ i <= pivot.len /\ Doc(terms[i]) < pivot.doc
    BY <1>2, <1>3, <2>1 DEF Behind
  <2> HIDE DEF i
  <2>4. Doc(terms[i]) < NoDoc
    <3>1. Doc(terms[i]) \in Nat
      BY <1>2, <2>3, CursorIs
    <3> QED
      BY <3>1, <1>3, <2>3, BlockAssumption
  <2>5. /\ ~Exhausted(terms[i])
        /\ at \in terms[i].at..(last + 1)
        /\ \A k \in terms[i].at..(at - 1) : Postings(terms[i].term)[k].doc < pivot.doc
    BY <1>1, <1>3, <2>3, <2>4, SeekIs
  <2> HIDE DEF at
  <2>6. /\ CursorsKept(index, seg, terms', active')
        /\ Cursors(terms') /\ Len(terms') = Len(terms)
        /\ NotBefore(index, seg, terms, terms')
        /\ \E m \in i..Len(terms) : Advanced(terms, terms', i, m, c)
        /\ \A d : Intact(index, seg, terms, d) /\ ~Intact(index, seg, terms', d) =>
             \E k \in terms[i].at..(at - 1) : Postings(terms[i].term)[k].doc = d
    BY <1>1, <2>2, <2>3, <2>5, MoveIs
  <2>7. PICK m \in i..Len(terms) : Advanced(terms, terms', i, m, c)
    BY <2>6
  <2>8. PivotKept(index, seg, step', terms', pivot')
    <3>1. pivot.len \in 0..Len(index.query)
      BY <1>2, <1>3
    <3>2. CASE at > last
      <4>1. step' = "pivot"
        BY <2>2, <3>2
      <4> QED
        BY <1>1, <3>1, <4>1 DEF PivotKept
    <3>3. CASE ~ at > last
      <4>1. step' = "seek"
        BY <2>2, <3>3
      <4>2. terms[i] \in [term : DOMAIN index.query, at : Nat]
            /\ terms[i].term \in DOMAIN index.query
            /\ terms[i].at \in 1..(last + 1) /\ last \in Nat
        BY <1>2, <2>3, CursorIs, HerePostings
      <4>3. c.term = terms[i].term /\ c.at = at /\ c.at \in 1..(Len(Postings(c.term)) + 1)
        BY <4>2, <2>5
      <4>4. ~Exhausted(c)
        BY <3>3, <4>3 DEF Exhausted
      <4>5. Doc(c) < NoDoc
        <5>1. Doc(c) \in Nat /\ Doc(c) <= NoDoc /\ Doc(c) # NoDoc
          BY <1>2, <4>2, <4>3, <4>4, DocIs
        <5> QED
          BY <5>1, BlockAssumption
      <4>6. /\ \A j \in (pivot.len + 1)..Len(terms) : pivot.doc < Doc(terms'[j])
            /\ Doc(terms'[pivot.len]) < NoDoc
        BY <1>2, <1>3, <2>3, <2>7, <4>5, BeyondStays
      <4> QED
        BY <1>1, <1>3, <1>4, <2>6, <3>1, <4>1, <4>6 DEF PivotKept
    <3> QED
      BY <3>2, <3>3
  <2>9. step' \in {"pivot", "seek"}
    BY <2>2
  <2>10. \A d : Passed(index, seg, step', terms', pivot', d)
           => Passed(index, seg, step, terms, pivot, d)
    BY <1>1, <2>5, <2>6, <2>9 DEF Passed
  <2>11. HeapKept(index, max_results, todo, seg, step', terms', pivot', heap)
    BY <1>1, <2>10, HeapStays
  <2>12. FoundBefore(index, seg, step', terms', pivot', heap)
    BY <1>1, <2>6, <2>9, FoundStays
  <2> QED
    BY <1>1, <2>6, <2>8, <2>9, <2>11, <2>12, GoesOn
<1> QED
  BY <1>5, <1>6

\* The cursor that is chosen for a skip, and where it seeks to.
LEMMA SkipIs ==
    ASSUME Searching, step = "bound"
    PROVE  /\ Min({i \in 1..pivot.len :
                     \A j \in 1..pivot.len : MaxScore(terms[j].term) <= MaxScore(terms[i].term)})
                \in 1..pivot.len
           /\ SkipTarget \in Nat
           /\ \A i \in 1..pivot.len :
                SkipTarget <= LastDoc(terms[i].term, BlockOf(terms[i])) + 1
           /\ pivot.len < Len(terms) => SkipTarget <= Doc(terms[pivot.len + 1])
           /\ \A i \in 1..pivot.len : ~Exhausted(terms[i]) /\ Doc(terms[i]) < NoDoc
           /\ \A i \in 1..pivot.len : LastDoc(terms[i].term, BlockOf(terms[i])) \in Nat
<1> DEFINE R == 1..pivot.len
           f == [i \in R |-> MaxScore(terms[i].term)]
           S == {i \in R : \A j \in R : MaxScore(terms[j].term) <= MaxScore(terms[i].term)}
           l == [i \in R |-> LastDoc(terms[i].term, BlockOf(terms[i])) + 1]
           A == {LastDoc(terms[i].term, BlockOf(terms[i])) + 1 : i \in R}
           B == {Doc(terms[i]) : i \in DOMAIN terms \cap {pivot.len + 1}}
<1>1. Here /\ Cursors(terms) /\ Len(terms) \in Nat
  BY InSegment
<1>2. /\ pivot.len \in 1..Len(terms) /\ pivot.len \in Nat /\ pivot.len <= Len(terms)
      /\ Doc(terms[pivot.len]) < NoDoc
  BY PivotIs
<1>3. IsFiniteSet(R) /\ R \subseteq Int /\ 1 \in R /\ R \subseteq 1..Len(terms)
        /\ DOMAIN terms = 1..Len(terms)
  <2>1. pivot.len \in Int
    BY <1>2
  <2>2. DOMAIN terms = 1..Len(terms)
    BY <1>1 DEF Cursors
  <2>3. IsFiniteSet(R)
    BY <2>1, FS_Interval
  <2>4. 1 \in R /\ R \subseteq Int /\ R \subseteq 1..Len(terms)
    BY <1>1, <1>2
  <2> QED
    BY <2>2, <2>3, <2>4
<1>4. ASSUME NEW i \in R
      PROVE  /\ ~Exhausted(terms[i]) /\ Doc(terms[i]) < NoDoc
             /\ LastDoc(terms[i].term, BlockOf(terms[i])) \in Nat
             /\ MaxScore(terms[i].term) \in Nat
  <2>1. terms[i].term \in DOMAIN index.query
        /\ terms[i].at \in 1..(Len(Postings(terms[i].term)) + 1)
    BY <1>1, <1>3, CursorIs
  <2>2. Doc(terms[i]) <= Doc(terms[pivot.len]) /\ Doc(terms[i]) \in Nat
        /\ Doc(terms[pivot.len]) \in Nat
    <3>1. i <= pivot.len /\ i \in 1..Len(terms)
      BY <1>3
    <3> QED
      BY <1>1, <1>2, <3>1, CursorsOrdered
  <2>3. Doc(terms[i]) < NoDoc
    BY <1>2, <2>2, BlockAssumption
  <2>4. Doc(terms[i]) # NoDoc
    BY <2>2, <2>3, BlockAssumption
  <2>5. ~Exhausted(terms[i]) /\ terms[i].at \in 1..Len(Postings(terms[i].term))
    BY <1>1, <2>1, <2>4, DocIs
  <2>6. BlockOf(terms[i]) \in 1..Blocks(terms[i].term)
    BY <1>1, <2>1, <2>5, InBlock
  <2>7. LastDoc(terms[i].term, BlockOf(terms[i])) \in Nat
    BY <1>1, <2>1, <2>6, LastDocIs
  <2>8. MaxScore(terms[i].term) \in Nat
    BY <1>1, <2>1, MaxScoreIs
  <2> QED
    BY <2>3, <2>5, <2>7, <2>8
<1> HIDE DEF R
<1>5. Min(S) \in S
  <2>1. f \in [R -> Int] /\ R # {} /\ \A i \in R : f[i] = MaxScore(terms[i].term)
    BY <1>3, <1>4
  <2>2. PICK i \in R : Max({f[x] : x \in R}) = f[i]
    BY <1>3, <2>1, MaxOf
  <2>3. \A j \in R : f[j] <= Max({f[x] : x \in R})
    BY <1>3, <2>1, MaxOf
  <2> HIDE DEF f
  <2>4. i \in S
    BY <2>1, <2>2, <2>3
  <2>5. S \in SUBSET R
    OBVIOUS
  <2>6. S # {} /\ S \subseteq Int /\ IsFiniteSet(S)
    BY <1>3, <2>4, <2>5, FS_Subset
  <2> HIDE DEF S
  <2> QED
    BY <2>6, MinIs
<1>6. Min(S) \in R
  <2>1. S \in SUBSET R
    OBVIOUS
  <2> HIDE DEF S
  <2> QED
    BY <2>1, <1>5
<1>7. IsFiniteSet(A) /\ A \subseteq Nat /\ A # {}
  <2>1. DOMAIN l = R
    OBVIOUS
  <2>2. A = {l[i] : i \in R}
    OBVIOUS
  <2>3. A \subseteq Nat /\ A # {}
    BY <1>3, <1>4
  <2> HIDE DEF A, l
  <2>4. IsFiniteSet({l[i] : i \in R})
    BY <1>3, <2>1, ImageFinite
  <2> QED
    BY <2>2, <2>3, <2>4
<1>8. IsFiniteSet(B) /\ B \subseteq Nat
        /\ (pivot.len < Len(terms) => Doc(terms[pivot.len + 1]) \in B)
  <2>1. CASE pivot.len < Len(terms)
    <3>1. pivot.len + 1 \in 1..Len(terms)
      BY <1>1, <1>2, <2>1
    <3>2. B = {Doc(terms[pivot.len + 1])}
      BY <1>3, <3>1
    <3>3. Doc(terms[pivot.len + 1]) \in Nat
      BY <1>1, <3>1, CursorIs
    <3> HIDE DEF B
    <3> QED
      BY <3>2, <3>3, FS_Singleton
  <2>2. CASE ~ pivot.len < Len(terms)
    <3>1. pivot.len + 1 \notin 1..Len(terms)
      BY <1>1, <1>2, <2>2
    <3>2. B = {}
      BY <1>3, <3>1
    <3> HIDE DEF B
    <3> QED
      BY <3>2, <2>2, FS_EmptySet
  <2> QED
    BY <2>1, <2>2
<1>9. SkipTarget = Min(A \union B)
  BY DEF SkipTarget, R
<1>10. \A i \in R : LastDoc(terms[i].term, BlockOf(terms[i])) + 1 \in A
  OBVIOUS
<1> HIDE DEF A, B
<1>11. Min(A \union B) \in A \union B /\ \A x \in A \union B : Min(A \union B) <= x
  <2> DEFINE U == A \union B
  <2>1. IsFiniteSet(U) /\ U \subseteq Int /\ U # {}
    <3>1. IsFiniteSet(U)
      BY <1>7, <1>8, FS_Union
    <3>2. U \subseteq Int /\ U # {}
      BY <1>7, <1>8
    <3> QED
      BY <3>1, <3>2
  <2> HIDE DEF U
  <2>2. Min(U) \in U /\ \A x \in U : Min(U) <= x
    BY <2>1, MinIs
  <2> QED
    BY <2>2 DEF U
<1> QED
  BY <1>4, <1>6, <1>7, <1>8, <1>9, <1>10, <1>11 DEF R, S

\* Skipping blocks whose maxima are too small passes only what cannot enter the heap.
LEMMA SkipBlocksGoes ==
    ASSUME Searching, SkipBlocks
    PROVE  Searching'
<1> DEFINE i == Min({j \in 1..pivot.len :
                       \A k \in 1..pivot.len : MaxScore(terms[k].term) <= MaxScore(terms[j].term)})
           at == Sought(terms[i], SkipTarget)
           last == Len(Postings(terms[i].term))
<1>1. /\ step = "bound" /\ step' = "pivot"
      /\ UpperBound <= Threshold(heap, max_results)
      /\ terms' = Moved(terms, i, at)
      /\ active' = IF at > last THEN active - 1 ELSE active
      /\ UNCHANGED <<index, max_results, weight, heap, todo, seg, pivot>>
  BY DEF SkipBlocks, Move
<1>2. Here /\ Cursors(terms) /\ seg > 0 /\ Len(terms) \in Nat /\ WellFormed(index)
  BY <1>1, InSegment DEF Here
<1>3. /\ pivot.len \in 1..Len(terms) /\ pivot.doc \in Nat /\ pivot.len \in Nat
      /\ pivot.len <= Len(terms)
      /\ \A j \in 1..Len(terms) : pivot.doc <= Doc(terms[j])
  BY <1>1, PivotIs
<1>4. /\ i \in 1..pivot.len
      /\ SkipTarget \in Nat
      /\ pivot.len < Len(terms) => SkipTarget <= Doc(terms[pivot.len + 1])
  BY <1>1, SkipIs
<1>5. \A j \in 1..pivot.len :
        /\ SkipTarget <= LastDoc(terms[j].term, BlockOf(terms[j])) + 1
        /\ ~Exhausted(terms[j]) /\ Doc(terms[j]) < NoDoc
        /\ LastDoc(terms[j].term, BlockOf(terms[j])) \in Nat
  BY <1>1, SkipIs
<1> HIDE DEF i
<1>6. i \in 1..Len(terms)
  BY <1>2, <1>3, <1>4
<1>7. /\ ~Exhausted(terms[i])
      /\ at \in terms[i].at..(last + 1)
      /\ \A k \in terms[i].at..(at - 1) :
           /\ Postings(terms[i].term)[k].doc < SkipTarget
           /\ Postings(terms[i].term)[k].doc \in Nat
  BY <1>1, <1>4, <1>5, <1>6, SeekIs
<1> HIDE DEF at
<1>8. /\ CursorsKept(index, seg, terms', active')
      /\ Cursors(terms') /\ Len(terms') = Len(terms)
      /\ NotBefore(index, seg, terms, terms')
      /\ \E m \in i..Len(terms) : Advanced(terms, terms', i, m, [terms[i] EXCEPT !.at = at])
      /\ \A d : Intact(index, seg, terms, d) /\ ~Intact(index, seg, terms', d) =>
           \E k \in terms[i].at..(at - 1) : Postings(terms[i].term)[k].doc = d
  <2>1. step # "memtable" /\ terms' = Moved(terms, i, at)
        /\ active' = IF at > last THEN active - 1 ELSE active
    BY <1>1
  <2>2. ~Exhausted(terms[i]) /\ at \in terms[i].at..(last + 1)
    BY <1>7
  <2> QED
    BY <2>1, <2>2, <1>6, MoveIs
<1>9. PivotKept(index, seg, step', terms', pivot')
  BY <1>1 DEF Searching, PivotKept
<1>10. FoundBefore(index, seg, step', terms', pivot', heap)
  BY <1>1, <1>8, FoundStays
<1>11. ASSUME NEW d \in Docs(index, seg), Score(index, seg, d) > 0,
              Passed(index, seg, step', terms', pivot', d),
              ~Passed(index, seg, step, terms, pivot, d)
       PROVE  Skippable(d)
  <2>1. Intact(index, seg, terms, d) /\ ~Intact(index, seg, terms', d)
    BY <1>1, <1>11 DEF Passed
  <2>2. d < SkipTarget /\ d \in Nat
    BY <1>7, <1>8, <2>1
  <2>3. \A x \in Range(heap) : x.seg = seg => x.doc < d
    BY <1>1, <1>11, <2>1, Unseen
  <2>4. \A j \in 1..pivot.len : ~Exhausted(terms[j])
          /\ d <= LastDoc(terms[j].term, BlockOf(terms[j]))
    BY <1>4, <1>5, <2>2
  <2>5. ASSUME NEW j \in 1..Len(terms), Share(index, seg, terms[j].term, d) > 0 PROVE j <= pivot.len
    <3> SUFFICES ASSUME ~ j <= pivot.len PROVE FALSE
      OBVIOUS
    <3>1. Doc(terms[j]) <= d
      BY <1>2, <2>1, <2>5, IntactIs
    <3>2. pivot.len < Len(terms) /\ pivot.len + 1 \in 1..Len(terms) /\ pivot.len + 1 <= j
      BY <1>2, <1>3
    <3>3. Doc(terms[pivot.len + 1]) <= Doc(terms[j]) /\ Doc(terms[pivot.len + 1]) \in Nat
          /\ Doc(terms[j]) \in Nat
      BY <1>2, <3>2, CursorsOrdered
    <3> QED
      BY <1>4, <2>2, <3>1, <3>2, <3>3
  <2>6. pivot.len \in 0..Len(terms)
    BY <1>2, <1>3
  <2>7. UpperBound \in Nat /\ Score(index, seg, d) <= UpperBound
    BY <1>2, <2>1, <2>4, <2>5, <2>6, BlockBound DEF UpperBound
  <2>8. Score(index, seg, d) \in Nat /\ Threshold(heap, max_results) \in Nat
    BY <1>2, ScoreIs, HeapIs DEF Here
  <2>9. Score(index, seg, d) <= Threshold(heap, max_results)
    BY <1>1, <2>7, <2>8
  <2> QED
    BY <2>3, <2>9 DEF Skippable
<1>12. HeapKept(index, max_results, todo, seg, step', terms', pivot', heap)
  BY <1>1, <1>11, HeapStays
<1> QED
  BY <1>1, <1>8, <1>9, <1>10, <1>12, GoesOn

\* After the document is scored the cursors at it go on, the last one first.
LEMMA AdvancePastPivotGoes ==
    ASSUME Searching, AdvancePastPivot
    PROVE  Searching'
<1> DEFINE S == {i \in 1..pivot.len : Doc(terms[i]) = pivot.doc}
<1>1. /\ step = "advance"
      /\ UNCHANGED <<index, max_results, weight, heap, todo, seg, pivot>>
  BY DEF AdvancePastPivot
<1>2. /\ Here /\ Cursors(terms) /\ seg > 0 /\ Len(terms) \in Nat /\ Len(terms) = Len(index.query)
      /\ WellFormed(index)
  BY <1>1, InSegment DEF Here
<1>3. /\ pivot.len \in 1..Len(terms) /\ pivot.doc \in Nat /\ pivot.doc < NoDoc /\ pivot.len \in Nat
      /\ \A i \in (pivot.len + 1)..Len(terms) : pivot.doc < Doc(terms[i])
      /\ \A i \in 1..Len(terms) : pivot.doc <= Doc(terms[i])
  BY <1>1, PivotIs
<1>4. \A c : DocIn(index, seg, c) = Doc(c)
  BY InIs
<1>5. pivot.len \in 0..Len(index.query)
  BY <1>2, <1>3
<1>6. \A x \in Range(heap) : x.seg = seg => x.doc <= pivot.doc
  BY <1>1, <1>2 DEF Searching, FoundBefore
<1>7. CASE S = {}
  <2>1. step' = "pivot" /\ UNCHANGED <<terms, active>>
    BY <1>7 DEF AdvancePastPivot
  <2>2. ASSUME NEW i \in 1..Len(terms) PROVE pivot.doc < Doc(terms[i])
    <3>1. Doc(terms[i]) \in Nat /\ pivot.doc <= Doc(terms[i])
      BY <1>2, <1>3, CursorIs
    <3>2. i \in 1..pivot.len \/ i \in (pivot.len + 1)..Len(terms)
      BY <1>2, <1>3
    <3> QED
      BY <3>1, <3>2, <1>3, <1>7
  <2>3. FoundBefore(index, seg, step', terms', pivot', heap')
    <3>1. ASSUME NEW x \in Range(heap), x.seg = seg, NEW i \in 1..Len(terms)
          PROVE  x.doc < DocIn(index, seg, terms[i])
      <4>1. x.doc \in Nat
        BY <1>1, <1>2, HeapIs, EntryIs
      <4>2. Doc(terms[i]) \in Nat
        BY <1>2, CursorIs
      <4> QED
        BY <4>1, <4>2, <2>2, <3>1, <1>3, <1>4, <1>6
    <3>2. \A x \in Range(heap) : x.seg <= seg
      BY DEF Searching, FoundBefore
    <3> QED
      BY <1>1, <2>1, <3>1, <3>2 DEF FoundBefore
  <2>4. PivotKept(index, seg, step', terms', pivot')
    BY <1>1, <1>5, <2>1 DEF PivotKept
  <2>5. \A d : Passed(index, seg, step', terms', pivot', d)
          => Passed(index, seg, step, terms, pivot, d)
    BY <1>1, <2>1 DEF Passed
  <2>6. HeapKept(index, max_results, todo, seg, step', terms', pivot', heap)
    BY <1>1, <2>5, HeapStays
  <2>7. CursorsKept(index, seg, terms', active')
    BY <2>1 DEF Searching
  <2> QED
    BY <1>1, <2>1, <2>3, <2>4, <2>6, <2>7, GoesOn
<1>8. CASE S # {}
  <2> DEFINE i == Max(S)
             at == terms[i].at + 1
             last == Len(Postings(terms[i].term))
  <2>1. i \in S
    <3>1. S \in SUBSET (1..pivot.len)
      OBVIOUS
    <3>2. IsFiniteSet(1..pivot.len) /\ 1..pivot.len \subseteq Int
      <4>1. pivot.len \in Int
        BY <1>3
      <4> QED
        BY <4>1, FS_Interval
    <3>3. IsFiniteSet(S) /\ S \subseteq Int
      BY <3>1, <3>2, FS_Subset
    <3> HIDE DEF S
    <3> QED
      BY <1>8, <3>3, MaxIs
  <2>2. /\ terms' = Moved(terms, i, at)
        /\ active' = IF at > last THEN active - 1 ELSE active
        /\ step' = "advance"
    BY <1>8 DEF AdvancePastPivot, Move
  <2>3. i \in 1..Len(terms) /\ i <= pivot.len /\ Doc(terms[i]) = pivot.doc
    BY <1>2, <1>3, <2>1
  <2> HIDE DEF i
  <2>4. /\ terms[i].term \in DOMAIN index.query /\ terms[i].at \in 1..(last + 1) /\ last \in Nat
    BY <1>2, <2>3, CursorIs, HerePostings
  <2>5. ~Exhausted(terms[i]) /\ terms[i].at \in 1..last
          /\ Doc(terms[i]) = Postings(terms[i].term)[terms[i].at].doc
    <3>1. Doc(terms[i]) # NoDoc
      BY <1>3, <2>3, BlockAssumption
    <3> QED
      BY <1>2, <2>4, <3>1, DocIs
  <2>6. at \in terms[i].at..(last + 1)
    BY <2>4, <2>5
  <2>7. \A k \in terms[i].at..(at - 1) : k = terms[i].at
    BY <2>4, <2>5
  <2> HIDE DEF at
  <2>8. /\ CursorsKept(index, seg, terms', active')
        /\ Cursors(terms') /\ Len(terms') = Len(terms)
        /\ NotBefore(index, seg, terms, terms')
        /\ \E m \in i..Len(terms) : Advanced(terms, terms', i, m, [terms[i] EXCEPT !.at = at])
        /\ \A d : Intact(index, seg, terms, d) /\ ~Intact(index, seg, terms', d) =>
             \E k \in terms[i].at..(at - 1) : Postings(terms[i].term)[k].doc = d
    BY <1>1, <2>2, <2>3, <2>5, <2>6, MoveIs
  <2>9. PICK m \in i..Len(terms) : Advanced(terms, terms', i, m, [terms[i] EXCEPT !.at = at])
    BY <2>8
  <2>10. \A j \in (pivot.len + 1)..Len(terms) : pivot.doc < Doc(terms'[j])
    BY <1>2, <1>3, <2>3, <2>9, BeyondStays
  <2>11. ASSUME NEW j \in 1..Len(terms) PROVE pivot.doc <= Doc(terms'[j])
    <3>1. PICK k \in 1..Len(terms) : DocIn(index, seg, terms[k]) <= DocIn(index, seg, terms'[j])
      BY <2>8 DEF NotBefore
    <3>2. Doc(terms[k]) \in Nat /\ Doc(terms'[j]) \in Nat
      BY <1>2, <2>8, CursorIs
    <3> QED
      BY <3>1, <3>2, <1>3, <1>4
  <2>12. PivotKept(index, seg, step', terms', pivot')
    BY <1>1, <1>3, <1>4, <1>5, <2>2, <2>8, <2>10, <2>11 DEF PivotKept
  <2>13. ASSUME NEW d, Passed(index, seg, step', terms', pivot', d)
         PROVE  Passed(index, seg, step, terms, pivot, d)
    <3>1. ~Intact(index, seg, terms', d) \/ d <= pivot.doc
      BY <2>13, <2>2, <1>1 DEF Passed
    <3>2. ~Intact(index, seg, terms', d) /\ Intact(index, seg, terms, d) => d = pivot.doc
      BY <2>3, <2>5, <2>7, <2>8
    <3> QED
      BY <3>1, <3>2, <1>1, <1>3 DEF Passed
  <2>14. HeapKept(index, max_results, todo, seg, step', terms', pivot', heap)
    BY <1>1, <2>13, HeapStays
  <2>15. FoundBefore(index, seg, step', terms', pivot', heap)
    BY <1>1, <2>2 DEF Searching, FoundBefore
  <2> QED
    BY <1>1, <2>2, <2>8, <2>12, <2>14, <2>15, GoesOn
<1> QED
  BY <1>7, <1>8

\* A sum of one.
LEMMA SumOne ==
    ASSUME NEW S, IsFiniteSet(S), NEW f \in [S -> Nat], NEW x, S = {x}
    PROVE  SumFunction(f) = f[x]
<1>1. x \in S /\ S \ {x} = {} /\ f[x] \in Nat
  OBVIOUS
<1>2. S \in SUBSET S /\ S \ {x} \in SUBSET S
  OBVIOUS
<1>3. Cardinality(Units(f, S)) = f[x] + Cardinality(Units(f, S \ {x}))
  BY <1>1, <1>2, UnitsAdd
<1>4. Units(f, S \ {x}) = {}
  BY <1>1, <1>2, UnitsOf
<1>5. Cardinality(Units(f, S \ {x})) = 0
  BY <1>4, FS_EmptySet
<1> QED
  BY <1>1, <1>3, <1>5, SumIs

\* A document that is scored is added, or need not be.
LEMMA HeapScores ==
    ASSUME Searching, step # "memtable", NEW st, NEW cs, NEW pv, NEW b \in Docs(index, seg),
           Score(index, seg, b) > 0,
           \A x \in Range(heap) : x.seg = seg => x.doc < b,
           \A d \in Docs(index, seg) :
             Score(index, seg, d) > 0 /\ Passed(index, seg, st, cs, pv, d) =>
               Passed(index, seg, step, terms, pivot, d) \/ d = b,
           NEW h, h = IF Dominated(heap, max_results, Score(index, seg, b)) THEN heap
                      ELSE Add(heap, max_results, FromSegment(seg, b, Score(index, seg, b)))
    PROVE  /\ HeapKept(index, max_results, todo, seg, st, cs, pv, h)
           /\ \A x \in Range(h) : x \in Range(heap) \/ (x.seg = seg /\ x.doc = b)
<1>1. CASE Dominated(heap, max_results, Score(index, seg, b))
  <2>1. Len(heap) >= max_results /\ Score(index, seg, b) < heap[1].score
    BY <1>1 DEF Dominated
  <2>2. Score(index, seg, b) <= Threshold(heap, max_results)
    <3>1. Threshold(heap, max_results) = heap[1].score /\ Threshold(heap, max_results) \in Nat
      BY <2>1, HeapIs DEF Threshold
    <3>2. Score(index, seg, b) \in Nat
      BY InSegment, ScoreIs DEF Here
    <3> QED
      BY <2>1, <3>1, <3>2
  <2>3. Skippable(b)
    BY <2>2 DEF Skippable
  <2>4. HeapKept(index, max_results, todo, seg, st, cs, pv, heap)
    BY <2>3, HeapStays
  <2> QED
    BY <2>4, <1>1
<1>2. CASE ~Dominated(heap, max_results, Score(index, seg, b))
  <2>1. h = Add(heap, max_results, FromSegment(seg, b, Score(index, seg, b)))
    BY <1>2
  <2> QED
    BY <2>1, HeapAdds
<1> QED
  BY <1>1, <1>2

\* The cursors up to the pivot are all at its document.
LEMMA AlignedIs ==
    ASSUME Searching, step = "bound", Aligned
    PROVE  /\ pivot.doc \in Docs(index, seg)
           /\ \A i \in 1..pivot.len :
                /\ Contribution(terms[i].term, Postings(terms[i].term)[terms[i].at])
                     = Share(index, seg, terms[i].term, pivot.doc)
                /\ Share(index, seg, terms[i].term, pivot.doc) \in Nat
                /\ Share(index, seg, terms[i].term, pivot.doc) > 0
                /\ terms[i].at \in 1..Len(Postings(terms[i].term))
                /\ Postings(terms[i].term)[terms[i].at].doc = pivot.doc
<1>1. Here /\ Cursors(terms) /\ Len(terms) \in Nat /\ WellFormed(index)
      /\ weight = Weights(index) /\ seg \in DOMAIN index.segments
  BY InSegment DEF Here
<1>2. pivot.len \in 1..Len(terms) /\ pivot.doc \in Nat /\ pivot.doc < NoDoc /\ pivot.len \in Nat
  BY PivotIs
<1>3. ASSUME NEW i \in 1..pivot.len
      PROVE  /\ Contribution(terms[i].term, Postings(terms[i].term)[terms[i].at])
                  = Share(index, seg, terms[i].term, pivot.doc)
             /\ Share(index, seg, terms[i].term, pivot.doc) \in Nat
             /\ Share(index, seg, terms[i].term, pivot.doc) > 0
             /\ pivot.doc \in Docs(index, seg)
             /\ terms[i].at \in 1..Len(Postings(terms[i].term))
             /\ Postings(terms[i].term)[terms[i].at].doc = pivot.doc
  <2> DEFINE t == terms[i].term
             p == Postings(t)[terms[i].at]
  <2>1. i \in 1..Len(terms)
    BY <1>1, <1>2
  <2>2. t \in DOMAIN index.query /\ terms[i].at \in 1..(Len(Postings(t)) + 1)
    BY <1>1, <2>1, CursorIs
  <2>3. Doc(terms[i]) = pivot.doc
    BY DEF Aligned
  <2>4. Doc(terms[i]) # NoDoc
    BY <2>3, <1>2, BlockAssumption
  <2>5. terms[i].at \in 1..Len(Postings(t)) /\ Doc(terms[i]) = p.doc
    BY <1>1, <2>2, <2>4, DocIs
  <2>6. p.doc = pivot.doc /\ pivot.doc \in Docs(index, seg)
    BY <1>1, <2>2, <2>3, <2>5, HerePostings
  <2>7. Postings(t) = PostingsOf(index, seg, t)
    BY <1>1, <2>2, HerePostings
  <2>8. /\ Share(index, seg, t, p.doc) = Weights(index)[t] * Saturation(p.tf, p.len)
        /\ Share(index, seg, t, p.doc) > 0
    <3> DEFINE ps == PostingsOf(index, seg, t)
               k == terms[i].at
    <3>1. WellFormed(index) /\ seg \in DOMAIN index.segments /\ t \in DOMAIN index.query
          /\ k \in 1..Len(ps) /\ p = ps[k]
      BY <1>1, <2>2, <2>5, <2>7
    <3> HIDE DEF k, t, p
    <3>2. /\ Share(index, seg, t, ps[k].doc) = Weights(index)[t] * Saturation(ps[k].tf, ps[k].len)
          /\ Share(index, seg, t, ps[k].doc) > 0
      BY ONLY <3>1, SharePosted
    <3> QED
      BY <3>1, <3>2
  <2>9. Contribution(t, p) = Share(index, seg, t, p.doc)
    BY <1>1, <2>8 DEF Contribution
  <2>10. Share(index, seg, t, p.doc) \in Nat
    BY <1>1, <2>2, ShareIs
  <2> QED
    BY <2>5, <2>6, <2>8, <2>9, <2>10
<1>4. 1 \in 1..pivot.len
  BY <1>2
<1> QED
  BY <1>3, <1>4

\* Scoring the pivot document gives the heap its entry, or leaves it out for good.
LEMMA ScoreDocumentGoes ==
    ASSUME Searching, ScoreDocument
    PROVE  Searching'
<1> DEFINE b == pivot.doc
           g == [i \in 1..pivot.len |->
                   Contribution(terms[i].term, Postings(terms[i].term)[terms[i].at])]
<1>1. /\ step = "bound" /\ step' = "advance" /\ Aligned
      /\ heap' = IF PivotScore > 0 /\ ~Dominated(heap, max_results, PivotScore)
                 THEN Add(heap, max_results, FromSegment(seg, b, PivotScore)) ELSE heap
      /\ UNCHANGED <<index, max_results, weight, todo, seg, terms, active, pivot>>
  BY DEF ScoreDocument
<1>2. /\ Here /\ Cursors(terms) /\ seg > 0 /\ Len(terms) \in Nat /\ Len(terms) = Len(index.query)
      /\ WellFormed(index) /\ seg \in DOMAIN index.segments
  BY <1>1, InSegment DEF Here
<1>3. /\ pivot.len \in 1..Len(terms) /\ b \in Nat /\ b < NoDoc /\ pivot.len \in Nat
      /\ \A i \in (pivot.len + 1)..Len(terms) : b < Doc(terms[i])
      /\ \A i \in 1..Len(terms) : b <= Doc(terms[i])
  BY <1>1, PivotIs
<1>4. \A c : DocIn(index, seg, c) = Doc(c)
  BY InIs
<1>5. b \in Docs(index, seg)
  BY <1>1, AlignedIs
<1>6. \A i \in 1..pivot.len :
        /\ Contribution(terms[i].term, Postings(terms[i].term)[terms[i].at])
             = Share(index, seg, terms[i].term, b)
        /\ Share(index, seg, terms[i].term, b) \in Nat
        /\ Share(index, seg, terms[i].term, b) > 0
        /\ terms[i].at \in 1..Len(Postings(terms[i].term))
        /\ Postings(terms[i].term)[terms[i].at].doc = b
  BY <1>1, AlignedIs
<1>7. g \in [1..pivot.len -> Nat]
        /\ \A i \in 1..pivot.len : g[i] = Share(index, seg, terms[i].term, b)
  BY <1>6
<1>8. PivotScore = SumFunction(g)
  BY DEF PivotScore
<1> HIDE DEF g
<1>9. pivot.len \in 0..Len(terms) /\ 1 \in 1..pivot.len /\ 1 \in 1..Len(terms)
  BY <1>2, <1>3
<1>10. Score(index, seg, b) > 0 /\ Score(index, seg, b) \in Nat
  <2>1. terms[1].term \in DOMAIN index.query /\ Share(index, seg, terms[1].term, b) > 0
    BY <1>2, <1>6, <1>9, CursorIs
  <2> QED
    BY <1>2, <2>1, ScoreIs
<1>11. \A x \in Range(heap) : x.seg = seg => x.doc < b
  <2>1. Doc(terms[1]) = b
    BY <1>1, <1>9 DEF Aligned
  <2> QED
    BY <1>1, <1>2, <1>4, <1>9, <2>1 DEF Searching, FoundBefore
<1>12. ASSUME NEW d \in Docs(index, seg), Passed(index, seg, step', terms', pivot', d),
              ~Passed(index, seg, step, terms, pivot, d)
       PROVE  d = b /\ Intact(index, seg, terms, b)
  <2>1. Intact(index, seg, terms, d) /\ ~ d < b
    BY <1>1, <1>12 DEF Passed
  <2>2. d <= b
    BY <1>1, <1>12, <2>1 DEF Passed
  <2>3. d \in Nat
    BY <1>2, SegmentIs
  <2> QED
    BY <2>1, <2>2, <2>3, <1>3
<1>13. /\ HeapKept(index, max_results, todo, seg, step', terms', pivot', heap')
       /\ \A x \in Range(heap') : x \in Range(heap) \/ (x.seg = seg /\ x.doc = b)
  <2>1. CASE Intact(index, seg, terms, b)
    <3>1. ASSUME NEW i \in 1..Len(terms), Share(index, seg, terms[i].term, b) > 0
          PROVE  i <= pivot.len
      <4> SUFFICES ASSUME ~ i <= pivot.len PROVE FALSE
        OBVIOUS
      <4>1. Doc(terms[i]) <= b
        BY <1>2, <2>1, <3>1, IntactIs
      <4>2. b < Doc(terms[i]) /\ Doc(terms[i]) \in Nat
        BY <1>2, <1>3, CursorIs
      <4> QED
        BY <4>1, <4>2, <1>3
    <3>2. Score(index, seg, b) = PivotScore
      BY <1>2, <1>7, <1>8, <1>9, <3>1, ScoreExact
    <3>3. heap' = IF Dominated(heap, max_results, Score(index, seg, b)) THEN heap
                  ELSE Add(heap, max_results, FromSegment(seg, b, Score(index, seg, b)))
      BY <1>1, <1>10, <3>2
    <3> HIDE DEF b
    <3>4. step # "memtable"
      BY <1>1
    <3> QED
      BY <1>5, <1>10, <1>11, <1>12, <3>3, <3>4, HeapScores
  <2>2. CASE ~Intact(index, seg, terms, b)
    <3>1. PICK i \in 1..Len(terms) : \E k \in 1..Len(PostingsOf(index, seg, terms[i].term)) :
            PostingsOf(index, seg, terms[i].term)[k].doc = b /\ ~ terms[i].at <= k
      BY <2>2 DEF Intact
    <3> DEFINE t == terms[i].term
               e == FromSegment(seg, b, Score(index, seg, b))
    <3>2. PICK k \in 1..Len(PostingsOf(index, seg, t)) :
            PostingsOf(index, seg, t)[k].doc = b /\ ~ terms[i].at <= k
      BY <3>1
    <3>3. t \in DOMAIN index.query /\ terms[i].at \in 1..(Len(Postings(t)) + 1)
      BY <1>2, CursorIs
    <3>4. /\ Postings(t) = PostingsOf(index, seg, t) /\ Len(Postings(t)) \in Nat
          /\ \A m, n \in 1..Len(Postings(t)) : m < n => Postings(t)[m].doc < Postings(t)[n].doc
      BY <1>2, <3>3, HerePostings
    <3>5. i > pivot.len
      <4> SUFFICES ASSUME i \in 1..pivot.len PROVE FALSE
        BY <1>2, <1>3
      <4>1. terms[i].at \in 1..Len(Postings(t)) /\ Postings(t)[terms[i].at].doc = b
        BY <1>6
      <4>2. k < terms[i].at /\ k \in 1..Len(Postings(t))
        BY <3>2, <3>3, <3>4
      <4>3. Postings(t)[k].doc < Postings(t)[terms[i].at].doc
        BY <3>4, <4>1, <4>2
      <4> QED
        BY <3>2, <3>4, <4>1, <4>3, <1>3
    <3>6. Share(index, seg, t, b) > 0
      <4>1. WellFormed(index) /\ seg \in DOMAIN index.segments
        BY <1>2 DEF Here
      <4> HIDE DEF t, b
      <4> QED
        BY ONLY <4>1, <3>2, <3>3, SharePosted
    <3>7. PivotScore < Score(index, seg, b)
      BY <1>2, <1>7, <1>8, <1>9, <3>5, <3>6, ScoreMissed
    <3>8. e \in Entries(index) /\ e.seg = seg /\ e.doc = b /\ e.score = Score(index, seg, b)
      BY <1>2, <1>5, <1>10, EntriesHave DEF FromSegment
    <3> HIDE DEF e
    <3>9. e \in Considered(index, todo, seg, step, terms, pivot)
      BY <1>2, <2>2, <3>8 DEF Considered, Passed
    <3>10. e \notin Range(heap)
      BY <1>3, <1>11, <3>8
    <3>11. Len(heap) = max_results /\ Grade(index)[e] <= Grade(index)[heap[1]]
      BY <3>9, <3>10 DEF Searching, HeapKept, Top
    <3>12. max_results \in Nat \ {0}
      BY HeapIs
    <3>13. heap[1] \in Entries(index)
      BY <3>11, <3>12, HeapIs
    <3>14. e.score <= heap[1].score /\ heap[1].score \in Nat
      BY <1>2, <3>8, <3>11, <3>13, GradeIs, EntryIs
    <3>15. PivotScore \in Nat
      <4>1. IsFiniteSet(1..pivot.len)
        <5>1. pivot.len \in Int
          BY <1>3
        <5> QED
          BY <5>1, FS_Interval
      <4> QED
        BY <4>1, <1>7, <1>8, SumNat
    <3>16. Dominated(heap, max_results, PivotScore)
      <4>1. PivotScore < heap[1].score
        BY <1>10, <3>7, <3>8, <3>14, <3>15
      <4> QED
        BY <3>11, <3>12, <4>1 DEF Dominated
    <3>17. heap' = heap
      BY <1>1, <3>16
    <3>18. \A d \in Docs(index, seg) : Passed(index, seg, step', terms', pivot', d) =>
             Passed(index, seg, step, terms, pivot, d)
      BY <1>12, <2>2
    <3>19. step # "memtable"
      BY <1>1
    <3>20. HeapKept(index, max_results, todo, seg, step', terms', pivot', heap)
      BY <3>18, <3>19, HeapStays
    <3> QED
      BY <3>17, <3>20
  <2> QED
    BY <2>1, <2>2
<1>14. PivotKept(index, seg, step', terms', pivot')
  <2>1. pivot.len \in 0..Len(index.query)
    BY <1>2, <1>3
  <2> QED
    BY <1>1, <1>3, <1>4, <2>1 DEF PivotKept
<1>15. FoundBefore(index, seg, step', terms', pivot', heap')
  <2>1. ASSUME NEW x \in Range(heap') PROVE x.seg <= seg /\ (x.seg = seg => x.doc <= b)
    <3>1. CASE x \in Range(heap)
      <4>1. x.seg <= seg
        BY <3>1 DEF Searching, FoundBefore
      <4>2. x.doc \in Nat
        BY <1>2, <3>1, HeapIs, EntryIs
      <4> QED
        BY <4>1, <4>2, <1>3, <1>11, <3>1
    <3>2. CASE x.seg = seg /\ x.doc = b
      <4>1. seg \in Nat
        BY <1>1, InSegment
      <4> QED
        BY <4>1, <3>2, <1>3
    <3> QED
      BY <3>1, <3>2, <2>1, <1>13
  <2> QED
    BY <1>1, <2>1 DEF FoundBefore
<1>16. CursorsKept(index, seg, terms', active')
  BY <1>1 DEF Searching
<1> QED
  BY <1>1, <1>13, <1>14, <1>15, <1>16, GoesOn

-----------------------------------------------------------------------------
(* A query of one term.                                                     *)

\* The one cursor of a query of one term.
LEMMA ScanIs ==
    ASSUME Searching, step = "scan"
    PROVE  /\ Here /\ Cursors(terms) /\ Len(terms) = 1 /\ seg > 0
           /\ WellFormed(index) /\ seg \in DOMAIN index.segments
           /\ DOMAIN index.query = {1}
           /\ terms[1].term = 1 /\ Len(Postings(1)) \in Nat
           /\ terms[1].at \in 1..Len(Postings(1)) /\ ~Exhausted(terms[1])
           /\ Doc(terms[1]) = Postings(1)[terms[1].at].doc
           /\ Doc(terms[1]) \in Nat /\ Doc(terms[1]) < NoDoc
           /\ \A d : Score(index, seg, d) = Share(index, seg, 1, d)
<1>1. /\ Here /\ Cursors(terms) /\ seg > 0 /\ Len(terms) \in Nat /\ Len(terms) = Len(index.query)
      /\ WellFormed(index) /\ seg \in DOMAIN index.segments
  BY InSegment DEF Here
<1>2. Len(index.query) = 1 /\ DocIn(index, seg, terms[1]) < NoDoc
  BY DEF Searching, PivotKept
<1>3. DOMAIN index.query = {1} /\ Len(terms) = 1 /\ 1 \in 1..Len(terms)
  <2>1. DOMAIN index.query = 1..Len(index.query)
    BY <1>1, QueryIs
  <2> QED
    BY <2>1, <1>1, <1>2
<1>4. terms[1].term = 1 /\ terms[1].at \in 1..(Len(Postings(1)) + 1)
  <2>1. terms[1].term \in DOMAIN index.query
        /\ terms[1].at \in 1..(Len(Postings(terms[1].term)) + 1)
    BY <1>1, <1>3, CursorIs
  <2> QED
    BY <2>1, <1>3
<1>5. Doc(terms[1]) < NoDoc
  BY <1>2, InIs
<1>6. Doc(terms[1]) \in Nat /\ Doc(terms[1]) # NoDoc
  <2>1. Doc(terms[1]) \in Nat
    BY <1>1, <1>3, CursorIs
  <2> QED
    BY <2>1, <1>5, BlockAssumption
<1>7. terms[1].term \in DOMAIN index.query
  BY <1>3, <1>4
<1>8. terms[1].at \in 1..(Len(Postings(terms[1].term)) + 1)
  BY <1>4
<1>9. /\ ~Exhausted(terms[1]) /\ terms[1].at \in 1..Len(Postings(terms[1].term))
      /\ Doc(terms[1]) = Postings(terms[1].term)[terms[1].at].doc
  BY <1>1, <1>6, <1>7, <1>8, DocIs
<1>10. Len(Postings(1)) \in Nat
  BY <1>1, <1>3, HerePostings
<1>11. ASSUME NEW d PROVE Score(index, seg, d) = Share(index, seg, 1, d)
  <2> DEFINE S == DOMAIN index.query
             f == Shares(index, seg, d)
  <2>1. f \in [S -> Nat]
    BY <1>1, ScoreIs
  <2>2. f[1] = Share(index, seg, 1, d)
    BY <1>3 DEF Shares
  <2>3. Score(index, seg, d) = SumFunction(f)
    BY DEF Score
  <2>4. IsFiniteSet(S) /\ S = {1}
    BY <1>3, FS_Singleton
  <2> HIDE DEF f, S
  <2>5. SumFunction(f) = f[1]
    BY <2>1, <2>4, SumOne
  <2> QED
    BY <2>2, <2>3, <2>5
<1> QED
  BY <1>1, <1>3, <1>4, <1>5, <1>6, <1>9, <1>10, <1>11

\* The cursor goes forward.
LEMMA ScanMoves ==
    ASSUME Searching, step = "scan", NEW at \in (terms[1].at + 1)..(Len(Postings(1)) + 1),
           ScanTo(at), UNCHANGED <<index, seg, pivot>>
    PROVE  /\ CursorsKept(index, seg, terms', active')
           /\ PivotKept(index, seg, step', terms', pivot')
           /\ Cursors(terms') /\ Len(terms') = 1 /\ NotBefore(index, seg, terms, terms')
           /\ step' \in {"scan", "next"}
           /\ step' = "scan" => Doc(terms[1]) < Doc(terms'[1]) /\ Doc(terms'[1]) \in Nat
           /\ \A d \in Docs(index, seg) :
                Score(index, seg, d) > 0 /\ Passed(index, seg, step', terms', pivot', d) =>
                  \/ Passed(index, seg, step, terms, pivot, d)
                  \/ \E k \in terms[1].at..(at - 1) : Postings(1)[k].doc = d
<1> DEFINE c == [terms[1] EXCEPT !.at = at]
<1>1. /\ Here /\ Cursors(terms) /\ Len(terms) = 1 /\ seg > 0
      /\ WellFormed(index) /\ DOMAIN index.query = {1}
      /\ terms[1].term = 1 /\ Len(Postings(1)) \in Nat
      /\ terms[1].at \in 1..Len(Postings(1)) /\ ~Exhausted(terms[1])
      /\ Doc(terms[1]) \in Nat /\ Doc(terms[1]) < NoDoc
  BY ScanIs
<1>2. /\ terms' = Moved(terms, 1, at)
      /\ active' = IF at > Len(Postings(terms[1].term)) THEN active - 1 ELSE active
      /\ step' = IF at > Len(Postings(1)) THEN "next" ELSE "scan"
  BY DEF ScanTo, Move
<1>3. 1 \in 1..Len(terms) /\ at \in terms[1].at..(Len(Postings(terms[1].term)) + 1)
      /\ terms[1].at < at
  BY <1>1
<1>4. /\ CursorsKept(index, seg, terms', active')
      /\ Cursors(terms') /\ Len(terms') = Len(terms)
      /\ NotBefore(index, seg, terms, terms')
      /\ \E m \in 1..Len(terms) : Advanced(terms, terms', 1, m, c)
      /\ \A d : Intact(index, seg, terms, d) /\ ~Intact(index, seg, terms', d) =>
           \E k \in terms[1].at..(at - 1) : Postings(terms[1].term)[k].doc = d
  <2>1. step # "memtable" /\ ~Exhausted(terms[1])
    BY <1>1
  <2>2. 1 \in 1..Len(terms) /\ at \in terms[1].at..(Len(Postings(terms[1].term)) + 1)
    BY <1>3
  <2>3. /\ terms' = Moved(terms, 1, at)
        /\ active' = IF at > Len(Postings(terms[1].term)) THEN active - 1 ELSE active
    BY <1>2
  <2> HIDE DEF c
  <2>4. c = [terms[1] EXCEPT !.at = at]
    BY DEF c
  <2> QED
    BY ONLY Searching, <2>1, <2>2, <2>3, <2>4, MoveIs
<1>5. terms'[1] = c
  <2>1. PICK m \in 1..Len(terms) : Advanced(terms, terms', 1, m, c)
    BY <1>4
  <2>2. m = 1
    BY <1>1
  <2> QED
    BY <2>1, <2>2, <1>1, AdvancedIs
<1>6. c.term = 1 /\ c.at = at
  <2>1. terms[1] \in [term : DOMAIN index.query, at : Nat]
    BY <1>1, <1>3, CursorIs
  <2> QED
    BY <2>1, <1>1
<1> HIDE DEF c
<1>7. Exhausted(c) <=> at > Len(Postings(1))
  BY <1>6 DEF Exhausted
<1>8. Doc(c) \in Nat /\ Doc(c) <= NoDoc
        /\ (~Exhausted(c) => Doc(terms[1]) < Doc(c) /\ Doc(c) < NoDoc)
  <2>1. terms[1].term \in DOMAIN index.query /\ c.term = terms[1].term
        /\ terms[1].at \in 1..(Len(Postings(terms[1].term)) + 1)
        /\ c.at \in terms[1].at..(Len(Postings(terms[1].term)) + 1)
        /\ c.at \in 1..(Len(Postings(c.term)) + 1) /\ terms[1].at < c.at
    BY <1>1, <1>3, <1>6
  <2>2. Doc(c) \in Nat /\ (Exhausted(c) \/ Doc(terms[1]) < Doc(c))
    BY <1>1, <2>1, DocAdvances
  <2>3. Doc(c) <= NoDoc /\ (Exhausted(c) <=> Doc(c) = NoDoc)
    BY <1>1, <2>1, DocIs
  <2> QED
    BY <2>2, <2>3, BlockAssumption
<1>9. PivotKept(index, seg, step', terms', pivot')
  <2>1. pivot.len \in 0..Len(index.query) /\ Len(index.query) = 1
    BY DEF Searching, PivotKept
  <2>2. step' = "scan" => DocIn(index, seg, terms'[1]) < NoDoc
    BY <1>2, <1>5, <1>7, <1>8, InIs
  <2> QED
    BY <1>2, <2>1, <2>2 DEF PivotKept
<1>10. ASSUME NEW d \in Docs(index, seg), Score(index, seg, d) > 0,
              Passed(index, seg, step', terms', pivot', d),
              ~Passed(index, seg, step, terms, pivot, d)
       PROVE  \E k \in terms[1].at..(at - 1) : Postings(1)[k].doc = d
  <2>1. Intact(index, seg, terms, d)
    BY <1>10 DEF Passed
  <2>2. ~Intact(index, seg, terms', d)
    <3> SUFFICES ASSUME Intact(index, seg, terms', d) PROVE FALSE
      OBVIOUS
    <3>1. step' = "next"
      BY <1>2, <1>10 DEF Passed
    <3>2. PICK i \in 1..Len(terms') : Share(index, seg, terms'[i].term, d) > 0
      BY <1>1, <1>4, <1>10, ScoredIs
    <3>3. ~Exhausted(terms'[i])
      BY <1>1, <1>4, <3>2, IntactIs
    <3>4. i = 1
      BY <1>1, <1>4
    <3> QED
      BY <3>1, <3>3, <3>4, <1>2, <1>5, <1>7
  <2> QED
    BY <2>1, <2>2, <1>1, <1>4
<1>11. step' = "scan" => Doc(terms[1]) < Doc(terms'[1]) /\ Doc(terms'[1]) \in Nat
  BY <1>2, <1>5, <1>7, <1>8
<1> QED
  BY <1>1, <1>2, <1>4, <1>9, <1>10, <1>11

\* Scoring one posting of the only term keeps the invariant.
LEMMA ScanPostingGoes ==
    ASSUME Searching, ScanPosting
    PROVE  Searching'
<1> DEFINE p == Postings(1)[terms[1].at]
           b == p.doc
           at == terms[1].at + 1
<1>1. /\ step = "scan"
      /\ heap' = IF Dominated(heap, max_results, Contribution(1, p)) THEN heap
                 ELSE Add(heap, max_results, FromSegment(seg, b, Contribution(1, p)))
      /\ ScanTo(at)
      /\ UNCHANGED <<index, max_results, weight, todo, seg, pivot>>
  BY DEF ScanPosting
<1>2. /\ Here /\ Cursors(terms) /\ Len(terms) = 1 /\ seg > 0
      /\ WellFormed(index) /\ seg \in DOMAIN index.segments
      /\ DOMAIN index.query = {1} /\ Len(Postings(1)) \in Nat
      /\ terms[1].term = 1 /\ terms[1].at \in 1..Len(Postings(1))
      /\ Doc(terms[1]) = b
      /\ Doc(terms[1]) \in Nat /\ Doc(terms[1]) < NoDoc
  BY <1>1, ScanIs
<1>3. \A d : Score(index, seg, d) = Share(index, seg, 1, d)
  BY <1>1, ScanIs
<1>4. at \in (terms[1].at + 1)..(Len(Postings(1)) + 1)
      /\ \A k \in terms[1].at..(at - 1) : k = terms[1].at
  BY <1>2
<1>5. b \in Docs(index, seg)
  BY <1>2, HerePostings
<1>6. Contribution(1, p) = Score(index, seg, b) /\ Score(index, seg, b) > 0
  <2>1. Postings(1) = PostingsOf(index, seg, 1) /\ 1 \in DOMAIN index.query
    BY <1>2, HerePostings
  <2>2. /\ Share(index, seg, 1, b) = Weights(index)[1] * Saturation(p.tf, p.len)
        /\ Share(index, seg, 1, b) > 0
    BY <1>2, <2>1, ShareIs
  <2>3. Contribution(1, p) = Share(index, seg, 1, b)
    BY <1>2, <2>2 DEF Contribution, Here
  <2> QED
    BY <2>2, <2>3, <1>3
<1> HIDE DEF at
<1>7. /\ CursorsKept(index, seg, terms', active')
      /\ PivotKept(index, seg, step', terms', pivot')
      /\ Cursors(terms') /\ Len(terms') = 1 /\ NotBefore(index, seg, terms, terms')
      /\ step' \in {"scan", "next"}
      /\ step' = "scan" => Doc(terms[1]) < Doc(terms'[1]) /\ Doc(terms'[1]) \in Nat
      /\ \A d \in Docs(index, seg) :
           Score(index, seg, d) > 0 /\ Passed(index, seg, step', terms', pivot', d) =>
             \/ Passed(index, seg, step, terms, pivot, d)
             \/ \E k \in terms[1].at..(at - 1) : Postings(1)[k].doc = d
  BY <1>1, <1>4, ScanMoves
<1>8. \A d \in Docs(index, seg) :
        Score(index, seg, d) > 0 /\ Passed(index, seg, step', terms', pivot', d) =>
          Passed(index, seg, step, terms, pivot, d) \/ d = b
  BY <1>4, <1>7
<1>9. \A x \in Range(heap) : x.seg = seg => x.doc < b
  <2>1. DocIn(index, seg, terms[1]) = b /\ 1 \in 1..Len(terms)
    BY <1>2, InIs
  <2> QED
    BY <2>1, <1>1, <1>2 DEF Searching, FoundBefore
<1>10. heap' = IF Dominated(heap, max_results, Score(index, seg, b)) THEN heap
               ELSE Add(heap, max_results, FromSegment(seg, b, Score(index, seg, b)))
  BY <1>1, <1>6
<1>11. step # "memtable" /\ Score(index, seg, b) > 0 /\ b \in Nat
  BY <1>1, <1>2, <1>6
<1> HIDE DEF b
<1>12. /\ HeapKept(index, max_results, todo, seg, step', terms', pivot', heap')
       /\ \A x \in Range(heap') : x \in Range(heap) \/ (x.seg = seg /\ x.doc = b)
  BY <1>5, <1>8, <1>9, <1>10, <1>11, HeapScores
<1>13. FoundBefore(index, seg, step', terms', pivot', heap')
  <2>1. FoundBefore(index, seg, step', terms', pivot', heap)
    BY <1>1, <1>7, FoundStays
  <2>2. ASSUME NEW x \in Range(heap'), ~ x \in Range(heap)
        PROVE  x.seg = seg /\ x.doc = b
    BY <1>12, <2>2
  <2>3. step' = "scan" => \A i \in 1..Len(terms') : b < DocIn(index, seg, terms'[i])
    <3>1. step' = "scan" => b < Doc(terms'[1])
      BY <1>2, <1>7
    <3>2. \A i \in 1..Len(terms') : i = 1
      BY <1>7
    <3> QED
      BY <3>1, <3>2, InIs
  <2>4. seg \in Nat
    BY <1>1, InSegment
  <2>5. ASSUME NEW x \in Range(heap')
        PROVE  /\ x.seg <= seg
               /\ x.seg = seg /\ seg > 0 /\ step' \in {"scan", "pivot", "seek", "bound"} =>
                    \A i \in 1..Len(terms') : x.doc < DocIn(index, seg, terms'[i])
    <3>1. CASE x \in Range(heap)
      BY <3>1, <2>1 DEF FoundBefore
    <3>2. CASE ~ x \in Range(heap)
      <4>1. x.seg = seg /\ x.doc = b
        BY <3>2, <2>2
      <4> QED
        BY <4>1, <2>3, <2>4, <1>7
    <3> QED
      BY <3>1, <3>2
  <2> QED
    BY <2>5, <1>7 DEF FoundBefore
<1> QED
  BY <1>1, <1>7, <1>12, <1>13, <1>11, GoesOn

\* Passing a block of the only term keeps the invariant: its maximum is too small.
LEMMA PassBlockGoes ==
    ASSUME Searching, PassBlock
    PROVE  Searching'
<1> DEFINE blk == BlockOf(terms[1])
           at == LastOf(1, blk) + 1
<1>1. /\ step = "scan" /\ BlockMax(1, blk) < Threshold(heap, max_results)
      /\ ScanTo(at)
      /\ UNCHANGED <<index, max_results, weight, heap, todo, seg, pivot>>
  BY DEF PassBlock, PassesBlock
<1>2. /\ Here /\ Cursors(terms) /\ Len(terms) = 1 /\ seg > 0
      /\ WellFormed(index) /\ seg \in DOMAIN index.segments
      /\ DOMAIN index.query = {1} /\ Len(Postings(1)) \in Nat
      /\ terms[1].term = 1 /\ terms[1].at \in 1..Len(Postings(1))
  BY <1>1, ScanIs
<1>3. \A d : Score(index, seg, d) = Share(index, seg, 1, d)
  BY <1>1, ScanIs
<1>4. /\ 1 \in DOMAIN index.query
      /\ blk \in 1..Blocks(1) /\ terms[1].at \in FirstOf(blk)..LastOf(1, blk)
  BY <1>2, InBlock
<1>5. FirstOf(blk) \in 1..LastOf(1, blk) /\ LastOf(1, blk) \in 1..Len(Postings(1))
  BY <1>2, <1>4, BlocksAre
<1>6. /\ BlockMax(1, blk) \in Nat
      /\ \A i \in FirstOf(blk)..LastOf(1, blk) :
           /\ Contribution(1, Postings(1)[i]) \in Nat
           /\ Contribution(1, Postings(1)[i]) <= BlockMax(1, blk)
  BY <1>2, <1>4, BlockMaxIs
<1> HIDE DEF blk
<1>7. at \in (terms[1].at + 1)..(Len(Postings(1)) + 1)
      /\ \A k \in terms[1].at..(at - 1) : k \in FirstOf(blk)..LastOf(1, blk)
           /\ k \in 1..Len(Postings(1))
  BY <1>2, <1>4, <1>5
<1> HIDE DEF at
<1>8. /\ CursorsKept(index, seg, terms', active')
      /\ PivotKept(index, seg, step', terms', pivot')
      /\ Cursors(terms') /\ Len(terms') = 1 /\ NotBefore(index, seg, terms, terms')
      /\ step' \in {"scan", "next"}
      /\ step' = "scan" => Doc(terms[1]) < Doc(terms'[1]) /\ Doc(terms'[1]) \in Nat
      /\ \A d \in Docs(index, seg) :
           Score(index, seg, d) > 0 /\ Passed(index, seg, step', terms', pivot', d) =>
             \/ Passed(index, seg, step, terms, pivot, d)
             \/ \E k \in terms[1].at..(at - 1) : Postings(1)[k].doc = d
  BY <1>1, <1>7, ScanMoves
<1>9. ASSUME NEW d \in Docs(index, seg), Score(index, seg, d) > 0,
             Passed(index, seg, step', terms', pivot', d),
             ~Passed(index, seg, step, terms, pivot, d)
      PROVE  Skippable(d)
  <2>1. Intact(index, seg, terms, d)
    BY <1>9 DEF Passed
  <2>2. \A x \in Range(heap) : x.seg = seg => x.doc < d
    BY <1>1, <1>9, <2>1, Unseen
  <2>3. PICK k \in terms[1].at..(at - 1) : Postings(1)[k].doc = d
    BY <1>8, <1>9
  <2>4. k \in FirstOf(blk)..LastOf(1, blk) /\ k \in 1..Len(Postings(1))
    BY <1>7
  <2>5. Postings(1) = PostingsOf(index, seg, 1) /\ 1 \in DOMAIN index.query
    BY <1>2, HerePostings
  <2>6. Share(index, seg, 1, d)
          = Weights(index)[1] * Saturation(Postings(1)[k].tf, Postings(1)[k].len)
    BY <1>2, <2>3, <2>4, <2>5, ShareIs
  <2>7. Score(index, seg, d) = Contribution(1, Postings(1)[k])
    BY <1>2, <1>3, <2>6 DEF Contribution, Here
  <2>8. Score(index, seg, d) \in Nat /\ Score(index, seg, d) <= BlockMax(1, blk)
    BY <2>4, <2>7, <1>6
  <2>9. Threshold(heap, max_results) \in Nat
    BY HeapIs
  <2>10. Score(index, seg, d) <= Threshold(heap, max_results)
    BY <2>8, <2>9, <1>1, <1>6
  <2> QED
    BY <2>2, <2>10 DEF Skippable
<1>10. step # "memtable"
  BY <1>1
<1>11. HeapKept(index, max_results, todo, seg, step', terms', pivot', heap)
  BY <1>9, <1>10, HeapStays
<1>12. FoundBefore(index, seg, step', terms', pivot', heap)
  BY <1>1, <1>8, FoundStays
<1> QED
  BY <1>1, <1>8, <1>10, <1>11, <1>12, GoesOn

-----------------------------------------------------------------------------
(* From segment to segment.                                                 *)

\* A segment has a list of postings for each term of the query.
LEMMA ListsAre ==
    ASSUME NEW ix, WellFormed(ix), NEW s \in DOMAIN ix.segments
    PROVE  /\ DOMAIN ix.segments[s].postings = DOMAIN ix.query
           /\ Len(ix.segments[s].postings) = Len(ix.query)
<1> DEFINE E == [doc : Docs(ix, s), tf : Frequencies, len : Lengths]
           ps == ix.segments[s].postings
<1>1. ps \in Seq(Seq(E)) /\ Len(ps) = Len(ix.query)
  BY DEF WellFormed, Docs
<1> HIDE DEF E, ps
<1>2. DOMAIN ps = 1..Len(ps)
  BY <1>1
<1>3. DOMAIN ix.query = 1..Len(ix.query)
  BY QueryIs
<1> QED
  BY <1>1, <1>2, <1>3 DEF ps

\* The cursors that a segment is opened with.
LEMMA OpenedCursors ==
    ASSUME NEW ix, WellFormed(ix), NEW s \in DOMAIN ix.segments,
           NEW cs, cs \in Sorted(ix.segments[s].postings)
    PROVE  /\ CursorsIn(ix, s, cs) /\ Len(cs) = Len(ix.query) /\ Len(cs) \in Nat
           /\ \A i \in 1..Len(cs) : cs[i].at = 1 /\ cs[i].term \in DOMAIN ix.query
<1> DEFINE lists == ix.segments[s].postings
           Q == DOMAIN ix.query
           S == {[term |-> t, at |-> 1] : t \in Q}
           f == [t \in Q |-> [term |-> t, at |-> 1]]
           n == Len(ix.query)
<1>1. Q = 1..n /\ n \in Nat /\ IsFiniteSet(Q)
  BY QueryIs
<1>2. DOMAIN lists = Q /\ \A t \in Q : lists[t] = PostingsOf(ix, s, t)
  BY ListsAre DEF PostingsOf
<1>3. cs \in SetToSeqs(S)
      /\ \A i, j \in DOMAIN cs : i < j => FirstDoc(lists[cs[i].term]) <= FirstDoc(lists[cs[j].term])
  <2>1. /\ cs \in SetToSeqs({[term |-> t, at |-> 1] : t \in DOMAIN lists})
        /\ \A i, j \in DOMAIN cs : i < j
             => FirstDoc(lists[cs[i].term]) <= FirstDoc(lists[cs[j].term])
    BY DEF Sorted
  <2> QED
    BY <2>1, <1>2
<1>4. IsFiniteSet(S) /\ Cardinality(S) = n
  <2>1. f \in Bijection(Q, S)
    <3>1. f \in [Q -> S] /\ \A t \in Q : f[t].term = t
      OBVIOUS
    <3>2. \A t \in S : \E u \in Q : f[u] = t
      OBVIOUS
    <3> HIDE DEF f, S, Q
    <3>3. f \in Injection(Q, S)
      BY <3>1 DEF Injection, IsInjective
    <3>4. f \in Surjection(Q, S)
      BY <3>1, <3>2 DEF Surjection
    <3> QED
      BY <3>3, <3>4 DEF Bijection
  <2>2. ExistsBijection(Q, S)
    <3> HIDE DEF f, Q, S
    <3> QED
      BY <2>1 DEF ExistsBijection
  <2>3. Cardinality(Q) = n
    <3>1. Cardinality(1..n) = IF 1 > n THEN 0 ELSE n - 1 + 1
      <4>1. 1 \in Int /\ n \in Int
        BY <1>1
      <4> QED
        BY <4>1, FS_Interval
    <3> QED
      BY <3>1, <1>1
  <2> HIDE DEF S, Q
  <2>4. IsFiniteSet(S) /\ Cardinality(S) = Cardinality(Q)
    BY <2>2, <1>1, FS_Bijection
  <2> QED
    BY <2>3, <2>4
<1> HIDE DEF n
<1>5. cs \in [1..n -> S] /\ \A i, j \in 1..n : i # j => cs[i] # cs[j]
  <2> HIDE DEF S
  <2> QED
    BY <1>3, <1>4 DEF SetToSeqs
<1>6. cs \in Surjection(1..n, S)
  <2>1. cs \in Injection(1..n, S)
    <3> HIDE DEF S
    <3> QED
      BY <1>5 DEF Injection, IsInjective
  <2>2. IsFiniteSet(1..n) /\ Cardinality(1..n) = n
    <3>1. 1 \in Int /\ n \in Int
      BY <1>1
    <3>2. Cardinality(1..n) = IF 1 > n THEN 0 ELSE n - 1 + 1
      BY <3>1, FS_Interval
    <3> QED
      BY <3>1, <3>2, <1>1, FS_Interval
  <2> HIDE DEF S
  <2> QED
    BY <2>1, <2>2, <1>4, FS_Injection
<1>7. ASSUME NEW i \in 1..n PROVE cs[i] \in [term : Q, at : Nat] /\ cs[i].at = 1 /\ cs[i].term \in Q
  BY <1>5
<1>8. ASSUME NEW t \in Q PROVE \E i \in 1..n : cs[i].term = t
  <2>1. [term |-> t, at |-> 1] \in S
    OBVIOUS
  <2>2. PICK i \in 1..n : cs[i] = [term |-> t, at |-> 1]
    <3> HIDE DEF S
    <3> QED
      BY <2>1, <1>6 DEF Surjection
  <2> QED
    BY <2>2
<1> HIDE DEF S, Q
<1>9. cs \in Seq([term : Q, at : Nat]) /\ Len(cs) = n
  <2>1. DOMAIN cs = 1..n /\ cs = [i \in 1..n |-> cs[i]]
    BY <1>5
  <2> DEFINE E == [term : Q, at : Nat]
  <2>2. \A i \in 1..n : cs[i] \in E
    BY <1>7
  <2> HIDE DEF E
  <2>3. cs \in [1..n -> E]
    BY <2>1, <2>2
  <2>4. cs \in Seq(E) /\ Len(cs) = n
    BY <2>3, <1>1
  <2> QED
    BY <2>4 DEF E
<1>10. ASSUME NEW i \in 1..n, NEW j \in 1..n, cs[i].term = cs[j].term PROVE i = j
  <2>1. cs[i] = cs[j]
    BY <1>7, <1>10
  <2> QED
    BY <2>1, <1>5
<1>11. ASSUME NEW t \in Q
       PROVE  /\ Len(PostingsOf(ix, s, t)) \in Nat
              /\ FirstDoc(lists[t]) = DocIn(ix, s, [term |-> t, at |-> 1])
  <2>1. PostingsOf(ix, s, t) \in Seq([doc : Docs(ix, s), tf : Frequencies, len : Lengths])
    BY PostingsAre DEF Q
  <2>2. lists[t] = PostingsOf(ix, s, t)
    BY <1>2
  <2>3. DocIn(ix, s, [term |-> t, at |-> 1]) =
          IF 1 > Len(PostingsOf(ix, s, t)) THEN NoDoc ELSE PostingsOf(ix, s, t)[1].doc
    BY DEF DocIn
  <2> HIDE DEF lists
  <2>4. PostingsOf(ix, s, t) = <<>> <=> 1 > Len(PostingsOf(ix, s, t))
    BY <2>1
  <2> QED
    BY <2>1, <2>2, <2>3, <2>4 DEF FirstDoc
<1>12. ASSUME NEW i \in 1..n, NEW j \in 1..n, i < j
       PROVE  DocIn(ix, s, cs[i]) <= DocIn(ix, s, cs[j])
  <2>1. cs[i] = [term |-> cs[i].term, at |-> 1] /\ cs[j] = [term |-> cs[j].term, at |-> 1]
    BY <1>7
  <2>2. FirstDoc(lists[cs[i].term]) <= FirstDoc(lists[cs[j].term])
    BY <1>3, <1>9, <1>5, <1>12
  <2>3. FirstDoc(lists[cs[i].term]) = DocIn(ix, s, cs[i])
          /\ FirstDoc(lists[cs[j].term]) = DocIn(ix, s, cs[j])
    BY <2>1, <1>7, <1>11
  <2> QED
    BY <2>2, <2>3
<1>13. \A i \in 1..n : cs[i].at \in 1..(Len(PostingsOf(ix, s, cs[i].term)) + 1)
  BY <1>7, <1>11
<1>14. CursorsIn(ix, s, cs)
  BY <1>8, <1>9, <1>10, <1>12, <1>13 DEF CursorsIn, Q, n
<1> QED
  BY <1>1, <1>7, <1>9, <1>14 DEF Q, n

\* Opening the next segment keeps the invariant: the last one has been searched.
LEMMA OpenSegmentGoes ==
    ASSUME Searching, OpenSegment
    PROVE  Searching'
<1> DEFINE s == seg + 1
           lists == index.segments[s].postings
           found == {t \in DOMAIN lists : lists[t] # <<>>}
           Q == DOMAIN index.query
<1>1. /\ step = "next" \/ (step = "memtable" /\ todo = {})
      /\ seg < Len(index.segments) /\ seg' = s
      /\ active' = Cardinality(found)
      /\ terms' \in Sorted(lists)
      /\ step' = IF found = {} THEN "next" ELSE IF Len(lists) = 1 THEN "scan" ELSE "pivot"
      /\ UNCHANGED <<index, max_results, weight, heap, todo, pivot>>
  BY DEF OpenSegment
<1>2. /\ WellFormed(index) /\ todo = {} /\ seg \in 0..Len(index.segments)
      /\ max_results \in 1..MaxLimit
  BY <1>1 DEF Searching, Control
<1>3. /\ DOMAIN index.segments = 1..Len(index.segments) /\ Len(index.segments) \in Nat
  BY <1>2, SegmentsAre
<1>4. seg \in Nat /\ s \in DOMAIN index.segments /\ s \in 0..Len(index.segments) /\ s > 0
        /\ s \in Nat
  BY <1>1, <1>2, <1>3
<1>5. Q = 1..Len(index.query) /\ Len(index.query) \in Nat
  BY <1>2, QueryIs
<1> HIDE DEF s
<1>6. DOMAIN lists = Q /\ Len(lists) = Len(index.query)
        /\ \A t \in Q : lists[t] = PostingsOf(index, s, t)
  BY <1>2, <1>4, ListsAre DEF PostingsOf
<1>7. /\ CursorsIn(index, s, terms') /\ Len(terms') = Len(index.query)
      /\ \A i \in 1..Len(terms') : terms'[i].at = 1 /\ terms'[i].term \in Q
  BY <1>1, <1>2, <1>4, OpenedCursors
<1>8. ASSUME NEW t \in Q
      PROVE  /\ Len(PostingsOf(index, s, t)) \in Nat
             /\ t \in found <=> 1 <= Len(PostingsOf(index, s, t))
             /\ \A i \in 1..Len(PostingsOf(index, s, t)) :
                  PostingsOf(index, s, t)[i].doc \in Nat /\ PostingsOf(index, s, t)[i].doc < NoDoc
  <2>1. PostingsOf(index, s, t) \in Seq([doc : Docs(index, s), tf : Frequencies, len : Lengths])
    BY <1>2, <1>4, PostingsAre
  <2>2. PostingsOf(index, s, t) # <<>> <=> 1 <= Len(PostingsOf(index, s, t))
    BY <2>1
  <2>3. t \in found <=> PostingsOf(index, s, t) # <<>>
    BY <1>6
  <2>4. \A i \in 1..Len(PostingsOf(index, s, t)) : PostingsOf(index, s, t)[i].doc \in Docs(index, s)
    <3> DEFINE E == [doc : Docs(index, s), tf : Frequencies, len : Lengths]
               ps == PostingsOf(index, s, t)
    <3>1. \A p \in E : p.doc \in Docs(index, s)
      OBVIOUS
    <3>2. ps \in Seq(E)
      BY <2>1
    <3> HIDE DEF E, ps
    <3>3. \A i \in 1..Len(ps) : ps[i] \in E
      BY <3>2
    <3> QED
      BY <3>1, <3>3 DEF ps
  <2> QED
    BY <2>1, <2>2, <2>3, <2>4, <1>2, <1>4, SegmentIs
<1>9. found \subseteq Q
  BY <1>6
<1> HIDE DEF lists, found, Q
<1>10. CursorsKept(index, s, terms', active')
  <2>1. OpenIn(index, s, terms') = found
    <3>1. ASSUME NEW t PROVE t \in OpenIn(index, s, terms') <=> t \in found
      <4>1. ASSUME t \in found PROVE t \in OpenIn(index, s, terms')
        <5>1. t \in Q /\ 1 <= Len(PostingsOf(index, s, t))
          BY <4>1, <1>8, <1>9
        <5>2. PICK i \in 1..Len(terms') : terms'[i].term = t
          BY <5>1, <1>7 DEF CursorsIn, Q
        <5>3. terms'[i].at <= Len(PostingsOf(index, s, t))
          BY <5>1, <5>2, <1>7
        <5> QED
          BY <5>1, <5>2, <5>3 DEF OpenIn, Q
      <4>2. ASSUME t \in OpenIn(index, s, terms') PROVE t \in found
        <5>1. t \in Q /\ \E i \in 1..Len(terms') :
                terms'[i].term = t /\ terms'[i].at <= Len(PostingsOf(index, s, t))
          BY <4>2 DEF OpenIn, Q
        <5>2. 1 <= Len(PostingsOf(index, s, t))
          BY <5>1, <1>7
        <5> QED
          BY <5>1, <5>2, <1>8
      <4> QED
        BY <4>1, <4>2
    <3> QED
      BY <3>1
  <2>2. s # 0
    BY <1>4
  <2> QED
    BY <2>1, <2>2, <1>1, <1>7 DEF CursorsKept
<1>11. step' \in {"next", "scan", "pivot"} /\ (step' = "next" => found = {})
       /\ (step' = "scan" => found # {} /\ Len(index.query) = 1)
  BY <1>1, <1>6
<1>12. PivotKept(index, s, step', terms', pivot')
  <2>1. pivot.len \in 0..Len(index.query)
    BY DEF Searching, PivotKept
  <2>2. ASSUME step' = "scan" PROVE Len(index.query) = 1 /\ DocIn(index, s, terms'[1]) < NoDoc
    <3>1. found # {} /\ Len(index.query) = 1
      BY <2>2, <1>11
    <3>2. PICK t \in found : TRUE
      BY <3>1
    <3>3. t \in Q /\ 1 <= Len(PostingsOf(index, s, t)) /\ Len(PostingsOf(index, s, t)) \in Nat
      BY <3>2, <1>8, <1>9
    <3>4. 1 \in 1..Len(terms') /\ terms'[1].at = 1 /\ terms'[1].term \in Q
      BY <3>1, <1>7
    <3>5. terms'[1].term = t
      BY <3>1, <3>3, <3>4, <1>5
    <3>6. DocIn(index, s, terms'[1]) = PostingsOf(index, s, t)[1].doc
      BY <3>3, <3>4, <3>5 DEF DocIn
    <3> QED
      BY <3>1, <3>3, <3>6, <1>8
  <2> QED
    BY <2>1, <2>2, <1>1, <1>11 DEF PivotKept
<1>13. ASSUME NEW e \in Considered(index, todo, s, step', terms', pivot')
       PROVE  e \in Considered(index, todo, seg, step, terms, pivot)
  <2>1. e \in Entries(index) /\ (IF e.seg = 0 THEN ~\E d \in todo : d.ctid = e.ctid
                    ELSE e.seg < s \/ (e.seg = s /\ Passed(index, s, step', terms', pivot', e.doc)))
    BY DEF Considered
  <2>2. e.seg \in 0..Len(index.segments)
    BY <1>2, <2>1, EntryIs
  <2>3. CASE e.seg = 0
    BY <2>1, <2>3 DEF Considered
  <2>4. CASE e.seg # 0 /\ e.seg < s
    <3>1. e.seg < seg \/ e.seg = seg
      BY <2>2, <2>4, <1>2, <1>3, <1>4 DEF s
    <3>2. e.seg = seg => step = "next"
      BY <2>4, <1>1 DEF Searching, Control
    <3> QED
      BY <3>1, <3>2, <2>1, <2>4 DEF Considered, Passed
  <2>5. CASE e.seg # 0 /\ ~ e.seg < s
    <3>1. e.seg = s /\ Passed(index, s, step', terms', pivot', e.doc)
      BY <2>1, <2>5
    <3>2. e.doc \in Docs(index, s) /\ Score(index, s, e.doc) > 0
      BY <1>2, <2>1, <2>5, <3>1, EntryIs DEF OfSegment
    <3>3. PICK t \in Q : Share(index, s, t, e.doc) > 0
      BY <1>2, <1>4, <3>2, ScoreIs DEF Q
    <3>4. PICK k \in 1..Len(PostingsOf(index, s, t)) : PostingsOf(index, s, t)[k].doc = e.doc
      <4>1. WellFormed(index) /\ s \in DOMAIN index.segments /\ t \in DOMAIN index.query
        BY <1>2, <1>4, <3>3 DEF Q
      <4> QED
        BY ONLY <4>1, <3>3, ShareFrom
    <3>5. t \in found
      BY <1>8, <3>4
    <3>6. Intact(index, s, terms', e.doc)
      <4> SUFFICES ASSUME NEW i \in 1..Len(terms'),
                            NEW j \in 1..Len(PostingsOf(index, s, terms'[i].term))
                   PROVE  terms'[i].at <= j
        BY DEF Intact
      <4>1. j \in 1..Len(PostingsOf(index, s, terms'[i].term))
            /\ Len(PostingsOf(index, s, terms'[i].term)) \in Nat
        BY <1>7, <1>8
      <4> QED
        BY <4>1, <1>7
    <3> QED
      BY <3>1, <3>5, <3>6, <1>11 DEF Passed
  <2> QED
    BY <2>3, <2>4, <2>5
<1>14. HeapKept(index, max_results, todo, s, step', terms', pivot', heap)
  <2> DEFINE C == Considered(index, todo, seg, step, terms, pivot)
             D == Considered(index, todo, s, step', terms', pivot')
  <2>1. Top(heap, Entries(index), Grade(index), max_results, C)
    BY DEF Searching, HeapKept
  <2>2. D \subseteq C
    BY <1>13
  <2> HIDE DEF C, D
  <2>3. Top(heap, Entries(index), Grade(index), max_results, D)
    BY <2>1, <2>2 DEF Top
  <2> QED
    BY <2>3 DEF HeapKept, D
<1>15. FoundBefore(index, s, step', terms', pivot', heap)
  <2>1. ASSUME NEW x \in Range(heap) PROVE x.seg <= s /\ x.seg # s
    <3>1. x.seg <= seg
      BY DEF Searching, FoundBefore
    <3>2. x.seg \in Nat
      <4>1. x.seg \in 0..Len(index.segments)
        BY <1>2, HeapIs, EntryIs
      <4> QED
        BY <4>1, <1>3
    <3> QED
      BY <3>1, <3>2, <1>4 DEF s
  <2> QED
    BY <2>1 DEF FoundBefore
<1>16. Control(index, max_results, todo, s, step')
  BY <1>2, <1>4, <1>11 DEF Control
<1>17. FoundOnce(todo, heap)
  BY DEF Searching
<1>18. step' # "done"
  BY <1>11
<1> QED
  BY <1>1, <1>10, <1>12, <1>14, <1>15, <1>16, <1>17, <1>18 DEF Searching

-----------------------------------------------------------------------------
(* The memtable, and the start of a search.                                 *)

\* The score of a document of the memtable is the sum of its terms' shares.
LEMMA MemtableScoreIs ==
    ASSUME weight = Weights(index), NEW d
    PROVE  MemtableScore(d) = MemtableSum(index, d)
  BY DEF MemtableScore, MemtableSum

\* Scoring a document of the memtable keeps the invariant.
LEMMA AddMemtableGoes ==
    ASSUME Searching, AddMemtable
    PROVE  Searching'
<1>1. PICK d \in todo :
        /\ todo' = todo \ {d}
        /\ heap' = IF Dominated(heap, max_results, MemtableScore(d)) THEN heap
                   ELSE Add(heap, max_results, FromMemtable(d.ctid, MemtableScore(d)))
  BY DEF AddMemtable
<1>2. /\ step = "memtable"
      /\ UNCHANGED <<index, max_results, weight, seg, terms, active, pivot, step>>
  BY DEF AddMemtable
<1>3. /\ WellFormed(index) /\ seg = 0 /\ weight = Weights(index)
      /\ todo \subseteq {x \in index.memtable : \E t \in DOMAIN index.query : x.tf[t] > 0}
      /\ max_results \in 1..MaxLimit
  BY <1>2 DEF Searching, Control
<1> DEFINE E == Entries(index)
           C == Considered(index, todo, seg, step, terms, pivot)
           D == Considered(index, todo', seg, step, terms, pivot)
           e == FromMemtable(d.ctid, MemtableScore(d))
           r == Grade(index)
<1>4. d \in index.memtable /\ e \in E /\ MemtableScore(d) \in Nat
  <2>1. d \in index.memtable /\ \E t \in DOMAIN index.query : d.tf[t] > 0
    BY <1>3
  <2>2. MemtableScore(d) = MemtableSum(index, d)
    BY <1>3, MemtableScoreIs
  <2>3. MemtableSum(index, d) \in Nat /\ MemtableSum(index, d) > 0
    BY <1>3, <2>1, MemtableSumIs
  <2> QED
    BY <1>3, <2>1, <2>2, <2>3, EntriesHave
<1>5. e.seg = 0 /\ e.ctid = d.ctid /\ e.score = MemtableScore(d)
  BY DEF FromMemtable, InMemtable
<1>6. e \notin Range(heap)
  BY <1>5 DEF Searching, FoundOnce
<1>7. Top(heap, E, r, max_results, C) /\ C \in SUBSET E
  BY DEF Searching, HeapKept, Considered
<1>8. max_results \in Nat \ {0} /\ Grades(r, E)
  BY <1>3, HeapIs, GradeIs
<1>9. D \subseteq C \union {e}
  <2> SUFFICES ASSUME NEW x \in D, x \notin C PROVE x = e
    OBVIOUS
  <2>1. x \in E /\ (IF x.seg = 0 THEN ~\E y \in todo' : y.ctid = x.ctid
                    ELSE x.seg < seg
                           \/ (x.seg = seg /\ Passed(index, seg, step, terms, pivot, x.doc)))
    BY DEF Considered
  <2>2. x.seg = 0 /\ \E y \in todo : y.ctid = x.ctid
    BY <2>1 DEF Considered
  <2>3. x.ctid = d.ctid
    BY <1>1, <2>1, <2>2
  <2> QED
    BY <1>3, <1>4, <1>5, <2>1, <2>2, <2>3, EntriesDiffer
<1> HIDE DEF C, D, e, r
<1>10. /\ Top(heap', E, r, max_results, D)
       /\ Range(heap') \subseteq Range(heap) \union {e}
  <2>1. CASE Dominated(heap, max_results, MemtableScore(d))
    <3>1. Len(heap) >= max_results /\ e.score < heap[1].score
      BY <1>5, <2>1 DEF Dominated
    <3>2. Len(heap) = max_results /\ Len(heap) > 0 /\ heap[1] \in E
      <4>1. Len(heap) \in Nat /\ Len(heap) <= max_results
        BY HeapIs
      <4>2. Len(heap) = max_results /\ Len(heap) > 0
        BY <3>1, <4>1, <1>8
      <4> QED
        BY <4>2, HeapIs
    <3>3. r[e] <= r[heap[1]]
      BY <1>3, <1>4, <3>1, <3>2, GradeIs DEF r
    <3>4. heap' = heap
      BY <1>1, <2>1
    <3>5. Heap(heap, E, r, max_results)
          /\ \A c \in C \ Range(heap) : Len(heap) = max_results /\ r[c] <= r[heap[1]]
      BY <1>7 DEF Top
    <3>6. \A c \in D \ Range(heap) : Len(heap) = max_results /\ r[c] <= r[heap[1]]
      BY <1>9, <3>2, <3>3, <3>5
    <3> QED
      BY <3>4, <3>5, <3>6 DEF Top
  <2>2. CASE ~Dominated(heap, max_results, MemtableScore(d))
    <3>1. heap' = Add(heap, max_results, e)
      BY <1>1, <2>2 DEF e
    <3>2. Len(heap) = max_results => BeatsFairly(heap, r, e)
      <4> SUFFICES ASSUME Len(heap) = max_results PROVE BeatsFairly(heap, r, e)
        OBVIOUS
      <4>1. heap[1] \in E
        BY <1>8, HeapIs
      <4> QED
        BY <1>3, <1>4, <4>1, GradesFairly DEF r
    <3>3. Top(heap', E, r, max_results, C \union {e})
          /\ Range(heap') \subseteq Range(heap) \union {e}
      BY <1>4, <1>6, <1>7, <1>8, <3>1, <3>2, TopAdd
    <3> HIDE DEF E
    <3>4. Top(heap', E, r, max_results, D)
      BY <1>9, <3>3 DEF Top
    <3> QED
      BY <3>3, <3>4
  <2> QED
    BY <2>1, <2>2
<1>11. HeapKept(index, max_results, todo', seg, step, terms, pivot, heap')
  BY <1>10 DEF HeapKept, D, r
<1>12. FoundBefore(index, seg, step, terms, pivot, heap')
  <2>1. \A x \in Range(heap') : x.seg <= 0
    <3>1. \A x \in Range(heap) : x.seg <= 0
      BY <1>3 DEF Searching, FoundBefore
    <3> QED
      BY <3>1, <1>5, <1>10
  <2> QED
    BY <2>1, <1>3 DEF FoundBefore
<1>13. FoundOnce(todo', heap')
  <2> SUFFICES ASSUME NEW x \in Range(heap'), NEW y \in todo', x.seg = 0 PROVE y.ctid # x.ctid
    BY DEF FoundOnce
  <2>1. y \in todo /\ y # d /\ y \in index.memtable
    BY <1>1, <1>3
  <2>2. CASE x \in Range(heap)
    BY <2>1, <2>2 DEF Searching, FoundOnce
  <2>3. CASE x = e
    <3>1. y.ctid # d.ctid
      BY <1>3, <1>4, <2>1 DEF WellFormed
    <3> QED
      BY <2>3, <3>1, <1>5
  <2> QED
    BY <2>2, <2>3, <1>10
<1>14. Control(index, max_results, todo', seg, step)
  <2>1. todo' \subseteq todo
    BY <1>1
  <2> QED
    BY <2>1, <1>2 DEF Searching, Control
<1>15. CursorsKept(index, seg, terms, active) /\ PivotKept(index, seg, step, terms, pivot)
  BY DEF Searching
<1> QED
  BY <1>2, <1>3, <1>11, <1>12, <1>13, <1>14, <1>15 DEF Searching

\* An execution begins; a query of one term that is nowhere finds nothing.
LEMMA StartGoes ==
    ASSUME WellFormed(index), NEW k \in 1..MaxLimit, Start(k), UNCHANGED index
    PROVE  /\ weight' = Weights(index) /\ step' \in {"done", "memtable"}
           /\ step' = "done" => Entries(index) = {}
           /\ step' = "memtable" => Searching'
<1>1. /\ max_results' = k /\ heap' = <<>> /\ seg' = 0 /\ terms' = <<>> /\ active' = 0
      /\ weight' = [t \in DOMAIN index.query |-> Weight(t)]
      /\ todo' = {d \in index.memtable : \E t \in DOMAIN index.query : d.tf[t] > 0}
      /\ pivot' = NoPivot
      /\ step' = IF Len(index.query) = 1 /\ DocFreq(1) = 0 THEN "done" ELSE "memtable"
      /\ index' = index
  BY DEF Start
<1>2. \A t : DocFreq(t) = DocFreqOf(index, t)
  BY DEF DocFreq, DocFreqOf
<1>3. weight' = Weights(index)
  BY <1>1, <1>2 DEF Weight, Weights
<1>4. ASSUME step' = "done", NEW e \in Entries(index) PROVE FALSE
  <2>1. Len(index.query) = 1 /\ DocFreqOf(index, 1) = 0
    BY <1>1, <1>2, <1>4
  <2>2. DOMAIN index.query = {1}
    <3>1. DOMAIN index.query = 1..Len(index.query)
      BY QueryIs
    <3> QED
      BY <2>1, <3>1
  <2>3. e.score > 0 /\ (IF e.seg = 0 THEN OfMemtable(index, e) ELSE OfSegment(index, e))
    BY EntryIs
  <2>4. CASE e.seg = 0
    <3>1. PICK d \in index.memtable : e.score = MemtableSum(index, d)
      BY <2>3, <2>4 DEF OfMemtable
    <3>2. PICK t \in DOMAIN index.query : d.tf[t] > 0
      BY <2>3, <3>1, MemtableSumIs
    <3>3. DocFreqOf(index, t) > 0
      BY <3>2, DocFreqIs
    <3> QED
      BY <2>1, <2>2, <3>3
  <2>5. CASE e.seg # 0
    <3>1. e.seg \in DOMAIN index.segments /\ Score(index, e.seg, e.doc) > 0
      BY <2>3, <2>5 DEF OfSegment
    <3>2. PICK t \in DOMAIN index.query : Share(index, e.seg, t, e.doc) > 0
      BY <3>1, ScoreIs
    <3>3. PICK i \in 1..Len(PostingsOf(index, e.seg, t)) : TRUE
      BY <3>1, <3>2, ShareIs
    <3>4. Len(PostingsOf(index, e.seg, t)) > 0
      <4> DEFINE L == [doc : Docs(index, e.seg), tf : Frequencies, len : Lengths]
      <4>1. PostingsOf(index, e.seg, t) \in Seq(L)
        BY <3>1, PostingsAre
      <4> HIDE DEF L
      <4>2. Len(PostingsOf(index, e.seg, t)) \in Nat
        BY <4>1
      <4> QED
        BY <3>3, <4>2
    <3>5. DocFreqOf(index, t) > 0
      BY <3>1, <3>4, DocFreqIs
    <3> QED
      BY <2>1, <2>2, <3>5
  <2> QED
    BY <2>4, <2>5
<1>5. ASSUME step' = "memtable" PROVE Searching'
  <2>1. Control(index, k, todo', 0, step')
    <3>1. 0 \in 0..Len(index.segments)
      BY SegmentsAre
    <3> QED
      BY <1>1, <1>5, <3>1 DEF Control
  <2>2. CursorsKept(index, 0, terms', active')
    BY <1>1 DEF CursorsKept
  <2>3. PivotKept(index, 0, step', terms', pivot')
    <3>1. 0 \in 0..Len(index.query)
      BY QueryIs
    <3> QED
      BY <1>1, <1>5, <3>1 DEF PivotKept, NoPivot
  <2>4. Range(<<>>) = {}
    BY DEF Range
  <2>5. FoundBefore(index, 0, step', terms', pivot', <<>>) /\ FoundOnce(todo', <<>>)
    BY <2>4 DEF FoundBefore, FoundOnce
  <2>6. Considered(index, todo', 0, step', terms', pivot') = {}
    <3> SUFFICES ASSUME NEW e \in Considered(index, todo', 0, step', terms', pivot') PROVE FALSE
      OBVIOUS
    <3>1. e \in Entries(index) /\ (IF e.seg = 0 THEN ~\E d \in todo' : d.ctid = e.ctid
                      ELSE e.seg < 0
                             \/ (e.seg = 0 /\ Passed(index, 0, step', terms', pivot', e.doc)))
      BY DEF Considered
    <3>2. e.score > 0 /\ e.seg \in 0..Len(index.segments) /\ (e.seg = 0 => OfMemtable(index, e))
      BY <3>1, EntryIs
    <3>3. e.seg = 0
      BY <3>1, <3>2, SegmentsAre
    <3>4. PICK d \in index.memtable : e.ctid = d.ctid /\ e.score = MemtableSum(index, d)
      BY <3>2, <3>3 DEF OfMemtable
    <3>5. \E t \in DOMAIN index.query : d.tf[t] > 0
      BY <3>2, <3>4, MemtableSumIs
    <3>6. d \in todo'
      BY <1>1, <3>5
    <3> QED
      BY <3>1, <3>3, <3>4, <3>6
  <2>7. HeapKept(index, k, todo', 0, step', terms', pivot', <<>>)
    <3> DEFINE D == Considered(index, todo', 0, step', terms', pivot')
               E == Entries(index)
               r == Grade(index)
    <3>1. k \in Nat
      BY ScanAssumption
    <3>2. D = {}
      BY <2>6
    <3> HIDE DEF D, E, r
    <3>3. <<>> \in Seq(E) /\ Len(<<>>) = 0 /\ DOMAIN <<>> = {}
      OBVIOUS
    <3>4. Distinct(<<>>) /\ Heaped(<<>>, r) /\ Len(<<>>) <= k
      <4>1. 2..0 = {}
        OBVIOUS
      <4> QED
        BY <4>1, <3>1, <3>3 DEF Distinct, Heaped
    <3>5. Top(<<>>, E, r, k, D)
      BY <3>2, <3>3, <3>4 DEF Top, Heap
    <3> QED
      BY <3>5 DEF HeapKept, D, E, r
  <2> QED
    BY <1>1, <1>3, <1>5, <2>1, <2>2, <2>3, <2>5, <2>7 DEF Searching
<1> QED
  BY <1>1, <1>3, <1>4, <1>5

-----------------------------------------------------------------------------
(* What a search returns.                                                   *)

\* The row of an entry, and the rows of all.
RowFor(ix, e) ==
  [ctid |-> IF e.seg = 0 THEN e.ctid ELSE ix.segments[e.seg].ctids[e.doc], score |-> e.score]
AllRows(ix) == {RowFor(ix, e) : e \in Entries(ix)}

\* The row of an entry has a ctid, and the entry's score.
LEMMA RowForIs ==
    ASSUME NEW ix, WellFormed(ix), NEW e \in Entries(ix)
    PROVE  /\ RowFor(ix, e) \in Rows /\ RowFor(ix, e).score = e.score
           /\ RowFor(ix, e).ctid =
                IF e.seg = 0 THEN e.ctid ELSE ix.segments[e.seg].ctids[e.doc]
           /\ RowFor(ix, e).ctid \in Nat
<1>1. e.score \in Nat /\ e.ctid \in Nat /\ (e.seg # 0 => OfSegment(ix, e))
  BY EntryIs
<1>2. e.seg # 0 => ix.segments[e.seg].ctids[e.doc] \in Nat
  BY <1>1, SegmentIs DEF OfSegment
<1> QED
  BY <1>1, <1>2 DEF RowFor, Rows

\* No two documents have the same ctid.
LEMMA RowsDiffer ==
    ASSUME NEW ix, WellFormed(ix), NEW e \in Entries(ix), NEW f \in Entries(ix),
           RowFor(ix, e).ctid = RowFor(ix, f).ctid
    PROVE  e = f
<1>1. /\ IF e.seg = 0 THEN OfMemtable(ix, e) ELSE OfSegment(ix, e)
      /\ IF f.seg = 0 THEN OfMemtable(ix, f) ELSE OfSegment(ix, f)
  BY EntryIs
<1>2. (IF e.seg = 0 THEN e.ctid ELSE ix.segments[e.seg].ctids[e.doc])
        = (IF f.seg = 0 THEN f.ctid ELSE ix.segments[f.seg].ctids[f.doc])
  BY RowForIs
<1>3. CASE e.seg = 0 /\ f.seg = 0
  BY <1>2, <1>3, EntriesDiffer
<1>4. CASE e.seg = 0 /\ f.seg # 0
  <2>1. PICK d \in ix.memtable : e.ctid = d.ctid
    BY <1>1, <1>4 DEF OfMemtable
  <2>2. f.seg \in DOMAIN ix.segments /\ f.doc \in DOMAIN ix.segments[f.seg].ctids
    BY <1>1, <1>4 DEF OfSegment, Docs
  <2>3. d.ctid # ix.segments[f.seg].ctids[f.doc]
    BY <2>1, <2>2 DEF WellFormed
  <2> QED
    BY <1>2, <1>4, <2>1, <2>3
<1>5. CASE e.seg # 0 /\ f.seg = 0
  <2>1. PICK d \in ix.memtable : f.ctid = d.ctid
    BY <1>1, <1>5 DEF OfMemtable
  <2>2. e.seg \in DOMAIN ix.segments /\ e.doc \in DOMAIN ix.segments[e.seg].ctids
    BY <1>1, <1>5 DEF OfSegment, Docs
  <2>3. d.ctid # ix.segments[e.seg].ctids[e.doc]
    BY <2>1, <2>2 DEF WellFormed
  <2> QED
    BY <1>2, <1>5, <2>1, <2>3
<1>6. CASE e.seg # 0 /\ f.seg # 0
  <2>1. /\ e.seg \in DOMAIN ix.segments /\ e.doc \in Docs(ix, e.seg)
        /\ f.seg \in DOMAIN ix.segments /\ f.doc \in Docs(ix, f.seg)
        /\ ix.segments[e.seg].ctids[e.doc] = ix.segments[f.seg].ctids[f.doc]
    BY <1>1, <1>2, <1>6 DEF OfSegment
  <2>2. e.seg = f.seg
    <3> SUFFICES ASSUME e.seg # f.seg PROVE FALSE
      OBVIOUS
    <3>1. f.seg \in DOMAIN ix.segments \ {e.seg}
      BY <2>1
    <3>2. \A d \in DOMAIN ix.segments[e.seg].ctids, c \in DOMAIN ix.segments[f.seg].ctids :
            ix.segments[e.seg].ctids[d] # ix.segments[f.seg].ctids[c]
      BY <2>1, <3>1 DEF WellFormed
    <3> QED
      BY <2>1, <3>2 DEF Docs
  <2>3. e.doc = f.doc
    <3>1. /\ e.doc \in Nat /\ f.doc \in Nat
          /\ ix.segments[e.seg].ctids[e.doc] \in Nat
          /\ e.doc < f.doc => ix.segments[e.seg].ctids[e.doc] < ix.segments[e.seg].ctids[f.doc]
          /\ f.doc < e.doc => ix.segments[e.seg].ctids[f.doc] < ix.segments[e.seg].ctids[e.doc]
      BY <2>1, <2>2, SegmentIs
    <3> QED
      BY <3>1, <2>1, <2>2
  <2> QED
    BY <1>6, <2>2, <2>3, EntriesDiffer
<1> QED
  BY <1>3, <1>4, <1>5, <1>6

\* There are finitely many rows.
LEMMA AllRowsFinite ==
    ASSUME NEW ix, WellFormed(ix)
    PROVE  AllRows(ix) \in SUBSET Rows /\ IsFiniteSet(AllRows(ix))
<1> DEFINE f == [e \in Entries(ix) |-> RowFor(ix, e)]
<1>1. AllRows(ix) = {f[e] : e \in Entries(ix)} /\ DOMAIN f = Entries(ix)
  BY DEF AllRows
<1>2. AllRows(ix) \in SUBSET Rows
  BY RowForIs DEF AllRows
<1> HIDE DEF f
<1>3. IsFiniteSet({f[e] : e \in Entries(ix)})
  BY <1>1, EntriesFinite, ImageFinite
<1> QED
  BY <1>1, <1>2, <1>3

\* The rows that the definition of what a query means finds.
LEMMA FoundIs ==
    ASSUME WellFormed(index), weight = Weights(index)
    PROVE  Found = AllRows(index)
<1>1. \A d : MemtableScore(d) = MemtableSum(index, d)
  BY MemtableScoreIs
<1>2. ASSUME NEW s, NEW d PROVE SegmentScore(s, d) = Score(index, s, d)
  BY DEF SegmentScore, Score, Shares, Share, PostingsOf, Contribution
<1>3. ASSUME NEW r \in Found PROVE r \in AllRows(index)
  <2>0. r.score > 0
    BY DEF Found
  <2>1. \/ \E d \in index.memtable : r = [ctid |-> d.ctid, score |-> MemtableScore(d)]
        \/ \E s \in DOMAIN index.segments : \E d \in DOMAIN index.segments[s].ctids :
             r = [ctid |-> index.segments[s].ctids[d], score |-> SegmentScore(s, d)]
    BY DEF Found
  <2>2. ASSUME NEW d \in index.memtable, r = [ctid |-> d.ctid, score |-> MemtableScore(d)]
        PROVE  r \in AllRows(index)
    <3> DEFINE e == FromMemtable(d.ctid, MemtableSum(index, d))
    <3>1. e \in Entries(index)
      BY <1>1, <2>0, <2>2, EntriesHave
    <3>2. RowFor(index, e) = r
      BY <1>1, <2>2 DEF RowFor, FromMemtable, InMemtable
    <3> QED
      BY <3>1, <3>2 DEF AllRows
  <2>3. ASSUME NEW s \in DOMAIN index.segments, NEW d \in DOMAIN index.segments[s].ctids,
               r = [ctid |-> index.segments[s].ctids[d], score |-> SegmentScore(s, d)]
        PROVE  r \in AllRows(index)
    <3> DEFINE e == FromSegment(s, d, Score(index, s, d))
    <3>1. e \in Entries(index)
      BY <1>2, <2>0, <2>3, EntriesHave DEF Docs
    <3>2. s # 0
      BY SegmentsAre
    <3>3. RowFor(index, e) = r
      BY <1>2, <2>3, <3>2 DEF RowFor, FromSegment
    <3> QED
      BY <3>1, <3>3 DEF AllRows
  <2> QED
    BY <2>1, <2>2, <2>3
<1>4. ASSUME NEW r \in AllRows(index) PROVE r \in Found
  <2>1. PICK e \in Entries(index) : r = RowFor(index, e)
    BY DEF AllRows
  <2>2. e.score > 0 /\ (IF e.seg = 0 THEN OfMemtable(index, e) ELSE OfSegment(index, e))
    BY EntryIs
  <2>3. r.score > 0
    BY <2>1, <2>2, RowForIs
  <2>4. CASE e.seg = 0
    <3>1. PICK d \in index.memtable : e.ctid = d.ctid /\ e.score = MemtableSum(index, d)
      BY <2>2, <2>4 DEF OfMemtable
    <3>2. r = [ctid |-> d.ctid, score |-> MemtableScore(d)]
      BY <1>1, <2>1, <2>4, <3>1 DEF RowFor
    <3> QED
      BY <2>3, <3>2 DEF Found
  <2>5. CASE e.seg # 0
    <3>1. e.seg \in DOMAIN index.segments /\ e.doc \in DOMAIN index.segments[e.seg].ctids
          /\ e.score = Score(index, e.seg, e.doc)
      BY <2>2, <2>5 DEF OfSegment, Docs
    <3>2. r = [ctid |-> index.segments[e.seg].ctids[e.doc], score |-> SegmentScore(e.seg, e.doc)]
      BY <1>2, <2>1, <2>5, <3>1 DEF RowFor
    <3> QED
      BY <2>3, <3>1, <3>2 DEF Found
  <2> QED
    BY <2>4, <2>5
<1> QED
  BY <1>3, <1>4

\* The list of everything.
Whole(ix) == CHOOSE all : Lists(all, AllRows(ix))

\* The reference definition lists every row, the better ones first.
LEMMA WholeIs ==
    ASSUME WellFormed(index), weight = Weights(index)
    PROVE  /\ Lists(Whole(index), AllRows(index))
           /\ Len(Whole(index)) \in Nat /\ Len(Whole(index)) = Cardinality(AllRows(index))
           /\ Whole(index) = [i \in 1..Len(Whole(index)) |-> Whole(index)[i]]
           /\ Ranking = Whole(index)
<1> DEFINE F == AllRows(index)
           w == Whole(index)
           q == Ranking
<1>1. F \in SUBSET Rows /\ IsFiniteSet(F)
  BY AllRowsFinite
<1>2. Lists(q, F)
  <2>1. Found = F
    BY FoundIs
  <2>2. Lists(Ranking, Found)
    BY <1>1, <2>1, RankingLists
  <2> QED
    BY <2>1, <2>2
<1>3. Lists(w, F)
  <2>1. \E all : Lists(all, F)
    BY <1>2
  <2> QED
    BY <2>1 DEF Whole
<1> HIDE DEF F, w, q
<1>4. Len(w) = Cardinality(F) /\ Len(q) = Cardinality(F) /\ Cardinality(F) \in Nat
  BY <1>1, <1>2, <1>3, FS_CardinalityType DEF Lists
<1>5. w = [i \in 1..Len(w) |-> w[i]] /\ q = [i \in 1..Len(q) |-> q[i]]
  BY <1>2, <1>3 DEF Lists
<1>6. ASSUME NEW i \in 1..Len(q) PROVE q[i] = w[i]
  <2>1. F \in SUBSET F /\ \A x \in F, y \in F : Better(y, x) => y \in F
    BY Zenon
  <2> QED
    BY <1>1, <1>2, <1>3, <2>1, ListsAgree
<1>7. q = w
  <2>1. [i \in 1..Len(q) |-> q[i]] = [i \in 1..Len(w) |-> w[i]]
    BY <1>4, <1>6
  <2> QED
    BY <2>1, <1>5
<1> QED
  BY <1>3, <1>4, <1>5, <1>7 DEF F, w, q

\* res is what a search for the best k should return.
Answers(ix, k, res) ==
  /\ Len(res) \in Nat /\ res = [i \in 1..Len(res) |-> res[i]]
  /\ Len(res) = IF k <= Len(Whole(ix)) THEN k ELSE Len(Whole(ix))
  /\ \A i \in 1..Len(res) : res[i][2] = Whole(ix)[i][2]
  /\ One(ix) => \A i \in 1..Len(res) : res[i] = Whole(ix)[i]

\* Where Weaker orders the entries it orders them as Better orders their rows.
LEMMA BetterIsStronger ==
    ASSUME NEW ix, WellFormed(ix), One(ix), NEW e \in Entries(ix), NEW f \in Entries(ix),
           Better(RowFor(ix, f), RowFor(ix, e))
    PROVE  Weaker(e, f)
<1>1. e.seg = f.seg
  BY OneKind
<1>2. e.score \in Nat /\ f.score \in Nat /\ (e.seg # 0 => OfSegment(ix, e) /\ OfSegment(ix, f))
  BY <1>1, EntryIs
<1>3. \/ f.score > e.score
      \/ f.score = e.score /\ RowFor(ix, f).ctid < RowFor(ix, e).ctid
  BY RowForIs DEF Better
<1>4. Weaker(e, f) <=> IF e.score # f.score THEN e.score < f.score
                       ELSE IF e.seg = 0 THEN e.ctid > f.ctid ELSE e.doc > f.doc
  BY <1>1, WeakerIs
<1>5. CASE f.score > e.score
  BY <1>2, <1>4, <1>5
<1>6. CASE f.score = e.score /\ RowFor(ix, f).ctid < RowFor(ix, e).ctid
  <2>1. CASE e.seg = 0
    <3>1. RowFor(ix, f).ctid = f.ctid /\ RowFor(ix, e).ctid = e.ctid
      BY <1>1, <2>1, RowForIs
    <3> QED
      BY <3>1, <1>4, <1>6, <2>1
  <2>2. CASE e.seg # 0
    <3> DEFINE c == ix.segments[e.seg].ctids
    <3>1. RowFor(ix, f).ctid = c[f.doc] /\ RowFor(ix, e).ctid = c[e.doc]
      BY <1>1, <2>2, RowForIs
    <3>2. e.seg \in DOMAIN ix.segments /\ e.doc \in Docs(ix, e.seg) /\ f.doc \in Docs(ix, e.seg)
      BY <1>1, <1>2, <2>2 DEF OfSegment
    <3>3. /\ e.doc \in Nat /\ f.doc \in Nat /\ c[e.doc] \in Nat /\ c[f.doc] \in Nat
          /\ e.doc < f.doc => c[e.doc] < c[f.doc]
      BY <3>2, SegmentIs
    <3>4. e.doc > f.doc
      BY <3>1, <3>3, <1>6
    <3> QED
      BY <3>4, <1>4, <1>6, <2>2
  <2> QED
    BY <2>1, <2>2
<1> QED
  BY <1>3, <1>5, <1>6

\* The heap, once the ctids are looked up.
LEMMA ResolvedIs ==
    ASSUME NEW ix, WellFormed(ix), NEW h \in Seq(Entries(ix)), Distinct(h),
           NEW H, H = Resolved(h, [s \in DOMAIN ix.segments |-> ix.segments[s].ctids])
    PROVE  /\ DOMAIN H = 1..Len(h) /\ Len(h) \in Nat
           /\ \A i \in 1..Len(h) : H[i].ctid \in Int /\ H[i].score \in Int
           /\ \A i, j \in 1..Len(h) : H[i].ctid = H[j].ctid => i = j
           /\ RowsIn(H) = {RowFor(ix, e) : e \in Range(h)}
<1> DEFINE ctids == [s \in DOMAIN ix.segments |-> ix.segments[s].ctids]
<1>0. WellFormed(ix) /\ h \in Seq(Entries(ix))
  OBVIOUS
<1>1. Len(h) \in Nat /\ DOMAIN h = 1..Len(h) /\ \A i \in 1..Len(h) : h[i] \in Entries(ix)
  <2> DEFINE E == Entries(ix)
  <2>1. h \in Seq(E)
    BY <1>0
  <2> HIDE DEF E
  <2>2. Len(h) \in Nat /\ DOMAIN h = 1..Len(h)
    BY ONLY <2>1, LenProperties, Zenon
  <2>3. \A i \in 1..Len(h) : h[i] \in E
    BY ONLY <2>1, ElementOfSeq, Zenon
  <2> QED
    BY <2>2, <2>3 DEF E
<1>2. DOMAIN H = 1..Len(h)
      /\ \A i \in 1..Len(h) : H[i] = IF h[i].seg = 0 THEN h[i]
           ELSE [h[i] EXCEPT !.ctid = ctids[h[i].seg][h[i].doc], !.seg = 0]
  BY <1>1 DEF Resolved, InMemtable
<1> HIDE DEF ctids
<1>3. ASSUME NEW i \in 1..Len(h)
      PROVE  /\ H[i].ctid = RowFor(ix, h[i]).ctid /\ H[i].score = h[i].score
             /\ RowOf(H[i]) = RowFor(ix, h[i])
  <2>1. h[i] = [score |-> h[i].score, ctid |-> h[i].ctid, seg |-> h[i].seg, doc |-> h[i].doc]
    BY ONLY <1>0, <1>1, <1>3, EntryIs
  <2>2. H[i].score = h[i].score
    BY ONLY <1>2, <1>3, <2>1
  <2>3. H[i].ctid = RowFor(ix, h[i]).ctid
    <3>1. CASE h[i].seg = 0
      BY ONLY <3>1, <1>2, <1>3 DEF RowFor
    <3>2. CASE h[i].seg # 0
      <4>1. h[i].seg \in DOMAIN ix.segments
        BY ONLY <1>0, <1>1, <1>3, <3>2, EntryIs DEF OfSegment
      <4>2. ctids[h[i].seg][h[i].doc] = ix.segments[h[i].seg].ctids[h[i].doc]
        BY ONLY <4>1 DEF ctids
      <4>3. H[i].ctid = ctids[h[i].seg][h[i].doc]
        BY ONLY <1>2, <1>3, <2>1, <3>2
      <4> QED
        BY ONLY <3>2, <4>2, <4>3 DEF RowFor
    <3> QED
      BY <3>1, <3>2
  <2>4. RowFor(ix, h[i]).score = h[i].score
    BY DEF RowFor
  <2>5. RowFor(ix, h[i]) = [ctid |-> RowFor(ix, h[i]).ctid, score |-> RowFor(ix, h[i]).score]
    BY DEF RowFor
  <2> QED
    BY <2>2, <2>3, <2>4, <2>5 DEF RowOf
<1>4. \A i \in 1..Len(h) : H[i].ctid \in Int /\ H[i].score \in Int
  <2> SUFFICES ASSUME NEW i \in 1..Len(h) PROVE H[i].ctid \in Int /\ H[i].score \in Int
    OBVIOUS
  <2>1. RowFor(ix, h[i]).ctid \in Nat /\ h[i].score \in Nat
    BY <1>1, RowForIs, EntryIs
  <2> QED
    BY <2>1, <1>3
<1>5. ASSUME NEW i \in 1..Len(h), NEW j \in 1..Len(h), H[i].ctid = H[j].ctid PROVE i = j
  <2>1. h[i] = h[j]
    BY <1>1, <1>3, <1>5, RowsDiffer
  <2> QED
    BY <2>1, <1>1 DEF Distinct
<1>6. RowsIn(H) = {RowFor(ix, e) : e \in Range(h)}
  <2>1. ASSUME NEW x PROVE x \in RowsIn(H) <=> \E i \in 1..Len(h) : x = RowFor(ix, h[i])
    <3>1. x \in RowsIn(H) <=> \E i \in 1..Len(h) : x = RowOf(H[i])
      BY <1>2 DEF RowsIn
    <3> QED
      BY <3>1, <1>3
  <2>2. ASSUME NEW x
        PROVE  x \in {RowFor(ix, e) : e \in Range(h)} <=> \E i \in 1..Len(h) : x = RowFor(ix, h[i])
    BY <1>1 DEF Range
  <2> QED
    BY <2>1, <2>2
<1> QED
  BY <1>1, <1>2, <1>4, <1>5, <1>6

\* When everything has been considered the heap has the answer.
LEMMA TopAnswers ==
    ASSUME WellFormed(index), weight = Weights(index), NEW k \in Nat \ {0},
           NEW h, Top(h, Entries(index), Grade(index), k, Entries(index)),
           NEW H, H = Resolved(h, [s \in DOMAIN index.segments |-> index.segments[s].ctids])
    PROVE  Answers(index, k, Extracted(H))
<1> DEFINE E == Entries(index)
           F == AllRows(index)
           R == RowsIn(H)
           q == Extracted(H)
           w == Whole(index)
           r == Grade(index)
           n == Len(h)
<1>1. Heap(h, E, r, k) /\ \A c \in E \ Range(h) : n = k /\ r[c] <= r[h[1]]
  BY DEF Top
<1>2. h \in Seq(E) /\ Distinct(h) /\ n <= k
  BY <1>1 DEF Heap
<1>3. /\ DOMAIN H = 1..n /\ n \in Nat
      /\ \A i \in 1..n : H[i].ctid \in Int /\ H[i].score \in Int
      /\ \A i, j \in 1..n : H[i].ctid = H[j].ctid => i = j
      /\ R = {RowFor(index, e) : e \in Range(h)}
  BY <1>2, ResolvedIs
<1>4. Lists(q, R) /\ Cardinality(R) = n
  <2> HIDE DEF n
  <2> QED
    BY <1>3, ExtractedLists
<1>5. Len(q) = n /\ q = [i \in 1..Len(q) |-> q[i]]
  BY <1>4 DEF Lists
<1>6. /\ Lists(w, F) /\ Len(w) \in Nat /\ Len(w) = Cardinality(F)
  BY WholeIs
<1>7. F \in SUBSET Rows /\ IsFiniteSet(F)
  BY AllRowsFinite
<1>8. \A e \in Range(h) : e \in E
  BY <1>2 DEF Range
<1>9. R \in SUBSET F
  BY <1>3, <1>8 DEF AllRows
<1>10. Cardinality(R) <= Cardinality(F) /\ Cardinality(R) \in Nat
  <2> HIDE DEF R, F
  <2> QED
    BY <1>7, <1>9, FS_Subset, FS_CardinalityType
<1>11. n < k => R = F
  <2> SUFFICES ASSUME n < k, NEW x \in F PROVE x \in R
    BY <1>9
  <2>1. PICK e \in E : x = RowFor(index, e)
    BY DEF AllRows
  <2>2. e \in Range(h)
    BY <1>1, <1>3
  <2> QED
    BY <1>3, <2>1, <2>2
<1>12. Len(q) = IF k <= Len(w) THEN k ELSE Len(w)
  <2> HIDE DEF R, F, q, w, n
  <2>1. CASE n < k
    <3>1. Len(w) = n
      BY <1>4, <1>6, <1>11, <2>1
    <3> QED
      BY <3>1, <1>3, <1>5, <2>1
  <2>2. CASE ~ n < k
    <3>1. n = k
      BY <1>2, <1>3, <2>2
    <3> QED
      BY <3>1, <1>4, <1>5, <1>6, <1>10
  <2> QED
    BY <2>1, <2>2
<1>13. Grades(r, E)
  BY GradeIs
<1>14. ASSUME NEW e \in Range(h), NEW f \in E \ Range(h) PROVE r[f] <= r[e]
  <2>1. r[f] <= r[h[1]]
    BY <1>1
  <2> HIDE DEF E, r
  <2>2. h[1] \in E /\ r[h[1]] <= r[e]
    BY <1>1, <1>13, <1>14, RootLowest
  <2>3. r[f] \in Int /\ r[h[1]] \in Int /\ r[e] \in Int
    BY <2>2, <1>8, <1>13, <1>14 DEF Grades
  <2> QED
    BY <2>1, <2>2, <2>3
<1>15. ASSUME NEW x \in R, NEW y \in F, y \notin R
       PROVE  \E e \in Range(h), f \in E \ Range(h) : x = RowFor(index, e) /\ y = RowFor(index, f)
  <2>1. PICK e \in Range(h) : x = RowFor(index, e)
    BY <1>3
  <2>2. PICK f \in E : y = RowFor(index, f)
    BY DEF AllRows
  <2>3. f \notin Range(h)
    BY <1>3, <1>15, <2>2
  <2> QED
    BY <2>1, <2>2, <2>3
<1>16. ASSUME NEW x \in R, NEW y \in F \ R PROVE y.score <= x.score
  <2>1. PICK e \in Range(h), f \in E \ Range(h) : x = RowFor(index, e) /\ y = RowFor(index, f)
    BY <1>15
  <2>2. f.score <= e.score
    BY <1>8, <1>14, <2>1, GradeIs
  <2> QED
    BY <1>8, <2>1, <2>2, RowForIs
<1>17. ASSUME One(index), NEW x \in R, NEW y \in F, Better(y, x) PROVE y \in R
  <2> SUFFICES ASSUME y \notin R PROVE FALSE
    OBVIOUS
  <2>1. PICK e \in Range(h), f \in E \ Range(h) : x = RowFor(index, e) /\ y = RowFor(index, f)
    BY <1>15
  <2>2. Weaker(e, f)
    BY <1>8, <1>17, <2>1, BetterIsStronger
  <2>3. r[e] < r[f]
    BY <1>8, <1>17, <2>1, <2>2, GradeIs
  <2>4. r[f] <= r[e] /\ r[e] \in Nat /\ r[f] \in Nat
    BY <1>8, <1>14, <2>1, GradeIs
  <2> QED
    BY <2>3, <2>4
<1> HIDE DEF E, F, R, q, w, r, n
<1>18. \A i \in 1..Len(q) : q[i][2] = w[i][2]
  BY <1>4, <1>6, <1>7, <1>9, <1>16, ScoresAgree
<1>19. One(index) => \A i \in 1..Len(q) : q[i] = w[i]
  BY <1>4, <1>6, <1>7, <1>9, <1>17, ListsAgree
<1>20. Len(q) \in Nat
  BY <1>3, <1>5
<1> QED
  BY <1>5, <1>12, <1>18, <1>19, <1>20 DEF Answers, q, w

\* When a search extracts its results they are what it should return.
LEMMA ExtractAnswers ==
    ASSUME Searching, Extract
    PROVE  Answers(index, max_results, results')
<1>1. /\ step = "next" \/ (step = "memtable" /\ todo = {})
      /\ seg = Len(index.segments)
      /\ results' = Extracted(Resolved(heap,
           [s \in DOMAIN index.segments |-> index.segments[s].ctids]))
  BY DEF Extract
<1>2. /\ WellFormed(index) /\ weight = Weights(index) /\ max_results \in Nat \ {0}
      /\ todo = {} /\ (step = "memtable" => seg = 0)
  BY <1>1, HeapIs DEF Searching, Control
<1> DEFINE E == Entries(index)
           C == Considered(index, todo, seg, step, terms, pivot)
<1>3. C = E
  <2> SUFFICES ASSUME NEW e \in E PROVE e \in C
    BY DEF Considered
  <2>1. e.seg \in 0..Len(index.segments) /\ Len(index.segments) \in Nat
    BY <1>2, EntryIs, SegmentsAre
  <2>2. CASE e.seg = 0
    BY <2>2, <1>2 DEF Considered
  <2>3. CASE e.seg # 0
    <3>1. step = "next" /\ (e.seg < seg \/ e.seg = seg)
      BY <1>1, <1>2, <2>1, <2>3
    <3> QED
      BY <2>3, <3>1 DEF Considered, Passed
  <2> QED
    BY <2>2, <2>3
<1>4. Top(heap, E, Grade(index), max_results, C)
  BY DEF Searching, HeapKept
<1> HIDE DEF C, E
<1>5. Top(heap, E, Grade(index), max_results, E)
  BY <1>3, <1>4
<1> QED
  BY <1>1, <1>2, <1>5, TopAnswers DEF E

-----------------------------------------------------------------------------
(* The scan: one search after another, and rows that are returned.          *)

\* The first n of everything.
FirstRows(ix, n) == [i \in 1..n |-> Whole(ix)[i]]

\* The smaller of a limit and of how much there is.
Bounded(ix, n) == IF n <= Len(Whole(ix)) THEN n ELSE Len(Whole(ix))

\* The first n of the ranking.
LEMMA FirstOnesIs ==
    ASSUME WellFormed(index), weight = Weights(index), NEW n \in Nat
    PROVE  /\ FirstOnes(n) = FirstRows(index, Bounded(index, n))
           /\ Len(FirstOnes(n)) = Bounded(index, n) /\ Bounded(index, n) \in Nat
           /\ DOMAIN FirstOnes(n) = 1..Bounded(index, n)
           /\ \A i \in 1..Bounded(index, n) : FirstOnes(n)[i] = Whole(index)[i]
<1> DEFINE w == Whole(index)
           m == Bounded(index, n)
           E == {w[i] : i \in 1..Len(w)}
<1>1. Ranking = w /\ Len(w) \in Nat /\ w = [i \in 1..Len(w) |-> w[i]]
  BY WholeIs
<1>2. m = Min({n, Len(w)}) /\ m \in 0..Len(w) /\ m \in Nat
  <2>1. Min({n, Len(w)}) = IF n <= Len(w) THEN n ELSE Len(w)
    BY <1>1, MinOfTwo
  <2> QED
    BY <2>1, <1>1 DEF Bounded
<1>3. FirstOnes(n) = SubSeq(w, 1, m)
  BY <1>1, <1>2 DEF FirstOnes
<1>4. w \in Seq(E)
  <2> HIDE DEF w
  <2>1. \A i \in 1..Len(w) : w[i] \in E
    OBVIOUS
  <2> HIDE DEF E
  <2>2. w \in [1..Len(w) -> E]
    BY <1>1, <2>1
  <2> QED
    BY <2>2, <1>1
<1> HIDE DEF w, m, E
<1>5. /\ Len(SubSeq(w, 1, m)) = m /\ DOMAIN SubSeq(w, 1, m) = 1..m
      /\ \A i \in 1..m : SubSeq(w, 1, m)[i] = w[i]
      /\ SubSeq(w, 1, m) = [i \in 1..m |-> w[i]]
  <2>1. \A i \in 1..m : w[i] \in E
    <3>1. \A i \in 1..Len(w) : w[i] \in E
      BY <1>4
    <3> QED
      BY <3>1, <1>1, <1>2
  <2>2. 1 \in Int /\ m \in Int /\ m - 1 + 1 = m
    BY <1>2
  <2> DEFINE v == SubSeq(w, 1, m)
  <2>3. /\ v \in Seq(E) /\ Len(v) = IF 1 <= m THEN m - 1 + 1 ELSE 0
        /\ \A i \in 1..(m - 1 + 1) : v[i] = w[1 + i - 1]
    BY <2>1, <2>2, SubSeqProperties
  <2> HIDE DEF v
  <2>4. Len(v) = m
    BY <2>3, <1>2
  <2>5. \A i \in 1..m : v[i] = w[i]
    BY <2>3, <1>2
  <2>6. DOMAIN v = 1..m
    BY <2>3, <2>4
  <2>7. v = [i \in DOMAIN v |-> v[i]]
    BY <2>3
  <2>8. v = [i \in 1..m |-> w[i]]
    BY <2>5, <2>6, <2>7
  <2> QED
    BY <2>4, <2>5, <2>6, <2>8 DEF v
<1> QED
  BY <1>2, <1>3, <1>5 DEF FirstRows, m, w

\* Where there is nothing to be found the answer is empty.
LEMMA NothingAnswers ==
    ASSUME WellFormed(index), NEW k \in Nat \ {0}, Entries(index) = {}
    PROVE  Answers(index, k, <<>>)
<1>1. AllRows(index) = {}
  BY DEF AllRows
<1> DEFINE E == {}
<1>2. Lists(<<>>, {})
  <2>1. Cardinality({}) = 0 /\ IsFiniteSet({})
    BY FS_EmptySet
  <2>2. Len(<<>>) = 0 /\ <<>> = [i \in 1..Len(<<>>) |-> <<>>[i]]
    OBVIOUS
  <2> QED
    BY <2>1, <2>2 DEF Lists
<1>3. Lists(Whole(index), AllRows(index))
  BY <1>1, <1>2 DEF Whole
<1>4. Len(Whole(index)) = 0
  BY <1>1, <1>3, FS_EmptySet DEF Lists
<1>5. Len(<<>>) = 0 /\ <<>> = [i \in 1..Len(<<>>) |-> <<>>[i]] /\ 1..0 = {}
  OBVIOUS
<1> QED
  BY <1>4, <1>5 DEF Answers

\* A search that goes on, or is over.
LEMMA SearchGoes ==
    ASSUME Searching, SearchStep
    PROVE  \/ Searching' /\ UNCHANGED <<index, max_results, weight, results>>
           \/ Extract
<1>1. CASE AddMemtable
  BY <1>1, AddMemtableGoes DEF AddMemtable
<1>2. CASE OpenSegment
  BY <1>2, OpenSegmentGoes DEF OpenSegment
<1>3. CASE PassBlock
  BY <1>3, PassBlockGoes DEF PassBlock
<1>4. CASE ScanPosting
  BY <1>4, ScanPostingGoes DEF ScanPosting
<1>5. CASE FindPivot
  BY <1>5, FindPivotGoes DEF FindPivot
<1>6. CASE LeaveSegment
  BY <1>6, LeaveSegmentGoes DEF LeaveSegment
<1>7. CASE SeekToPivot
  BY <1>7, SeekToPivotGoes DEF SeekToPivot
<1>8. CASE SkipBlocks
  BY <1>8, SkipBlocksGoes DEF SkipBlocks
<1>9. CASE Repivot
  BY <1>9, RepivotGoes DEF Repivot
<1>10. CASE ScoreDocument
  BY <1>10, ScoreDocumentGoes DEF ScoreDocument
<1>11. CASE AdvancePastPivot
  BY <1>11, AdvancePastPivotGoes DEF AdvancePastPivot
<1> QED
  BY <1>1, <1>2, <1>3, <1>4, <1>5, <1>6, <1>7, <1>8, <1>9, <1>10, <1>11 DEF SearchStep

\* No search goes on.
Resting ==
  /\ heap = <<>>
  /\ todo \subseteq index.memtable
  /\ seg \in 0..Len(index.segments)
  /\ CursorsKept(index, seg, terms, active)
  /\ pivot.len \in 0..Len(index.query)

\* What has been returned, where all documents come from one source.
Served ==
  One(index) =>
    /\ phase = "asked" => served = <<>>
    /\ phase = "searching" =>
         /\ old_count > 0 => old_count <= Len(Whole(index))
         /\ served = FirstRows(index, old_count)
    /\ phase = "serving" => served = FirstRows(index, position)
    /\ phase = "ended" => served = FirstRows(index, Bounded(index, MaxLimit))

ScanInv ==
  /\ WellFormed(index)
  /\ max_results \in 1..MaxLimit
  /\ phase \in {"asked", "searching", "serving", "ended"}
  /\ position \in 0..MaxLimit
  /\ old_count \in 0..MaxLimit
  /\ IF phase = "asked" THEN weight = [t \in DOMAIN index.query |-> 0] ELSE weight = Weights(index)
  /\ IF step = "done" THEN Resting ELSE phase = "searching" /\ Searching
  /\ phase # "asked" /\ step = "done" => Answers(index, max_results, results)
  /\ phase = "asked" => old_count = 0
  /\ phase = "searching" => old_count < max_results
  /\ phase = "serving" => position <= Len(results)
  /\ Served

\* Answers are no longer than asked for.
LEMMA AnswersAre ==
    ASSUME NEW ix, NEW k \in Nat, NEW res, Answers(ix, k, res), Len(Whole(ix)) \in Nat
    PROVE  /\ Len(res) = Bounded(ix, k) /\ Len(res) \in Nat /\ Len(res) <= k
           /\ Len(res) <= Len(Whole(ix))
           /\ res = [i \in 1..Len(res) |-> res[i]] /\ DOMAIN res = 1..Len(res)
           /\ \A i \in 1..Len(res) : res[i][2] = Whole(ix)[i][2]
           /\ One(ix) => \A i \in 1..Len(res) : res[i] = Whole(ix)[i]
<1>1. Len(res) \in Nat /\ res = [i \in 1..Len(res) |-> res[i]] /\ Len(res) = Bounded(ix, k)
  BY DEF Answers, Bounded
<1>2. DOMAIN res = 1..Len(res)
  BY <1>1
<1>3. Len(res) <= k /\ Len(res) <= Len(Whole(ix))
  BY <1>1 DEF Bounded
<1> QED
  BY <1>1, <1>2, <1>3 DEF Answers

\* One more row.
LEMMA FirstRowsGrow ==
    ASSUME NEW ix, NEW n \in Nat
    PROVE  Append(FirstRows(ix, n), Whole(ix)[n + 1]) = FirstRows(ix, n + 1)
<1> DEFINE E == {Whole(ix)[i] : i \in 1..(n + 1)}
           w == Whole(ix)
           f == [i \in 1..n |-> w[i]]
           g == [i \in 1..(n + 1) |-> w[i]]
<1>1. \A i \in 1..(n + 1) : w[i] \in E
  OBVIOUS
<1> HIDE DEF E, w
<1>2. f \in [1..n -> E] /\ w[n + 1] \in E
  BY <1>1
<1>3. f \in Seq(E) /\ Len(f) = n
  BY <1>2
<1>4. Append(f, w[n + 1]) = g
  BY <1>1, <1>2, <1>3
<1> QED
  BY <1>4 DEF FirstRows, w

\* The invariant holds before the first execution.
LEMMA InitScans == Init => ScanInv
<1> SUFFICES ASSUME Init PROVE ScanInv
  OBVIOUS
<1>1. WellFormed(index) /\ max_results \in 1..MaxLimit
  BY ScanAssumption, IndexesAssumption DEF Init
<1>2. Resting
  <2>1. 0 \in 0..Len(index.segments) /\ 0 \in 0..Len(index.query)
    BY <1>1, SegmentsAre, QueryIs
  <2> QED
    BY <2>1 DEF Init, Resting, CursorsKept, NoPivot
<1>3. Served
  BY DEF Init, Served
<1>4. 0 \in 0..MaxLimit
  BY ScanAssumption
<1> QED
  BY <1>1, <1>2, <1>3, <1>4 DEF Init, ScanInv

\* An execution begins in a scan: both for the first and for every later one.
LEMMA StartScans ==
    ASSUME WellFormed(index), NEW k \in 1..MaxLimit, Start(k), UNCHANGED index,
           phase' = "searching", old_count' \in 0..MaxLimit, old_count' < k,
           position' \in 0..MaxLimit,
           One(index) => /\ old_count' > 0 => old_count' <= Len(Whole(index))
                         /\ served' = FirstRows(index, old_count')
    PROVE  ScanInv'
<1>1. /\ weight' = Weights(index) /\ step' \in {"done", "memtable"}
      /\ step' = "done" => Entries(index) = {}
      /\ step' = "memtable" => Searching'
  BY StartGoes
<1>2. /\ max_results' = k /\ heap' = <<>> /\ seg' = 0 /\ terms' = <<>> /\ active' = 0
      /\ todo' = {d \in index.memtable : \E t \in DOMAIN index.query : d.tf[t] > 0}
      /\ pivot' = NoPivot /\ results' = <<>> /\ index' = index
  BY DEF Start
<1>3. k \in Nat \ {0}
  BY ScanAssumption
<1>4. Resting'
  <2>1. 0 \in 0..Len(index.segments) /\ 0 \in 0..Len(index.query)
    BY SegmentsAre, QueryIs
  <2> QED
    BY <2>1, <1>2 DEF Resting, CursorsKept, NoPivot
<1>5. step' = "done" => Answers(index, k, results')
  BY <1>1, <1>2, <1>3, NothingAnswers
<1>6. Served'
  BY <1>2 DEF Served
<1> QED
  BY <1>1, <1>2, <1>4, <1>5, <1>6 DEF ScanInv

\* Steps of the scan that leave the search as it is, between two executions.
LEMMA RestsOn ==
    ASSUME ScanInv, step = "done", phase # "asked", UNCHANGED <<index, searchVars>>,
           phase' \in {"serving", "ended"}, position' \in 0..MaxLimit, old_count' = old_count,
           phase' = "serving" => position' <= Len(results),
           Served'
    PROVE  ScanInv'
<1>1. /\ index' = index /\ max_results' = max_results /\ weight' = weight /\ heap' = heap
      /\ todo' = todo /\ seg' = seg /\ terms' = terms /\ active' = active /\ pivot' = pivot
      /\ step' = step /\ results' = results
  BY DEF searchVars
<1>2. Resting'
  BY <1>1 DEF ScanInv, Resting
<1>3. Answers(index', max_results', results')
  BY <1>1 DEF ScanInv
<1> QED
  BY <1>1, <1>2, <1>3 DEF ScanInv

\* The state of the scan while rows are returned, and when they have run out.
LEMMA ServingIs ==
    ASSUME ScanInv, step = "done", phase # "asked"
    PROVE  /\ WellFormed(index) /\ weight = Weights(index)
           /\ MaxLimit \in Nat /\ max_results \in 1..MaxLimit /\ max_results \in Nat
           /\ position \in Nat /\ old_count \in Nat
           /\ Len(Whole(index)) \in Nat
           /\ Len(results) \in Nat /\ Len(results) = Bounded(index, max_results)
           /\ Len(results) <= max_results /\ Len(results) <= Len(Whole(index))
           /\ One(index) => \A i \in 1..Len(results) : results[i] = Whole(index)[i]
<1>1. WellFormed(index) /\ weight = Weights(index) /\ max_results \in 1..MaxLimit
      /\ position \in 0..MaxLimit /\ old_count \in 0..MaxLimit
      /\ Answers(index, max_results, results)
  BY DEF ScanInv
<1>2. Len(Whole(index)) \in Nat
  BY <1>1, WholeIs
<1>3. MaxLimit \in Nat /\ max_results \in Nat
  BY <1>1, ScanAssumption
<1>4. /\ Len(results) \in Nat /\ Len(results) = Bounded(index, max_results)
      /\ Len(results) <= max_results /\ Len(results) <= Len(Whole(index))
      /\ One(index) => \A i \in 1..Len(results) : results[i] = Whole(index)[i]
  <2> DEFINE ix == index
             k == max_results
             res == results
  <2>1. Answers(ix, k, res) /\ Len(Whole(ix)) \in Nat /\ k \in Nat
    BY <1>1, <1>2, <1>3
  <2> HIDE DEF ix, k, res
  <2>2. /\ Len(res) = Bounded(ix, k) /\ Len(res) \in Nat /\ Len(res) <= k
        /\ Len(res) <= Len(Whole(ix))
        /\ One(ix) => \A i \in 1..Len(res) : res[i] = Whole(ix)[i]
    BY ONLY <2>1, AnswersAre
  <2> QED
    BY <2>2 DEF ix, k, res
<1> QED
  BY <1>1, <1>2, <1>3, <1>4

\* The first execution keeps it.
LEMMA ExecuteScans == ASSUME ScanInv, Execute PROVE ScanInv'
<1>1. /\ phase = "asked" /\ Start(max_results) /\ phase' = "searching"
      /\ index' = index /\ position' = position /\ old_count' = old_count /\ served' = served
  BY DEF Execute
<1>2. /\ WellFormed(index) /\ max_results \in 1..MaxLimit /\ MaxLimit \in Nat
      /\ position \in 0..MaxLimit /\ old_count = 0
      /\ One(index) => served = <<>>
  BY <1>1, ScanAssumption DEF ScanInv, Served
<1>3. FirstRows(index, 0) = <<>>
  BY DEF FirstRows
<1>4. One(index) => /\ old_count' > 0 => old_count' <= Len(Whole(index))
                    /\ served' = FirstRows(index, old_count')
  BY <1>1, <1>2, <1>3
<1>5. old_count' \in 0..MaxLimit /\ old_count' < max_results /\ position' \in 0..MaxLimit
  BY <1>1, <1>2
<1> QED
  BY <1>1, <1>2, <1>4, <1>5, StartScans

\* A step of a search keeps it.
LEMMA SearchScans == ASSUME ScanInv, Search PROVE ScanInv'
<1>1. /\ phase = "searching" /\ SearchStep /\ phase' = phase /\ position' = position
      /\ old_count' = old_count /\ served' = served
  BY DEF Search
<1>2. step # "done"
  BY <1>1 DEF SearchStep, AddMemtable, OpenSegment, PassBlock, ScanPosting, FindPivot,
              LeaveSegment, SeekToPivot, SkipBlocks, Repivot, ScoreDocument, AdvancePastPivot,
              Extract
<1>3. Searching /\ weight = Weights(index)
  BY <1>1, <1>2 DEF ScanInv
<1>4. CASE Searching' /\ UNCHANGED <<index, max_results, weight, results>>
  <2>1. step' # "done"
    BY <1>4 DEF Searching
  <2>2. Served'
    BY <1>1, <1>4 DEF ScanInv, Served
  <2> QED
    BY <1>1, <1>3, <1>4, <2>1, <2>2 DEF ScanInv
<1>5. CASE Extract
  <2>1. /\ heap' = <<>> /\ step' = "done" /\ index' = index /\ max_results' = max_results
        /\ weight' = weight /\ todo' = todo /\ seg' = seg /\ terms' = terms /\ active' = active
        /\ pivot' = pivot
    BY <1>5 DEF Extract
  <2>2. Answers(index, max_results, results')
    BY <1>3, <1>5, ExtractAnswers
  <2>3. Resting'
    <3>1. todo \subseteq index.memtable /\ seg \in 0..Len(index.segments)
          /\ CursorsKept(index, seg, terms, active) /\ pivot.len \in 0..Len(index.query)
      BY <1>3 DEF Searching, Control, PivotKept
    <3> QED
      BY <2>1, <3>1 DEF Resting
  <2>4. Served'
    BY <1>1, <2>1 DEF ScanInv, Served
  <2> QED
    BY <1>1, <2>1, <2>2, <2>3, <2>4 DEF ScanInv
<1> QED
  BY <1>1, <1>3, <1>4, <1>5, SearchGoes

\* When the results are delivered the scan goes on where it was, or there are no more.
LEMMA DeliverScans == ASSUME ScanInv, Deliver PROVE ScanInv'
<1>1. /\ phase = "searching" /\ step = "done" /\ position' = old_count
      /\ phase' = IF Len(results) > old_count THEN "serving" ELSE "ended"
      /\ UNCHANGED <<index, searchVars>> /\ index' = index /\ old_count' = old_count
      /\ served' = served
  BY DEF Deliver, Resumed
<1>2. /\ MaxLimit \in Nat /\ max_results \in 1..MaxLimit /\ max_results \in Nat
      /\ old_count \in Nat /\ Len(Whole(index)) \in Nat
      /\ Len(results) \in Nat /\ Len(results) = Bounded(index, max_results)
  BY <1>1, ServingIs
<1>3. /\ old_count \in 0..MaxLimit /\ old_count < max_results
      /\ One(index) => /\ old_count > 0 => old_count <= Len(Whole(index))
                       /\ served = FirstRows(index, old_count)
  BY <1>1 DEF ScanInv, Served
<1>4. CASE Len(results) > old_count
  <2>1. phase' = "serving"
    BY <1>1, <1>4
  <2>2. Served'
    BY <1>1, <1>3, <2>1 DEF Served
  <2> QED
    BY <1>1, <1>2, <1>3, <1>4, <2>1, <2>2, RestsOn
<1>5. CASE ~(Len(results) > old_count)
  <2>1. phase' = "ended"
    BY <1>1, <1>5
  <2>2. One(index) => old_count = Bounded(index, MaxLimit)
    BY <1>2, <1>3, <1>5 DEF Bounded
  <2>3. Served'
    BY <1>1, <1>3, <2>1, <2>2 DEF Served
  <2> QED
    BY <1>1, <1>2, <1>3, <2>1, <2>3, RestsOn
<1> QED
  BY <1>4, <1>5

\* The row that is returned is the next of the ranking.
LEMMA ReturnRowScans == ASSUME ScanInv, ReturnRow PROVE ScanInv'
<1>1. /\ phase = "serving" /\ position < Len(results) /\ position' = position + 1
      /\ served' = Append(served, results[position + 1])
      /\ UNCHANGED <<index, searchVars>> /\ index' = index /\ old_count' = old_count
      /\ phase' = phase
  BY DEF ReturnRow
<1>2. step = "done"
  BY <1>1 DEF ScanInv
<1>3. /\ MaxLimit \in Nat /\ max_results \in 1..MaxLimit /\ position \in Nat
      /\ Len(results) \in Nat /\ Len(results) <= max_results
      /\ One(index) => \A i \in 1..Len(results) : results[i] = Whole(index)[i]
  BY <1>1, <1>2, ServingIs
<1>4. One(index) => served' = FirstRows(index, position + 1)
  <2> SUFFICES ASSUME One(index) PROVE served' = FirstRows(index, position + 1)
    OBVIOUS
  <2>1. served = FirstRows(index, position)
    BY <1>1 DEF ScanInv, Served
  <2>2. results[position + 1] = Whole(index)[position + 1]
    BY <1>1, <1>3
  <2>3. Append(FirstRows(index, position), Whole(index)[position + 1])
          = FirstRows(index, position + 1)
    BY <1>3, FirstRowsGrow
  <2> QED
    BY <1>1, <2>1, <2>2, <2>3
<1>5. Served'
  BY <1>1, <1>4 DEF Served
<1> QED
  BY <1>1, <1>2, <1>3, <1>5, RestsOn

\* Executing again with a greater limit keeps what was returned.
LEMMA ExecuteAgainScans == ASSUME ScanInv, ExecuteAgain PROVE ScanInv'
<1> DEFINE k == Min({2 * max_results, MaxLimit})
<1>1. /\ phase = "serving" /\ position = Len(results) /\ Len(results) >= max_results
      /\ max_results < MaxLimit /\ old_count' = Len(results) /\ Start(k)
      /\ phase' = "searching" /\ index' = index /\ position' = position /\ served' = served
  BY DEF ExecuteAgain, MayHaveMore
<1>2. step = "done"
  BY <1>1 DEF ScanInv
<1>3. /\ MaxLimit \in Nat /\ max_results \in 1..MaxLimit /\ max_results \in Nat
      /\ Len(results) \in Nat /\ Len(results) <= max_results /\ WellFormed(index)
      /\ Len(results) <= Len(Whole(index))
  BY <1>1, <1>2, ServingIs
<1>4. k = IF 2 * max_results <= MaxLimit THEN 2 * max_results ELSE MaxLimit
  <2>1. 2 * max_results \in Int /\ MaxLimit \in Int
    BY <1>3
  <2> QED
    BY <2>1, MinOfTwo
<1> HIDE DEF k
<1>5. k \in 1..MaxLimit /\ max_results < k
  BY <1>1, <1>3, <1>4
<1>6. /\ old_count' \in 0..MaxLimit /\ old_count' < k /\ position' \in 0..MaxLimit
  BY <1>1, <1>3, <1>5
<1>7. One(index) => /\ old_count' > 0 => old_count' <= Len(Whole(index))
                    /\ served' = FirstRows(index, old_count')
  BY <1>1, <1>3 DEF ScanInv, Served
<1> QED
  BY <1>1, <1>3, <1>5, <1>6, <1>7, StartScans

\* A scan that ends has returned everything, up to the greatest limit.
LEMMA EndScanScans == ASSUME ScanInv, EndScan PROVE ScanInv'
<1>1. /\ phase = "serving" /\ position = Len(results) /\ ~MayHaveMore /\ phase' = "ended"
      /\ UNCHANGED <<index, searchVars>> /\ index' = index /\ old_count' = old_count
      /\ position' = position /\ served' = served
  BY DEF EndScan
<1>2. step = "done"
  BY <1>1 DEF ScanInv
<1>3. /\ MaxLimit \in Nat /\ max_results \in 1..MaxLimit /\ max_results \in Nat
      /\ Len(Whole(index)) \in Nat
      /\ Len(results) \in Nat /\ Len(results) = Bounded(index, max_results)
  BY <1>1, <1>2, ServingIs
<1>4. Len(results) = Bounded(index, MaxLimit)
  <2>1. Len(results) < max_results \/ max_results = MaxLimit
    BY <1>1, <1>3 DEF MayHaveMore
  <2> QED
    BY <1>3, <2>1 DEF Bounded
<1>5. Served'
  BY <1>1, <1>4 DEF ScanInv, Served
<1>6. position' \in 0..MaxLimit
  BY <1>1 DEF ScanInv
<1> QED
  BY <1>1, <1>2, <1>5, <1>6, RestsOn

\* Every step keeps the invariant.
LEMMA ScanInvHolds == ScanInv /\ [Next]_vars => ScanInv'
<1> SUFFICES ASSUME ScanInv, [Next]_vars PROVE ScanInv'
  OBVIOUS
<1>1. CASE Execute
  BY <1>1, ExecuteScans
<1>2. CASE Search
  BY <1>2, SearchScans
<1>3. CASE Deliver
  BY <1>3, DeliverScans
<1>4. CASE ReturnRow
  BY <1>4, ReturnRowScans
<1>5. CASE ExecuteAgain
  BY <1>5, ExecuteAgainScans
<1>6. CASE EndScan
  BY <1>6, EndScanScans
<1>7. CASE UNCHANGED vars
  <2>1. /\ index' = index /\ max_results' = max_results /\ weight' = weight /\ heap' = heap
        /\ todo' = todo /\ seg' = seg /\ terms' = terms /\ active' = active /\ pivot' = pivot
        /\ step' = step /\ results' = results /\ phase' = phase /\ position' = position
        /\ old_count' = old_count /\ served' = served
    BY <1>7 DEF vars, searchVars
  <2>2. Searching => Searching'
    BY <2>1 DEF Searching
  <2>3. Resting => Resting'
    BY <2>1 DEF Resting
  <2>4. Served'
    BY <2>1 DEF ScanInv, Served
  <2> QED
    BY <2>1, <2>2, <2>3, <2>4 DEF ScanInv
<1> QED
  BY <1>1, <1>2, <1>3, <1>4, <1>5, <1>6, <1>7 DEF Next, Closed

\* Types of the variables of the search, from the inductive invariant.
LEMMA ScanTypes == ScanInv => TypeOK
<1> SUFFICES ASSUME ScanInv PROVE TypeOK
  OBVIOUS
<1>1. /\ WellFormed(index) /\ max_results \in 1..MaxLimit /\ MaxLimit \in Nat
      /\ max_results \in Nat
  BY ScanAssumption DEF ScanInv
<1>2. weight \in [DOMAIN index.query -> Nat]
  <2>1. Weights(index) \in [DOMAIN index.query -> Nat]
    BY <1>1, WeightsAre
  <2>2. [t \in DOMAIN index.query |-> 0] \in [DOMAIN index.query -> Nat]
    OBVIOUS
  <2> QED
    BY <2>1, <2>2 DEF ScanInv
<1>3. Len(heap) <= max_results
  <2>1. CASE step = "done"
    <3>1. heap = <<>>
      BY <2>1 DEF ScanInv, Resting
    <3>2. Len(<<>>) = 0
      OBVIOUS
    <3> QED
      BY <1>1, <3>1, <3>2
  <2>2. CASE step # "done"
    BY <2>2, HeapIs DEF ScanInv
  <2> QED
    BY <2>1, <2>2
<1>4. /\ todo \subseteq index.memtable /\ seg \in 0..Len(index.segments)
      /\ CursorsKept(index, seg, terms, active) /\ pivot.len \in 0..Len(index.query)
  <2>1. CASE step = "done"
    BY <2>1 DEF ScanInv, Resting
  <2>2. CASE step # "done"
    BY <2>2 DEF ScanInv, Searching, Control, PivotKept
  <2> QED
    BY <2>1, <2>2
<1>5. step \in {"memtable", "next", "scan", "pivot", "seek", "bound", "advance", "done"}
  BY DEF ScanInv, Searching, Control
<1>6. /\ seg > 0 => \A i \in DOMAIN terms : terms[i].at \in 1..(Len(Postings(terms[i].term)) + 1)
      /\ active \in 0..Len(terms)
  <2>1. CASE seg = 0
    <3>1. terms = <<>> /\ active = 0 /\ ~(0 > 0)
      BY <1>4, <2>1 DEF CursorsKept
    <3>2. Len(<<>>) = 0 /\ 0 \in 0..0
      OBVIOUS
    <3> QED
      BY <2>1, <3>1, <3>2
  <2>2. CASE seg # 0
    <3>1. CursorsIn(index, seg, terms) /\ active = Cardinality(OpenIn(index, seg, terms))
      BY <1>4, <2>2 DEF CursorsKept
    <3>2. Cursors(terms) /\ active = Cardinality(OpenTerms(terms))
      BY <3>1, InIs
    <3>3. \A i \in DOMAIN terms : terms[i].at \in 1..(Len(Postings(terms[i].term)) + 1)
      <4>1. \A i \in 1..Len(terms) : terms[i].at \in 1..(Len(Postings(terms[i].term)) + 1)
        BY <3>2 DEF Cursors
      <4>2. DOMAIN terms = 1..Len(terms)
        <5> DEFINE C == [term : DOMAIN index.query, at : Nat]
        <5>1. terms \in Seq(C)
          BY <3>2 DEF Cursors
        <5> HIDE DEF C
        <5> QED
          BY <5>1
      <4> QED
        BY <4>1, <4>2
    <3>4. active \in 0..Len(terms)
      <4>1. DOMAIN index.query = 1..Len(index.query) /\ Len(index.query) \in Nat
            /\ IsFiniteSet(DOMAIN index.query) /\ Len(terms) = Len(index.query)
        BY <1>1, <3>2, QueryIs DEF Cursors
      <4>2. OpenTerms(terms) \subseteq DOMAIN index.query
        BY DEF OpenTerms
      <4>3. /\ IsFiniteSet(OpenTerms(terms))
            /\ Cardinality(OpenTerms(terms)) <= Cardinality(DOMAIN index.query)
        BY <4>1, <4>2, FS_Subset
      <4>4. Cardinality(DOMAIN index.query) = Len(index.query)
        <5> DEFINE n == Len(index.query)
        <5>1. 1 \in Int /\ n \in Int
          BY <4>1
        <5> HIDE DEF n
        <5>2. Cardinality(1..n) = IF 1 > n THEN 0 ELSE n - 1 + 1
          BY <5>1, FS_Interval
        <5> QED
          BY <4>1, <5>2 DEF n
      <4>5. Cardinality(OpenTerms(terms)) \in Nat
        BY <4>3, FS_CardinalityType
      <4> QED
        BY <3>2, <4>1, <4>3, <4>4, <4>5
    <3> QED
      BY <3>3, <3>4
  <2> QED
    BY <2>1, <2>2
<1>7. /\ phase \in {"asked", "searching", "serving", "ended"}
      /\ position \in 0..MaxLimit /\ old_count \in 0..MaxLimit
  BY DEF ScanInv
<1> QED
  BY <1>1, <1>2, <1>3, <1>4, <1>5, <1>6, <1>7 DEF TypeOK

\* The first of the ranking and what an execution returned.
LEMMA FinishedAnswers ==
    ASSUME ScanInv, Finished, NEW best, best = FirstOnes(max_results)
    PROVE  /\ Len(best) = Len(results) /\ Len(results) \in Nat
           /\ DOMAIN best = 1..Len(results) /\ DOMAIN results = 1..Len(results)
           /\ best = [i \in 1..Len(results) |-> best[i]]
           /\ results = [i \in 1..Len(results) |-> results[i]]
           /\ \A i \in 1..Len(results) : results[i][2] = best[i][2]
           /\ OneSource => \A i \in 1..Len(results) : results[i] = best[i]
<1>1. phase = "searching" /\ step = "done"
  BY DEF Finished
<1>2. /\ WellFormed(index) /\ weight = Weights(index) /\ Answers(index, max_results, results)
      /\ max_results \in 1..MaxLimit /\ max_results \in Nat
  BY <1>1, ScanAssumption DEF ScanInv
<1>3. Len(Whole(index)) \in Nat
  BY <1>2, WholeIs
<1> DEFINE ix == index
           k == max_results
           res == results
<1>4. /\ best = FirstRows(ix, Bounded(ix, k)) /\ Len(best) = Bounded(ix, k)
      /\ Bounded(ix, k) \in Nat /\ DOMAIN best = 1..Bounded(ix, k)
      /\ \A i \in 1..Bounded(ix, k) : best[i] = Whole(ix)[i]
  BY <1>2, FirstOnesIs
<1>5. Answers(ix, k, res) /\ Len(Whole(ix)) \in Nat /\ k \in Nat /\ (OneSource <=> One(ix))
  BY <1>2, <1>3 DEF OneSource, One
<1> HIDE DEF ix, k, res
<1>6. /\ Len(res) = Bounded(ix, k) /\ Len(res) \in Nat
      /\ res = [i \in 1..Len(res) |-> res[i]] /\ DOMAIN res = 1..Len(res)
      /\ \A i \in 1..Len(res) : res[i][2] = Whole(ix)[i][2]
      /\ One(ix) => \A i \in 1..Len(res) : res[i] = Whole(ix)[i]
  BY ONLY <1>5, AnswersAre
<1>7. best = [i \in 1..Len(res) |-> best[i]]
  BY <1>4, <1>6 DEF FirstRows
<1>8. \A i \in 1..Len(res) : res[i][2] = best[i][2]
  BY <1>4, <1>6
<1>9. OneSource => \A i \in 1..Len(res) : res[i] = best[i]
  BY <1>4, <1>5, <1>6
<1> QED
  BY <1>4, <1>6, <1>7, <1>8, <1>9 DEF res

\* The invariant gives the best scores.
LEMMA ScanBest == ScanInv => BestScores
<1> SUFFICES ASSUME ScanInv, Finished
             PROVE  LET best == FirstOnes(max_results)
                    IN  [i \in DOMAIN results |-> results[i][2]]
                          = [i \in DOMAIN best |-> best[i][2]]
  BY DEF BestScores
<1> DEFINE best == FirstOnes(max_results)
<1>1. best = FirstOnes(max_results)
  OBVIOUS
<1> HIDE DEF best
<1>2. /\ DOMAIN best = 1..Len(results) /\ DOMAIN results = 1..Len(results)
      /\ \A i \in 1..Len(results) : results[i][2] = best[i][2]
  BY <1>1, FinishedAnswers
<1>3. [i \in DOMAIN results |-> results[i][2]] = [i \in DOMAIN best |-> best[i][2]]
  BY <1>2
<1> QED
  BY <1>3 DEF best

\* It gives the exact results where all documents come from one source.
LEMMA ScanExact == ScanInv => ExactFromOneSource
<1> SUFFICES ASSUME ScanInv, Finished, OneSource PROVE results = FirstOnes(max_results)
  BY DEF ExactFromOneSource
<1> DEFINE best == FirstOnes(max_results)
<1>1. best = FirstOnes(max_results)
  OBVIOUS
<1> HIDE DEF best
<1>2. /\ best = [i \in 1..Len(results) |-> best[i]]
      /\ results = [i \in 1..Len(results) |-> results[i]]
      /\ \A i \in 1..Len(results) : results[i] = best[i]
  BY <1>1, FinishedAnswers
<1>3. [i \in 1..Len(results) |-> best[i]] = [i \in 1..Len(results) |-> results[i]]
  BY <1>2
<1>4. results = best
  BY <1>2, <1>3
<1> QED
  BY <1>1, <1>4

\* And every row once.
LEMMA ScanOnce == ScanInv => EachRowOnce
<1> SUFFICES ASSUME ScanInv, phase = "ended", OneSource PROVE served = FirstOnes(MaxLimit)
  BY DEF EachRowOnce
<1>1. One(index)
  BY DEF OneSource, One
<1>2. served = FirstRows(index, Bounded(index, MaxLimit))
  BY <1>1 DEF ScanInv, Served
<1>3. WellFormed(index) /\ weight = Weights(index) /\ MaxLimit \in Nat
  BY ScanAssumption DEF ScanInv
<1>4. FirstOnes(MaxLimit) = FirstRows(index, Bounded(index, MaxLimit))
  BY <1>3, FirstOnesIs
<1> QED
  BY <1>2, <1>4

\* The inductive invariant of searches and scans.
THEOREM ScanInvariant == Spec => []ScanInv
<1> QED
  BY InitScans, ScanInvHolds, PTL DEF Spec

\* The variables have their types, and the heap never outgrows the limit (tp_topk_add).
THEOREM ScanTypesHold == Spec => []TypeOK
<1> QED
  BY ScanInvariant, ScanTypes, PTL

\* For every index, query and limit, whatever was skipped, a search returns the best
\* scores that there are (bmw.c: blocks and documents passed over cannot enter the top k).
THEOREM SearchReturnsTheBest == Spec => []BestScores
<1> QED
  BY ScanInvariant, ScanBest, PTL

\* Where all documents come from one source a search returns exactly what scoring
\* everything and sorting by score and ctid would (bmw.c, tp_topk_extract).
THEOREM SearchIsExact == Spec => []ExactFromOneSource
<1> QED
  BY ScanInvariant, ScanExact, PTL

\* Across any number of executions a scan returns each matching document once and in
\* order, up to the greatest limit (scan.c, tp_gettuple).
THEOREM ScanReturnsEachRowOnce == Spec => []EachRowOnce
<1> QED
  BY ScanInvariant, ScanOnce, PTL

=============================================================================
