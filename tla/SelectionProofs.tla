-------------------------- MODULE SelectionProofs --------------------------
(***************************************************************************)
(* Proofs about the selection of leaves, for any finite set of leaves of   *)
(* any values and any amount: the loops of select_leaves_by_exact_amount   *)
(* compute the declarative definition the store specifications use, they   *)
(* miss no combination of powers of two, and the candidates of the SQL     *)
(* query are as good as all leaves.                                        *)
(***************************************************************************)
EXTENDS SelectHelper, CollectionProofs

-----------------------------------------------------------------------------
(* The value of a set of leaves. *)
LEMMA SatsSum ==
    ASSUME NEW S, S \subseteq Leaf
    PROVE  IsFiniteSet(S) /\ (\A l \in S : Value[l] \in Nat) /\ Sats(S) = SumOver(Value, S)
BY LeafFinite, ValueAssumption, FS_Subset, SumIsMapThenSum DEF Sats

LEMMA SatsNat ==
    ASSUME NEW S, S \subseteq Leaf
    PROVE  Sats(S) \in Nat
BY SatsSum, SumOverNat

LEMMA SatsEmpty == Sats({}) = 0
BY SatsSum, SumEmpty

LEMMA SatsSplit ==
    ASSUME NEW S, S \subseteq Leaf, NEW T, T \subseteq S
    PROVE  Sats(S) = Sats(T) + Sats(S \ T) /\ Sats(T) <= Sats(S)
<1>1. T \subseteq Leaf /\ S \ T \subseteq Leaf
  OBVIOUS
<1>2. Sats(S) \in Nat /\ Sats(T) \in Nat /\ Sats(S \ T) \in Nat
  BY <1>1, SatsNat
<1>3. Sats(S) = Sats(T) + Sats(S \ T)
  BY <1>1, SatsSum, SumSplit
<1> QED BY <1>2, <1>3

LEMMA SatsAdd ==
    ASSUME NEW S, S \subseteq Leaf, NEW l \in Leaf \ S
    PROVE  Sats(S \cup {l}) = Sats(S) + Value[l]
<1>1. S \cup {l} \subseteq Leaf /\ l \in S \cup {l} /\ (S \cup {l}) \ {l} = S
  OBVIOUS
<1>2. SumOver(Value, S \cup {l}) = Value[l] + SumOver(Value, S)
  BY <1>1, SatsSum, SumRemove
<1>3. Sats(S \cup {l}) = SumOver(Value, S \cup {l}) /\ Sats(S) = SumOver(Value, S)
  BY <1>1, SatsSum
<1>4. Value[l] \in Nat /\ Sats(S) \in Nat
  BY ValueAssumption, SatsNat
<1> QED BY <1>2, <1>3, <1>4

LEMMA SatsSingle ==
    ASSUME NEW l \in Leaf
    PROVE  Sats({l}) = Value[l]
<1>1. Sats({} \cup {l}) = Sats({}) + Value[l]
  BY SatsAdd
<1>2. {} \cup {l} = {l}
  OBVIOUS
<1> QED BY <1>1, <1>2, SatsEmpty, ValueAssumption

LEMMA SatsOne ==
    ASSUME NEW S, S \subseteq Leaf, NEW l \in S
    PROVE  Value[l] <= Sats(S) /\ Value[l] \in Nat \ {0}
<1>1. {l} \subseteq S /\ l \in Leaf
  OBVIOUS
<1> QED BY <1>1, SatsSplit, SatsSingle, ValueAssumption

(* Where every value is a multiple of v, so is the sum. *)
LEMMA SatsMultiple ==
    ASSUME NEW S, S \subseteq Leaf, NEW v \in Nat, \A l \in S : \E k \in Nat : Value[l] = v * k
    PROVE  \E k \in Nat : Sats(S) = v * k
<1> DEFINE Wrong(s) == ~ \E k \in Nat : Sats(s) = v * k
           Bad == {n \in Nat : \E s \in SUBSET S : Cardinality(s) = n /\ Wrong(s)}
<1>0. IsFiniteSet(S)
  BY LeafFinite, FS_Subset
<1>1. Bad = {}
  <2> SUFFICES ASSUME Bad # {} PROVE FALSE
    OBVIOUS
  <2>1. PICK n \in Bad : \A m \in Bad : n <= m
    <3>1. Bad \subseteq Nat
      OBVIOUS
    <3> HIDE DEF Bad
    <3> QED BY <3>1, NatMin
  <2>2. PICK s \in SUBSET S : Cardinality(s) = n /\ Wrong(s)
    BY <2>1
  <2>3. s # {}
    <3>1. 0 = v * 0
      OBVIOUS
    <3> QED BY <2>2, <3>1, SatsEmpty
  <2> DEFINE a == AnyOf(s)
             u == s \ {a}
  <2>4. a \in s /\ a \in S /\ u \in SUBSET S /\ n \in Nat \ {0} /\ Cardinality(u) = n - 1
    BY <1>0, <2>2, <2>3, Smaller
  <2>5. s = u \cup {a} /\ a \in Leaf \ u
    BY <2>4
  <2> HIDE DEF a, u
  <2>6. ~ Wrong(u)
    <3>1. n - 1 \in Nat /\ ~(n <= n - 1)
      BY <2>4
    <3> HIDE DEF Wrong
    <3>2. n - 1 \notin Bad
      BY <2>1, <3>1
    <3> QED BY <2>4, <3>1, <3>2
  <2>7. PICK k \in Nat : Sats(u) = v * k
    BY <2>6
  <2>8. PICK j \in Nat : Value[a] = v * j
    BY <2>4
  <2>9. Sats(s) = Sats(u) + Value[a]
    BY <2>4, <2>5, SatsAdd
  <2>10. v * k + v * j = v * (k + j) /\ k + j \in Nat
    OBVIOUS
  <2> QED BY <2>2, <2>7, <2>8, <2>9, <2>10
<1>2. Cardinality(S) \in Nat
  BY <1>0, FS_CardinalityType
<1>3. ~ Wrong(S)
  BY <1>1, <1>2
<1> QED BY <1>3

(* Two multiples of v differ by v at least. *)
LEMMA MultiplesApart ==
    ASSUME NEW v \in Nat, NEW i \in Nat, NEW j \in Nat, v * i < v * j
    PROVE  v * i + v <= v * j
<1>1. i < j
  <2> SUFFICES ASSUME j <= i PROVE FALSE
    OBVIOUS
  <2>1. v * i = v * j + v * (i - j) /\ i - j \in Nat
    OBVIOUS
  <2>2. v * (i - j) \in Nat /\ v * i \in Nat /\ v * j \in Nat
    BY <2>1
  <2> QED BY <2>1, <2>2
<1>2. v * j = v * i + v + v * (j - i - 1) /\ j - i - 1 \in Nat
  BY <1>1
<1>3. v * (j - i - 1) \in Nat /\ v * i \in Nat /\ v * j \in Nat
  BY <1>2
<1> QED BY <1>2, <1>3

-----------------------------------------------------------------------------
(* Powers of two: of two of them, the larger is a multiple of the smaller. *)
LEMMA PowerNat ==
    ASSUME NEW n \in Nat
    PROVE  2 ^ n \in Nat /\ 2 ^ n = Cardinality(SUBSET (1 .. n)) /\ IsFiniteSet(SUBSET (1 .. n))
<1>1. IsFiniteSet(1 .. n) /\ Cardinality(1 .. n) = n
  BY FS_Interval
<1> QED BY <1>1, FS_SUBSET, FS_CardinalityType

(* The subsets of 1..j are those of 1..i, each with one of i+1..j. *)
LEMMA PowerDivides ==
    ASSUME NEW i \in Nat, NEW j \in Nat, i <= j
    PROVE  \E k \in Nat : 2 ^ j = 2 ^ i * k
<1> DEFINE I == 1 .. i
           K == i + 1 .. j
           A == SUBSET I
           B == SUBSET K
           C == SUBSET (1 .. j)
           f == [p \in A \X B |-> p[1] \cup p[2]]
<1>1. IsFiniteSet(A) /\ IsFiniteSet(B) /\ Cardinality(B) \in Nat
  <2>1. IsFiniteSet(I) /\ IsFiniteSet(K)
    BY FS_Interval
  <2> QED BY <2>1, FS_SUBSET, FS_CardinalityType
<1>2. I \cup K = 1 .. j /\ I \cap K = {}
  OBVIOUS
<1> HIDE DEF I, K
<1>3. f \in Bijection(A \X B, C)
  <2>1. f \in [A \X B -> C]
    BY <1>2
  <2>2. \A p, q \in A \X B : f[p] = f[q] => p = q
    <3> SUFFICES ASSUME NEW p \in A \X B, NEW q \in A \X B, f[p] = f[q]
                 PROVE  p = q
      OBVIOUS
    <3>1. p[1] \cup p[2] = q[1] \cup q[2] /\ p[1] \in A /\ p[2] \in B /\ q[1] \in A /\ q[2] \in B
      OBVIOUS
    <3>2. p[1] = q[1] /\ p[2] = q[2]
      BY <1>2, <3>1
    <3> HIDE DEF A, B
    <3> QED BY <3>2
  <2>3. \A s \in C : \E p \in A \X B : f[p] = s
    <3> SUFFICES ASSUME NEW s \in C PROVE \E p \in A \X B : f[p] = s
      OBVIOUS
    <3> DEFINE p == <<s \cap I, s \cap K>>
    <3>1. p \in A \X B
      OBVIOUS
    <3>2. f[p] = (s \cap I) \cup (s \cap K)
      BY <3>1
    <3>3. (s \cap I) \cup (s \cap K) = s
      BY <1>2
    <3> QED BY <3>1, <3>2, <3>3
  <2> HIDE DEF f, A, B, C
  <2> QED BY <2>1, <2>2, <2>3 DEF Bijection, Injection, IsInjective, Surjection
<1>4. Cardinality(A \X B) = Cardinality(A) * Cardinality(B) /\ IsFiniteSet(A \X B)
  BY <1>1, FS_Product
<1>5. Cardinality(C) = Cardinality(A \X B)
  <2>1. ExistsBijection(A \X B, C)
    BY <1>3 DEF ExistsBijection
  <2> HIDE DEF A, B, C
  <2> QED BY <1>4, <2>1, FS_Bijection
<1>6. 2 ^ i = Cardinality(A) /\ 2 ^ j = Cardinality(C)
  BY PowerNat DEF I
<1> HIDE DEF A, B, C
<1> QED BY <1>1, <1>4, <1>5, <1>6

-----------------------------------------------------------------------------
(* Greedy selections: what was passed over did not fit into what was left. *)
AtLeast(S, v) == {m \in S : Value[m] >= v}

IsGreedy(L, S, a) ==
    /\ S \subseteq L
    /\ Sats(S) <= a
    /\ \A l \in L \ S : Value[l] > a - Sats(AtLeast(S, Value[l]))

LEMMA GreedyExactMeans ==
    ASSUME NEW L, L \subseteq Leaf, NEW a \in Nat, NEW S
    PROVE  S \in GreedyExact(L, a) <=> IsGreedy(L, S, a) /\ Sats(S) = a
BY DEF GreedyExact, IsGreedy, AtLeast

(* The leaves of the value v, apart. *)
LEMMA ClassSplit ==
    ASSUME NEW S, S \subseteq Leaf, NEW v \in Nat
    PROVE  /\ Sats(AtLeast(S, v)) = Sats(AtLeast(S, v + 1)) + Sats({m \in S : Value[m] = v})
           /\ Sats(AtLeast(S, v)) \in Nat /\ Sats(AtLeast(S, v + 1)) \in Nat
           /\ Sats({m \in S : Value[m] = v}) \in Nat
           /\ Sats(AtLeast(S, v)) <= Sats(S)
<1> DEFINE A == AtLeast(S, v)
           B == AtLeast(S, v + 1)
           C == {m \in S : Value[m] = v}
<1>1. \A m \in S : Value[m] \in Nat
  BY ValueAssumption
<1>2. A \subseteq Leaf /\ A \subseteq S /\ B \subseteq A /\ A \ B = C
  BY <1>1 DEF AtLeast
<1>3. B \subseteq Leaf /\ C \subseteq Leaf
  BY <1>2
<1> HIDE DEF A, B, C
<1>4. Sats(A) \in Nat /\ Sats(B) \in Nat /\ Sats(C) \in Nat
  BY <1>2, <1>3, SatsNat
<1>5. Sats(A) = Sats(B) + Sats(C) /\ Sats(A) <= Sats(S)
  BY <1>2, SatsSplit
<1> QED BY <1>4, <1>5 DEF A, B, C

(* The largest member of a bounded set of naturals. *)
LEMMA NatMax ==
    ASSUME NEW T, T \subseteq Nat, T # {}, NEW N \in Nat, \A v \in T : v <= N
    PROVE  \E v \in T : v + 1 \notin T
<1> DEFINE D == {N - v : v \in T}
<1>1. D \subseteq Nat /\ D # {}
  OBVIOUS
<1>2. PICK d \in D : \A e \in D : d <= e
  <2> HIDE DEF D
  <2> QED BY <1>1, NatMin
<1>3. PICK v \in T : d = N - v
  BY <1>2
<1>4. v + 1 \notin T
  <2> SUFFICES ASSUME v + 1 \in T PROVE FALSE
    OBVIOUS
  <2>1. N - (v + 1) \in D
    OBVIOUS
  <2>2. d <= N - (v + 1)
    BY <1>2, <2>1
  <2>3. v \in Nat
    OBVIOUS
  <2> QED BY <1>3, <2>2, <2>3
<1> QED BY <1>4

(* No leaf is worth more than all of them. *)
LEMMA NoneAbove ==
    ASSUME NEW L, L \subseteq Leaf, NEW S, S \subseteq L, NEW v \in Nat, v > Sats(L)
    PROVE  Sats(AtLeast(S, v)) = 0
<1>1. \A m \in S : Value[m] <= Sats(L) /\ Value[m] \in Nat
  BY SatsOne
<1>2. Sats(L) \in Nat
  BY SatsNat
<1>3. AtLeast(S, v) = {}
  BY <1>1, <1>2 DEF AtLeast
<1> QED BY <1>3, SatsEmpty

LEMMA AllAbove ==
    ASSUME NEW S, S \subseteq Leaf
    PROVE  AtLeast(S, 0) = S
BY ValueAssumption DEF AtLeast

(* Where a greedy selection S takes less than T of the leaves from v on,   *)
(* although not less of the larger ones, what it lacks is less than v: it  *)
(* passed over a leaf of value v.                                          *)
LEMMA FallsBehind ==
    ASSUME NEW L, L \subseteq Leaf, NEW a \in Nat, NEW S, IsGreedy(L, S, a),
           NEW T, T \subseteq L, Sats(T) <= a, NEW v \in Nat,
           Sats(AtLeast(T, v + 1)) <= Sats(AtLeast(S, v + 1)),
           Sats(AtLeast(S, v)) < Sats(AtLeast(T, v))
    PROVE  /\ Sats(AtLeast(T, v)) < Sats(AtLeast(S, v)) + v
           /\ \E l \in L : Value[l] = v
<1> DEFINE Sv == {m \in S : Value[m] = v}
           Tv == {m \in T : Value[m] = v}
<1>1. S \subseteq L /\ S \subseteq Leaf /\ T \subseteq Leaf
  BY DEF IsGreedy
<1>2. /\ Sats(AtLeast(S, v)) = Sats(AtLeast(S, v + 1)) + Sats(Sv)
      /\ Sats(AtLeast(T, v)) = Sats(AtLeast(T, v + 1)) + Sats(Tv)
      /\ Sats(AtLeast(S, v)) \in Nat /\ Sats(AtLeast(S, v + 1)) \in Nat /\ Sats(Sv) \in Nat
      /\ Sats(AtLeast(T, v)) \in Nat /\ Sats(AtLeast(T, v + 1)) \in Nat /\ Sats(Tv) \in Nat
      /\ Sats(AtLeast(T, v)) <= Sats(T)
  BY <1>1, ClassSplit
<1>3. PICK l \in Tv : l \notin Sv
  <2> SUFFICES ASSUME Tv \subseteq Sv PROVE FALSE
    OBVIOUS
  <2>1. Sats(Tv) <= Sats(Sv)
    <3>1. Sv \subseteq Leaf
      BY <1>1
    <3> HIDE DEF Sv, Tv
    <3> QED BY <3>1, SatsSplit
  <2> HIDE DEF Sv, Tv
  <2> QED BY <1>2, <2>1
<1>4. l \in L \ S /\ Value[l] = v
  BY <1>3
<1>5. v > a - Sats(AtLeast(S, v))
  BY <1>4 DEF IsGreedy
<1>6. Sats(T) \in Nat
  BY <1>1, SatsNat
<1> HIDE DEF Sv, Tv
<1> QED BY <1>2, <1>4, <1>5, <1>6

(* Whatever the order, greedy selections are worth the same. *)
LEMMA GreedyNotBehind ==
    ASSUME NEW L, L \subseteq Leaf, NEW a \in Nat,
           NEW S, IsGreedy(L, S, a), NEW T, IsGreedy(L, T, a), Sats(S) < Sats(T)
    PROVE  FALSE
<1> DEFINE Differ == {v \in Nat : Sats(AtLeast(S, v)) # Sats(AtLeast(T, v))}
<1>1. S \subseteq L /\ S \subseteq Leaf /\ T \subseteq L /\ T \subseteq Leaf /\ Sats(S) <= a /\ Sats(T) <= a
  BY DEF IsGreedy
<1>2. Sats(S) \in Nat /\ Sats(T) \in Nat /\ Sats(L) \in Nat
  BY <1>1, SatsNat
<1>3. PICK v \in Differ : v + 1 \notin Differ
  <2>1. 0 \in Differ
    BY <1>1, <1>2, AllAbove
  <2>2. \A w \in Differ : w <= Sats(L)
    <3> SUFFICES ASSUME NEW w \in Nat, w > Sats(L) PROVE w \notin Differ
      BY <1>2
    <3> QED BY <1>1, NoneAbove
  <2>3. Differ \subseteq Nat
    OBVIOUS
  <2> HIDE DEF Differ
  <2> QED BY <1>2, <2>1, <2>2, <2>3, NatMax
<1> DEFINE Sv == {m \in S : Value[m] = v}
           Tv == {m \in T : Value[m] = v}
<1>4. v \in Nat /\ Sats(AtLeast(S, v)) # Sats(AtLeast(T, v)) /\ Sats(AtLeast(S, v + 1)) = Sats(AtLeast(T, v + 1))
  BY <1>3
<1>5. /\ Sats(AtLeast(S, v)) = Sats(AtLeast(S, v + 1)) + Sats(Sv)
      /\ Sats(AtLeast(T, v)) = Sats(AtLeast(T, v + 1)) + Sats(Tv)
      /\ Sats(AtLeast(S, v)) \in Nat /\ Sats(AtLeast(S, v + 1)) \in Nat /\ Sats(Sv) \in Nat
      /\ Sats(AtLeast(T, v)) \in Nat /\ Sats(AtLeast(T, v + 1)) \in Nat /\ Sats(Tv) \in Nat
  BY <1>1, <1>4, ClassSplit
<1>6. (\E i \in Nat : Sats(Sv) = v * i) /\ (\E j \in Nat : Sats(Tv) = v * j)
  <2>1. v = v * 1
    BY <1>4
  <2>2. (\A l \in Sv : \E k \in Nat : Value[l] = v * k) /\ (\A l \in Tv : \E k \in Nat : Value[l] = v * k)
    BY <2>1
  <2>3. Sv \subseteq Leaf /\ Tv \subseteq Leaf
    BY <1>1
  <2> HIDE DEF Sv, Tv
  <2> QED BY <1>4, <2>2, <2>3, SatsMultiple
<1> HIDE DEF Sv, Tv
<1>7. PICK i, j \in Nat : Sats(Sv) = v * i /\ Sats(Tv) = v * j
  BY <1>6
<1>8. CASE Sats(AtLeast(S, v)) < Sats(AtLeast(T, v))
  <2>1. Sats(AtLeast(T, v)) < Sats(AtLeast(S, v)) + v
    BY <1>1, <1>4, <1>5, <1>8, FallsBehind
  <2>2. v * i < v * j
    BY <1>4, <1>5, <1>7, <1>8
  <2>3. v * i + v <= v * j
    BY <1>4, <2>2, MultiplesApart
  <2> QED BY <1>4, <1>5, <1>7, <2>1, <2>3
<1>9. CASE Sats(AtLeast(T, v)) < Sats(AtLeast(S, v))
  <2>1. Sats(AtLeast(S, v)) < Sats(AtLeast(T, v)) + v
    BY <1>1, <1>4, <1>5, <1>9, FallsBehind
  <2>2. v * j < v * i
    BY <1>4, <1>5, <1>7, <1>9
  <2>3. v * j + v <= v * i
    BY <1>4, <2>2, MultiplesApart
  <2> QED BY <1>4, <1>5, <1>7, <2>1, <2>3
<1> QED BY <1>4, <1>5, <1>8, <1>9

(* A pass that ends with something left shows that no order ends otherwise. *)
LEMMA GreedyFails ==
    ASSUME NEW L, L \subseteq Leaf, NEW a \in Nat, NEW S, IsGreedy(L, S, a), Sats(S) < a
    PROVE  GreedyExact(L, a) = {}
<1> SUFFICES ASSUME NEW T \in GreedyExact(L, a) PROVE FALSE
  OBVIOUS
<1>1. IsGreedy(L, T, a) /\ Sats(T) = a
  BY GreedyExactMeans
<1> QED BY <1>1, GreedyNotBehind

(* Of powers of two a greedy selection is as good as any. *)
LEMMA PowersComplete ==
    ASSUME NEW L, L \subseteq Leaf, PowersOfTwo(L) = L, NEW a \in Nat,
           NEW S, IsGreedy(L, S, a), Sats(S) < a, NEW T, T \subseteq L
    PROVE  Sats(T) # a
<1> SUFFICES ASSUME Sats(T) = a PROVE FALSE
  OBVIOUS
<1> DEFINE Behind == {v \in Nat : Sats(AtLeast(S, v)) < Sats(AtLeast(T, v))}
<1>1. S \subseteq L /\ S \subseteq Leaf /\ T \subseteq Leaf
  BY DEF IsGreedy
<1>2. Sats(S) \in Nat /\ Sats(T) \in Nat /\ Sats(L) \in Nat
  BY <1>1, SatsNat
<1>3. PICK v \in Behind : v + 1 \notin Behind
  <2>1. 0 \in Behind
    BY <1>1, <1>2, AllAbove
  <2>2. \A w \in Behind : w <= Sats(L)
    <3> SUFFICES ASSUME NEW w \in Nat, w > Sats(L) PROVE w \notin Behind
      BY <1>2
    <3>1. Sats(AtLeast(S, w)) = 0 /\ Sats(AtLeast(T, w)) = 0
      BY <1>1, NoneAbove
    <3> QED BY <3>1
  <2>3. Behind \subseteq Nat
    OBVIOUS
  <2> HIDE DEF Behind
  <2> QED BY <1>2, <2>1, <2>2, <2>3, NatMax
<1>4. v \in Nat /\ Sats(AtLeast(S, v)) < Sats(AtLeast(T, v)) /\ ~(Sats(AtLeast(S, v + 1)) < Sats(AtLeast(T, v + 1)))
  BY <1>3
<1>5. /\ Sats(AtLeast(S, v)) \in Nat /\ Sats(AtLeast(S, v + 1)) \in Nat
      /\ Sats(AtLeast(T, v)) \in Nat /\ Sats(AtLeast(T, v + 1)) \in Nat
  BY <1>1, <1>4, ClassSplit
<1>6. Sats(AtLeast(T, v)) < Sats(AtLeast(S, v)) + v /\ \E l \in L : Value[l] = v
  <2>1. Sats(AtLeast(T, v + 1)) <= Sats(AtLeast(S, v + 1)) /\ Sats(T) <= a
    BY <1>2, <1>4, <1>5
  <2> QED BY <1>4, <2>1, FallsBehind
<1>7. \A l \in L : Value[l] >= v => \E k \in Nat : Value[l] = v * k
  <2>1. \A l \in L : \E n \in 0 .. Value[l] : Value[l] = 2 ^ n
    BY DEF PowersOfTwo
  <2>2. \A l \in L : \E n \in Nat : Value[l] = 2 ^ n
    BY <2>1, ValueAssumption
  <2>3. PICK i \in Nat : v = 2 ^ i
    BY <1>6, <2>2
  <2> SUFFICES ASSUME NEW l \in L, Value[l] >= v PROVE \E k \in Nat : Value[l] = v * k
    OBVIOUS
  <2>4. PICK j \in Nat : Value[l] = 2 ^ j
    BY <2>2
  <2>5. CASE i <= j
    BY <2>3, <2>4, <2>5, PowerDivides
  <2>6. CASE j <= i
    <3>1. PICK k \in Nat : v = Value[l] * k
      BY <2>3, <2>4, <2>6, PowerDivides
    <3>2. Value[l] \in Nat \ {0} /\ v \in Nat \ {0}
      BY <1>4, <1>6, ValueAssumption
    <3>3. k # 0
      BY <3>1, <3>2
    <3>4. v = Value[l] + Value[l] * (k - 1) /\ Value[l] * (k - 1) \in Nat
      BY <3>1, <3>2, <3>3
    <3>5. Value[l] = v * 1
      BY <3>2, <3>4
    <3> QED BY <3>5
  <2> QED BY <2>5, <2>6
<1>8. PICK i \in Nat, j \in Nat : Sats(AtLeast(S, v)) = v * i /\ Sats(AtLeast(T, v)) = v * j
  <2> DEFINE A == AtLeast(S, v)
             B == AtLeast(T, v)
  <2>1. /\ A \subseteq Leaf /\ B \subseteq Leaf
        /\ \A l \in A : \E k \in Nat : Value[l] = v * k
        /\ \A l \in B : \E k \in Nat : Value[l] = v * k
    BY <1>1, <1>7 DEF AtLeast
  <2> HIDE DEF A, B
  <2>2. (\E i \in Nat : Sats(A) = v * i) /\ (\E j \in Nat : Sats(B) = v * j)
    BY <1>4, <2>1, SatsMultiple
  <2> QED BY <2>2 DEF A, B
<1>9. v * i + v <= v * j
  BY <1>4, <1>8, MultiplesApart
<1> QED BY <1>4, <1>5, <1>6, <1>8, <1>9

-----------------------------------------------------------------------------
(***************************************************************************)
(* The loop.  In a pass over src: what is taken and what is left add up to *)
(* the amount, the leaves seen are not smaller than those to come, and     *)
(* each one passed over was, and still is, too large for what is left.     *)
(***************************************************************************)
Source == IF phase = "powers" THEN PowersOfTwo(leaves) ELSE leaves

PassAt(src, rest, T, rem) ==
    /\ rest \subseteq src
    /\ T \subseteq src \ rest
    /\ rem \in Nat
    /\ Sats(T) + rem = amount
    /\ \A l \in src \ rest, k \in rest : Value[k] <= Value[l]
    /\ \A l \in (src \ rest) \ T : /\ Value[l] > rem
                                    /\ Value[l] > amount - Sats(AtLeast(T, Value[l]))

Pass(src) == PassAt(src, todo, taken, remaining) /\ remaining # 0

Passing == phase \in {"all", "powers"}

SelInv ==
    /\ leaves \subseteq Leaf
    /\ amount \in Nat
    /\ phase \in {"start", "all", "powers", "found", "none"}
    /\ phase = "start" => todo = {} /\ taken = {} /\ remaining = amount
    /\ Passing => /\ amount # 0
                  /\ Sats(leaves) >= amount
                  /\ \A l \in leaves : Value[l] # amount
                  /\ Pass(Source)
    /\ phase = "powers" => GreedyExact(leaves, amount) = {} /\ PowersOfTwo(leaves) # leaves
    /\ SelectionCorrect

(* When a pass has taken what it needs, or looked at every leaf, what it   *)
(* has taken is a greedy selection.                                        *)
LEMMA PassIsGreedy ==
    ASSUME NEW src, src \subseteq Leaf, amount \in Nat, Pass(src), todo = {}
    PROVE  IsGreedy(src, taken, amount) /\ Sats(taken) < amount
<1>1. taken \subseteq src /\ taken \subseteq Leaf
  BY DEF Pass, PassAt
<1>2. Sats(taken) \in Nat /\ remaining \in Nat \ {0} /\ Sats(taken) + remaining = amount
  BY <1>1, SatsNat DEF Pass, PassAt
<1>3. \A l \in src \ taken : Value[l] > amount - Sats(AtLeast(taken, Value[l]))
  BY DEF Pass, PassAt
<1> QED BY <1>1, <1>2, <1>3 DEF IsGreedy

(* What an iteration that takes a leaf leaves behind. *)
LEMMA TakeKeepsPassed ==
    ASSUME NEW src, src \subseteq Leaf, amount \in Nat, Pass(src), NEW l \in todo,
           Value[l] <= remaining, \A k \in todo : Value[k] <= Value[l]
    PROVE  PassAt(src, todo \ {l}, taken \cup {l}, remaining - Value[l])
<1> DEFINE T == taken \cup {l}
           rest == todo \ {l}
           rem == remaining - Value[l]
<1>1. /\ taken \subseteq src \ todo /\ l \in src /\ l \notin taken /\ l \in Leaf /\ rest \subseteq src
      /\ taken \subseteq Leaf /\ T \subseteq src \ rest /\ T \subseteq Leaf
  BY DEF Pass, PassAt
<1>2. Value[l] \in Nat \ {0} /\ remaining \in Nat \ {0} /\ Sats(taken) \in Nat
  BY <1>1, ValueAssumption, SatsNat DEF Pass, PassAt
<1>3. Sats(T) = Sats(taken) + Value[l]
  BY <1>1, SatsAdd
<1>4. rem \in Nat /\ Sats(T) + rem = amount
  BY <1>2, <1>3 DEF Pass, PassAt
<1>5. ASSUME NEW m \in (src \ rest) \ T
      PROVE  Value[m] > rem /\ Value[m] > amount - Sats(AtLeast(T, Value[m]))
  <2>1. m \in (src \ todo) \ taken /\ Value[m] \in Nat
    BY <1>1, <1>5, ValueAssumption
  <2>2. Value[m] > remaining /\ Value[m] > amount - Sats(AtLeast(taken, Value[m]))
    BY <2>1 DEF Pass, PassAt
  <2>3. AtLeast(T, Value[m]) = AtLeast(taken, Value[m])
    BY <1>2, <2>1, <2>2 DEF AtLeast
  <2> QED BY <1>2, <2>1, <2>2, <2>3
<1>6. ASSUME NEW m \in src \ rest, NEW k \in rest
      PROVE  Value[k] <= Value[m]
  BY <1>6 DEF Pass, PassAt
<1> HIDE DEF T, rest, rem
<1>7. PassAt(src, rest, T, rem)
  BY <1>1, <1>4, <1>5, <1>6 DEF PassAt
<1> QED BY <1>7 DEF T, rest, rem

(* ... and one that passes a leaf over. *)
LEMMA PassOver ==
    ASSUME NEW src, src \subseteq Leaf, amount \in Nat, Pass(src), NEW l \in todo,
           Value[l] > remaining, \A k \in todo : Value[k] <= Value[l],
           todo' = todo \ {l}, taken' = taken, remaining' = remaining, amount' = amount
    PROVE  Pass(src)'
<1>1. /\ taken \subseteq src \ todo /\ l \in src /\ l \in Leaf /\ taken \subseteq Leaf
  BY DEF Pass, PassAt
<1>2. Value[l] \in Nat \ {0} /\ remaining \in Nat \ {0} /\ Sats(taken) \in Nat /\ Sats(taken) + remaining = amount
  BY <1>1, ValueAssumption, SatsNat DEF Pass, PassAt
<1>3. AtLeast(taken, Value[l]) = taken
  <2>1. \A m \in taken : Value[l] <= Value[m] /\ Value[m] \in Nat
    BY <1>1, ValueAssumption DEF Pass, PassAt
  <2> QED BY <1>2, <2>1 DEF AtLeast
<1>4. Value[l] > amount - Sats(AtLeast(taken, Value[l]))
  BY <1>2, <1>3
<1>5. ASSUME NEW m \in (src \ (todo \ {l})) \ taken
      PROVE  Value[m] > remaining /\ Value[m] > amount - Sats(AtLeast(taken, Value[m]))
  BY <1>4, <1>5 DEF Pass, PassAt
<1>6. ASSUME NEW m \in src \ (todo \ {l}), NEW k \in todo \ {l}
      PROVE  Value[k] <= Value[m]
  BY <1>6 DEF Pass, PassAt
<1>7. todo \ {l} \subseteq src /\ taken \subseteq src \ (todo \ {l})
  BY <1>1 DEF Pass, PassAt
<1>8. /\ \A m \in src \ todo', k \in todo' : Value[k] <= Value[m]
      /\ \A m \in (src \ todo') \ taken' : /\ Value[m] > remaining'
                                           /\ Value[m] > amount' - Sats(AtLeast(taken', Value[m]))
  BY <1>5, <1>6
<1> QED BY <1>2, <1>7, <1>8 DEF Pass, PassAt

(* The selection a pass has found is the one of its source. *)
LEMMA FoundIsGreedy ==
    ASSUME NEW src, src \subseteq Leaf, amount \in Nat, Pass(src), NEW l \in todo,
           Value[l] = remaining, \A k \in todo : Value[k] <= Value[l]
    PROVE  taken \cup {l} \in GreedyExact(src, amount)
<1> DEFINE T == taken \cup {l}
           rest == todo \ {l}
<1>0. remaining \in Nat \ {0}
  BY DEF Pass, PassAt
<1>1. /\ T \subseteq src \ rest /\ Sats(T) = amount /\ Sats(T) \in Nat
      /\ \A m \in (src \ rest) \ T : Value[m] > amount - Sats(AtLeast(T, Value[m]))
      /\ \A m \in src \ rest, k \in rest : Value[k] <= Value[m]
  <2>1. remaining - Value[l] = 0 /\ Value[l] <= remaining
    BY <1>0
  <2>2. PassAt(src, rest, T, 0)
    BY <2>1, TakeKeepsPassed
  <2>3. T \subseteq Leaf
    BY <2>2 DEF PassAt
  <2> HIDE DEF T, rest
  <2>4. Sats(T) \in Nat
    BY <2>3, SatsNat
  <2> QED BY <2>2, <2>4 DEF PassAt
<1> HIDE DEF T, rest
<1>2. ASSUME NEW m \in src \ T, m \in rest
      PROVE  Value[m] > amount - Sats(AtLeast(T, Value[m]))
  <2>1. \A t \in T : Value[m] <= Value[t] /\ Value[t] \in Nat
    BY <1>1, <1>2, ValueAssumption
  <2>2. Value[m] \in Nat \ {0}
    BY <1>2, ValueAssumption
  <2>3. AtLeast(T, Value[m]) = T
    BY <2>1, <2>2 DEF AtLeast
  <2> QED BY <1>1, <2>2, <2>3
<1>3. IsGreedy(src, T, amount)
  BY <1>1, <1>2 DEF IsGreedy
<1> QED BY <1>1, <1>3, GreedyExactMeans DEF T

(* A selection found in a pass is one of the declarative definition. *)
LEMMA PassFinds ==
    ASSUME leaves \subseteq Leaf, amount \in Nat, Passing, amount # 0, Sats(leaves) >= amount,
           \A l \in leaves : Value[l] # amount,
           phase = "powers" => GreedyExact(leaves, amount) = {} /\ PowersOfTwo(leaves) # leaves,
           NEW S \in GreedyExact(Source, amount)
    PROVE  S \in ExactAmount(leaves, amount)
<1>1. S \in ExactMultiple(leaves, amount)
  BY DEF ExactMultiple, Passing, Source
<1>2. Sats(leaves) \in Nat
  BY SatsNat
<1>3. ~(amount = 0 \/ Sats(leaves) < amount) /\ {l \in leaves : Value[l] = amount} = {}
  BY <1>2
<1> QED BY <1>1, <1>3 DEF ExactAmount

LEMMA SelStarts == SelInit => SelInv
<1> SUFFICES ASSUME SelInit PROVE SelInv
  OBVIOUS
<1>1. amount \in Nat
  BY MaxAmountAssumption DEF SelInit
<1> QED BY <1>1 DEF SelInit, SelInv, Passing, SelectionCorrect, MatchesReference, PowersOfTwoSuffice

LEMMA PowersInside ==
    ASSUME NEW L
    PROVE  PowersOfTwo(L) \subseteq L /\ PowersOfTwo(PowersOfTwo(L)) = PowersOfTwo(L)
BY DEF PowersOfTwo

LEMMA SelRefuse == SelInv /\ Refuse => SelInv'
<1> SUFFICES ASSUME SelInv, Refuse PROVE SelInv'
  OBVIOUS
<1>1. leaves' = leaves /\ amount' = amount /\ phase' = "none" /\ (amount = 0 \/ Sats(leaves) < amount)
  BY DEF Refuse
<1>2. ExactAmount(leaves, amount) = {}
  <2>1. \A l \in leaves : Value[l] # amount
    <3>1. \A l \in leaves : Value[l] <= Sats(leaves) /\ Value[l] \in Nat \ {0}
      BY SatsOne DEF SelInv
    <3>2. Sats(leaves) \in Nat /\ amount \in Nat
      BY SatsNat DEF SelInv
    <3> QED BY <1>1, <3>1, <3>2
  <2>2. {l \in leaves : Value[l] = amount} = {}
    BY <2>1
  <2> QED BY <1>1, <2>2 DEF ExactAmount
<1>3. ASSUME amount # 0, NEW S \in SUBSET PowersOfTwo(leaves) PROVE Sats(S) # amount
  <2>1. S \subseteq leaves /\ S \subseteq Leaf /\ leaves \subseteq Leaf
    BY PowersInside DEF SelInv
  <2>2. Sats(S) <= Sats(leaves) /\ Sats(S) \in Nat /\ Sats(leaves) \in Nat
    BY <2>1, SatsSplit, SatsNat
  <2> QED BY <1>1, <1>3, <2>2 DEF SelInv
<1> QED BY <1>1, <1>2, <1>3 DEF SelInv, Passing, SelectionCorrect, MatchesReference, PowersOfTwoSuffice

LEMMA SelSingle == SelInv /\ SingleMatch => SelInv'
<1> SUFFICES ASSUME SelInv, SingleMatch PROVE SelInv'
  OBVIOUS
<1>1. PICK l \in leaves : Value[l] = amount /\ taken' = {l}
  BY DEF SingleMatch
<1>2. leaves' = leaves /\ amount' = amount /\ phase' = "found" /\ amount # 0 /\ amount \in Nat /\ leaves \subseteq Leaf
  BY DEF SingleMatch, SelInv
<1>3. Sats(leaves) >= amount /\ Sats(leaves) \in Nat
  BY <1>1, <1>2, SatsOne, SatsNat
<1>4. {l} \in ExactAmount(leaves, amount)
  <2> DEFINE singles == {k \in leaves : Value[k] = amount}
  <2>1. l \in singles /\ ~(amount = 0 \/ Sats(leaves) < amount)
    BY <1>1, <1>2, <1>3
  <2>2. ExactAmount(leaves, amount) = {{k} : k \in singles}
    BY <2>1 DEF ExactAmount
  <2> QED BY <2>1, <2>2
<1> QED BY <1>1, <1>2, <1>4 DEF SelInv, Passing, SelectionCorrect, MatchesReference, PowersOfTwoSuffice

(* A pass that begins. *)
LEMMA PassBegins ==
    ASSUME NEW src, src \subseteq Leaf, amount \in Nat \ {0}, amount' = amount,
           todo' = src, taken' = {}, remaining' = amount
    PROVE  Pass(src)'
BY SatsEmpty DEF Pass, PassAt

LEMMA SelFirstPass == SelInv /\ FirstPass => SelInv'
<1> SUFFICES ASSUME SelInv, FirstPass PROVE SelInv'
  OBVIOUS
<1>1. /\ leaves' = leaves /\ amount' = amount /\ phase' = "all" /\ amount \in Nat \ {0} /\ leaves \subseteq Leaf
      /\ Sats(leaves) >= amount /\ (\A l \in leaves : Value[l] # amount)
      /\ todo' = leaves /\ taken' = {} /\ remaining' = amount
  BY DEF FirstPass, SelInv
<1>2. Pass(leaves)'
  BY <1>1, PassBegins
<1>3. Source' = leaves'
  BY <1>1 DEF Source
<1> QED BY <1>1, <1>2, <1>3 DEF SelInv, Passing, SelectionCorrect, MatchesReference, PowersOfTwoSuffice

LEMMA SelVisit ==
    ASSUME SelInv, NEW l \in todo, Visit(l)
    PROVE  SelInv'
<1>1. /\ leaves \subseteq Leaf /\ amount \in Nat /\ amount # 0 /\ Sats(leaves) >= amount
      /\ (\A k \in leaves : Value[k] # amount) /\ Pass(Source) /\ Passing
      /\ phase = "powers" => GreedyExact(leaves, amount) = {} /\ PowersOfTwo(leaves) # leaves
  BY DEF SelInv, Visit, Passing
<1>2. /\ leaves' = leaves /\ amount' = amount /\ todo' = todo \ {l}
      /\ \A k \in todo : Value[k] <= Value[l]
  BY DEF Visit
<1>3. Source \subseteq leaves /\ Source \subseteq Leaf
  BY <1>1, PowersInside DEF Source
<1>4. Value[l] \in Nat /\ remaining \in Nat \ {0}
  BY <1>1, <1>3, ValueAssumption DEF Pass, PassAt
<1>5. CASE Value[l] > remaining
  <2>1. taken' = taken /\ remaining' = remaining /\ phase' = phase
    BY <1>5 DEF Visit
  <2> DEFINE src == Source
  <2>2. Pass(src)'
    <3>1. src \subseteq Leaf /\ Pass(src)
      BY <1>1, <1>3
    <3>2. Source' = Source
      BY <1>2, <2>1 DEF Source
    <3> QED BY <1>1, <1>2, <1>5, <2>1, <3>1, <3>2, PassOver DEF Pass, PassAt
  <2>3. Source' = Source
    BY <1>2, <2>1 DEF Source
  <2> QED BY <1>1, <1>2, <2>1, <2>2, <2>3 DEF SelInv, Passing, SelectionCorrect, MatchesReference, PowersOfTwoSuffice
<1>6. CASE Value[l] = remaining
  <2>1. taken' = taken \cup {l} /\ remaining' = 0 /\ phase' = "found"
    BY <1>4, <1>6 DEF Visit
  <2>2. taken \cup {l} \in GreedyExact(Source, amount)
    BY <1>1, <1>2, <1>3, <1>6, FoundIsGreedy
  <2>3. taken \cup {l} \in ExactAmount(leaves, amount)
    BY <1>1, <2>2, PassFinds
  <2> QED BY <1>1, <1>2, <2>1, <2>3 DEF SelInv, Passing, SelectionCorrect, MatchesReference, PowersOfTwoSuffice
<1>7. CASE Value[l] < remaining
  <2>1. taken' = taken \cup {l} /\ remaining' = remaining - Value[l] /\ phase' = phase /\ remaining' # 0
    BY <1>4, <1>7 DEF Visit
  <2>2. Source' = Source
    BY <1>2, <2>1 DEF Source
  <2>3. PassAt(Source, todo', taken', remaining')
    <3>1. Value[l] <= remaining
      BY <1>4, <1>7
    <3> QED BY <1>1, <1>2, <1>3, <2>1, <3>1, TakeKeepsPassed
  <2>5. Pass(Source)'
    BY <1>2, <2>1, <2>2, <2>3 DEF Pass, PassAt
  <2> QED BY <1>1, <1>2, <2>1, <2>2, <2>5 DEF SelInv, Passing, SelectionCorrect, MatchesReference, PowersOfTwoSuffice
<1> QED BY <1>4, <1>5, <1>6, <1>7

LEMMA SelSecondPass == SelInv /\ SecondPass => SelInv'
<1> SUFFICES ASSUME SelInv, SecondPass PROVE SelInv'
  OBVIOUS
<1>1. /\ leaves' = leaves /\ amount' = amount /\ phase' = "powers" /\ phase = "all" /\ todo = {}
      /\ todo' = PowersOfTwo(leaves) /\ taken' = {} /\ remaining' = amount /\ PowersOfTwo(leaves) # leaves
  BY DEF SecondPass
<1>2. /\ leaves \subseteq Leaf /\ amount \in Nat \ {0} /\ Sats(leaves) >= amount
      /\ (\A k \in leaves : Value[k] # amount) /\ Pass(leaves)
  BY <1>1 DEF SelInv, Passing, Source
<1>3. GreedyExact(leaves, amount) = {}
  BY <1>1, <1>2, PassIsGreedy, GreedyFails
<1>4. PowersOfTwo(leaves) \subseteq Leaf
  BY <1>2, PowersInside
<1>5. Pass(PowersOfTwo(leaves))'
  <2>1. PICK src : src = PowersOfTwo(leaves)
    OBVIOUS
  <2>2. Pass(src)'
    BY <1>1, <1>2, <1>4, <2>1, PassBegins
  <2>3. PowersOfTwo(leaves') = src
    BY <1>1, <2>1
  <2> QED BY <2>2, <2>3
<1>6. Source' = PowersOfTwo(leaves')
  BY <1>1 DEF Source
<1> QED BY <1>1, <1>2, <1>3, <1>5, <1>6 DEF SelInv, Passing, SelectionCorrect, MatchesReference, PowersOfTwoSuffice

LEMMA SelGiveUp == SelInv /\ GiveUp => SelInv'
<1> SUFFICES ASSUME SelInv, GiveUp PROVE SelInv'
  OBVIOUS
<1>1. /\ leaves' = leaves /\ amount' = amount /\ phase' = "none" /\ Passing /\ todo = {}
      /\ Source = PowersOfTwo(leaves)
      /\ phase = "all" => PowersOfTwo(leaves) = leaves
  BY DEF GiveUp, Passing, Source
<1>2. /\ leaves \subseteq Leaf /\ amount \in Nat \ {0} /\ Sats(leaves) >= amount
      /\ (\A k \in leaves : Value[k] # amount) /\ Pass(Source)
      /\ phase = "powers" => GreedyExact(leaves, amount) = {}
  BY <1>1 DEF SelInv, Passing
<1>3. Source \subseteq Leaf /\ PowersOfTwo(Source) = Source
  BY <1>1, <1>2, PowersInside
<1>4. IsGreedy(Source, taken, amount) /\ Sats(taken) < amount
  BY <1>1, <1>2, <1>3, PassIsGreedy
<1>5. GreedyExact(Source, amount) = {}
  BY <1>2, <1>3, <1>4, GreedyFails
<1>6. GreedyExact(leaves, amount) = {}
  BY <1>1, <1>2, <1>5 DEF Passing
<1>7. ExactAmount(leaves, amount) = {}
  <2>1. ExactMultiple(leaves, amount) = {}
    BY <1>1, <1>5, <1>6 DEF ExactMultiple
  <2>2. Sats(leaves) \in Nat
    BY <1>2, SatsNat
  <2>3. ~(amount = 0 \/ Sats(leaves) < amount) /\ {l \in leaves : Value[l] = amount} = {}
    BY <1>2, <2>2
  <2> QED BY <2>1, <2>3 DEF ExactAmount
<1>8. \A S \in SUBSET PowersOfTwo(leaves) : Sats(S) # amount
  BY <1>1, <1>2, <1>3, <1>4, PowersComplete
<1> QED BY <1>1, <1>2, <1>7, <1>8 DEF SelInv, Passing, SelectionCorrect, MatchesReference, PowersOfTwoSuffice

LEMMA SelSteps == SelInv /\ [SelNext]_selVars => SelInv'
<1> SUFFICES ASSUME SelInv, [SelNext]_selVars PROVE SelInv'
  OBVIOUS
<1>1. CASE UNCHANGED selVars
  BY <1>1 DEF selVars, SelInv, Passing, Pass, PassAt, Source, SelectionCorrect, MatchesReference, PowersOfTwoSuffice
<1> QED BY <1>1, SelRefuse, SelSingle, SelFirstPass, SelVisit, SelSecondPass, SelGiveUp DEF SelNext

(* select_leaves_by_exact_amount, for any leaves of any values and any     *)
(* amount: what its loops return is a selection of the declarative         *)
(* definition the stores use, they fail only when it has none, and then no *)
(* set of leaves that are powers of two adds up to the amount.             *)
THEOREM LoopSelectsCorrectly == SelSpec => []SelectionCorrect
<1>1. SelInv => SelectionCorrect
  BY DEF SelInv
<1> QED BY <1>1, SelStarts, SelSteps, PTL DEF SelSpec

-----------------------------------------------------------------------------
(***************************************************************************)
(* The candidates of the SQL query.  M holds every leaf of L that is worth *)
(* at most t, and, when it leaves any out, one that is worth more.         *)
(***************************************************************************)
Slims(M, L, t) ==
    /\ M \subseteq L
    /\ \A l \in L : Value[l] <= t => l \in M
    /\ M = L \/ \E m \in M : Value[m] > t

(* select_leaves_by_exact_amount, case by case. *)
LEMMA ExactCases ==
    ASSUME NEW L, L \subseteq Leaf, NEW a \in Nat
    PROVE  /\ a = 0 \/ Sats(L) < a => ExactAmount(L, a) = {}
           /\ ~(a = 0 \/ Sats(L) < a) =>
                 IF \E l \in L : Value[l] = a
                 THEN ExactAmount(L, a) = {{l} : l \in {l \in L : Value[l] = a}}
                 ELSE IF GreedyExact(L, a) # {} THEN ExactAmount(L, a) = GreedyExact(L, a)
                 ELSE ExactAmount(L, a) = GreedyExact(PowersOfTwo(L), a)
<1> DEFINE singles == {l \in L : Value[l] = a}
<1>1. CASE a = 0 \/ Sats(L) < a
  <2>1. \A l \in L : Value[l] <= Sats(L) /\ Value[l] \in Nat \ {0}
    BY SatsOne
  <2>2. Sats(L) \in Nat
    BY SatsNat
  <2>3. singles = {}
    BY <1>1, <2>1, <2>2
  <2> QED BY <1>1, <2>3 DEF ExactAmount
<1>2. CASE ~(a = 0 \/ Sats(L) < a) /\ singles # {}
  <2>1. ExactAmount(L, a) = {{l} : l \in singles}
    BY <1>2 DEF ExactAmount
  <2> QED BY <1>2, <2>1
<1>3. CASE ~(a = 0 \/ Sats(L) < a) /\ singles = {}
  <2>1. ExactAmount(L, a) = ExactMultiple(L, a)
    BY <1>3 DEF ExactAmount
  <2>2. GreedyExact(L, a) # {} => ExactMultiple(L, a) = GreedyExact(L, a)
    BY DEF ExactMultiple
  <2>3. GreedyExact(L, a) = {} => ExactMultiple(L, a) = GreedyExact(PowersOfTwo(L), a)
    BY DEF ExactMultiple
  <2> QED BY <1>3, <2>1, <2>2, <2>3
<1> QED BY <1>1, <1>2, <1>3

(* What is selected comes from the leaves, and none is larger than the     *)
(* amount.                                                                 *)
LEMMA ExactMembers ==
    ASSUME NEW L, L \subseteq Leaf, NEW a \in Nat, NEW S \in ExactAmount(L, a)
    PROVE  S \subseteq L /\ \A l \in S : Value[l] <= a
<1>1. CASE \E l \in L : S = {l} /\ Value[l] = a
  BY <1>1
<1>2. CASE S \subseteq L /\ Sats(S) = a
  <2>1. S \subseteq Leaf
    BY <1>2
  <2> QED BY <1>2, <2>1, SatsOne
<1>3. PowersOfTwo(L) \subseteq L
  BY PowersInside
<1>4. ~(a = 0 \/ Sats(L) < a)
  BY ExactCases
<1>5. CASE \E l \in L : Value[l] = a
  <2>1. ExactAmount(L, a) = {{l} : l \in {l \in L : Value[l] = a}}
    BY <1>4, <1>5, ExactCases
  <2> QED BY <1>1, <2>1
<1>6. CASE ~ \E l \in L : Value[l] = a
  <2>1. S \in GreedyExact(L, a) \/ S \in GreedyExact(PowersOfTwo(L), a)
    BY <1>4, <1>6, ExactCases
  <2> QED BY <1>2, <1>3, <2>1 DEF GreedyExact
<1> QED BY <1>5, <1>6

(* A leaf larger than the amount never takes part in a greedy pass. *)
LEMMA SlimGreedy ==
    ASSUME NEW L, L \subseteq Leaf, NEW M, M \subseteq L, NEW t \in Nat,
           \A l \in L : Value[l] <= t => l \in M, NEW a \in Nat, a <= t
    PROVE  GreedyExact(M, a) = GreedyExact(L, a)
<1>1. M \subseteq Leaf /\ \A l \in L : Value[l] \in Nat
  BY ValueAssumption
<1>2. ASSUME NEW S, IsGreedy(M, S, a), Sats(S) = a
      PROVE  IsGreedy(L, S, a)
  <2>1. S \subseteq L /\ S \subseteq Leaf
    BY <1>2 DEF IsGreedy
  <2>2. ASSUME NEW l \in L \ S
        PROVE  Value[l] > a - Sats(AtLeast(S, Value[l]))
    <3>1. CASE l \in M
      BY <1>2, <3>1 DEF IsGreedy
    <3>2. CASE l \notin M
      <4>1. Value[l] > t /\ Value[l] \in Nat
        BY <1>1, <3>2
      <4>2. Sats(AtLeast(S, Value[l])) \in Nat
        BY <2>1, <4>1, ClassSplit
      <4> QED BY <4>1, <4>2
    <3> QED BY <3>1, <3>2
  <2> QED BY <1>2, <2>1, <2>2 DEF IsGreedy
<1>3. ASSUME NEW S, IsGreedy(L, S, a), Sats(S) = a
      PROVE  IsGreedy(M, S, a)
  <2>1. S \subseteq L /\ S \subseteq Leaf
    BY <1>3 DEF IsGreedy
  <2>2. \A l \in S : Value[l] <= a /\ Value[l] \in Nat
    BY <1>3, <2>1, SatsOne
  <2>3. S \subseteq M
    BY <2>1, <2>2
  <2> QED BY <1>3, <2>3 DEF IsGreedy
<1>4. \A S : S \in GreedyExact(M, a) <=> S \in GreedyExact(L, a)
  BY <1>1, <1>2, <1>3, GreedyExactMeans
<1> QED BY <1>4 DEF GreedyExact

LEMMA SlimEnough ==
    ASSUME NEW L, L \subseteq Leaf, NEW t \in Nat, NEW M, Slims(M, L, t), NEW a \in Nat, a <= t
    PROVE  Sats(M) < a <=> Sats(L) < a
<1>1. M \subseteq L /\ M \subseteq Leaf
  BY DEF Slims
<1>2. Sats(M) \in Nat /\ Sats(L) \in Nat /\ Sats(M) <= Sats(L)
  BY <1>1, SatsNat, SatsSplit
<1>3. CASE M # L
  <2>1. PICK m \in M : Value[m] > t
    BY <1>3 DEF Slims
  <2>2. Value[m] <= Sats(M) /\ Value[m] \in Nat
    BY <1>1, SatsOne
  <2> QED BY <1>2, <2>1, <2>2
<1> QED BY <1>3

LEMMA SlimExact ==
    ASSUME NEW L, L \subseteq Leaf, NEW t \in Nat, NEW M, Slims(M, L, t), NEW a \in Nat, a <= t
    PROVE  ExactAmount(M, a) = ExactAmount(L, a)
<1>1. M \subseteq L /\ M \subseteq Leaf /\ \A l \in L : Value[l] <= t => l \in M
  BY DEF Slims
<1>2. {l \in M : Value[l] = a} = {l \in L : Value[l] = a}
  BY <1>1
<1>3. GreedyExact(M, a) = GreedyExact(L, a)
  BY <1>1, SlimGreedy
<1>4. GreedyExact(PowersOfTwo(M), a) = GreedyExact(PowersOfTwo(L), a)
  <2>1. /\ PowersOfTwo(L) \subseteq Leaf /\ PowersOfTwo(M) \subseteq PowersOfTwo(L)
        /\ \A l \in PowersOfTwo(L) : Value[l] <= t => l \in PowersOfTwo(M)
    BY <1>1 DEF PowersOfTwo
  <2> QED BY <2>1, SlimGreedy
<1>5. CASE a = 0 \/ Sats(L) < a
  <2>1. a = 0 \/ Sats(M) < a
    BY <1>5, SlimEnough
  <2> QED BY <1>1, <1>5, <2>1, ExactCases
<1>6. CASE ~(a = 0 \/ Sats(L) < a)
  <2>1. ~(a = 0 \/ Sats(M) < a)
    BY <1>6, SlimEnough
  <2>2. CASE \E l \in L : Value[l] = a
    <3>1. \E l \in M : Value[l] = a
      BY <1>1, <2>2
    <3>2. ExactAmount(L, a) = {{l} : l \in {l \in L : Value[l] = a}}
      BY <1>6, <2>2, ExactCases
    <3>3. ExactAmount(M, a) = {{l} : l \in {l \in M : Value[l] = a}}
      BY <1>1, <2>1, <3>1, ExactCases
    <3> QED BY <1>2, <3>2, <3>3
  <2>3. CASE ~ \E l \in L : Value[l] = a
    <3>1. ~ \E l \in M : Value[l] = a
      BY <1>1, <2>3
    <3>2. IF GreedyExact(L, a) # {} THEN ExactAmount(L, a) = GreedyExact(L, a)
          ELSE ExactAmount(L, a) = GreedyExact(PowersOfTwo(L), a)
      BY <1>6, <2>3, ExactCases
    <3>3. IF GreedyExact(M, a) # {} THEN ExactAmount(M, a) = GreedyExact(M, a)
          ELSE ExactAmount(M, a) = GreedyExact(PowersOfTwo(M), a)
      BY <1>1, <2>1, <3>1, ExactCases
    <3> QED BY <1>3, <1>4, <3>2, <3>3
  <2> QED BY <2>2, <2>3
<1> QED BY <1>5, <1>6

(* A minimum selection exists when the leaves are worth enough. *)
LEMMA MinimumExists ==
    ASSUME NEW L, L \subseteq Leaf, NEW a \in Nat
    PROVE  MinimumAmount(L, a) = {} <=> (a = 0 \/ Sats(L) < a)
<1>0. IsFiniteSet(L) /\ Sats(L) \in Nat
  BY LeafFinite, FS_Subset, SatsNat
<1>1. CASE a = 0
  BY <1>1 DEF MinimumAmount
<1>2. CASE a # 0 /\ Sats(L) < a
  <2>1. \A S \in SUBSET L : Sats(S) <= Sats(L) /\ Sats(S) \in Nat
    BY SatsSplit, SatsNat
  <2>2. \A S \in SUBSET L : ~(Sats(S) >= a)
    BY <1>0, <1>2, <2>1
  <2> QED BY <1>2, <2>2 DEF MinimumAmount
<1>3. CASE a # 0 /\ Sats(L) >= a
  <2> DEFINE Sizes == {n \in Nat : \E S \in SUBSET L : Cardinality(S) = n /\ Sats(S) >= a}
  <2>1. Cardinality(L) \in Sizes
    BY <1>0, <1>3, FS_CardinalityType
  <2>2. PICK n \in Sizes : \A m \in Sizes : n <= m
    <3>1. Sizes \subseteq Nat
      OBVIOUS
    <3> HIDE DEF Sizes
    <3> QED BY <2>1, <3>1, NatMin
  <2>3. PICK S \in SUBSET L : Cardinality(S) = n /\ Sats(S) >= a
    BY <2>2
  <2>4. S # {}
    BY <1>3, <2>3, SatsEmpty
  <2> DEFINE l == AnyOf(S)
             R == S \ {l}
  <2>5. l \in S /\ R \in SUBSET L /\ n \in Nat \ {0} /\ Cardinality(R) = n - 1
    BY <1>0, <2>3, <2>4, Smaller
  <2> HIDE DEF l
  <2>6. Sats(R) < a
    <3>1. Sats(R) \in Nat
      BY <2>5, SatsNat
    <3>2. n - 1 \in Nat /\ ~(n <= n - 1)
      BY <2>5
    <3>3. n - 1 \notin Sizes
      BY <2>2, <3>2
    <3> QED BY <2>5, <3>1, <3>2, <3>3
  <2>7. S \in MinimumAmount(L, a)
    BY <1>3, <2>3, <2>5, <2>6 DEF MinimumAmount
  <2> QED BY <1>0, <1>3, <2>7
<1> QED BY <1>0, <1>1, <1>2, <1>3

(* What the query returns. *)
LEMMA CandidatesSlim ==
    ASSUME NEW L, L \subseteq Leaf, NEW tgt, tgt.kind # "all", TotalSats(tgt) \in Nat,
           NEW M \in SlimCandidates(L, tgt)
    PROVE  Slims(M, L, TotalSats(tgt))
<1> DEFINE t == TotalSats(tgt)
           small == {l \in L : Value[l] <= t}
           larger == L \ small
<1>1. \A l \in L : Value[l] \in Nat
  BY ValueAssumption
<1>2. (M = small /\ larger = {}) \/ \E m \in larger : M = small \cup {m}
  BY DEF SlimCandidates
<1>3. \A m \in larger : Value[m] > t
  BY <1>1
<1> QED BY <1>2, <1>3 DEF Slims

(* Choosing among the candidates is as good as choosing among all leaves,  *)
(* for any amount and any fee.                                             *)
LEMMA SlimAsGood ==
    ASSUME NEW L, L \subseteq Leaf, NEW tgt, tgt.kind = "amount", tgt.amount \in Nat, tgt.fee \in Nat,
           NEW M \in SlimCandidates(L, tgt)
    PROVE  /\ TargetSelections(M, tgt) = TargetSelections(L, tgt)
           /\ (MinimumAmount(M, TotalSats(tgt)) = {}) <=> (MinimumAmount(L, TotalSats(tgt)) = {})
<1> DEFINE t == tgt.amount + tgt.fee
<1>1. tgt.kind # "all"
  OBVIOUS
<1>2. TotalSats(tgt) = t /\ t \in Nat
  <2>1. TotalSats(tgt) = t
    BY <1>1, Zenon DEF TotalSats
  <2> QED BY <2>1
<1>3. Slims(M, L, t) /\ M \subseteq L /\ M \subseteq Leaf
  BY <1>1, <1>2, CandidatesSlim DEF Slims
<1> DEFINE With(X, A) == {A \cup F : F \in ExactAmount(X \ A, tgt.fee)}
           Both(X) == UNION {With(X, A) : A \in ExactAmount(X, tgt.amount)}
<1>4. \A X : TargetSelections(X, tgt) = IF tgt.fee = 0 THEN ExactAmount(X, tgt.amount) ELSE Both(X)
  BY <1>1, Zenon DEF TargetSelections
<1>5. ExactAmount(M, tgt.amount) = ExactAmount(L, tgt.amount)
  BY <1>3, SlimExact
<1>6. ASSUME NEW A \in ExactAmount(L, tgt.amount)
      PROVE  ExactAmount(M \ A, tgt.fee) = ExactAmount(L \ A, tgt.fee)
  <2>1. \A l \in A : Value[l] <= t /\ l \in L /\ Value[l] \in Nat
    BY <1>6, ExactMembers, ValueAssumption
  <2>2. Slims(M \ A, L \ A, t)
    BY <1>3, <2>1 DEF Slims
  <2>3. L \ A \subseteq Leaf /\ tgt.fee <= t
    OBVIOUS
  <2> QED BY <2>2, <2>3, SlimExact
<1>7. Both(M) = Both(L)
  <2>1. \A A \in ExactAmount(L, tgt.amount) : With(M, A) = With(L, A)
    BY <1>6
  <2> HIDE DEF With
  <2>2. {With(M, A) : A \in ExactAmount(M, tgt.amount)} = {With(L, A) : A \in ExactAmount(L, tgt.amount)}
    BY <1>5, <2>1
  <2> QED BY <2>2
<1>8. TargetSelections(M, tgt) = TargetSelections(L, tgt)
  BY <1>4, <1>5, <1>7
<1>9. Sats(M) < t <=> Sats(L) < t
  BY <1>2, <1>3, SlimEnough
<1> QED BY <1>2, <1>3, <1>8, <1>9, MinimumExists

(* The reservation of the SQL stores decides from the leaves of            *)
(* SLIM_LEAF_CANDIDATES_SQL, never from all of them: for any leaves and    *)
(* amounts the exact selections are the same, so no swap is made that all  *)
(* leaves would have spared, and a minimum selection is never missed.      *)
THEOREM CandidatesLoseNothing == SelSpec => []SlimLosesNothing
<1>1. SelInv => SlimLosesNothing
  <2> SUFFICES ASSUME SelInv, NEW fee \in 0 .. 1,
                      NEW slim \in SlimCandidates(leaves, [kind |-> "amount", amount |-> amount, fee |-> fee])
               PROVE  LET tgt == [kind |-> "amount", amount |-> amount, fee |-> fee]
                      IN  /\ TargetSelections(slim, tgt) = TargetSelections(leaves, tgt)
                          /\ (MinimumAmount(slim, TotalSats(tgt)) = {})
                                <=> (MinimumAmount(leaves, TotalSats(tgt)) = {})
    BY DEF SlimLosesNothing
  <2> DEFINE tgt == [kind |-> "amount", amount |-> amount, fee |-> fee]
  <2>1. leaves \subseteq Leaf /\ tgt.kind = "amount" /\ tgt.amount \in Nat /\ tgt.fee \in Nat
    BY DEF SelInv
  <2>2. slim \in SlimCandidates(leaves, tgt)
    OBVIOUS
  <2> HIDE DEF tgt
  <2>3. /\ TargetSelections(slim, tgt) = TargetSelections(leaves, tgt)
        /\ (MinimumAmount(slim, TotalSats(tgt)) = {}) <=> (MinimumAmount(leaves, TotalSats(tgt)) = {})
    BY <2>1, <2>2, SlimAsGood
  <2> QED BY <2>3 DEF tgt
<1> QED BY <1>1, SelStarts, SelSteps, PTL DEF SelSpec

=============================================================================
