-------------------------- MODULE CollectionProofs --------------------------
(***************************************************************************)
(* Facts about sequences and finite sets that the proofs share: what       *)
(* filtering a queue returns, when a queue has no duplicates, and what a   *)
(* sum over a finite set is.  Each induction is by a least counterexample. *)
(***************************************************************************)
EXTENDS Subsequences, SequencesExt, SequenceTheorems, FiniteSetTheorems, WellFoundedInduction, TLAPS

(* A nonempty set of naturals has a least element: the form of induction   *)
(* the proofs below use.                                                   *)
LEMMA NatMin ==
    ASSUME NEW T, T \subseteq Nat, T # {}
    PROVE  \E n \in T : \A m \in T : n <= m
<1> DEFINE R == OpToRel(<, Nat)
<1>1. IsWellFoundedOn(R, Nat)
  BY NatLessThanWellFounded
<1>2. \A m, n \in Nat : <<m, n>> \in R <=> m < n
  BY DEF OpToRel
<1> HIDE DEF R
<1>3. PICK n \in T : \A m \in T : ~ (<<m, n>> \in R)
  BY <1>1, WFMin
<1>4. \A m \in T : ~ (m < n)
  BY <1>2, <1>3
<1>5. n \in T /\ \A m \in T : m \in Nat /\ n \in Nat
  BY <1>3
<1>6. \A m \in T : n <= m
  BY <1>4, <1>5
<1> QED BY <1>3, <1>6

(* What a step of the selection adds to what is selected before it. *)
Extend(q, x, T) == IF x \in T THEN Append(q, x) ELSE q

IsSelection(f, s, T, n) == f = [i \in 0..n |-> IF i = 0 THEN <<>> ELSE Extend(f[i - 1], s[i], T)]

(* The recursive function of SelectIn exists. *)
LEMMA SelectionExists ==
    ASSUME NEW s, NEW T
    PROVE  \A n \in Nat : \E f : IsSelection(f, s, T, n)
<1> DEFINE None == {n \in Nat : ~ \E f : IsSelection(f, s, T, n)}
<1> SUFFICES ASSUME None # {} PROVE FALSE
  OBVIOUS
<1>1. PICK n \in None : \A m \in None : n <= m
  <2>1. None \subseteq Nat
    OBVIOUS
  <2> HIDE DEF None
  <2> QED BY <2>1, NatMin
<1>2. n # 0
  <2>1. IsSelection([i \in 0..0 |-> <<>>], s, T, 0)
    BY DEF IsSelection
  <2> QED BY <2>1
<1>3. n - 1 \in Nat /\ n - 1 \notin None
  BY <1>1, <1>2
<1>4. PICK f : IsSelection(f, s, T, n - 1)
  BY <1>3
<1> DEFINE g == [i \in 0..n |-> IF i = n THEN Extend(f[n - 1], s[n], T) ELSE f[i]]
<1>5. ASSUME NEW i \in 0..n
      PROVE  g[i] = IF i = 0 THEN <<>> ELSE Extend(g[i - 1], s[i], T)
  <2>1. CASE i = n
    <3>1. g[n - 1] = f[n - 1]
      BY <1>3
    <3> QED BY <1>2, <2>1, <3>1
  <2>2. CASE i # n
    <3>1. i \in 0..(n - 1) /\ g[i] = f[i] /\ (i # 0 => g[i - 1] = f[i - 1])
      BY <2>2, <1>3
    <3>2. f[i] = IF i = 0 THEN <<>> ELSE Extend(f[i - 1], s[i], T)
      BY <1>4, <3>1 DEF IsSelection
    <3> QED BY <3>1, <3>2
  <2> QED BY <2>1, <2>2
<1>6. IsSelection(g, s, T, n)
  <2>1. g = [i \in 0..n |-> g[i]]
    OBVIOUS
  <2> HIDE DEF g
  <2>2. [i \in 0..n |-> g[i]] = [i \in 0..n |-> IF i = 0 THEN <<>> ELSE Extend(g[i - 1], s[i], T)]
    BY <1>5
  <2> QED BY <2>1, <2>2 DEF IsSelection
<1> QED BY <1>6

(* SelectIn is the last of its values. *)
LEMMA SelectInUnfolds ==
    ASSUME NEW A, NEW s \in Seq(A), NEW T
    PROVE  \E f : IsSelection(f, s, T, Len(s)) /\ SelectIn(s, T) = f[Len(s)]
<1> DEFINE chosen == CHOOSE f : IsSelection(f, s, T, Len(s))
<1>1. Len(s) \in Nat
  OBVIOUS
<1>2. IsSelection(chosen, s, T, Len(s))
  BY <1>1, SelectionExists
<1>3. SelectIn(s, T) = chosen[Len(s)]
  BY DEF SelectIn, IsSelection, Extend
<1> QED BY <1>2, <1>3

(* What holds of the selection from the first i elements. *)
SelectedOK(q, s, T, i) ==
    /\ DOMAIN q = 1..Len(q)
    /\ \A a \in 1..Len(q) : q[a] \in T /\ \E c \in 1..i : q[a] = s[c]
    /\ \A c \in 1..i : s[c] \in T => \E a \in 1..Len(q) : q[a] = s[c]
    /\ \A a, b \in 1..Len(q) : a < b => \E c, d \in 1..i : c < d /\ q[a] = s[c] /\ q[b] = s[d]

(* SelectIn returns a subsequence with exactly the elements in T. *)
LEMMA SelectInFacts ==
    ASSUME NEW A, NEW s \in Seq(A), NEW T
    PROVE  SelectIn(s, T) \in Seq(A) /\ SelectedOK(SelectIn(s, T), s, T, Len(s))
<1>0. Len(s) \in Nat /\ \A i \in 1..Len(s) : s[i] \in A
  OBVIOUS
<1>1. PICK f : IsSelection(f, s, T, Len(s)) /\ SelectIn(s, T) = f[Len(s)]
  BY SelectInUnfolds
<1>2. \A i \in 0..Len(s) : f[i] = IF i = 0 THEN <<>> ELSE Extend(f[i - 1], s[i], T)
  BY <1>1 DEF IsSelection
<1> DEFINE Good(i) == f[i] \in Seq(A) /\ SelectedOK(f[i], s, T, i)
           Bad == {i \in 0..Len(s) : ~Good(i)}
<1>3. Bad = {}
  <2> SUFFICES ASSUME Bad # {} PROVE FALSE
    OBVIOUS
  <2>1. PICK i \in Bad : \A m \in Bad : i <= m
    <3>1. Bad \subseteq Nat
      BY <1>0
    <3> HIDE DEF Bad
    <3> QED BY <3>1, NatMin
  <2>2. i # 0
    <3>1. f[0] = <<>>
      BY <1>0, <1>2
    <3>2. Good(0)
      BY <3>1 DEF SelectedOK
    <3> QED BY <3>2
  <2>3. i - 1 \in 0..Len(s) /\ i \in 1..Len(s) /\ Good(i - 1)
    BY <1>0, <2>1, <2>2
  <2>4. f[i] = Extend(f[i - 1], s[i], T)
    BY <1>2, <2>3, <2>2
  <2> DEFINE q == f[i - 1]
  <2>5. q \in Seq(A) /\ SelectedOK(q, s, T, i - 1) /\ s[i] \in A
    BY <1>0, <2>3
  <2>6. 1..i = (1..(i - 1)) \cup {i} /\ i - 1 \in Nat /\ i \in Nat
    BY <2>3
  <2> HIDE DEF q
  <2>7. CASE s[i] \notin T
    <3>1. f[i] = q
      BY <2>4, <2>7 DEF Extend, q
    <3>2. SelectedOK(q, s, T, i)
      BY <2>5, <2>6, <2>7 DEF SelectedOK
    <3> QED BY <2>5, <3>1, <3>2, <2>1
  <2>8. CASE s[i] \in T
    <3> DEFINE n == Len(q)
               w == Append(q, s[i])
    <3>1. f[i] = w
      BY <2>4, <2>8 DEF Extend, q
    <3>2. /\ w \in Seq(A) /\ Len(w) = n + 1 /\ n \in Nat
          /\ \A a \in 1..n : w[a] = q[a]
          /\ w[n + 1] = s[i]
          /\ DOMAIN w = 1..Len(w)
      BY <2>5, AppendProperties
    <3> HIDE DEF w, n
    <3>3. 1..Len(w) = (1..n) \cup {n + 1}
      BY <3>2
    <3>4. \A a \in 1..n : w[a] \in T /\ \E c \in 1..(i - 1) : w[a] = s[c]
      BY <2>5, <3>2 DEF SelectedOK, n
    <3>5. \A a \in 1..Len(w) : w[a] \in T /\ \E c \in 1..i : w[a] = s[c]
      BY <2>6, <2>8, <3>2, <3>3, <3>4
    <3>6. \A c \in 1..i : s[c] \in T => \E a \in 1..Len(w) : w[a] = s[c]
      <4> SUFFICES ASSUME NEW c \in 1..i, s[c] \in T PROVE \E a \in 1..Len(w) : w[a] = s[c]
        OBVIOUS
      <4>1. CASE c = i
        BY <3>2, <3>3, <4>1
      <4>2. CASE c # i
        <5>1. PICK a \in 1..n : q[a] = s[c]
          BY <2>5, <2>6, <4>2 DEF SelectedOK, n
        <5> QED BY <3>2, <3>3, <5>1
      <4> QED BY <4>1, <4>2
    <3>7. ASSUME NEW a \in 1..Len(w), NEW b \in 1..Len(w), a < b
          PROVE  \E c, d \in 1..i : c < d /\ w[a] = s[c] /\ w[b] = s[d]
      <4>1. a \in 1..n
        BY <3>2, <3>7
      <4>2. CASE b = n + 1
        <5>1. PICK c \in 1..(i - 1) : w[a] = s[c]
          BY <3>4, <4>1
        <5>2. c < i /\ c \in 1..i /\ i \in 1..i /\ w[b] = s[i]
          BY <2>6, <3>2, <4>2
        <5> QED BY <5>1, <5>2
      <4>3. CASE b \in 1..n
        <5>1. PICK c, d \in 1..(i - 1) : c < d /\ q[a] = s[c] /\ q[b] = s[d]
          BY <2>5, <3>7, <4>1, <4>3 DEF SelectedOK, n
        <5> QED BY <2>6, <3>2, <4>1, <4>3, <5>1
      <4> QED BY <3>3, <4>2, <4>3
    <3>8. SelectedOK(w, s, T, i)
      BY <3>2, <3>5, <3>6, <3>7 DEF SelectedOK
    <3> QED BY <2>1, <3>1, <3>2, <3>8
  <2> QED BY <2>7, <2>8
<1> QED BY <1>0, <1>1, <1>3

-----------------------------------------------------------------------------
(* There are as many values as positions when no value repeats. *)
LEMMA DistinctCount ==
    ASSUME NEW n \in Nat, NEW V, NEW g \in [1..n -> V],
           \A i, j \in 1..n : g[i] = g[j] => i = j,
           \A v \in V : \E i \in 1..n : g[i] = v
    PROVE  IsFiniteSet(V) /\ Cardinality(V) = n
<1>1. IsFiniteSet(1..n) /\ Cardinality(1..n) = n
  BY FS_Interval
<1>2. g \in Surjection(1..n, V)
  BY DEF Surjection
<1>3. g \in Injection(1..n, V)
  BY DEF Injection, IsInjective
<1>4. IsFiniteSet(V) /\ Cardinality(V) = Cardinality(1..n)
  BY <1>1, <1>2, <1>3, FS_Surjection
<1> QED BY <1>1, <1>4

(* Of a set with no two elements at most one element is counted. *)
LEMMA AtMostOne ==
    ASSUME NEW S, \A x, y \in S : x = y
    PROVE  Cardinality(S) <= 1
<1>1. CASE S = {}
  BY <1>1, FS_EmptySet
<1>2. CASE S # {}
  <2>1. PICK x \in S : TRUE
    BY <1>2
  <2>2. S = {x}
    BY <2>1
  <2>3. Cardinality({x}) = 1
    BY FS_Singleton
  <2> QED BY <2>2, <2>3
<1> QED BY <1>1, <1>2

(* The elements of a filtered queue. *)
LEMMA SelectInSet ==
    ASSUME NEW A, NEW s \in Seq(A), NEW T
    PROVE  ToSet(SelectIn(s, T)) = ToSet(s) \cap T
<1> DEFINE q == SelectIn(s, T)
<1>1. q \in Seq(A) /\ SelectedOK(q, s, T, Len(s))
  BY SelectInFacts
<1>2. DOMAIN s = 1..Len(s)
  OBVIOUS
<1> HIDE DEF q
<1>3. ASSUME NEW x \in ToSet(q) PROVE x \in ToSet(s) \cap T
  <2>1. PICK a \in 1..Len(q) : x = q[a]
    BY <1>1 DEF ToSet, SelectedOK
  <2>2. x \in T /\ \E c \in DOMAIN s : x = s[c]
    BY <1>1, <1>2, <2>1 DEF SelectedOK
  <2> QED BY <2>2 DEF ToSet
<1>4. ASSUME NEW x \in ToSet(s) \cap T PROVE x \in ToSet(q)
  <2>1. PICK c \in 1..Len(s) : x = s[c]
    BY <1>2 DEF ToSet
  <2>2. PICK a \in 1..Len(q) : q[a] = s[c]
    BY <1>1, <2>1 DEF SelectedOK
  <2>3. a \in DOMAIN q
    BY <1>1, <2>2 DEF SelectedOK
  <2> QED BY <2>1, <2>2, <2>3 DEF ToSet
<1>5. ToSet(q) = ToSet(s) \cap T
  BY <1>3, <1>4
<1> QED BY <1>5 DEF q

(* Filtering an empty queue. *)
LEMMA SelectInEmpty ==
    ASSUME NEW T
    PROVE  SelectIn(<<>>, T) = <<>>
<1> DEFINE q == SelectIn(<<>>, T)
<1>0. <<>> \in Seq({}) /\ Len(<<>>) = 0
  BY EmptySeq
<1>1. q \in Seq({}) /\ SelectedOK(q, <<>>, T, 0)
  <2>1. q \in Seq({}) /\ SelectedOK(q, <<>>, T, Len(<<>>))
    BY <1>0, SelectInFacts
  <2> QED BY <1>0, <2>1
<1> HIDE DEF q
<1>2. \A a \in 1..Len(q) : FALSE
  BY <1>1 DEF SelectedOK
<1>3. Len(q) = 0
  BY <1>1, <1>2
<1> QED BY <1>1, <1>3 DEF q

(* Two places of the filtered queue hold what two places of the queue do.  *)
LEMMA SelectInPlaces ==
    ASSUME NEW A, NEW s \in Seq(A), NEW T, NEW q, q = SelectIn(s, T),
           NEW a \in DOMAIN q, NEW b \in DOMAIN q, a # b
    PROVE  \E c, d \in DOMAIN s : c # d /\ q[a] = s[c] /\ q[b] = s[d]
<1>1. q \in Seq(A) /\ SelectedOK(q, s, T, Len(s))
  BY SelectInFacts
<1>2. DOMAIN q = 1..Len(q) /\ Len(q) \in Nat /\ DOMAIN s = 1..Len(s) /\ Len(s) \in Nat
  BY <1>1
<1>3. \A x, y \in 1..Len(q) : x < y => \E c, d \in 1..Len(s) : c < d /\ q[x] = s[c] /\ q[y] = s[d]
  BY <1>1 DEF SelectedOK
<1>4. CASE a < b
  <2>1. PICK c, d \in 1..Len(s) : c < d /\ q[a] = s[c] /\ q[b] = s[d]
    BY <1>2, <1>3, <1>4
  <2>2. c # d
    BY <1>2, <2>1
  <2> QED BY <1>2, <2>1, <2>2
<1>5. CASE b < a
  <2>1. PICK c, d \in 1..Len(s) : c < d /\ q[b] = s[c] /\ q[a] = s[d]
    BY <1>2, <1>3, <1>5
  <2>2. c # d
    BY <1>2, <2>1
  <2> QED BY <1>2, <2>1, <2>2
<1> QED BY <1>2, <1>4, <1>5

-----------------------------------------------------------------------------
(* Sums over finite sets, the values of the recursive function of          *)
(* MapThenSumSet.                                                          *)
AnyOf(s) == CHOOSE x \in s : TRUE
IsSumOn(f, F, D) == f = [s \in D |-> IF s = {} THEN 0 ELSE F[AnyOf(s)] + f[s \ {AnyOf(s)}]]
UpTo(S, n) == {s \in SUBSET S : Cardinality(s) <= n}

(* A set without one of its elements is smaller. *)
LEMMA Smaller ==
    ASSUME NEW S, IsFiniteSet(S), NEW s \in SUBSET S, s # {}
    PROVE  /\ AnyOf(s) \in s /\ AnyOf(s) \in S /\ s \ {AnyOf(s)} \in SUBSET S
           /\ Cardinality(s) \in Nat \ {0} /\ Cardinality(s \ {AnyOf(s)}) = Cardinality(s) - 1
<1>1. AnyOf(s) \in s
  BY DEF AnyOf
<1>2. IsFiniteSet(s)
  BY FS_Subset
<1>3. Cardinality(s) \in Nat /\ Cardinality(s) # 0
  BY <1>2, FS_CardinalityType, FS_EmptySet
<1>4. Cardinality(s \ {AnyOf(s)}) = Cardinality(s) - 1
  BY <1>1, <1>2, FS_RemoveElement
<1> QED BY <1>1, <1>3, <1>4

(* The recursive function exists: by a least counterexample. *)
LEMMA SumExists ==
    ASSUME NEW S, IsFiniteSet(S), NEW F
    PROVE  \E f : IsSumOn(f, F, SUBSET S)
<1> DEFINE None == {n \in Nat : ~ \E f : IsSumOn(f, F, UpTo(S, n))}
<1>1. None = {}
  <2> SUFFICES ASSUME None # {} PROVE FALSE
    OBVIOUS
  <2>1. PICK n \in None : \A m \in None : n <= m
    <3>1. None \subseteq Nat
      OBVIOUS
    <3> HIDE DEF None
    <3> QED BY <3>1, NatMin
  <2>2. n # 0
    <3>1. \A s \in UpTo(S, 0) : s = {}
      <4> SUFFICES ASSUME NEW s \in UpTo(S, 0), s # {} PROVE FALSE
        OBVIOUS
      <4>1. s \in SUBSET S /\ Cardinality(s) <= 0
        BY DEF UpTo
      <4>2. Cardinality(s) \in Nat \ {0}
        BY <4>1, Smaller
      <4> QED BY <4>1, <4>2
    <3>2. IsSumOn([s \in UpTo(S, 0) |-> 0], F, UpTo(S, 0))
      BY <3>1 DEF IsSumOn
    <3> QED BY <3>2
  <2>3. n \in Nat /\ n - 1 \in Nat /\ n - 1 \notin None
    BY <2>1, <2>2
  <2>4. PICK f : IsSumOn(f, F, UpTo(S, n - 1))
    BY <2>3
  <2> DEFINE g == [s \in UpTo(S, n) |-> IF s = {} THEN 0 ELSE F[AnyOf(s)] + f[s \ {AnyOf(s)}]]
  <2>5. \A s \in UpTo(S, n - 1) : s \in UpTo(S, n) /\ g[s] = f[s]
    <3> SUFFICES ASSUME NEW s \in UpTo(S, n - 1) PROVE s \in UpTo(S, n) /\ g[s] = f[s]
      OBVIOUS
    <3>1. Cardinality(s) \in Nat
      BY FS_Subset, FS_CardinalityType DEF UpTo
    <3>2. s \in UpTo(S, n)
      BY <2>3, <3>1 DEF UpTo
    <3>3. f[s] = IF s = {} THEN 0 ELSE F[AnyOf(s)] + f[s \ {AnyOf(s)}]
      BY <2>4 DEF IsSumOn
    <3> QED BY <3>2, <3>3
  <2>6. \A s \in UpTo(S, n) : s # {} => s \ {AnyOf(s)} \in UpTo(S, n - 1)
    <3> SUFFICES ASSUME NEW s \in UpTo(S, n), s # {} PROVE s \ {AnyOf(s)} \in UpTo(S, n - 1)
      OBVIOUS
    <3> QED BY <2>3, Smaller DEF UpTo
  <2>7. \A s \in UpTo(S, n) : g[s] = IF s = {} THEN 0 ELSE F[AnyOf(s)] + g[s \ {AnyOf(s)}]
    BY <2>5, <2>6
  <2>8. g = [s \in UpTo(S, n) |-> g[s]]
    OBVIOUS
  <2> HIDE DEF g
  <2>9. IsSumOn(g, F, UpTo(S, n))
    BY <2>7, <2>8 DEF IsSumOn
  <2> QED BY <2>1, <2>9
<1>2. Cardinality(S) \in Nat
  BY FS_CardinalityType
<1>3. UpTo(S, Cardinality(S)) = SUBSET S
  BY FS_Subset DEF UpTo
<1>4. \E f : IsSumOn(f, F, UpTo(S, Cardinality(S)))
  BY <1>1, <1>2
<1> QED BY <1>3, <1>4

(* A sum of naturals is a natural. *)
LEMMA SumNat ==
    ASSUME NEW S, IsFiniteSet(S), NEW F, \A x \in S : F[x] \in Nat
    PROVE  (CHOOSE f : IsSumOn(f, F, SUBSET S))[S] \in Nat
<1> DEFINE f == CHOOSE g : IsSumOn(g, F, SUBSET S)
           Bad == {n \in Nat : \E s \in SUBSET S : Cardinality(s) = n /\ f[s] \notin Nat}
<1>1. IsSumOn(f, F, SUBSET S)
  BY SumExists
<1> HIDE DEF f
<1>2. Bad = {}
  <2> SUFFICES ASSUME Bad # {} PROVE FALSE
    OBVIOUS
  <2>1. PICK n \in Bad : \A m \in Bad : n <= m
    <3>1. Bad \subseteq Nat
      OBVIOUS
    <3> HIDE DEF Bad
    <3> QED BY <3>1, NatMin
  <2>2. PICK s \in SUBSET S : Cardinality(s) = n /\ f[s] \notin Nat
    BY <2>1
  <2>3. f[s] = IF s = {} THEN 0 ELSE F[AnyOf(s)] + f[s \ {AnyOf(s)}]
    BY <1>1 DEF IsSumOn
  <2>4. s # {}
    BY <2>2, <2>3
  <2>5. AnyOf(s) \in S /\ s \ {AnyOf(s)} \in SUBSET S /\ Cardinality(s \ {AnyOf(s)}) = n - 1 /\ n \in Nat \ {0}
    BY <2>2, <2>4, Smaller
  <2>6. f[s \ {AnyOf(s)}] \in Nat
    <3>1. n - 1 \notin Bad
      BY <2>1, <2>5
    <3> QED BY <2>5, <3>1
  <2> QED BY <2>2, <2>3, <2>4, <2>5, <2>6
<1>3. Cardinality(S) \in Nat
  BY FS_CardinalityType
<1> QED BY <1>2, <1>3 DEF f

(* The sum of F over S, as MapThenSumSet defines it. *)
SumOver(F, S) == (CHOOSE f : IsSumOn(f, F, SUBSET S))[S]

LEMMA SumIsMapThenSum ==
    ASSUME NEW F, NEW S
    PROVE  MapThenSumSet(LAMBDA x : F[x], S) = SumOver(F, S)
BY Zenon DEF MapThenSumSet, MapThenFoldSet, SumOver, IsSumOn, AnyOf

(* The recursive functions over two sets agree where both are defined. *)
LEMMA SumAgrees ==
    ASSUME NEW S, IsFiniteSet(S), NEW F, NEW R \in SUBSET S,
           NEW f, IsSumOn(f, F, SUBSET S), NEW g, IsSumOn(g, F, SUBSET R)
    PROVE  f[R] = g[R]
<1> DEFINE Bad == {n \in Nat : \E s \in SUBSET R : Cardinality(s) = n /\ f[s] # g[s]}
<1>1. Bad = {}
  <2> SUFFICES ASSUME Bad # {} PROVE FALSE
    OBVIOUS
  <2>1. PICK n \in Bad : \A m \in Bad : n <= m
    <3>1. Bad \subseteq Nat
      OBVIOUS
    <3> HIDE DEF Bad
    <3> QED BY <3>1, NatMin
  <2>2. PICK s \in SUBSET R : Cardinality(s) = n /\ f[s] # g[s]
    BY <2>1
  <2>3. s \in SUBSET S
    OBVIOUS
  <2>4. /\ f[s] = IF s = {} THEN 0 ELSE F[AnyOf(s)] + f[s \ {AnyOf(s)}]
        /\ g[s] = IF s = {} THEN 0 ELSE F[AnyOf(s)] + g[s \ {AnyOf(s)}]
    BY <2>3 DEF IsSumOn
  <2>5. s # {}
    BY <2>2, <2>4
  <2>6. s \ {AnyOf(s)} \in SUBSET R /\ Cardinality(s \ {AnyOf(s)}) = n - 1 /\ n \in Nat \ {0}
    BY <2>2, <2>3, <2>5, Smaller
  <2>7. n - 1 \notin Bad
    BY <2>1, <2>6
  <2> QED BY <2>2, <2>4, <2>5, <2>6, <2>7
<1>2. Cardinality(R) \in Nat
  BY FS_Subset, FS_CardinalityType
<1> QED BY <1>1, <1>2

LEMMA SumEmpty ==
    ASSUME NEW F
    PROVE  SumOver(F, {}) = 0
<1>1. PICK f : f = (CHOOSE g : IsSumOn(g, F, SUBSET {})) /\ IsSumOn(f, F, SUBSET {})
  BY SumExists, FS_EmptySet
<1>2. f[{}] = 0
  BY <1>1 DEF IsSumOn
<1> QED BY <1>1, <1>2 DEF SumOver

(* One element taken out: the one the recursion takes, and any other. *)
LEMMA SumUnfolds ==
    ASSUME NEW S, IsFiniteSet(S), S # {}, NEW F
    PROVE  SumOver(F, S) = F[AnyOf(S)] + SumOver(F, S \ {AnyOf(S)})
<1> DEFINE R == S \ {AnyOf(S)}
<1>1. IsFiniteSet(R) /\ R \in SUBSET S
  BY FS_Subset
<1>2. PICK f : f = (CHOOSE g : IsSumOn(g, F, SUBSET S)) /\ IsSumOn(f, F, SUBSET S)
  BY SumExists
<1>3. PICK g : g = (CHOOSE h : IsSumOn(h, F, SUBSET R)) /\ IsSumOn(g, F, SUBSET R)
  BY <1>1, SumExists
<1>4. f[S] = F[AnyOf(S)] + f[R]
  BY <1>2 DEF IsSumOn
<1> HIDE DEF R
<1>5. f[R] = g[R]
  <2>1. IsSumOn(f, F, SUBSET S) /\ IsSumOn(g, F, SUBSET R) /\ R \in SUBSET S
    BY <1>1, <1>2, <1>3
  <2> QED BY <2>1, SumAgrees
<1>6. SumOver(F, S) = f[S] /\ SumOver(F, R) = g[R]
  BY <1>2, <1>3 DEF SumOver
<1> QED BY <1>4, <1>5, <1>6 DEF R

LEMMA SumOverNat ==
    ASSUME NEW S, IsFiniteSet(S), NEW F, \A x \in S : F[x] \in Nat
    PROVE  SumOver(F, S) \in Nat
BY SumNat DEF SumOver

LEMMA SumRemove ==
    ASSUME NEW S, IsFiniteSet(S), NEW F, \A x \in S : F[x] \in Nat, NEW x \in S
    PROVE  SumOver(F, S) = F[x] + SumOver(F, S \ {x})
<1> DEFINE Wrong(s) == \E y \in s : SumOver(F, s) # F[y] + SumOver(F, s \ {y})
           Bad == {n \in Nat : \E s \in SUBSET S : Cardinality(s) = n /\ Wrong(s)}
<1>1. Bad = {}
  <2> SUFFICES ASSUME Bad # {} PROVE FALSE
    OBVIOUS
  <2>1. PICK n \in Bad : \A m \in Bad : n <= m
    <3>1. Bad \subseteq Nat
      OBVIOUS
    <3> HIDE DEF Bad
    <3> QED BY <3>1, NatMin
  <2>2. PICK s \in SUBSET S : Cardinality(s) = n /\ Wrong(s)
    BY <2>1
  <2>3. PICK y \in s : SumOver(F, s) # F[y] + SumOver(F, s \ {y})
    BY <2>2
  <2> DEFINE a == AnyOf(s)
             rest == s \ {a, y}
  <2>4. /\ a \in s /\ a \in S /\ y \in S /\ s # {} /\ IsFiniteSet(s)
        /\ n \in Nat \ {0} /\ Cardinality(s \ {a}) = n - 1 /\ Cardinality(s \ {y}) = n - 1
    <3>1. s # {} /\ y \in S /\ IsFiniteSet(s)
      BY <2>3, FS_Subset
    <3>2. a \in s /\ a \in S /\ n \in Nat \ {0} /\ Cardinality(s \ {a}) = n - 1
      BY <2>2, <3>1, Smaller
    <3>3. Cardinality(s \ {y}) = n - 1
      BY <2>2, <3>1, FS_RemoveElement
    <3> QED BY <3>1, <3>2, <3>3
  <2>5. SumOver(F, s) = F[a] + SumOver(F, s \ {a})
    BY <2>4, SumUnfolds
  <2>6. a # y
    BY <2>3, <2>5
  <2> HIDE DEF a
  <2>7. n - 1 \notin Bad
    BY <2>1, <2>4
  <2>8. ~ Wrong(s \ {a}) /\ ~ Wrong(s \ {y})
    <3>1. s \ {a} \in SUBSET S /\ s \ {y} \in SUBSET S /\ n - 1 \in Nat
      BY <2>4
    <3> HIDE DEF Wrong
    <3> QED BY <2>4, <2>7, <3>1
  <2>9. SumOver(F, s \ {a}) = F[y] + SumOver(F, rest)
    <3>1. y \in s \ {a} /\ (s \ {a}) \ {y} = rest
      BY <2>6
    <3> HIDE DEF rest
    <3> QED BY <2>8, <3>1
  <2>10. SumOver(F, s \ {y}) = F[a] + SumOver(F, rest)
    <3>1. a \in s \ {y} /\ (s \ {y}) \ {a} = rest
      BY <2>4, <2>6
    <3> HIDE DEF rest
    <3> QED BY <2>8, <3>1
  <2>11. F[a] \in Nat /\ F[y] \in Nat /\ SumOver(F, rest) \in Nat
    <3>1. IsFiniteSet(rest) /\ rest \in SUBSET S
      BY FS_Subset
    <3> QED BY <2>4, <3>1, SumOverNat
  <2> HIDE DEF rest
  <2> QED BY <2>3, <2>5, <2>9, <2>10, <2>11
<1>2. Cardinality(S) \in Nat
  BY FS_CardinalityType
<1>3. ~ Wrong(S)
  BY <1>1, <1>2
<1> QED BY <1>3

(* Two disjoint sets, and a part of a set. *)
LEMMA SumSplit ==
    ASSUME NEW S, IsFiniteSet(S), NEW F, \A x \in S : F[x] \in Nat, NEW T \in SUBSET S
    PROVE  SumOver(F, S) = SumOver(F, T) + SumOver(F, S \ T)
<1> DEFINE Wrong(s) == SumOver(F, S) # SumOver(F, s) + SumOver(F, S \ s)
           Bad == {n \in Nat : \E s \in SUBSET S : Cardinality(s) = n /\ Wrong(s)}
<1>1. Bad = {}
  <2> SUFFICES ASSUME Bad # {} PROVE FALSE
    OBVIOUS
  <2>1. PICK n \in Bad : \A m \in Bad : n <= m
    <3>1. Bad \subseteq Nat
      OBVIOUS
    <3> HIDE DEF Bad
    <3> QED BY <3>1, NatMin
  <2>2. PICK s \in SUBSET S : Cardinality(s) = n /\ Wrong(s)
    BY <2>1
  <2>3. s # {}
    <3> SUFFICES ASSUME s = {} PROVE FALSE
      OBVIOUS
    <3>1. S \ s = S /\ SumOver(F, s) = 0 /\ SumOver(F, S) \in Nat
      BY SumEmpty, SumOverNat
    <3> QED BY <2>2, <3>1
  <2> DEFINE a == AnyOf(s)
             u == s \ {a}
  <2>4. /\ a \in s /\ a \in S /\ u \in SUBSET S /\ n \in Nat \ {0} /\ Cardinality(u) = n - 1
    BY <2>2, <2>3, Smaller
  <2> HIDE DEF a
  <2>5. ~ Wrong(u)
    <3>1. n - 1 \in Nat /\ ~(n <= n - 1)
      BY <2>4
    <3> HIDE DEF Wrong, u
    <3>2. n - 1 \notin Bad
      BY <2>1, <3>1
    <3> QED BY <2>4, <3>1, <3>2
  <2>6. IsFiniteSet(s) /\ IsFiniteSet(S \ u) /\ IsFiniteSet(u) /\ IsFiniteSet(S \ s)
    BY <2>4, FS_Subset
  <2>7. SumOver(F, s) = F[a] + SumOver(F, u)
    BY <2>4, <2>6, SumRemove
  <2>8. SumOver(F, S \ u) = F[a] + SumOver(F, S \ s)
    <3>1. a \in S \ u /\ (S \ u) \ {a} = S \ s
      BY <2>4
    <3> HIDE DEF u
    <3> QED BY <2>6, <3>1, SumRemove
  <2>9. F[a] \in Nat /\ SumOver(F, u) \in Nat /\ SumOver(F, S \ s) \in Nat
    <3>1. (\A x \in u : F[x] \in Nat) /\ (\A x \in S \ s : F[x] \in Nat)
      OBVIOUS
    <3> QED BY <2>4, <2>6, <3>1, SumOverNat
  <2> HIDE DEF u
  <2> QED BY <2>2, <2>5, <2>7, <2>8, <2>9
<1>2. Cardinality(T) \in Nat
  BY FS_Subset, FS_CardinalityType
<1>3. ~ Wrong(T)
  BY <1>1, <1>2
<1> QED BY <1>3

=============================================================================
