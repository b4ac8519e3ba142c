-------------------------- MODULE TreeStoreProofs --------------------------
(***************************************************************************)
(* Proofs about the two leaf stores, for any leaves, reservations,         *)
(* batches, targets, permits, timeouts and clock bound, and whatever       *)
(* commands callers send, in one SDK instance or several: the invariants   *)
(* of InMemoryTreeStore, those of the tables of PostgresTreeStore, and     *)
(* that the latter implements the TreeStore trait as LeafLedger states it. *)
(***************************************************************************)
EXTENDS MemoryTreeStore, SqlLeafLedger, CollectionProofs, FiniteSetTheorems, TLAPS

-----------------------------------------------------------------------------
(* What the operators on partial functions return. *)

(* A function whose domain lies in D and whose values lie in R is a        *)
(* possible content of a HashMap from D to R.                              *)
LEMMA PartialIntro ==
    ASSUME NEW D, NEW R, NEW S \in SUBSET D, NEW f \in [S -> R]
    PROVE  f \in Partial(D, R)
BY DEF Partial

(* ... and conversely. *)
LEMMA PartialElim ==
    ASSUME NEW D, NEW R, NEW f \in Partial(D, R)
    PROVE  DOMAIN f \subseteq D /\ f \in [DOMAIN f -> R]
BY DEF Partial

(* Inserting the pairs of one HashMap into another. *)
LEMMA PutType ==
    ASSUME NEW D, NEW R, NEW f \in Partial(D, R), NEW g \in Partial(D, R)
    PROVE  Put(f, g) \in Partial(D, R)
<1>1. /\ DOMAIN f \subseteq D /\ f \in [DOMAIN f -> R]
      /\ DOMAIN g \subseteq D /\ g \in [DOMAIN g -> R]
  BY PartialElim
<1>2. Put(f, g) \in [DOMAIN f \cup DOMAIN g -> R]
  BY <1>1 DEF Put
<1>3. DOMAIN f \cup DOMAIN g \in SUBSET D
  BY <1>1
<1> QED BY <1>2, <1>3, PartialIntro

(* The keys of the result. *)
LEMMA PutDomain ==
    ASSUME NEW f, NEW g
    PROVE  DOMAIN Put(f, g) = DOMAIN f \cup DOMAIN g
BY DEF Put

(* Removing keys from a HashMap. *)
LEMMA DropType ==
    ASSUME NEW D, NEW R, NEW f \in Partial(D, R), NEW S
    PROVE  Drop(f, S) \in Partial(D, R)
<1>1. DOMAIN f \subseteq D /\ f \in [DOMAIN f -> R]
  BY PartialElim
<1>2. Drop(f, S) \in [DOMAIN f \ S -> R]
  BY <1>1 DEF Drop
<1>3. DOMAIN f \ S \in SUBSET D
  BY <1>1
<1> QED BY <1>2, <1>3, PartialIntro

(* The keys that are left. *)
LEMMA DropDomain ==
    ASSUME NEW f, NEW S
    PROVE  DOMAIN Drop(f, S) = DOMAIN f \ S
BY DEF Drop

(* Keeping some keys of a HashMap. *)
LEMMA RestrictType ==
    ASSUME NEW D, NEW R, NEW f \in Partial(D, R), NEW S, S \subseteq DOMAIN f
    PROVE  /\ Restrict(f, S) \in Partial(D, R)
           /\ DOMAIN Restrict(f, S) = S
<1>1. DOMAIN f \subseteq D /\ f \in [DOMAIN f -> R]
  BY PartialElim
<1>2. Restrict(f, S) \in [S -> R]
  BY <1>1 DEF Restrict
<1>3. S \in SUBSET D
  BY <1>1
<1>4. Restrict(f, S) \in Partial(D, R)
  BY <1>2, <1>3, PartialIntro
<1> QED BY <1>2, <1>4

(* The empty HashMap. *)
LEMMA EmptyMapType ==
    ASSUME NEW D, NEW R
    PROVE  EmptyMap \in Partial(D, R) /\ DOMAIN EmptyMap = {}
<1>1. EmptyMap \in [{} -> R]
  BY DEF EmptyMap
<1> QED BY <1>1, PartialIntro DEF EmptyMap

-----------------------------------------------------------------------------
(* What callers hand in is well formed, and so is what is stored of it. *)

(* What callers may pass: some leaves, with what their nodes say. *)
Listing == Partial(Leaf, NodeData)

LEMMA BatchIsListing == Batch \subseteq Listing
BY BatchAssumption DEF Listing

(* A batch is a HashMap from leaf ids to node data. *)
LEMMA ListingElim ==
    ASSUME NEW nodes \in Listing
    PROVE  DOMAIN nodes \subseteq Leaf /\ nodes \in [DOMAIN nodes -> NodeData]
BY PartialElim DEF Listing

(* The rows stored for some leaves of a batch (StoredLeaf::from_node). *)
LEMMA RowsType ==
    ASSUME NEW nodes \in Listing, NEW S \in SUBSET DOMAIN nodes, NEW m \in BOOLEAN, clock \in Time
    PROVE  /\ [l \in S |-> FromNode(nodes[l], clock, m)] \in Partial(Leaf, Row)
           /\ DOMAIN [l \in S |-> FromNode(nodes[l], clock, m)] = S
<1>1. DOMAIN nodes \subseteq Leaf /\ nodes \in [DOMAIN nodes -> NodeData]
  BY ListingElim
<1>2. \A l \in S : FromNode(nodes[l], clock, m) \in Row
  BY <1>1 DEF FromNode, NodeData, Row
<1>3. [l \in S |-> FromNode(nodes[l], clock, m)] \in [S -> Row]
  BY <1>2
<1>4. S \in SUBSET Leaf
  BY <1>1
<1> QED BY <1>3, <1>4, PartialIntro

-----------------------------------------------------------------------------
(* Every selection is made of leaves it was given. *)

(* select_leaves_by_exact_amount *)
LEMMA ExactAmountInside ==
    ASSUME NEW L, NEW amount, NEW S \in ExactAmount(L, amount)
    PROVE  S \subseteq L
<1>1. \A P, S1 : S1 \in GreedyExact(P, amount) => S1 \subseteq P
  BY DEF GreedyExact
<1>2. PowersOfTwo(L) \subseteq L
  BY DEF PowersOfTwo
<1>3. \A S1 \in ExactMultiple(L, amount) : S1 \subseteq L
  BY <1>1, <1>2 DEF ExactMultiple
<1> QED BY <1>3 DEF ExactAmount

(* select_leaves_by_target_amounts *)
LEMMA SelectionInside ==
    ASSUME NEW L, NEW tgt, NEW S \in TargetSelections(L, tgt)
    PROVE  S \subseteq L
<1>1. CASE tgt.kind = "all"
  BY <1>1 DEF TargetSelections
<1>2. CASE tgt.kind = "amount" /\ tgt.fee = 0
  BY <1>2, ExactAmountInside DEF TargetSelections
<1>3. CASE tgt.kind = "amount" /\ tgt.fee # 0
  <2>1. PICK A \in ExactAmount(L, tgt.amount) :
           S \in {A \cup F : F \in ExactAmount(L \ A, tgt.fee)}
    BY <1>3 DEF TargetSelections
  <2>2. PICK F \in ExactAmount(L \ A, tgt.fee) : S = A \cup F
    BY <2>1
  <2>3. A \subseteq L
    BY ExactAmountInside
  <2>4. F \subseteq L \ A
    BY ExactAmountInside
  <2> QED BY <2>2, <2>3, <2>4
<1>4. CASE tgt.kind \notin {"all", "amount"}
  BY <1>4 DEF TargetSelections, ExactDenominations
<1> QED BY <1>1, <1>2, <1>3, <1>4

(* select_leaves_by_minimum_amount *)
LEMMA MinimumInside ==
    ASSUME NEW L, NEW amount, NEW S \in MinimumAmount(L, amount)
    PROVE  S \subseteq L
BY DEF MinimumAmount

-----------------------------------------------------------------------------
(* Sums of values. *)
LEMMA SatsNat ==
    ASSUME NEW S, S \subseteq Leaf
    PROVE  Sats(S) \in Nat
<1>1. IsFiniteSet(S) /\ \A l \in S : Value[l] \in Nat
  BY LeafFinite, ValueAssumption, FS_Subset
<1>2. Sats(S) = (CHOOSE f : IsSumOn(f, Value, SUBSET S))[S]
  BY Zenon DEF Sats, MapThenSumSet, MapThenFoldSet, IsSumOn, AnyOf
<1> QED BY <1>1, <1>2, SumNat

LEMMA TotalSatsNat ==
    ASSUME NEW tgt \in Target
    PROVE  TotalSats(tgt) \in Nat
<1>1. CASE tgt.kind = "all"
  BY <1>1 DEF TotalSats
<1>2. CASE tgt.kind = "amount"
  <2>1. tgt.amount \in Nat /\ tgt.fee \in Nat
    BY <1>2, TargetAssumption
  <2>2. "amount" # "all"
    OBVIOUS
  <2>3. TotalSats(tgt) = tgt.amount + tgt.fee
    BY <1>2, <2>2, Zenon DEF TotalSats
  <2> QED BY <2>1, <2>3
<1>3. CASE tgt.kind = "denoms"
  <2> DEFINE D == DOMAIN tgt.denoms
             F == [v \in D |-> v * tgt.denoms[v]]
  <2>1. IsFiniteSet(D) /\ \A v \in D : v \in Nat /\ tgt.denoms[v] \in Nat
    BY <1>3, TargetAssumption
  <2>2. TotalSats(tgt) = MapThenSumSet(LAMBDA v : v * tgt.denoms[v], D)
    BY <1>3 DEF TotalSats
  <2>3. \A v \in D : F[v] \in Nat /\ F[v] = v * tgt.denoms[v]
    BY <2>1
  <2>4. MapThenSumSet(LAMBDA v : v * tgt.denoms[v], D) = (CHOOSE f : IsSumOn(f, F, SUBSET D))[D]
    <3> DEFINE Sum(f) == f = [s \in SUBSET D |-> IF s = {} THEN 0
                                                ELSE AnyOf(s) * tgt.denoms[AnyOf(s)] + f[s \ {AnyOf(s)}]]
    <3>1. MapThenSumSet(LAMBDA v : v * tgt.denoms[v], D) = (CHOOSE f : Sum(f))[D]
      BY Zenon DEF MapThenSumSet, MapThenFoldSet, AnyOf
    <3>2. ASSUME NEW f PROVE Sum(f) <=> IsSumOn(f, F, SUBSET D)
      <4>1. \A s \in SUBSET D : s # {} => F[AnyOf(s)] = AnyOf(s) * tgt.denoms[AnyOf(s)]
        BY <2>1, <2>3, Smaller
      <4> HIDE DEF F, D
      <4> QED BY <4>1 DEF IsSumOn
    <3> HIDE DEF Sum
    <3>3. (CHOOSE f : Sum(f)) = CHOOSE f : IsSumOn(f, F, SUBSET D)
      BY <3>2, Zenon
    <3> QED BY <3>1, <3>3
  <2> HIDE DEF F, D
  <2> QED BY <2>1, <2>2, <2>3, <2>4, SumNat
<1> QED BY <1>1, <1>2, <1>3, TargetAssumption

-----------------------------------------------------------------------------
(***************************************************************************)
(* InMemoryTreeStore                                                       *)
(***************************************************************************)

(* Attributing every reserved leaf of ids to a holder is possible, and     *)
(* updating the holders' copies changes neither which reservations there   *)
(* are nor which leaves each holds.                                        *)
LEMMA RefreshedType ==
    ASSUME StoreTypeOK, NEW ids, NEW h \in Holders(ids), NEW rows,
           \A l \in ids : rows[l] \in Row
    PROVE  /\ DOMAIN Refreshed(h, rows) = DOMAIN resv
           /\ \A r \in DOMAIN resv :
                 /\ Refreshed(h, rows)[r].leaves \in Partial(Leaf, Row)
                 /\ DOMAIN Refreshed(h, rows)[r].leaves = DOMAIN resv[r].leaves
                 /\ Refreshed(h, rows)[r].purpose \in Purpose
<1>1. DOMAIN Refreshed(h, rows) = DOMAIN resv
  BY DEF Refreshed
<1>2. ASSUME NEW r \in DOMAIN resv
      PROVE  /\ Refreshed(h, rows)[r].leaves \in Partial(Leaf, Row)
             /\ DOMAIN Refreshed(h, rows)[r].leaves = DOMAIN resv[r].leaves
             /\ Refreshed(h, rows)[r].purpose \in Purpose
  <2> DEFINE f == [l \in DOMAIN resv[r].leaves |->
                     IF l \in DOMAIN h /\ h[l] = r THEN rows[l] ELSE resv[r].leaves[l]]
  <2>1. /\ resv[r].leaves \in Partial(Leaf, Row)
        /\ resv[r].purpose \in Purpose
    BY DEF StoreTypeOK
  <2>2. DOMAIN resv[r].leaves \subseteq Leaf /\ resv[r].leaves \in [DOMAIN resv[r].leaves -> Row]
    BY <2>1, PartialElim
  <2>3. DOMAIN h = ids
    BY DEF Holders
  <2>4. f \in [DOMAIN resv[r].leaves -> Row]
    BY <2>2, <2>3
  <2>5. f \in Partial(Leaf, Row)
    BY <2>2, <2>4, PartialIntro
  <2>6. Refreshed(h, rows)[r] = [resv[r] EXCEPT !.leaves = f]
    BY DEF Refreshed
  <2>7. Refreshed(h, rows)[r].leaves = f /\ Refreshed(h, rows)[r].purpose = resv[r].purpose
    BY <2>6
  <2> QED BY <2>1, <2>4, <2>5, <2>7
<1> QED BY <1>1, <1>2

-----------------------------------------------------------------------------
(***************************************************************************)
(* The inductive invariant.  StoreTypeOK is inductive by itself; the other   *)
(* two parts need it, and PermitsConserved needs the reservations to be    *)
(* finite, which ReservationFinite and the type give.                      *)
(***************************************************************************)
MemInv == StoreTypeOK /\ PermitsConserved /\ ChainsHaveLeaves

(* The initial state satisfies the invariant. *)
LEMMA InitInv == StoreInit => MemInv
<1> SUFFICES ASSUME StoreInit PROVE MemInv
  OBVIOUS
<1> USE DEF StoreInit
<1>1. StoreTypeOK
  BY EmptyMapType, MaxTimeAssumption, PermitAssumption DEF StoreTypeOK, Time, Never
<1>2. PermitsConserved
  <2>1. DOMAIN resv = {}
    BY EmptyMapType
  <2>2. Cardinality(DOMAIN resv) = 0
    BY <2>1, FS_EmptySet
  <2> QED BY <2>2, PermitAssumption DEF PermitsConserved
<1>3. ChainsHaveLeaves
  BY EmptyMapType DEF ChainsHaveLeaves
<1> QED BY <1>1, <1>2, <1>3 DEF MemInv

(* The reservations are finitely many. *)
LEMMA ResvFinite ==
    ASSUME StoreTypeOK
    PROVE  IsFiniteSet(DOMAIN resv) /\ Cardinality(DOMAIN resv) \in Nat
<1>1. DOMAIN resv \subseteq Reservation
  BY DEF StoreTypeOK
<1>2. IsFiniteSet(DOMAIN resv)
  BY <1>1, ReservationFinite, FS_Subset
<1> QED BY <1>2, FS_CardinalityType

(* Adding or removing one reservation changes their number by one. *)
LEMMA ResvAdd ==
    ASSUME StoreTypeOK, NEW r, r \notin DOMAIN resv, NEW e
    PROVE  /\ DOMAIN Put(resv, Pair(r, e)) = DOMAIN resv \cup {r}
           /\ Cardinality(DOMAIN Put(resv, Pair(r, e))) = Cardinality(DOMAIN resv) + 1
<1>1. DOMAIN Put(resv, Pair(r, e)) = DOMAIN resv \cup {r}
  BY DEF Put, Pair
<1>2. Cardinality(DOMAIN resv \cup {r}) = Cardinality(DOMAIN resv) + 1
  BY ResvFinite, FS_AddElement
<1> QED BY <1>1, <1>2

(* Removing a reservation makes the number of reservations smaller by one. *)
LEMMA ResvRemove ==
    ASSUME StoreTypeOK, NEW r
    PROVE  /\ DOMAIN Drop(resv, {r}) = DOMAIN resv \ {r}
           /\ Cardinality(DOMAIN Drop(resv, {r})) =
                 IF r \in DOMAIN resv THEN Cardinality(DOMAIN resv) - 1
                 ELSE Cardinality(DOMAIN resv)
<1>1. DOMAIN Drop(resv, {r}) = DOMAIN resv \ {r}
  BY DEF Drop
<1>2. CASE r \in DOMAIN resv
  BY <1>1, <1>2, ResvFinite, FS_RemoveElement
<1>3. CASE r \notin DOMAIN resv
  <2>1. DOMAIN resv \ {r} = DOMAIN resv
    BY <1>3
  <2> QED BY <1>1, <1>3, <2>1
<1> QED BY <1>2, <1>3

-----------------------------------------------------------------------------
(* One lemma per command: it preserves the invariant. *)

(* The passing of time. *)
LEMMA TickInv == MemInv /\ ClockTick => MemInv'
<1> SUFFICES ASSUME MemInv, ClockTick PROVE MemInv'
  OBVIOUS
<1>1. clock' \in Time
  BY MaxTimeAssumption DEF MemInv, StoreTypeOK, ClockTick, Time
<1>2. StoreTypeOK'
  BY <1>1 DEF MemInv, StoreTypeOK, ClockTick
<1>3. PermitsConserved'
  BY DEF MemInv, PermitsConserved, ClockTick
<1>4. ChainsHaveLeaves'
  BY DEF MemInv, ChainsHaveLeaves, StoredLeaves, ReservedLeaves, ClockTick
<1> QED BY <1>2, <1>3, <1>4 DEF MemInv

(* process_add_leaves *)
LEMMA AddLeavesInv ==
    ASSUME MemInv, NEW nodes \in Listing, MemAddLeaves(nodes)
    PROVE  MemInv'
<1> DEFINE held  == DOMAIN nodes \cap ReservedLeaves
           fresh == DOMAIN nodes \ held
           rows  == [l \in fresh |-> FromNode(nodes[l], clock, FALSE)]
<1>0. /\ StoreTypeOK
      /\ clock \in Time
      /\ pool \in Partial(Leaf, Row)
      /\ spent \in Partial(Leaf, Time)
  BY DEF MemInv, StoreTypeOK
<1>1. DOMAIN nodes \subseteq Leaf /\ nodes \in [DOMAIN nodes -> NodeData]
  BY ListingElim
<1>2. rows \in Partial(Leaf, Row) /\ DOMAIN rows = fresh
  BY <1>0, RowsType
<1>3. pool' = Put(pool, rows) /\ spent' = Drop(spent, fresh)
  BY DEF MemAddLeaves
<1> HIDE DEF held, fresh, rows
<1>4. pool' \in Partial(Leaf, Row) /\ DOMAIN pool' = DOMAIN pool \cup fresh
  <2>1. Put(pool, rows) \in Partial(Leaf, Row)
    BY <1>0, <1>2, PutType
  <2>2. DOMAIN Put(pool, rows) = DOMAIN pool \cup DOMAIN rows
    BY PutDomain
  <2> QED BY <1>2, <1>3, <2>1, <2>2
<1>5. spent' \in Partial(Leaf, Time)
  BY <1>0, <1>3, DropType
<1>6. PICK h \in Holders(held) :
         resv' = Refreshed(h, [l \in held |->
                    [resv[h[l]].leaves[l] EXCEPT !.available = nodes[l].available,
                                                 !.parent = nodes[l].parent]])
  BY DEF MemAddLeaves, held
<1> DEFINE upd == [l \in held |->
                    [resv[h[l]].leaves[l] EXCEPT !.available = nodes[l].available,
                                                 !.parent = nodes[l].parent]]
<1>7. \A l \in held : upd[l] \in Row
  <2> SUFFICES ASSUME NEW l \in held PROVE upd[l] \in Row
    OBVIOUS
  <2>1. h[l] \in DOMAIN resv /\ l \in DOMAIN resv[h[l]].leaves
    BY <1>6 DEF Holders
  <2>2. resv[h[l]].leaves \in Partial(Leaf, Row)
    BY <1>0, <2>1 DEF StoreTypeOK
  <2>3. resv[h[l]].leaves[l] \in Row
    BY <2>1, <2>2, PartialElim
  <2>4. nodes[l] \in NodeData
    BY <1>1 DEF held
  <2>5. [resv[h[l]].leaves[l] EXCEPT !.available = nodes[l].available,
                                     !.parent = nodes[l].parent] \in Row
    BY <2>3, <2>4 DEF Row, NodeData
  <2> QED BY <2>5
<1> HIDE DEF upd
<1>8. /\ DOMAIN resv' = DOMAIN resv
      /\ \A r \in DOMAIN resv : /\ resv'[r].leaves \in Partial(Leaf, Row)
                                /\ DOMAIN resv'[r].leaves = DOMAIN resv[r].leaves
                                /\ resv'[r].purpose \in Purpose
  <2>1. resv' = Refreshed(h, upd)
    BY <1>6 DEF upd
  <2>2. /\ DOMAIN Refreshed(h, upd) = DOMAIN resv
        /\ \A r \in DOMAIN resv :
              /\ Refreshed(h, upd)[r].leaves \in Partial(Leaf, Row)
              /\ DOMAIN Refreshed(h, upd)[r].leaves = DOMAIN resv[r].leaves
              /\ Refreshed(h, upd)[r].purpose \in Purpose
    BY <1>0, <1>6, <1>7, RefreshedType
  <2> QED BY <2>1, <2>2
<1>9. UNCHANGED <<lastSwap, ancestors, permits, inflight, clock>>
  BY DEF MemAddLeaves
<1>10. StoreTypeOK'
  BY <1>0, <1>4, <1>5, <1>8, <1>9 DEF StoreTypeOK
<1>11. PermitsConserved'
  BY <1>8, <1>9 DEF MemInv, PermitsConserved
<1>12. StoredLeaves \subseteq StoredLeaves'
  BY <1>4, <1>8 DEF StoredLeaves, ReservedLeaves
<1>13. ChainsHaveLeaves'
  BY <1>9, <1>12 DEF MemInv, ChainsHaveLeaves
<1> QED BY <1>10, <1>11, <1>13 DEF MemInv

(* process_store_ancestors: only a leaf that is stored gets a chain *)
LEMMA StoreAncestorsInv ==
    ASSUME MemInv, NEW chains \in Partial(Leaf, SUBSET Node), MemStoreAncestors(chains)
    PROVE  MemInv'
<1> DEFINE S == {l \in DOMAIN chains \cap StoredLeaves : chains[l] # {}}
<1>0. StoreTypeOK /\ ancestors \in Partial(Leaf, SUBSET Node)
  BY DEF MemInv, StoreTypeOK
<1>1. Restrict(chains, S) \in Partial(Leaf, SUBSET Node) /\ DOMAIN Restrict(chains, S) = S
  BY RestrictType
<1>2. ancestors' = Put(ancestors, Restrict(chains, S))
  BY DEF MemStoreAncestors
<1> HIDE DEF S
<1>3. ancestors' \in Partial(Leaf, SUBSET Node) /\ DOMAIN ancestors' = DOMAIN ancestors \cup S
  <2>1. Put(ancestors, Restrict(chains, S)) \in Partial(Leaf, SUBSET Node)
    BY <1>0, <1>1, PutType
  <2>2. DOMAIN Put(ancestors, Restrict(chains, S)) = DOMAIN ancestors \cup DOMAIN Restrict(chains, S)
    BY PutDomain
  <2> QED BY <1>1, <1>2, <2>1, <2>2
<1>4. UNCHANGED <<pool, resv, spent, lastSwap, permits, inflight, clock>>
  BY DEF MemStoreAncestors
<1>5. StoreTypeOK'
  BY <1>0, <1>3, <1>4 DEF StoreTypeOK
<1>6. PermitsConserved'
  BY <1>4 DEF MemInv, PermitsConserved
<1>7. StoredLeaves' = StoredLeaves
  BY <1>4 DEF StoredLeaves, ReservedLeaves
<1>8. ChainsHaveLeaves'
  BY <1>3, <1>7 DEF MemInv, ChainsHaveLeaves, S
<1> QED BY <1>5, <1>6, <1>8 DEF MemInv

(* The semaphore wait before a reserve command. *)
LEMMA AcquirePermitInv == MemInv /\ MemAcquirePermit => MemInv'
<1> SUFFICES ASSUME MemInv, MemAcquirePermit PROVE MemInv'
  OBVIOUS
<1>1. StoreTypeOK'
  BY DEF MemInv, StoreTypeOK, MemAcquirePermit
<1>2. PermitsConserved'
  BY ResvFinite DEF MemInv, StoreTypeOK, PermitsConserved, MemAcquirePermit
<1>3. ChainsHaveLeaves'
  BY DEF MemInv, ChainsHaveLeaves, StoredLeaves, ReservedLeaves, MemAcquirePermit
<1> QED BY <1>1, <1>2, <1>3 DEF MemInv

(* A reserve command that reserves nothing. *)
LEMMA ReserveRejectedInv == MemInv /\ MemReserveRejected => MemInv'
<1> SUFFICES ASSUME MemInv, MemReserveRejected PROVE MemInv'
  OBVIOUS
<1>1. StoreTypeOK'
  BY DEF MemInv, StoreTypeOK, MemReserveRejected
<1>2. PermitsConserved'
  BY ResvFinite DEF MemInv, StoreTypeOK, PermitsConserved, MemReserveRejected
<1>3. ChainsHaveLeaves'
  BY DEF MemInv, ChainsHaveLeaves, StoredLeaves, ReservedLeaves, MemReserveRejected
<1> QED BY <1>1, <1>2, <1>3 DEF MemInv

(* A step that changes nothing in the store. *)
LEMMA StutterInv == MemInv /\ UNCHANGED storeVars => MemInv'
<1> SUFFICES ASSUME MemInv, UNCHANGED storeVars PROVE MemInv'
  OBVIOUS
<1>1. StoreTypeOK'
  BY DEF MemInv, StoreTypeOK, storeVars
<1>2. PermitsConserved'
  BY DEF MemInv, PermitsConserved, storeVars
<1>3. ChainsHaveLeaves'
  BY DEF MemInv, ChainsHaveLeaves, StoredLeaves, ReservedLeaves, storeVars
<1> QED BY <1>1, <1>2, <1>3 DEF MemInv

(* process_set_leaves: a chain dropped by no one belongs to a leaf that is *)
(* in the rebuilt pool, or was reserved and still is.                      *)
LEMMA SetLeavesInv ==
    ASSUME MemInv, NEW nodes \in Listing, NEW missing \in Listing, NEW t,
           MemSetLeaves(nodes, missing, t)
    PROVE  MemInv'
<1>1. CASE RefreshSkipped(t)
  BY <1>1, StutterInv DEF MemSetLeaves
<1>2. CASE ~RefreshSkipped(t)
  <2> DEFINE kept    == MarkersKept(t)
             seen    == [l \in DOMAIN nodes \ kept |-> FromNode(nodes[l], clock, FALSE)]
             unseen  == [l \in DOMAIN missing \ kept |-> FromNode(missing[l], clock, TRUE)]
             young   == {l \in DOMAIN pool : pool[l].at >= t}
             recent  == Restrict(pool, young)
             rebuilt == Put(recent, Put(seen, unseen))
             held    == DOMAIN rebuilt \cap ReservedLeaves
  <2>0. /\ StoreTypeOK
        /\ clock \in Time
        /\ pool \in Partial(Leaf, Row)
        /\ spent \in Partial(Leaf, Time)
        /\ ancestors \in Partial(Leaf, SUBSET Node)
    BY DEF MemInv, StoreTypeOK
  <2>1. /\ spent' = Restrict(spent, kept)
        /\ \E h \in Holders(held) : resv' = Refreshed(h, rebuilt)
        /\ pool' = Drop(rebuilt, held)
        /\ ancestors' = Drop(ancestors, DOMAIN pool \ (DOMAIN rebuilt \ held))
        /\ UNCHANGED <<lastSwap, permits, inflight, clock>>
    BY <1>2 DEF MemSetLeaves
  <2>2. seen \in Partial(Leaf, Row) /\ unseen \in Partial(Leaf, Row)
    BY <2>0, RowsType
  <2>3. recent \in Partial(Leaf, Row)
    <3>1. young \subseteq DOMAIN pool
      OBVIOUS
    <3> HIDE DEF young
    <3> QED BY <2>0, <3>1, RestrictType
  <2>4. kept \subseteq DOMAIN spent
    BY DEF MarkersKept
  <2> HIDE DEF kept, seen, unseen, recent
  <2>5. Put(seen, unseen) \in Partial(Leaf, Row)
    BY <2>2, PutType
  <2>6. rebuilt \in Partial(Leaf, Row)
    BY <2>3, <2>5, PutType
  <2> HIDE DEF rebuilt
  <2>7. \A l \in held : rebuilt[l] \in Row
    <3>1. rebuilt \in [DOMAIN rebuilt -> Row]
      BY <2>6, PartialElim
    <3> QED BY <3>1
  <2> HIDE DEF held
  <2>8. pool' \in Partial(Leaf, Row) /\ DOMAIN pool' = DOMAIN rebuilt \ held
    <3>1. Drop(rebuilt, held) \in Partial(Leaf, Row)
      BY <2>6, DropType
    <3> QED BY <2>1, <3>1, DropDomain
  <2>9. spent' \in Partial(Leaf, Time)
    BY <2>0, <2>1, <2>4, RestrictType
  <2>10. /\ ancestors' \in Partial(Leaf, SUBSET Node)
         /\ DOMAIN ancestors' = DOMAIN ancestors \ (DOMAIN pool \ (DOMAIN rebuilt \ held))
    <3> DEFINE lost == DOMAIN pool \ (DOMAIN rebuilt \ held)
    <3>1. ancestors' = Drop(ancestors, lost)
      BY <2>1
    <3> HIDE DEF lost
    <3>2. Drop(ancestors, lost) \in Partial(Leaf, SUBSET Node)
      BY <2>0, DropType
    <3>3. DOMAIN Drop(ancestors, lost) = DOMAIN ancestors \ lost
      BY DropDomain
    <3> QED BY <3>1, <3>2, <3>3 DEF lost
  <2>11. PICK h \in Holders(held) : resv' = Refreshed(h, rebuilt)
    BY <2>1
  <2>12. /\ DOMAIN resv' = DOMAIN resv
         /\ \A r \in DOMAIN resv : /\ resv'[r].leaves \in Partial(Leaf, Row)
                                   /\ DOMAIN resv'[r].leaves = DOMAIN resv[r].leaves
                                   /\ resv'[r].purpose \in Purpose
    <3>1. /\ DOMAIN Refreshed(h, rebuilt) = DOMAIN resv
          /\ \A r \in DOMAIN resv :
                /\ Refreshed(h, rebuilt)[r].leaves \in Partial(Leaf, Row)
                /\ DOMAIN Refreshed(h, rebuilt)[r].leaves = DOMAIN resv[r].leaves
                /\ Refreshed(h, rebuilt)[r].purpose \in Purpose
      BY <2>0, <2>7, <2>11, RefreshedType
    <3> QED BY <2>11, <3>1
  <2>13. UNCHANGED <<lastSwap, permits, inflight, clock>>
    BY <2>1
  <2>14. StoreTypeOK'
    BY <2>0, <2>8, <2>9, <2>10, <2>12, <2>13 DEF StoreTypeOK
  <2>15. PermitsConserved'
    BY <2>12, <2>13 DEF MemInv, PermitsConserved
  <2>16. ReservedLeaves' = ReservedLeaves
    BY <2>12 DEF ReservedLeaves
  <2>17. ChainsHaveLeaves'
    BY <2>8, <2>10, <2>16 DEF MemInv, ChainsHaveLeaves, StoredLeaves
  <2> QED BY <2>14, <2>15, <2>17 DEF MemInv
<1> QED BY <1>1, <1>2

-----------------------------------------------------------------------------
(* reserve_internal: the permit that travelled with the command becomes    *)
(* the reservation's, and the leaves stay stored.                          *)
LEMMA ReserveInternalInv ==
    ASSUME MemInv, NEW r \in Reservation, NEW S, NEW purpose \in Purpose, NEW pending,
           ReserveInternal(r, S, purpose, pending)
    PROVE  MemInv'
<1> DEFINE e == [leaves |-> Restrict(pool, S), purpose |-> purpose,
                 pending |-> pending, created |-> 0]
<1>0. StoreTypeOK /\ pool \in Partial(Leaf, Row) /\ permits \in Nat /\ inflight \in Nat
  BY DEF MemInv, StoreTypeOK
<1>1. /\ inflight > 0
      /\ r \notin DOMAIN resv
      /\ S \subseteq DOMAIN pool
      /\ resv' = Put(resv, Pair(r, e))
      /\ pool' = Drop(pool, S)
      /\ inflight' = inflight - 1
      /\ UNCHANGED <<spent, lastSwap, ancestors, permits, clock>>
  BY DEF ReserveInternal
<1>2. pool' \in Partial(Leaf, Row) /\ DOMAIN pool' = DOMAIN pool \ S
  <2>1. Drop(pool, S) \in Partial(Leaf, Row)
    BY <1>0, DropType
  <2> QED BY <1>1, <2>1, DropDomain
<1>3. Restrict(pool, S) \in Partial(Leaf, Row) /\ DOMAIN Restrict(pool, S) = S
  BY <1>0, <1>1, RestrictType
<1>4. e.leaves = Restrict(pool, S) /\ e.purpose = purpose
  OBVIOUS
<1> HIDE DEF e
<1>5. /\ DOMAIN resv' = DOMAIN resv \cup {r}
      /\ Cardinality(DOMAIN resv') = Cardinality(DOMAIN resv) + 1
  BY <1>0, <1>1, ResvAdd
<1>6. resv'[r] = e /\ \A q \in DOMAIN resv : resv'[q] = resv[q]
  BY <1>1 DEF Put, Pair
<1>7. StoreTypeOK'
  <2>1. DOMAIN resv' \subseteq Reservation
    BY <1>0, <1>5 DEF StoreTypeOK
  <2>2. ASSUME NEW q \in DOMAIN resv'
        PROVE  resv'[q].leaves \in Partial(Leaf, Row) /\ resv'[q].purpose \in Purpose
    <3>1. CASE q = r
      BY <1>3, <1>4, <1>6, <3>1
    <3>2. CASE q # r
      <4>1. q \in DOMAIN resv
        BY <1>5, <3>2
      <4> QED BY <1>0, <1>6, <4>1 DEF StoreTypeOK
    <3> QED BY <3>1, <3>2
  <2>3. inflight' \in Nat
    BY <1>0, <1>1
  <2> QED BY <1>0, <1>1, <1>2, <2>1, <2>2, <2>3 DEF StoreTypeOK
<1>8. PermitsConserved'
  <2>1. Cardinality(DOMAIN resv) \in Nat
    BY <1>0, ResvFinite
  <2> QED BY <1>0, <1>1, <1>5, <2>1 DEF MemInv, PermitsConserved
<1>9. StoredLeaves \subseteq StoredLeaves'
  <2>1. S \subseteq ReservedLeaves'
    BY <1>3, <1>4, <1>5, <1>6 DEF ReservedLeaves
  <2>2. ReservedLeaves \subseteq ReservedLeaves'
    BY <1>5, <1>6 DEF ReservedLeaves
  <2> QED BY <1>2, <2>1, <2>2 DEF StoredLeaves
<1>10. ChainsHaveLeaves'
  BY <1>1, <1>9 DEF MemInv, ChainsHaveLeaves
<1> QED BY <1>7, <1>8, <1>10 DEF MemInv

(* Cancelling and finalizing take a reservation out of the store and put   *)
(* rows into the pool; the permit of the reservation is freed exactly when *)
(* there was one.                                                          *)
LEMMA ReleaseInv ==
    ASSUME MemInv, NEW r, NEW rows \in Partial(Leaf, Row), NEW dropped,
           resv' = Drop(resv, {r}),
           permits' = IF r \in DOMAIN resv THEN permits + 1 ELSE permits,
           ancestors' = Drop(ancestors, dropped),
           pool' = Put(pool, rows),
           r \in DOMAIN resv => DOMAIN resv[r].leaves \ DOMAIN rows \subseteq dropped,
           spent' \in Partial(Leaf, Time),
           lastSwap' \in Time \cup {Never},
           UNCHANGED <<inflight, clock>>
    PROVE  MemInv'
<1>0. /\ StoreTypeOK
      /\ pool \in Partial(Leaf, Row)
      /\ ancestors \in Partial(Leaf, SUBSET Node)
      /\ permits \in Nat
      /\ inflight \in Nat
      /\ clock \in Time
  BY DEF MemInv, StoreTypeOK
<1>1. pool' \in Partial(Leaf, Row) /\ DOMAIN pool' = DOMAIN pool \cup DOMAIN rows
  <2>1. Put(pool, rows) \in Partial(Leaf, Row)
    BY <1>0, PutType
  <2> QED BY <2>1, PutDomain
<1>2. ancestors' \in Partial(Leaf, SUBSET Node) /\ DOMAIN ancestors' = DOMAIN ancestors \ dropped
  <2>1. Drop(ancestors, dropped) \in Partial(Leaf, SUBSET Node)
    BY <1>0, DropType
  <2> QED BY <2>1, DropDomain
<1>3. /\ DOMAIN resv' = DOMAIN resv \ {r}
      /\ Cardinality(DOMAIN resv') = IF r \in DOMAIN resv THEN Cardinality(DOMAIN resv) - 1
                                     ELSE Cardinality(DOMAIN resv)
  BY <1>0, ResvRemove
<1>4. \A q \in DOMAIN resv' : resv'[q] = resv[q]
  BY DEF Drop
<1>5. StoreTypeOK'
  <2>1. /\ DOMAIN resv' \subseteq Reservation
        /\ \A q \in DOMAIN resv' : /\ resv'[q].leaves \in Partial(Leaf, Row)
                                    /\ resv'[q].purpose \in Purpose
    BY <1>0, <1>3, <1>4 DEF StoreTypeOK
  <2>2. permits' \in Nat
    BY <1>0
  <2> QED BY <1>0, <1>1, <1>2, <2>1, <2>2 DEF StoreTypeOK
<1>6. PermitsConserved'
  <2>1. Cardinality(DOMAIN resv) \in Nat
    BY <1>0, ResvFinite
  <2> QED BY <1>0, <1>3, <2>1 DEF MemInv, PermitsConserved
<1>7. ChainsHaveLeaves'
  <2> SUFFICES ASSUME NEW l \in DOMAIN ancestors' PROVE l \in StoredLeaves'
    BY DEF ChainsHaveLeaves
  <2>1. l \in DOMAIN ancestors /\ l \notin dropped
    BY <1>2
  <2>2. l \in StoredLeaves
    BY <2>1 DEF MemInv, ChainsHaveLeaves
  <2>3. CASE l \in DOMAIN pool
    BY <1>1, <2>3 DEF StoredLeaves
  <2>4. CASE l \in ReservedLeaves
    <3>1. PICK q \in DOMAIN resv : l \in DOMAIN resv[q].leaves
      BY <2>4 DEF ReservedLeaves
    <3>2. CASE q = r
      BY <1>1, <2>1, <3>1, <3>2 DEF StoredLeaves
    <3>3. CASE q # r
      BY <1>3, <1>4, <3>1, <3>3 DEF StoredLeaves, ReservedLeaves
    <3> QED BY <3>2, <3>3
  <2> QED BY <2>2, <2>3, <2>4 DEF StoredLeaves
<1> QED BY <1>5, <1>6, <1>7 DEF MemInv

(* process_cancel_reservation *)
LEMMA CancelInv ==
    ASSUME MemInv, NEW r, NEW kept \in Listing, MemCancel(r, kept)
    PROVE  MemInv'
<1> DEFINE rows == [l \in DOMAIN kept |-> FromNode(kept[l], clock, FALSE)]
           prior == IF r \in DOMAIN resv THEN DOMAIN resv[r].leaves ELSE {}
           dropped == prior \ DOMAIN kept
<1>0. clock \in Time /\ spent \in Partial(Leaf, Time) /\ lastSwap \in Time \cup {Never}
  BY DEF MemInv, StoreTypeOK
<1>1. rows \in Partial(Leaf, Row) /\ DOMAIN rows = DOMAIN kept
  BY <1>0, RowsType
<1>2. /\ resv' = Drop(resv, {r})
      /\ permits' = IF r \in DOMAIN resv THEN permits + 1 ELSE permits
      /\ ancestors' = Drop(ancestors, dropped)
      /\ pool' = Put(pool, rows)
      /\ UNCHANGED <<inflight, clock>>
      /\ UNCHANGED <<spent, lastSwap>>
  BY DEF MemCancel
<1>3. r \in DOMAIN resv => DOMAIN resv[r].leaves \ DOMAIN rows \subseteq dropped
  BY <1>1
<1> HIDE DEF rows, prior, dropped
<1>4. spent' \in Partial(Leaf, Time) /\ lastSwap' \in Time \cup {Never}
  BY <1>0, <1>2
<1> QED BY <1>1, <1>2, <1>3, <1>4, ReleaseInv

(* process_finalize_reservation *)
LEMMA FinalizeInv ==
    ASSUME MemInv, NEW r, NEW hasNew, NEW new \in Listing, MemFinalize(r, hasNew, new)
    PROVE  MemInv'
<1> DEFINE rows == [l \in DOMAIN new |-> FromNode(new[l], clock, FALSE)]
           prior == IF r \in DOMAIN resv THEN DOMAIN resv[r].leaves ELSE {}
           marks == [l \in prior |-> clock]
<1>0. /\ StoreTypeOK
      /\ clock \in Time
      /\ spent \in Partial(Leaf, Time)
      /\ lastSwap \in Time \cup {Never}
  BY DEF MemInv, StoreTypeOK
<1>1. rows \in Partial(Leaf, Row)
  BY <1>0, RowsType
<1>2. /\ resv' = Drop(resv, {r})
      /\ permits' = IF r \in DOMAIN resv THEN permits + 1 ELSE permits
      /\ ancestors' = Drop(ancestors, prior)
      /\ pool' = Put(pool, rows)
      /\ UNCHANGED <<inflight, clock>>
  BY DEF MemFinalize
<1>3. r \in DOMAIN resv => DOMAIN resv[r].leaves \ DOMAIN rows \subseteq prior
  OBVIOUS
<1>4. spent' = Put(spent, marks) /\ lastSwap' \in {clock, lastSwap}
  BY DEF MemFinalize
<1>5. prior \in SUBSET Leaf
  <2>1. CASE r \in DOMAIN resv
    <3>1. resv[r].leaves \in Partial(Leaf, Row)
      BY <1>0, <2>1 DEF StoreTypeOK
    <3> QED BY <2>1, <3>1, PartialElim
  <2>2. CASE r \notin DOMAIN resv
    BY <2>2
  <2> QED BY <2>1, <2>2
<1>6. marks \in Partial(Leaf, Time)
  <2>1. marks \in [prior -> Time]
    BY <1>0
  <2> HIDE DEF marks, prior
  <2> QED BY <1>5, <2>1, PartialIntro
<1> HIDE DEF rows, prior, marks
<1>7. spent' \in Partial(Leaf, Time)
  <2>1. Put(spent, marks) \in Partial(Leaf, Time)
    BY <1>0, <1>6, PutType
  <2> QED BY <1>4, <2>1
<1>8. lastSwap' \in Time \cup {Never}
  BY <1>0, <1>4
<1> QED BY <1>1, <1>2, <1>3, <1>7, <1>8, ReleaseInv

(* process_update_reservation: the reservation keeps its permit *)
LEMMA UpdateInv ==
    ASSUME MemInv, NEW r, NEW reserved \in Listing, NEW change \in Listing,
           MemUpdate(r, reserved, change)
    PROVE  MemInv'
<1> DEFINE new  == [l \in DOMAIN reserved |-> FromNode(reserved[l], clock, FALSE)]
           rows == [l \in DOMAIN change |-> FromNode(change[l], clock, FALSE)]
           prior == DOMAIN resv[r].leaves
<1>0. /\ StoreTypeOK
      /\ clock \in Time
      /\ pool \in Partial(Leaf, Row)
      /\ ancestors \in Partial(Leaf, SUBSET Node)
  BY DEF MemInv, StoreTypeOK
<1>1. new \in Partial(Leaf, Row) /\ rows \in Partial(Leaf, Row)
  BY <1>0, RowsType
<1>2. /\ r \in DOMAIN resv
      /\ resv' = [resv EXCEPT ![r].leaves = new, ![r].pending = 0]
      /\ ancestors' = Drop(ancestors, prior)
      /\ pool' = Put(pool, rows)
      /\ UNCHANGED <<spent, lastSwap, permits, inflight, clock>>
  BY DEF MemUpdate
<1> HIDE DEF new, rows
<1>3. pool' \in Partial(Leaf, Row) /\ DOMAIN pool' = DOMAIN pool \cup DOMAIN rows
  <2>1. Put(pool, rows) \in Partial(Leaf, Row)
    BY <1>0, <1>1, PutType
  <2> QED BY <1>2, <2>1, PutDomain
<1>4. ancestors' \in Partial(Leaf, SUBSET Node) /\ DOMAIN ancestors' = DOMAIN ancestors \ prior
  <2> HIDE DEF prior
  <2>1. Drop(ancestors, prior) \in Partial(Leaf, SUBSET Node)
    BY <1>0, DropType
  <2> QED BY <1>2, <2>1, DropDomain
<1>5. /\ DOMAIN resv' = DOMAIN resv
      /\ \A q \in DOMAIN resv \ {r} : resv'[q] = resv[q]
      /\ resv'[r] = [[resv[r] EXCEPT !.leaves = new] EXCEPT !.pending = 0]
  BY <1>2
<1>6. resv'[r].leaves = new /\ resv'[r].purpose = resv[r].purpose
  BY <1>5
<1>7. StoreTypeOK'
  <2>1. ASSUME NEW q \in DOMAIN resv'
        PROVE  resv'[q].leaves \in Partial(Leaf, Row) /\ resv'[q].purpose \in Purpose
    <3>1. resv[q].leaves \in Partial(Leaf, Row) /\ resv[q].purpose \in Purpose
      BY <1>0, <1>5 DEF StoreTypeOK
    <3>2. CASE q = r
      BY <1>1, <1>6, <3>1, <3>2
    <3>3. CASE q # r
      BY <1>5, <3>1, <3>3
    <3> QED BY <3>2, <3>3
  <2> QED BY <1>0, <1>2, <1>3, <1>4, <1>5, <2>1 DEF StoreTypeOK
<1>8. PermitsConserved'
  BY <1>2, <1>5 DEF MemInv, PermitsConserved
<1>9. ChainsHaveLeaves'
  <2> SUFFICES ASSUME NEW l \in DOMAIN ancestors' PROVE l \in StoredLeaves'
    BY DEF ChainsHaveLeaves
  <2>1. l \in DOMAIN ancestors /\ l \notin prior
    BY <1>4
  <2>2. l \in StoredLeaves
    BY <2>1 DEF MemInv, ChainsHaveLeaves
  <2>3. CASE l \in DOMAIN pool
    BY <1>3, <2>3 DEF StoredLeaves
  <2>4. CASE l \in ReservedLeaves
    <3>1. PICK q \in DOMAIN resv : l \in DOMAIN resv[q].leaves
      BY <2>4 DEF ReservedLeaves
    <3>2. q # r
      BY <2>1, <3>1
    <3> QED BY <1>5, <3>1, <3>2 DEF StoredLeaves, ReservedLeaves
  <2> QED BY <2>2, <2>3, <2>4 DEF StoredLeaves
<1> QED BY <1>7, <1>8, <1>9 DEF MemInv

-----------------------------------------------------------------------------
(* Every step of any caller preserves the invariant. *)
LEMMA NextInv == MemInv /\ [MemNext]_storeVars => MemInv'
<1> SUFFICES ASSUME MemInv, [MemNext]_storeVars PROVE MemInv'
  OBVIOUS
<1>1. CASE UNCHANGED storeVars
  BY <1>1, StutterInv
<1>2. CASE ClockTick
  BY <1>2, TickInv
<1>3. CASE \E nodes \in Batch : MemAddLeaves(nodes)
  BY <1>3, AddLeavesInv, BatchIsListing
<1>4. CASE \E nodes, missing \in Batch, startedAt \in 0 .. clock :
              MemSetLeaves(nodes, missing, startedAt)
  BY <1>4, SetLeavesInv, BatchIsListing
<1>5. CASE \E chains \in Partial(Leaf, SUBSET Node) : MemStoreAncestors(chains)
  BY <1>5, StoreAncestorsInv
<1>6. CASE MemAcquirePermit
  BY <1>6, AcquirePermitInv
<1>7. CASE \E r \in Reservation, S \in SUBSET Leaf, tgt \in Target, exactOnly \in BOOLEAN,
             purpose \in Purpose : MemTryReserve(r, S, tgt, exactOnly, purpose)
  <2>1. PICK r \in Reservation, S \in SUBSET Leaf, tgt \in Target, exactOnly \in BOOLEAN,
             purpose \in Purpose : MemTryReserve(r, S, tgt, exactOnly, purpose)
    BY <1>7
  <2>2. \/ ReserveInternal(r, S, purpose, 0)
        \/ ReserveInternal(r, S, purpose, PendingChange(S, tgt))
    BY <2>1 DEF MemTryReserve
  <2> QED BY <2>2, ReserveInternalInv
<1>8. CASE \E tgt \in Target, exactOnly \in BOOLEAN : MemWaitForPending(tgt, exactOnly)
  BY <1>8, ReserveRejectedInv DEF MemWaitForPending
<1>9. CASE \E tgt \in Target, exactOnly \in BOOLEAN : MemInsufficientFunds(tgt, exactOnly)
  BY <1>9, ReserveRejectedInv DEF MemInsufficientFunds
<1>10. CASE \E r \in Reservation, S \in SUBSET Leaf, purpose \in Purpose :
               MemReserveByIds(r, S, purpose)
  BY <1>10, ReserveInternalInv DEF MemReserveByIds
<1>11. CASE \E r \in Reservation, keep \in Batch : MemCancel(r, keep)
  BY <1>11, CancelInv, BatchIsListing
<1>12. CASE \E r \in Reservation, hasNew \in BOOLEAN, new \in Batch :
               /\ ~hasNew => new = EmptyMap
               /\ MemFinalize(r, hasNew, new)
  BY <1>12, FinalizeInv, BatchIsListing
<1>13. CASE \E r \in Reservation, reserved, change \in Batch : MemUpdate(r, reserved, change)
  BY <1>13, UpdateInv, BatchIsListing
<1> QED BY <1>1, <1>2, <1>3, <1>4, <1>5, <1>6, <1>7, <1>8, <1>9, <1>10, <1>11, <1>12, <1>13
        DEF MemNext

(* The inductive invariant holds in every reachable state. *)
LEMMA MemInvariant == MemSpec => []MemInv
<1> QED BY InitInv, NextInv, PTL DEF MemSpec

(* InMemoryTreeStore's state keeps its type under any sequence of commands *)
(* from any callers.                                                       *)
THEOREM MemTypeCorrect == MemSpec => []StoreTypeOK
<1>1. MemInv => StoreTypeOK
  BY DEF MemInv
<1> QED BY <1>1, MemInvariant, PTL

(* No sequence of reserves, cancels, finalizes and updates, of reservations *)
(* that exist or are gone, leaks a permit of the reservation semaphore or  *)
(* returns one twice.                                                      *)
THEOREM PermitsAlwaysConserved == MemSpec => []PermitsConserved
<1>1. MemInv => PermitsConserved
  BY DEF MemInv
<1> QED BY <1>1, MemInvariant, PTL

(* No sequence of commands leaves behind an ancestor chain whose leaf is   *)
(* no longer stored: refreshes, cancels, finalizes and updates that drop a *)
(* leaf drop its chain.                                                    *)
THEOREM ChainsAlwaysHaveLeaves == MemSpec => []ChainsHaveLeaves
<1>1. MemInv => ChainsHaveLeaves
  BY DEF MemInv
<1> QED BY <1>1, MemInvariant, PTL

-----------------------------------------------------------------------------
(* A step that leaves a reservation with its leaves, or makes one that     *)
(* expects back less than it holds.                                        *)
LEMMA PendingKeeps ==
    ASSUME PendingBelowReserved,
           \A q \in DOMAIN resv' :
              \/ /\ q \in DOMAIN resv
                 /\ resv'[q].pending = resv[q].pending
                 /\ DOMAIN resv'[q].leaves = DOMAIN resv[q].leaves
              \/ resv'[q].pending = 0
              \/ resv'[q].pending < Sats(DOMAIN resv'[q].leaves)
    PROVE  PendingBelowReserved'
<1> SUFFICES ASSUME NEW q \in DOMAIN resv', resv'[q].pending > 0
             PROVE  resv'[q].pending < Sats(DOMAIN resv'[q].leaves)
  BY DEF PendingBelowReserved
<1>1. CASE /\ q \in DOMAIN resv
           /\ resv'[q].pending = resv[q].pending
           /\ DOMAIN resv'[q].leaves = DOMAIN resv[q].leaves
  <2>1. resv[q].pending > 0 => resv[q].pending < Sats(DOMAIN resv[q].leaves)
    BY <1>1 DEF PendingBelowReserved
  <2> QED BY <1>1, <2>1
<1> QED BY <1>1

(* Updating the holders' copies of a leaf changes no expected change. *)
LEMMA RefreshedPending ==
    ASSUME StoreTypeOK, PendingBelowReserved, NEW h, NEW rows, resv' = Refreshed(h, rows)
    PROVE  PendingBelowReserved'
<1>1. DOMAIN resv' = DOMAIN resv
  BY DEF Refreshed
<1>2. ASSUME NEW q \in DOMAIN resv
      PROVE  resv'[q].pending = resv[q].pending /\ DOMAIN resv'[q].leaves = DOMAIN resv[q].leaves
  <2> DEFINE f == [l \in DOMAIN resv[q].leaves |->
                     IF l \in DOMAIN h /\ h[l] = q THEN rows[l] ELSE resv[q].leaves[l]]
  <2>1. resv'[q] = [resv[q] EXCEPT !.leaves = f]
    BY DEF Refreshed
  <2>2. DOMAIN f = DOMAIN resv[q].leaves
    OBVIOUS
  <2> HIDE DEF f
  <2>3. resv'[q].leaves = f /\ resv'[q].pending = resv[q].pending
    BY <2>1
  <2> QED BY <2>2, <2>3
<1> QED BY <1>1, <1>2, PendingKeeps

(* What reserve_internal promises is less than what it takes. *)
LEMMA ReservePending ==
    ASSUME StoreTypeOK, PendingBelowReserved, NEW r, NEW S, NEW purpose, NEW n,
           ReserveInternal(r, S, purpose, n), n = 0 \/ n < Sats(S)
    PROVE  PendingBelowReserved'
<1> DEFINE e == [leaves |-> Restrict(pool, S), purpose |-> purpose, pending |-> n, created |-> 0]
<1>1. S \subseteq DOMAIN pool /\ r \notin DOMAIN resv /\ resv' = Put(resv, Pair(r, e))
  BY DEF ReserveInternal
<1>2. e.pending = n /\ DOMAIN e.leaves = S
  BY <1>1 DEF Restrict
<1> HIDE DEF e
<1>3. ASSUME NEW q \in DOMAIN resv' PROVE IF q = r THEN resv'[q] = e ELSE q \in DOMAIN resv /\ resv'[q] = resv[q]
  BY <1>1, <1>3 DEF Put, Pair
<1> QED BY <1>2, <1>3, PendingKeeps

(* Dropping a reservation drops what it expects. *)
LEMMA ReleasePending ==
    ASSUME PendingBelowReserved, NEW r, resv' = Drop(resv, {r})
    PROVE  PendingBelowReserved'
<1>1. ASSUME NEW q \in DOMAIN resv' PROVE q \in DOMAIN resv /\ resv'[q] = resv[q]
  BY <1>1 DEF Drop
<1> QED BY <1>1, PendingKeeps

LEMMA PendingNext == MemInv /\ PendingBelowReserved /\ [MemNext]_storeVars => PendingBelowReserved'
<1> SUFFICES ASSUME MemInv, PendingBelowReserved, [MemNext]_storeVars PROVE PendingBelowReserved'
  OBVIOUS
<1>0. StoreTypeOK /\ DOMAIN pool \subseteq Leaf
  <2>1. StoreTypeOK /\ pool \in Partial(Leaf, Row)
    BY DEF MemInv, StoreTypeOK
  <2> QED BY <2>1, PartialElim
<1>1. CASE UNCHANGED resv
  BY <1>1 DEF PendingBelowReserved
<1>2. ASSUME NEW nodes \in Batch, MemAddLeaves(nodes) PROVE PendingBelowReserved'
  BY <1>0, <1>2, RefreshedPending DEF MemAddLeaves
<1>3. ASSUME NEW nodes \in Batch, NEW missing \in Batch, NEW startedAt \in 0 .. clock,
             MemSetLeaves(nodes, missing, startedAt)
      PROVE  PendingBelowReserved'
  <2>1. UNCHANGED resv \/ \E h, rows : resv' = Refreshed(h, rows)
    BY <1>3 DEF MemSetLeaves, storeVars
  <2> QED BY <1>0, <1>1, <2>1, RefreshedPending
<1>4. ASSUME NEW r \in Reservation, NEW S \in SUBSET Leaf, NEW tgt \in Target, NEW exactOnly \in BOOLEAN,
             NEW purpose \in Purpose, MemTryReserve(r, S, tgt, exactOnly, purpose)
      PROVE  PendingBelowReserved'
  <2>1. Sats(S) \in Nat /\ TotalSats(tgt) \in Nat
    BY SatsNat, TotalSatsNat
  <2>2. PendingChange(S, tgt) = 0 \/ PendingChange(S, tgt) < Sats(S)
    <3>1. CASE TotalSats(tgt) > 0 /\ Sats(S) > TotalSats(tgt)
      BY <2>1, <3>1 DEF PendingChange
    <3>2. CASE ~(TotalSats(tgt) > 0 /\ Sats(S) > TotalSats(tgt))
      BY <3>2 DEF PendingChange
    <3> QED BY <3>1, <3>2
  <2>3. ReserveInternal(r, S, purpose, 0) \/ ReserveInternal(r, S, purpose, PendingChange(S, tgt))
    BY <1>4 DEF MemTryReserve
  <2> QED BY <1>0, <2>2, <2>3, ReservePending
<1>5. ASSUME NEW r \in Reservation, NEW S \in SUBSET Leaf, NEW purpose \in Purpose, MemReserveByIds(r, S, purpose)
      PROVE  PendingBelowReserved'
  BY <1>0, <1>5, ReservePending DEF MemReserveByIds
<1>6. ASSUME NEW r \in Reservation, (\E keep \in Batch : MemCancel(r, keep))
                                    \/ \E hasNew \in BOOLEAN, new \in Batch : MemFinalize(r, hasNew, new)
      PROVE  PendingBelowReserved'
  BY <1>6, ReleasePending DEF MemCancel, MemFinalize
<1>7. ASSUME NEW r \in Reservation, NEW reserved \in Batch, NEW change \in Batch, MemUpdate(r, reserved, change)
      PROVE  PendingBelowReserved'
  <2> DEFINE new == [l \in DOMAIN reserved |-> FromNode(reserved[l], clock, FALSE)]
  <2>1. r \in DOMAIN resv /\ resv' = [resv EXCEPT ![r].leaves = new, ![r].pending = 0]
    BY <1>7 DEF MemUpdate
  <2> HIDE DEF new
  <2>2. /\ DOMAIN resv' = DOMAIN resv
        /\ \A q \in DOMAIN resv \ {r} : resv'[q] = resv[q]
        /\ resv'[r] = [[resv[r] EXCEPT !.leaves = new] EXCEPT !.pending = 0]
    BY <2>1
  <2>3. resv'[r].pending = 0
    BY <2>2
  <2> QED BY <2>2, <2>3, PendingKeeps
<1>8. CASE MemNext
  <2>1. ClockTick \/ MemAcquirePermit \/ MemReserveRejected => UNCHANGED resv
    BY DEF ClockTick, MemAcquirePermit, MemReserveRejected
  <2>2. \A chains : MemStoreAncestors(chains) => UNCHANGED resv
    BY DEF MemStoreAncestors
  <2> QED BY <1>1, <1>2, <1>3, <1>4, <1>5, <1>6, <1>7, <1>8, <2>1, <2>2
          DEF MemNext, MemWaitForPending, MemInsufficientFunds
<1> QED BY <1>1, <1>8 DEF storeVars

(* pending_balance never promises waiting payments more than the reserved  *)
(* leaves can return, and nothing for a reservation that was updated.      *)
THEOREM PendingAlwaysBelow == MemSpec => []PendingBelowReserved
<1>1. StoreInit => PendingBelowReserved
  BY EmptyMapType DEF StoreInit, PendingBelowReserved
<1>2. MemInv /\ PendingBelowReserved /\ [MemNext]_storeVars => PendingBelowReserved'
  BY PendingNext
<1> QED BY <1>1, <1>2, MemInvariant, PTL DEF MemSpec

-----------------------------------------------------------------------------
(***************************************************************************)
(* PostgresTreeStore                                                       *)
(***************************************************************************)

(* The leaves of the rows of table e that have a reservation_id. *)
HeldIn(e) == UNION {DOMAIN e[r].leaves : r \in DOMAIN e}

(***************************************************************************)
(* The tables p (unreserved rows) and e (reservations): well typed and at  *)
(* most one row per leaf.  Commands are sequences of statements; this is   *)
(* what each statement preserves.                                          *)
(***************************************************************************)
TablesOK(p, e) ==
    /\ p \in Partial(Leaf, Row)
    /\ DOMAIN e \subseteq Reservation
    /\ \A r \in DOMAIN e : e[r].leaves \in Partial(Leaf, Row) /\ e[r].purpose \in Purpose
    /\ DOMAIN p \cap HeldIn(e) = {}
    /\ \A r, q \in DOMAIN e : r # q => DOMAIN e[r].leaves \cap DOMAIN e[q].leaves = {}

(* The inductive invariant: the tables, and what of the type they leave    *)
(* out.                                                                    *)
SqlInv ==
    /\ TablesOK(pool, resv)
    /\ spent \in Partial(Leaf, Time)
    /\ ancestors \in Partial(Leaf, SUBSET Node)
    /\ lastSwap \in Time \cup {Never}
    /\ permits \in Nat
    /\ inflight \in Nat
    /\ clock \in Time

(* The invariant contains the type, and that a leaf is in one place. *)
LEMMA SqlInvMeans == SqlInv => StoreTypeOK /\ ReservedOnce
<1> SUFFICES ASSUME SqlInv PROVE StoreTypeOK /\ ReservedOnce
  OBVIOUS
<1>1. StoreTypeOK
  BY DEF SqlInv, TablesOK, StoreTypeOK
<1>2. ReservedOnce
  BY DEF SqlInv, TablesOK, ReservedOnce, ReservedLeaves, HeldIn
<1> QED BY <1>1, <1>2

(* When a transaction that is running now may have begun. *)
LEMMA PastIsTime ==
    ASSUME SqlInv, NEW now \in 0 .. clock
    PROVE  now \in Time
BY MaxTimeAssumption DEF SqlInv, Time

(* A new store satisfies it. *)
LEMMA SqlInitInv == StoreInit => SqlInv
<1> SUFFICES ASSUME StoreInit PROVE SqlInv
  OBVIOUS
<1>1. /\ pool \in Partial(Leaf, Row)
      /\ spent \in Partial(Leaf, Time)
      /\ ancestors \in Partial(Leaf, SUBSET Node)
      /\ DOMAIN pool = {} /\ DOMAIN resv = {} /\ DOMAIN spent = {} /\ DOMAIN ancestors = {}
  BY EmptyMapType DEF StoreInit
<1>2. HeldIn(resv) = {}
  BY <1>1 DEF HeldIn
<1>3. TablesOK(pool, resv)
  BY <1>1, <1>2 DEF TablesOK
<1> QED BY <1>1, <1>2, <1>3, MaxTimeAssumption, PermitAssumption 
        DEF SqlInv, StoreInit, Time, Never

-----------------------------------------------------------------------------
(* What the statements do to the tables. *)

(* Deleting reservations together with their rows. *)
LEMMA DeleteReservations ==
    ASSUME NEW p, NEW e, TablesOK(p, e), NEW R
    PROVE  /\ TablesOK(p, Drop(e, R))
           /\ DOMAIN Drop(e, R) = DOMAIN e \ R
           /\ \A r \in DOMAIN e \ R : Drop(e, R)[r] = e[r]
           /\ HeldIn(Drop(e, R)) = UNION {DOMAIN e[r].leaves : r \in DOMAIN e \ R}
<1>1. DOMAIN Drop(e, R) = DOMAIN e \ R
  BY DropDomain
<1>2. \A r \in DOMAIN e \ R : Drop(e, R)[r] = e[r]
  BY DEF Drop
<1>3. HeldIn(Drop(e, R)) = UNION {DOMAIN e[r].leaves : r \in DOMAIN e \ R}
  BY <1>1, <1>2 DEF HeldIn
<1>4. HeldIn(Drop(e, R)) \subseteq HeldIn(e)
  BY <1>3 DEF HeldIn
<1>5. TablesOK(p, Drop(e, R))
  BY <1>1, <1>2, <1>4 DEF TablesOK
<1> QED BY <1>1, <1>2, <1>3, <1>5

(* Deleting unreserved rows. *)
LEMMA DeleteRows ==
    ASSUME NEW p, NEW e, TablesOK(p, e), NEW D
    PROVE  TablesOK(Drop(p, D), e)
<1>1. p \in Partial(Leaf, Row)
  BY DEF TablesOK
<1>2. Drop(p, D) \in Partial(Leaf, Row)
  BY <1>1, DropType
<1>3. DOMAIN Drop(p, D) = DOMAIN p \ D
  BY DropDomain
<1>4. \A l \in DOMAIN p \ D : Drop(p, D)[l] = p[l]
  BY DEF Drop
<1> QED BY <1>2, <1>3, <1>4 DEF TablesOK

(* batch_upsert_leaves: which leaves have an unreserved row afterwards, *)
LEMMA UpsertPoolDomain ==
    ASSUME NEW p, NEW e, NEW rows
    PROVE  DOMAIN UpsertPool(p, e, rows) = DOMAIN p \cup (DOMAIN rows \ HeldIn(e))
<1>1. UpsertPool(p, e, rows) = Put(p, Drop(rows, HeldIn(e)))
  BY DEF UpsertPool, HeldIn
<1>2. DOMAIN Drop(rows, HeldIn(e)) = DOMAIN rows \ HeldIn(e)
  BY DropDomain
<1> QED BY <1>1, <1>2, PutDomain

(* ... which have one in each reservation, *)
LEMMA UpsertReservedDomain ==
    ASSUME NEW e, NEW rows, NEW r \in DOMAIN e
    PROVE  DOMAIN UpsertReserved(e, rows)[r].leaves = DOMAIN e[r].leaves
<1> DEFINE f == [l \in DOMAIN e[r].leaves |-> IF l \in DOMAIN rows THEN rows[l] ELSE e[r].leaves[l]]
<1>1. UpsertReserved(e, rows)[r] = [e[r] EXCEPT !.leaves = f]
  BY DEF UpsertReserved
<1>2. UpsertReserved(e, rows)[r].leaves = f
  BY <1>1
<1> QED BY <1>2

(* ... and which have one in some reservation. *)
LEMMA UpsertHeld ==
    ASSUME NEW e, NEW rows
    PROVE  HeldIn(UpsertReserved(e, rows)) = HeldIn(e)
<1>1. DOMAIN UpsertReserved(e, rows) = DOMAIN e
  BY DEF UpsertReserved
<1> QED BY <1>1, UpsertReservedDomain DEF HeldIn

(* ... and the rows stay in order. *)
LEMMA UpsertTables ==
    ASSUME NEW p, NEW e, TablesOK(p, e), NEW rows \in Partial(Leaf, Row)
    PROVE  TablesOK(UpsertPool(p, e, rows), UpsertReserved(e, rows))
<1> DEFINE fresh == Drop(rows, HeldIn(e))
           np == UpsertPool(p, e, rows)
           ne == UpsertReserved(e, rows)
<1>0. rows \in [DOMAIN rows -> Row]
  BY PartialElim
<1>1. /\ fresh \in Partial(Leaf, Row)
      /\ DOMAIN fresh = DOMAIN rows \ HeldIn(e)
      /\ \A l \in DOMAIN fresh : fresh[l] = rows[l]
  <2>1. fresh \in Partial(Leaf, Row)
    BY <1>0, DropType
  <2>2. DOMAIN fresh = DOMAIN rows \ HeldIn(e)
    BY DropDomain
  <2>3. \A l \in DOMAIN fresh : fresh[l] = rows[l]
    BY DEF Drop
  <2> QED BY <2>1, <2>2, <2>3
<1>2. np = Put(p, fresh)
  BY DEF UpsertPool, HeldIn
<1> HIDE DEF fresh
<1>3. p \in Partial(Leaf, Row)
  BY DEF TablesOK
<1>4. Put(p, fresh) \in Partial(Leaf, Row)
  BY <1>1, <1>3, PutType
<1>5. DOMAIN np = DOMAIN p \cup (DOMAIN rows \ HeldIn(e))
  BY <1>1, <1>2, PutDomain
<1>6. \A l \in DOMAIN np : np[l] = IF l \in DOMAIN fresh THEN fresh[l] ELSE p[l]
  BY <1>2 DEF Put
<1>7. DOMAIN ne = DOMAIN e
  BY DEF UpsertReserved
<1>8. ASSUME NEW r \in DOMAIN e
      PROVE  /\ ne[r].leaves \in Partial(Leaf, Row)
             /\ DOMAIN ne[r].leaves = DOMAIN e[r].leaves
             /\ ne[r].purpose = e[r].purpose
             /\ \A l \in DOMAIN e[r].leaves :
                   ne[r].leaves[l] = IF l \in DOMAIN rows THEN rows[l] ELSE e[r].leaves[l]
  <2> DEFINE f == [l \in DOMAIN e[r].leaves |-> IF l \in DOMAIN rows THEN rows[l] ELSE e[r].leaves[l]]
  <2>1. e[r].leaves \in Partial(Leaf, Row)
    BY DEF TablesOK
  <2>2. DOMAIN e[r].leaves \subseteq Leaf /\ e[r].leaves \in [DOMAIN e[r].leaves -> Row]
    BY <2>1, PartialElim
  <2>3. f \in [DOMAIN e[r].leaves -> Row]
    BY <1>0, <2>2
  <2>4. f \in Partial(Leaf, Row)
    BY <2>2, <2>3, PartialIntro
  <2>5. ne[r] = [e[r] EXCEPT !.leaves = f]
    BY DEF UpsertReserved
  <2>6. ne[r].leaves = f /\ ne[r].purpose = e[r].purpose
    BY <2>5
  <2> QED BY <2>3, <2>4, <2>6
<1> HIDE DEF np, ne
<1>9. HeldIn(ne) = HeldIn(e)
  BY <1>7, <1>8 DEF HeldIn
<1>10. TablesOK(np, ne)
  <2>1. np \in Partial(Leaf, Row)
    BY <1>2, <1>4
  <2>2. DOMAIN ne \subseteq Reservation
    BY <1>7 DEF TablesOK
  <2>3. \A r \in DOMAIN ne : ne[r].leaves \in Partial(Leaf, Row) /\ ne[r].purpose \in Purpose
    BY <1>7, <1>8 DEF TablesOK
  <2>4. DOMAIN np \cap HeldIn(ne) = {}
    BY <1>5, <1>9 DEF TablesOK
  <2>5. \A r, q \in DOMAIN ne : r # q => DOMAIN ne[r].leaves \cap DOMAIN ne[q].leaves = {}
    BY <1>7, <1>8 DEF TablesOK
  <2> QED BY <2>1, <2>2, <2>3, <2>4, <2>5 DEF TablesOK
<1> QED BY <1>10 DEF np, ne

(* The rows of a batch. *)
LEMMA RowsFacts ==
    ASSUME NEW nodes \in Listing, NEW m \in BOOLEAN, NEW now \in Time
    PROVE  /\ Rows(nodes, m, now) \in Partial(Leaf, Row)
           /\ DOMAIN Rows(nodes, m, now) = DOMAIN nodes
<1>1. DOMAIN nodes \subseteq Leaf /\ nodes \in [DOMAIN nodes -> NodeData]
  BY ListingElim
<1>2. \A l \in DOMAIN nodes : FromNode(nodes[l], now, m) \in Row
  BY <1>1 DEF FromNode, NodeData, Row
<1>3. Rows(nodes, m, now) \in [DOMAIN nodes -> Row]
  BY <1>2 DEF Rows
<1> QED BY <1>1, <1>3, PartialIntro

(* batch_insert_spent_leaves *)
LEMMA MarkSpentFacts ==
    ASSUME SqlInv, NEW ids \in SUBSET Leaf, NEW now \in Time
    PROVE  /\ MarkSpent(ids, now) \in Partial(Leaf, Time)
           /\ DOMAIN MarkSpent(ids, now) = ids \cup DOMAIN spent
           /\ \A l \in DOMAIN spent : MarkSpent(ids, now)[l] = spent[l]
<1> DEFINE new == [l \in ids |-> now]
<1>0. spent \in Partial(Leaf, Time)
  BY DEF SqlInv
<1>1. new \in [ids -> Time]
  OBVIOUS
<1>2. MarkSpent(ids, now) = Put(new, spent)
  BY DEF MarkSpent
<1> HIDE DEF new
<1>3. new \in Partial(Leaf, Time)
  BY <1>1, PartialIntro
<1>4. Put(new, spent) \in Partial(Leaf, Time)
  BY <1>0, <1>3, PutType
<1>5. DOMAIN Put(new, spent) = ids \cup DOMAIN spent
  BY <1>1, PutDomain
<1>6. \A l \in DOMAIN spent : Put(new, spent)[l] = spent[l]
  BY DEF Put
<1> QED BY <1>2, <1>4, <1>5, <1>6

(* The leaves of a reservation. *)
LEMMA PriorInside ==
    ASSUME SqlInv, NEW r
    PROVE  (IF r \in DOMAIN resv THEN DOMAIN resv[r].leaves ELSE {}) \in SUBSET Leaf
<1>1. CASE r \in DOMAIN resv
  <2>1. resv[r].leaves \in Partial(Leaf, Row)
    BY <1>1 DEF SqlInv, TablesOK
  <2> QED BY <1>1, <2>1, PartialElim
<1>2. CASE r \notin DOMAIN resv
  BY <1>2
<1> QED BY <1>1, <1>2

-----------------------------------------------------------------------------
(* One lemma per command. *)

(* A step that leaves the store alone, and the passing of time. *)
LEMMA SqlStutterInv == SqlInv /\ UNCHANGED storeVars => SqlInv'
BY DEF SqlInv, TablesOK, HeldIn, storeVars

(* The passing of time. *)
LEMMA SqlTickInv == SqlInv /\ ClockTick => SqlInv'
<1> SUFFICES ASSUME SqlInv, ClockTick PROVE SqlInv'
  OBVIOUS
<1>1. clock' \in Time
  BY MaxTimeAssumption DEF SqlInv, ClockTick, Time
<1>2. UNCHANGED <<pool, resv, spent, lastSwap, ancestors, permits, inflight>>
  BY DEF ClockTick
<1>3. TablesOK(pool, resv)'
  BY <1>2 DEF SqlInv, TablesOK, HeldIn
<1> QED BY <1>1, <1>2, <1>3 DEF SqlInv

(* add_leaves *)
LEMMA SqlAddLeavesInv ==
    ASSUME SqlInv, NEW nodes \in Listing, NEW unmarked, NEW now \in Time,
           SqlAddLeaves(nodes, unmarked, now)
    PROVE  SqlInv'
<1> DEFINE rows == Rows(nodes, FALSE, now)
<1>0. TablesOK(pool, resv) /\ spent \in Partial(Leaf, Time)
  BY DEF SqlInv
<1>1. /\ spent' = Drop(spent, unmarked)
      /\ pool' = UpsertPool(pool, resv, rows)
      /\ resv' = UpsertReserved(resv, rows)
      /\ UNCHANGED <<lastSwap, ancestors, permits, inflight, clock>>
  BY DEF SqlAddLeaves
<1>2. rows \in Partial(Leaf, Row)
  BY RowsFacts
<1>3. Drop(spent, unmarked) \in Partial(Leaf, Time)
  BY <1>0, DropType
<1> HIDE DEF rows
<1>4. TablesOK(UpsertPool(pool, resv, rows), UpsertReserved(resv, rows))
  BY <1>0, <1>2, UpsertTables
<1>5. TablesOK(pool, resv)'
  BY <1>1, <1>4
<1> QED BY <1>1, <1>3, <1>5 DEF SqlInv

(* store_ancestors *)
LEMMA SqlStoreAncestorsInv ==
    ASSUME SqlInv, NEW chains \in Partial(Leaf, SUBSET Node), SqlStoreAncestors(chains)
    PROVE  SqlInv'
<1> DEFINE S == {l \in DOMAIN chains \cap StoredLeaves : chains[l] # {}}
           new == Restrict(chains, S)
<1>0. ancestors \in Partial(Leaf, SUBSET Node)
  BY DEF SqlInv
<1>1. new \in Partial(Leaf, SUBSET Node)
  BY RestrictType
<1>2. ancestors' = Put(ancestors, new)
  BY DEF SqlStoreAncestors
<1> HIDE DEF new
<1>3. Put(ancestors, new) \in Partial(Leaf, SUBSET Node)
  BY <1>0, <1>1, PutType
<1>4. UNCHANGED <<pool, resv, spent, lastSwap, permits, inflight, clock>>
  BY DEF SqlStoreAncestors
<1>5. TablesOK(pool, resv)'
  BY <1>4 DEF SqlInv, TablesOK, HeldIn
<1> QED BY <1>2, <1>3, <1>4, <1>5 DEF SqlInv

(* create_reservation moves rows from the pool to a new reservation. *)
LEMMA CreateReservationInv ==
    ASSUME SqlInv, NEW r \in Reservation, NEW S, S \subseteq DOMAIN pool,
           NEW purpose \in Purpose, NEW pending, NEW now, CreateReservation(r, S, purpose, pending, now)
    PROVE  SqlInv'
<1> DEFINE e == [leaves |-> Restrict(pool, S), purpose |-> purpose,
                 pending |-> pending, created |-> now]
<1>0. TablesOK(pool, resv) /\ pool \in Partial(Leaf, Row)
  BY DEF SqlInv, TablesOK
<1>1. /\ r \notin DOMAIN resv
      /\ resv' = Put(resv, Pair(r, e))
      /\ pool' = Drop(pool, S)
      /\ UNCHANGED <<spent, lastSwap, ancestors, permits, inflight, clock>>
  BY DEF CreateReservation
<1>2. Restrict(pool, S) \in Partial(Leaf, Row) /\ DOMAIN Restrict(pool, S) = S
  BY <1>0, RestrictType
<1>4. e.leaves = Restrict(pool, S) /\ e.purpose = purpose
  OBVIOUS
<1> HIDE DEF e
<1>5. /\ DOMAIN resv' = DOMAIN resv \cup {r}
      /\ resv'[r] = e
      /\ \A q \in DOMAIN resv : resv'[q] = resv[q]
  BY <1>1 DEF Put, Pair
<1>6. TablesOK(Drop(pool, S), resv)
  BY <1>0, DeleteRows
<1>7. DOMAIN pool' = DOMAIN pool \ S
  BY <1>1, DropDomain
<1>8. HeldIn(resv') = HeldIn(resv) \cup S
  BY <1>1, <1>2, <1>4, <1>5 DEF HeldIn
<1>9. TablesOK(pool, resv)'
  <2>1. pool' \in Partial(Leaf, Row)
    BY <1>1, <1>6 DEF TablesOK
  <2>2. DOMAIN resv' \subseteq Reservation
    BY <1>0, <1>5 DEF TablesOK
  <2>3. \A q \in DOMAIN resv' : resv'[q].leaves \in Partial(Leaf, Row) /\ resv'[q].purpose \in Purpose
    BY <1>0, <1>2, <1>4, <1>5 DEF TablesOK
  <2>4. DOMAIN pool' \cap HeldIn(resv') = {}
    BY <1>0, <1>7, <1>8 DEF TablesOK
  <2>5. ASSUME NEW q1 \in DOMAIN resv', NEW q2 \in DOMAIN resv', q1 # q2
        PROVE  DOMAIN resv'[q1].leaves \cap DOMAIN resv'[q2].leaves = {}
    <3>1. \A q \in DOMAIN resv : DOMAIN resv[q].leaves \cap S = {}
      BY <1>0 DEF TablesOK, HeldIn
    <3>2. CASE q1 = r
      BY <1>2, <1>4, <1>5, <2>5, <3>1, <3>2
    <3>3. CASE q2 = r
      BY <1>2, <1>4, <1>5, <2>5, <3>1, <3>3
    <3>4. CASE q1 # r /\ q2 # r
      BY <1>0, <1>5, <2>5, <3>4 DEF TablesOK
    <3> QED BY <3>2, <3>3, <3>4
  <2> QED BY <2>1, <2>2, <2>3, <2>4, <2>5 DEF TablesOK
<1> QED BY <1>1, <1>9 DEF SqlInv

(* try_reserve_leaves selects among the unreserved leaves. *)
LEMMA SqlTryReserveInv ==
    ASSUME SqlInv, NEW r \in Reservation, NEW S, NEW tgt, NEW exactOnly, NEW purpose \in Purpose,
           NEW now, SqlTryReserve(r, S, tgt, exactOnly, purpose, now)
    PROVE  SqlInv'
<1>1. PICK slim \in SlimCandidates(Selectable, tgt) :
         \/ S \in TargetSelections(slim, tgt) /\ CreateReservation(r, S, purpose, 0, now)
         \/ /\ S \in MinimumAmount(slim, TotalSats(tgt))
            /\ CreateReservation(r, S, purpose, SqlPendingChange(S, tgt), now)
  BY DEF SqlTryReserve
<1>2. slim \subseteq Selectable
  BY DEF SlimCandidates
<1>3. Selectable \subseteq DOMAIN pool
  BY DEF Selectable
<1>4. S \subseteq slim
  <2>1. CASE S \in TargetSelections(slim, tgt)
    BY <2>1, SelectionInside
  <2>2. CASE S \in MinimumAmount(slim, TotalSats(tgt))
    BY <2>2, MinimumInside
  <2> QED BY <1>1, <2>1, <2>2
<1>5. S \subseteq DOMAIN pool
  BY <1>2, <1>3, <1>4
<1> QED BY <1>1, <1>5, CreateReservationInv

(* try_reserve_leaves_by_ids *)
LEMMA SqlReserveByIdsInv ==
    ASSUME SqlInv, NEW r \in Reservation, NEW S, NEW purpose \in Purpose, NEW now,
           SqlReserveByIds(r, S, purpose, now)
    PROVE  SqlInv'
<1>1. S \subseteq DOMAIN pool /\ CreateReservation(r, S, purpose, 0, now)
  BY DEF SqlReserveByIds, Selectable
<1> QED BY <1>1, CreateReservationInv

-----------------------------------------------------------------------------
(* Cancelling and finalizing delete a reservation with its rows and upsert *)
(* others.                                                                 *)
LEMMA ReleaseTables ==
    ASSUME SqlInv, NEW r, NEW rows \in Partial(Leaf, Row)
    PROVE  TablesOK(UpsertPool(pool, Drop(resv, {r}), rows), UpsertReserved(Drop(resv, {r}), rows))
<1> DEFINE rest == Drop(resv, {r})
<1>1. TablesOK(pool, resv)
  BY DEF SqlInv
<1>2. TablesOK(pool, rest)
  BY <1>1, DeleteReservations
<1> HIDE DEF rest
<1>3. TablesOK(UpsertPool(pool, rest, rows), UpsertReserved(rest, rows))
  BY <1>2, UpsertTables
<1> QED BY <1>3 DEF rest

(* cancel_reservation *)
LEMMA SqlCancelInv ==
    ASSUME SqlInv, NEW r, NEW kept \in Listing, NEW now \in Time, SqlCancel(r, kept, now)
    PROVE  SqlInv'
<1> DEFINE rows == Rows(kept, FALSE, now)
           dropped == (IF r \in DOMAIN resv THEN DOMAIN resv[r].leaves ELSE {}) \ DOMAIN kept
<1>1. rows \in Partial(Leaf, Row)
  BY RowsFacts
<1>2. /\ resv' = UpsertReserved(Drop(resv, {r}), rows)
      /\ pool' = UpsertPool(pool, Drop(resv, {r}), rows)
      /\ ancestors' = Drop(ancestors, dropped)
      /\ UNCHANGED <<spent, lastSwap, permits, inflight, clock>>
  BY DEF SqlCancel
<1> HIDE DEF rows, dropped
<1>3. TablesOK(pool, resv)'
  BY <1>1, <1>2, ReleaseTables
<1>4. ancestors' \in Partial(Leaf, SUBSET Node)
  BY <1>2, DropType DEF SqlInv
<1> QED BY <1>2, <1>3, <1>4 DEF SqlInv

(* finalize_reservation *)
LEMMA SqlFinalizeInv ==
    ASSUME SqlInv, NEW r, NEW hasNew, NEW new \in Listing, NEW now \in Time,
           SqlFinalize(r, hasNew, new, now)
    PROVE  SqlInv'
<1> DEFINE rows == Rows(new, FALSE, now)
           prior == IF r \in DOMAIN resv THEN DOMAIN resv[r].leaves ELSE {}
<1>1. rows \in Partial(Leaf, Row)
  BY RowsFacts
<1>2. /\ resv' = UpsertReserved(Drop(resv, {r}), rows)
      /\ pool' = UpsertPool(pool, Drop(resv, {r}), rows)
      /\ ancestors' = Drop(ancestors, prior)
      /\ UNCHANGED <<permits, inflight, clock>>
      /\ spent' = MarkSpent(prior, now)
      /\ lastSwap' \in {now, lastSwap}
  BY DEF SqlFinalize
<1>3. prior \in SUBSET Leaf
  BY PriorInside
<1> HIDE DEF rows, prior
<1>4. TablesOK(pool, resv)'
  BY <1>1, <1>2, ReleaseTables
<1>5. ancestors' \in Partial(Leaf, SUBSET Node)
  BY <1>2, DropType DEF SqlInv
<1>6. spent' \in Partial(Leaf, Time)
  BY <1>2, <1>3, MarkSpentFacts
<1> QED BY <1>2, <1>4, <1>5, <1>6 DEF SqlInv

(* update_reservation: the reserved rows are taken from wherever they are, *)
(* so each still has one place.                                            *)
LEMMA SqlUpdateInv ==
    ASSUME SqlInv, NEW r, NEW reserved \in Listing, NEW change \in Listing, NEW now \in Time,
           SqlUpdate(r, reserved, change, now)
    PROVE  SqlInv'
<1> DEFINE prior == DOMAIN resv[r].leaves
           rest  == Drop(resv, {r})
           rows  == Rows(change, FALSE, now)
           new   == Rows(reserved, FALSE, now)
           marks == MarkSpent(prior, now)
           up    == UpsertPool(pool, rest, rows)
           ue    == UpsertReserved(rest, rows)
           taken == DOMAIN reserved
<1>0. TablesOK(pool, resv) /\ ancestors \in Partial(Leaf, SUBSET Node)
  BY DEF SqlInv
<1>1. /\ r \in DOMAIN resv
      /\ spent' = marks
      /\ ancestors' = Drop(ancestors, prior)
      /\ pool' = Drop(up, taken)
      /\ resv' = [q \in DOMAIN resv |->
                     IF q = r THEN [resv[r] EXCEPT !.leaves = new, !.pending = 0]
                     ELSE [ue[q] EXCEPT !.leaves = Drop(@, taken)]]
      /\ UNCHANGED <<lastSwap, permits, inflight, clock>>
  BY DEF SqlUpdate
<1>2. rows \in Partial(Leaf, Row)
  BY RowsFacts
<1>3. new \in Partial(Leaf, Row) /\ DOMAIN new = taken
  BY RowsFacts
<1>4. prior \in SUBSET Leaf
  BY <1>1, PriorInside
<1>5. DOMAIN rest = DOMAIN resv \ {r} /\ \A q \in DOMAIN resv \ {r} : rest[q] = resv[q]
  BY DEF Drop
<1>7. marks \in Partial(Leaf, Time)
  <2> HIDE DEF prior
  <2> QED BY <1>4, MarkSpentFacts
<1> HIDE DEF rows, new, marks, up, ue, taken
<1>8. TablesOK(pool, rest)
  BY <1>0, DeleteReservations
<1> HIDE DEF rest, prior
<1>9. TablesOK(up, ue)
  BY <1>2, <1>8, UpsertTables DEF up, ue
<1>12. DOMAIN ue = DOMAIN resv \ {r}
  BY <1>5 DEF ue, UpsertReserved
<1>13. TablesOK(Drop(up, taken), ue)
  BY <1>9, DeleteRows
<1>14. DOMAIN Drop(up, taken) = DOMAIN up \ taken
  BY DropDomain
<1>15. DOMAIN resv' = DOMAIN resv
  BY <1>1
<1>16. resv'[r].leaves = new /\ resv'[r].purpose = resv[r].purpose
  <2>1. resv'[r] = [[resv[r] EXCEPT !.leaves = new] EXCEPT !.pending = 0]
    BY <1>1
  <2> QED BY <2>1
<1>17. ASSUME NEW q \in DOMAIN resv \ {r}
       PROVE  /\ resv'[q].leaves \in Partial(Leaf, Row)
              /\ DOMAIN resv'[q].leaves = DOMAIN ue[q].leaves \ taken
              /\ \A l \in DOMAIN ue[q].leaves \ taken : resv'[q].leaves[l] = ue[q].leaves[l]
              /\ resv'[q].purpose = ue[q].purpose
  <2>1. resv'[q] = [ue[q] EXCEPT !.leaves = Drop(ue[q].leaves, taken)]
    BY <1>1
  <2>2. resv'[q].purpose = ue[q].purpose
    BY <2>1
  <2>3. q \in DOMAIN ue
    BY <1>12
  <2>4. ue[q].leaves \in Partial(Leaf, Row)
    BY <1>9, <2>3 DEF TablesOK
  <2>5. resv'[q].leaves = Drop(ue[q].leaves, taken)
    BY <2>1
  <2>6. Drop(ue[q].leaves, taken) \in Partial(Leaf, Row)
    BY <2>4, DropType
  <2>7. /\ DOMAIN Drop(ue[q].leaves, taken) = DOMAIN ue[q].leaves \ taken
        /\ \A l \in DOMAIN ue[q].leaves \ taken : Drop(ue[q].leaves, taken)[l] = ue[q].leaves[l]
    BY DEF Drop
  <2> QED BY <2>2, <2>5, <2>6, <2>7
<1>18. TablesOK(pool, resv)'
  <2>1. pool' \in Partial(Leaf, Row)
    BY <1>1, <1>13 DEF TablesOK
  <2>2. DOMAIN resv' \subseteq Reservation
    BY <1>0, <1>15 DEF TablesOK
  <2>3. ASSUME NEW q \in DOMAIN resv'
        PROVE  resv'[q].leaves \in Partial(Leaf, Row) /\ resv'[q].purpose \in Purpose
    <3>1. CASE q = r
      BY <1>0, <1>1, <1>3, <1>16, <3>1 DEF TablesOK
    <3>2. CASE q # r
      BY <1>9, <1>12, <1>15, <1>17, <3>2 DEF TablesOK
    <3> QED BY <3>1, <3>2
  <2>4. HeldIn(resv') \subseteq HeldIn(ue) \cup taken
    BY <1>3, <1>12, <1>15, <1>16, <1>17 DEF HeldIn
  <2>5. DOMAIN pool' \cap HeldIn(resv') = {}
    BY <1>1, <1>9, <1>14, <2>4 DEF TablesOK
  <2>6. ASSUME NEW q1 \in DOMAIN resv', NEW q2 \in DOMAIN resv', q1 # q2
        PROVE  DOMAIN resv'[q1].leaves \cap DOMAIN resv'[q2].leaves = {}
    <3>1. CASE q1 = r
      BY <1>3, <1>15, <1>16, <1>17, <2>6, <3>1
    <3>2. CASE q2 = r
      BY <1>3, <1>15, <1>16, <1>17, <2>6, <3>2
    <3>3. CASE q1 # r /\ q2 # r
      <4>1. q1 \in DOMAIN ue /\ q2 \in DOMAIN ue
        BY <1>12, <1>15, <3>3
      <4>2. DOMAIN ue[q1].leaves \cap DOMAIN ue[q2].leaves = {}
        BY <1>9, <2>6, <4>1 DEF TablesOK
      <4> QED BY <1>15, <1>17, <3>3, <4>2
    <3> QED BY <3>1, <3>2, <3>3
  <2> QED BY <2>1, <2>2, <2>3, <2>5, <2>6 DEF TablesOK
<1>19. Drop(ancestors, prior) \in Partial(Leaf, SUBSET Node)
  BY <1>0, DropType
<1> QED BY <1>1, <1>7, <1>18, <1>19 DEF SqlInv

-----------------------------------------------------------------------------
(* cleanup_stale_reservations: the rows of an expired reservation become   *)
(* unreserved, with their age.                                             *)
LEMMA ReleasedTables ==
    ASSUME SqlInv, NEW now
    PROVE  /\ TablesOK(ReleasedPool(now), Drop(resv, StaleReservations(now)))
           /\ DOMAIN ReleasedPool(now) \cup HeldIn(Drop(resv, StaleReservations(now)))
                 = DOMAIN pool \cup HeldIn(resv)
<1> DEFINE stale == StaleReservations(now)
           live == Drop(resv, stale)
           freed == UNION {DOMAIN resv[r].leaves : r \in stale}
           holder(l) == CHOOSE r \in stale : l \in DOMAIN resv[r].leaves
<1>0. TablesOK(pool, resv)
  BY DEF SqlInv
<1>1. stale \subseteq DOMAIN resv
  BY DEF StaleReservations
<1>2. /\ DOMAIN ReleasedPool(now) = DOMAIN pool \cup freed
      /\ \A l \in DOMAIN pool : ReleasedPool(now)[l] = pool[l]
      /\ \A l \in freed \ DOMAIN pool : ReleasedPool(now)[l] = resv[holder(l)].leaves[l]
  BY DEF ReleasedPool
<1> HIDE DEF stale
<1>3. TablesOK(pool, live)
  BY <1>0, DeleteReservations
<1>4. DOMAIN live = DOMAIN resv \ stale /\ \A r \in DOMAIN resv \ stale : live[r] = resv[r]
  BY DEF Drop
<1>5. HeldIn(live) = UNION {DOMAIN resv[r].leaves : r \in DOMAIN resv \ stale}
  BY <1>4 DEF HeldIn
<1> HIDE DEF live
<1>6. \A l \in freed : holder(l) \in stale /\ l \in DOMAIN resv[holder(l)].leaves
  OBVIOUS
<1> HIDE DEF holder
<1>7. ASSUME NEW l \in DOMAIN pool \cup freed
      PROVE  l \in Leaf /\ ReleasedPool(now)[l] \in Row
  <2>1. CASE l \in DOMAIN pool
    <3>1. pool \in Partial(Leaf, Row)
      BY <1>0 DEF TablesOK
    <3>2. DOMAIN pool \subseteq Leaf /\ pool \in [DOMAIN pool -> Row]
      BY <3>1, PartialElim
    <3> QED BY <1>2, <2>1, <3>2
  <2>2. CASE l \in freed \ DOMAIN pool
    <3>1. holder(l) \in DOMAIN resv /\ l \in DOMAIN resv[holder(l)].leaves
      BY <1>1, <1>6, <2>2
    <3>2. resv[holder(l)].leaves \in Partial(Leaf, Row)
      BY <1>0, <3>1 DEF TablesOK
    <3>3. /\ DOMAIN resv[holder(l)].leaves \subseteq Leaf
          /\ resv[holder(l)].leaves \in [DOMAIN resv[holder(l)].leaves -> Row]
      BY <3>2, PartialElim
    <3> QED BY <1>2, <2>2, <3>1, <3>3
  <2> QED BY <2>1, <2>2
<1>8. ReleasedPool(now) \in Partial(Leaf, Row)
  <2>1. DOMAIN pool \cup freed \in SUBSET Leaf
    BY <1>7
  <2>2. ReleasedPool(now) \in [DOMAIN pool \cup freed -> Row]
    <3>1. ReleasedPool(now) = [l \in DOMAIN ReleasedPool(now) |-> ReleasedPool(now)[l]]
      BY DEF ReleasedPool
    <3> QED BY <1>2, <1>7, <3>1
  <2> QED BY <2>1, <2>2, PartialIntro
<1>9. (DOMAIN pool \cup freed) \cap HeldIn(live) = {}
  <2>1. DOMAIN pool \cap HeldIn(live) = {}
    BY <1>3 DEF TablesOK
  <2>2. freed \cap HeldIn(live) = {}
    BY <1>0, <1>1, <1>5 DEF TablesOK
  <2> QED BY <2>1, <2>2
<1>10. TablesOK(ReleasedPool(now), live)
  BY <1>2, <1>3, <1>7, <1>8, <1>9 DEF TablesOK
<1>11. DOMAIN ReleasedPool(now) \cup HeldIn(live) = DOMAIN pool \cup HeldIn(resv)
  BY <1>1, <1>2, <1>5 DEF HeldIn
<1> QED BY <1>10, <1>11 DEF live, stale

(* set_leaves *)
LEMMA SqlSetLeavesInv ==
    ASSUME SqlInv, NEW nodes \in Listing, NEW missing \in Listing, NEW t, NEW now \in Time,
           SqlSetLeaves(nodes, missing, t, now)
    PROVE  SqlInv'
<1> DEFINE live     == Drop(resv, StaleReservations(now))
           skipped  == \/ \E r \in DOMAIN live : live[r].purpose = "Swap"
                       \/ lastSwap >= t
           markers  == {l \in DOMAIN spent : spent[l] + SpentMarkerThreshold >= t}
           spentIds == {l \in markers : spent[l] >= t}
           deleted  == {l \in DOMAIN ReleasedPool(now) : ReleasedPool(now)[l].at < t}
           seen     == Drop(Rows(nodes, FALSE, now), spentIds)
           unseen   == Drop(Rows(missing, TRUE, now), spentIds)
           listed   == Put(seen, unseen)
           dropped  == deleted \ (DOMAIN nodes \cup DOMAIN missing)
<1>0. spent \in Partial(Leaf, Time) /\ ancestors \in Partial(Leaf, SUBSET Node)
  BY DEF SqlInv
<1>1. /\ resv' = IF skipped THEN live ELSE UpsertReserved(live, listed)
      /\ pool' = IF skipped THEN ReleasedPool(now)
                 ELSE UpsertPool(Drop(ReleasedPool(now), deleted), live, listed)
      /\ spent' = IF skipped THEN spent ELSE Restrict(spent, markers)
      /\ ancestors' = IF skipped THEN ancestors ELSE Drop(ancestors, dropped)
      /\ UNCHANGED <<lastSwap, permits, inflight, clock>>
  BY DEF SqlSetLeaves
<1>2. TablesOK(ReleasedPool(now), live)
  BY ReleasedTables
<1>3. markers \subseteq DOMAIN spent
  OBVIOUS
<1>4. Rows(nodes, FALSE, now) \in Partial(Leaf, Row) /\ Rows(missing, TRUE, now) \in Partial(Leaf, Row)
  BY RowsFacts
<1> HIDE DEF live, skipped, markers, deleted, spentIds, dropped
<1>5. listed \in Partial(Leaf, Row)
  <2>1. seen \in Partial(Leaf, Row) /\ unseen \in Partial(Leaf, Row)
    BY <1>4, DropType
  <2> QED BY <2>1, PutType
<1> HIDE DEF seen, unseen, listed
<1>6. CASE skipped
  <2>1. TablesOK(pool, resv)'
    BY <1>1, <1>2, <1>6
  <2> QED BY <1>1, <1>6, <2>1 DEF SqlInv
<1>7. CASE ~skipped
  <2> DEFINE left == Drop(ReleasedPool(now), deleted)
  <2>1. TablesOK(left, live)
    BY <1>2, DeleteRows
  <2> HIDE DEF left
  <2>2. TablesOK(UpsertPool(left, live, listed), UpsertReserved(live, listed))
    BY <1>5, <2>1, UpsertTables
  <2>3. TablesOK(pool, resv)'
    BY <1>1, <1>7, <2>2 DEF left
  <2>4. Restrict(spent, markers) \in Partial(Leaf, Time)
    BY <1>0, <1>3, RestrictType
  <2>5. Drop(ancestors, dropped) \in Partial(Leaf, SUBSET Node)
    BY <1>0, DropType
  <2> QED BY <1>1, <1>7, <2>3, <2>4, <2>5 DEF SqlInv
<1> QED BY <1>6, <1>7

-----------------------------------------------------------------------------
(* Every transaction preserves the invariant. *)
LEMMA SqlNextInv == SqlInv /\ [SqlNext]_storeVars => SqlInv'
<1> SUFFICES ASSUME SqlInv, [SqlNext]_storeVars PROVE SqlInv'
  OBVIOUS
<1>0. \A t \in 0 .. clock : t .. clock \subseteq 0 .. clock
  BY MaxTimeAssumption DEF SqlInv, Time
<1>1. CASE UNCHANGED storeVars
  BY <1>1, SqlStutterInv
<1>2. CASE ClockTick
  BY <1>2, SqlTickInv
<1>3. CASE \E nodes \in Batch, now \in 0 .. clock : \E unmarked \in SUBSET (DOMAIN nodes \cap DOMAIN spent) :
              SqlAddLeaves(nodes, unmarked, now)
  BY <1>3, SqlAddLeavesInv, BatchIsListing, PastIsTime
<1>4. CASE \E nodes, missing \in Batch, startedAt \in 0 .. clock : \E now \in startedAt .. clock :
              SqlSetLeaves(nodes, missing, startedAt, now)
  BY <1>0, <1>4, SqlSetLeavesInv, BatchIsListing, PastIsTime
<1>5. CASE \E chains \in Partial(Leaf, SUBSET Node) : SqlStoreAncestors(chains)
  BY <1>5, SqlStoreAncestorsInv
<1>6. CASE \E r \in Reservation, S \in SUBSET Leaf, tgt \in Target, exactOnly \in BOOLEAN,
             purpose \in Purpose, now \in 0 .. clock : SqlTryReserve(r, S, tgt, exactOnly, purpose, now)
  BY <1>6, SqlTryReserveInv
<1>7. CASE \E r \in Reservation, S \in SUBSET Leaf, purpose \in Purpose, now \in 0 .. clock :
              SqlReserveByIds(r, S, purpose, now)
  BY <1>7, SqlReserveByIdsInv
<1>8. CASE \E r \in Reservation, keep \in Batch, now \in 0 .. clock : SqlCancel(r, keep, now)
  BY <1>8, SqlCancelInv, BatchIsListing, PastIsTime
<1>9. CASE \E r \in Reservation, hasNew \in BOOLEAN, new \in Batch, now \in 0 .. clock :
              /\ ~hasNew => new = EmptyMap
              /\ SqlFinalize(r, hasNew, new, now)
  BY <1>9, SqlFinalizeInv, BatchIsListing, PastIsTime
<1>10. CASE \E r \in Reservation, reserved, change \in Batch, now \in 0 .. clock :
              SqlUpdate(r, reserved, change, now)
  BY <1>10, SqlUpdateInv, BatchIsListing, PastIsTime
<1> QED BY <1>1, <1>2, <1>3, <1>4, <1>5, <1>6, <1>7, <1>8, <1>9, <1>10 DEF SqlNext, SqlOther

(* The invariant holds in every reachable state. *)
LEMMA SqlInvariant == SqlSpec => []SqlInv
<1> QED BY SqlInitInv, SqlNextInv, PTL DEF SqlSpec

(* PostgresTreeStore's tables keep their type. *)
THEOREM SqlTypeCorrect == SqlSpec => []StoreTypeOK
<1> QED BY SqlInvariant, SqlInvMeans, PTL

-----------------------------------------------------------------------------
(***************************************************************************)
(* The refinement: every transaction is a step of LeafLedger or changes    *)
(* nothing LeafLedger sees.                                                *)
(***************************************************************************)
(* What the ledger sees of the reservations in table e. *)
LeavesOf(e) == [r \in DOMAIN e |-> DOMAIN e[r].leaves]

(* A row without a reservation_id is nobody's: what remains of the         *)
(* inductive invariant once only the places of the leaves matter.          *)
LEMMA FreeAfterwards ==
    ASSUME SqlInv'
    PROVE  DOMAIN pool' \in SUBSET (Leaf \ Ledger!HeldIn(LeavesOf(resv')))
<1>1. TablesOK(pool', resv')
  BY DEF SqlInv
<1>2. pool' \in Partial(Leaf, Row) /\ DOMAIN pool' \cap HeldIn(resv') = {}
  BY <1>1 DEF TablesOK
<1>3. DOMAIN pool' \subseteq Leaf
  BY <1>2, PartialElim
<1>4. Ledger!HeldIn(LeavesOf(resv')) = HeldIn(resv')
  BY DEF Ledger!HeldIn, HeldIn, LeavesOf
<1> QED BY <1>2, <1>3, <1>4

(* A transaction that only deletes whole reservations settles them. *)
LEMMA SettleStep ==
    ASSUME SqlInv', NEW R \in SUBSET DOMAIN resv,
           DOMAIN resv' = DOMAIN resv \ R,
           \A q \in DOMAIN resv \ R : DOMAIN resv'[q].leaves = DOMAIN resv[q].leaves
    PROVE  Ledger!LedgerNext
<1>1. LeavesOf(resv') = Ledger!Without(LeavesOf(resv), R)
  BY DEF LeavesOf, Ledger!Without
<1>2. R \in SUBSET DOMAIN LeavesOf(resv)
  BY DEF LeavesOf
<1>3. Ledger!Settle(R)
  BY <1>1, FreeAfterwards DEF Ledger!Settle, LeavesOf
<1> QED BY <1>2, <1>3 DEF Ledger!LedgerNext, LeavesOf

(* So does one that deletes the reservations in R and upserts rows: an     *)
(* upsert moves no row out of or into a reservation.                       *)
LEMMA UpsertSettles ==
    ASSUME SqlInv', NEW R \in SUBSET DOMAIN resv, NEW rows,
           resv' = UpsertReserved(Drop(resv, R), rows)
    PROVE  Ledger!LedgerNext
<1>1. DOMAIN Drop(resv, R) = DOMAIN resv \ R /\ \A q \in DOMAIN resv \ R : Drop(resv, R)[q] = resv[q]
  BY DEF Drop
<1>2. DOMAIN resv' = DOMAIN resv \ R
  BY <1>1 DEF UpsertReserved
<1>3. \A q \in DOMAIN resv \ R : DOMAIN resv'[q].leaves = DOMAIN Drop(resv, R)[q].leaves
  BY <1>1, UpsertReservedDomain
<1> QED BY <1>1, <1>2, <1>3, SettleStep

-----------------------------------------------------------------------------
(* One lemma per command. *)

(* add_leaves dissolves nothing. *)
LEMMA AddLeavesSettles ==
    ASSUME SqlInv', NEW nodes, NEW unmarked, NEW now, SqlAddLeaves(nodes, unmarked, now)
    PROVE  Ledger!LedgerNext
<1>1. resv' = UpsertReserved(resv, Rows(nodes, FALSE, now))
  BY DEF SqlAddLeaves
<1>2. DOMAIN resv' = DOMAIN resv \ {}
  BY <1>1 DEF UpsertReserved
<1>3. \A q \in DOMAIN resv \ {} : DOMAIN resv'[q].leaves = DOMAIN resv[q].leaves
  BY <1>1, UpsertReservedDomain
<1> QED BY <1>2, <1>3, SettleStep

(* set_leaves dissolves the expired reservations, also when it is skipped. *)
LEMMA SetLeavesSettles ==
    ASSUME SqlInv', NEW nodes, NEW missing, NEW t, NEW now, SqlSetLeaves(nodes, missing, t, now)
    PROVE  Ledger!LedgerNext
<1> DEFINE stale == StaleReservations(now)
           live  == Drop(resv, stale)
<1>1. stale \in SUBSET DOMAIN resv
  BY DEF StaleReservations
<1>2. resv' = live \/ \E rows : resv' = UpsertReserved(live, rows)
  BY DEF SqlSetLeaves
<1> HIDE DEF stale
<1>3. CASE resv' = live
  <2>1. /\ DOMAIN resv' = DOMAIN resv \ stale
        /\ \A q \in DOMAIN resv \ stale : resv'[q] = resv[q]
    BY <1>3 DEF Drop
  <2> QED BY <1>1, <2>1, SettleStep
<1>4. CASE \E rows : resv' = UpsertReserved(live, rows)
  BY <1>1, <1>4, UpsertSettles
<1> QED BY <1>2, <1>3, <1>4

(* cancel_reservation and finalize_reservation dissolve r, or nothing when *)
(* r has expired.                                                          *)
LEMMA ReleaseSettles ==
    ASSUME SqlInv', NEW r, NEW rows, resv' = UpsertReserved(Drop(resv, {r}), rows)
    PROVE  Ledger!LedgerNext
<1>1. Drop(resv, {r}) = Drop(resv, {r} \cap DOMAIN resv)
  BY DEF Drop
<1>2. {r} \cap DOMAIN resv \in SUBSET DOMAIN resv
  OBVIOUS
<1> QED BY <1>1, <1>2, UpsertSettles

(* create_reservation moves free leaves into a reservation under a new id. *)
LEMMA CreateReserves ==
    ASSUME SqlInv, NEW r \in Reservation, NEW S, S \subseteq DOMAIN pool, NEW purpose, NEW pending,
           NEW now, CreateReservation(r, S, purpose, pending, now)
    PROVE  Ledger!LedgerNext
<1> DEFINE e == [leaves |-> Restrict(pool, S), purpose |-> purpose,
                 pending |-> pending, created |-> now]
<1>0. pool \in Partial(Leaf, Row)
  BY DEF SqlInv, TablesOK
<1>1. /\ r \notin DOMAIN resv
      /\ S # {}
      /\ resv' = Put(resv, Pair(r, e))
      /\ pool' = Drop(pool, S)
  BY DEF CreateReservation
<1>2. DOMAIN e.leaves = S
  <2>1. DOMAIN Restrict(pool, S) = S
    BY <1>0, RestrictType
  <2> QED BY <2>1
<1> HIDE DEF e
<1>3. /\ DOMAIN resv' = DOMAIN resv \cup {r}
      /\ resv'[r] = e
      /\ \A q \in DOMAIN resv : resv'[q] = resv[q]
  BY <1>1 DEF Put, Pair
<1>4. LeavesOf(resv') = [q \in DOMAIN LeavesOf(resv) \cup {r} |-> IF q = r THEN S ELSE LeavesOf(resv)[q]]
  BY <1>1, <1>2, <1>3 DEF LeavesOf
<1>5. DOMAIN pool' = DOMAIN pool \ S
  BY <1>1, DropDomain
<1>6. S \in SUBSET Leaf
  BY <1>0, PartialElim
<1>7. Ledger!Reserve(r, S)
  BY <1>1, <1>4, <1>5 DEF Ledger!Reserve, LeavesOf
<1> QED BY <1>6, <1>7 DEF Ledger!LedgerNext

(* try_reserve_leaves *)
LEMMA TryReserveReserves ==
    ASSUME SqlInv, NEW r \in Reservation, NEW S, NEW tgt, NEW exactOnly, NEW purpose, NEW now,
           SqlTryReserve(r, S, tgt, exactOnly, purpose, now)
    PROVE  Ledger!LedgerNext
<1>1. PICK slim \in SlimCandidates(Selectable, tgt) :
         \/ S \in TargetSelections(slim, tgt) /\ CreateReservation(r, S, purpose, 0, now)
         \/ /\ S \in MinimumAmount(slim, TotalSats(tgt))
            /\ CreateReservation(r, S, purpose, SqlPendingChange(S, tgt), now)
  BY DEF SqlTryReserve
<1>2. slim \subseteq DOMAIN pool
  BY DEF SlimCandidates, Selectable
<1>3. S \subseteq slim
  BY <1>1, SelectionInside, MinimumInside
<1> QED BY <1>1, <1>2, <1>3, CreateReserves

(* try_reserve_leaves_by_ids *)
LEMMA ReserveByIdsReserves ==
    ASSUME SqlInv, NEW r \in Reservation, NEW S, NEW purpose, NEW now,
           SqlReserveByIds(r, S, purpose, now)
    PROVE  Ledger!LedgerNext
<1>1. S \subseteq DOMAIN pool /\ CreateReservation(r, S, purpose, 0, now)
  BY DEF SqlReserveByIds, Selectable
<1> QED BY <1>1, CreateReserves

(* update_reservation with leaves no other reservation holds: r has them   *)
(* afterwards, the others keep theirs, and what was free or is change is   *)
(* free unless r has it.                                                   *)
LEMMA UpdateExchanges ==
    ASSUME SqlInv, NEW r, NEW reserved \in Listing, NEW change \in Listing, NEW now \in Time,
           DOMAIN reserved \cap HeldByOthers(r) = {},
           SqlUpdate(r, reserved, change, now)
    PROVE  Ledger!LedgerNext
<1> DEFINE rest  == Drop(resv, {r})
           rows  == Rows(change, FALSE, now)
           ue    == UpsertReserved(rest, rows)
           new   == Rows(reserved, FALSE, now)
           taken == DOMAIN reserved
           back  == DOMAIN change
<1>0. r \in Reservation /\ TablesOK(pool, resv)
  BY DEF SqlInv, TablesOK, SqlUpdate
<1>1. /\ r \in DOMAIN resv
      /\ resv' = [q \in DOMAIN resv |->
                     IF q = r THEN [resv[r] EXCEPT !.leaves = new, !.pending = 0]
                     ELSE [ue[q] EXCEPT !.leaves = Drop(@, taken)]]
      /\ pool' = Drop(UpsertPool(pool, rest, rows), taken)
  BY DEF SqlUpdate
<1>2. DOMAIN new = taken /\ DOMAIN rows = back
  BY RowsFacts
<1>3. taken \in SUBSET Leaf /\ back \in SUBSET Leaf
  BY ListingElim
<1>4. ASSUME NEW q \in DOMAIN resv \ {r}
      PROVE  DOMAIN ue[q].leaves = DOMAIN resv[q].leaves
  <2>1. q \in DOMAIN rest /\ rest[q] = resv[q]
    BY DEF Drop
  <2> HIDE DEF rest
  <2>2. DOMAIN ue[q].leaves = DOMAIN rest[q].leaves
    BY <2>1, UpsertReservedDomain
  <2> QED BY <2>1, <2>2
<1>5. HeldIn(rest) = HeldByOthers(r)
  BY <1>0, DeleteReservations DEF HeldByOthers
<1>6. DOMAIN pool' = (DOMAIN pool \cup (back \ HeldByOthers(r))) \ taken
  <2> HIDE DEF rest, rows, taken, back
  <2>1. DOMAIN UpsertPool(pool, rest, rows) = DOMAIN pool \cup (DOMAIN rows \ HeldIn(rest))
    BY UpsertPoolDomain
  <2>2. DOMAIN Drop(UpsertPool(pool, rest, rows), taken) = DOMAIN UpsertPool(pool, rest, rows) \ taken
    BY DropDomain
  <2> QED BY <1>1, <1>2, <1>5, <2>1, <2>2
<1> HIDE DEF ue, new, taken, rest, rows, back
<1>7. DOMAIN resv' = DOMAIN resv
  BY <1>1
<1>8. resv'[r].leaves = new
  <2>1. resv'[r] = [[resv[r] EXCEPT !.leaves = new] EXCEPT !.pending = 0]
    BY <1>1
  <2> QED BY <2>1
<1>9. ASSUME NEW q \in DOMAIN resv \ {r}
      PROVE  DOMAIN resv'[q].leaves = DOMAIN resv[q].leaves
  <2>1. resv'[q] = [ue[q] EXCEPT !.leaves = Drop(ue[q].leaves, taken)]
    BY <1>1
  <2>2. resv'[q].leaves = Drop(ue[q].leaves, taken)
    BY <2>1
  <2>3. DOMAIN Drop(ue[q].leaves, taken) = DOMAIN ue[q].leaves \ taken
    BY DropDomain
  <2>4. DOMAIN resv[q].leaves \cap taken = {}
    BY DEF HeldByOthers, taken
  <2> QED BY <1>4, <2>2, <2>3, <2>4
<1>10. LeavesOf(resv') = [q \in DOMAIN LeavesOf(resv) |-> IF q = r THEN taken ELSE LeavesOf(resv)[q]]
  BY <1>2, <1>7, <1>8, <1>9 DEF LeavesOf
<1>11. /\ Ledger!HeldIn(Ledger!Without(LeavesOf(resv), {r})) = HeldByOthers(r)
       /\ Ledger!HeldIn(LeavesOf(resv')) = HeldByOthers(r) \cup taken
  BY <1>1, <1>10 DEF Ledger!HeldIn, Ledger!Without, HeldByOthers, LeavesOf
<1>12. DOMAIN pool \cap HeldByOthers(r) = {}
  BY <1>0 DEF TablesOK, HeldIn, HeldByOthers
<1>13. DOMAIN pool' = (DOMAIN pool \cup back) \ Ledger!HeldIn(LeavesOf(resv'))
  BY <1>6, <1>11, <1>12
<1>14. taken \cap HeldByOthers(r) = {}
  BY DEF taken
<1>15. Ledger!Exchange(r, taken, back)
  BY <1>1, <1>10, <1>11, <1>13, <1>14 DEF Ledger!Exchange, LeavesOf
<1> QED BY <1>0, <1>3, <1>15 DEF Ledger!LedgerNext

-----------------------------------------------------------------------------
(* An empty store is an empty ledger. *)
LEMMA LedgerStarts == StoreInit => Ledger!LedgerInit
<1> SUFFICES ASSUME StoreInit PROVE Ledger!LedgerInit
  OBVIOUS
<1>1. DOMAIN pool = {} /\ DOMAIN resv = {}
  BY DEF StoreInit, EmptyMap
<1> QED BY <1>1 DEF Ledger!LedgerInit

(* Every transaction but an update is a step of the ledger or invisible to *)
(* it.                                                                     *)
LEMMA OtherSteps ==
    ASSUME SqlInv, SqlInv', SqlOther
    PROVE  Ledger!LedgerNext \/ UNCHANGED Ledger!ledgerVars
<1>2. CASE ClockTick
  BY <1>2 DEF ClockTick, Ledger!ledgerVars
<1>3. CASE \E nodes \in Batch, now \in 0 .. clock :
              \E unmarked \in SUBSET (DOMAIN nodes \cap DOMAIN spent) : SqlAddLeaves(nodes, unmarked, now)
  BY <1>3, AddLeavesSettles
<1>4. CASE \E nodes, missing \in Batch, startedAt \in 0 .. clock : \E now \in startedAt .. clock :
              SqlSetLeaves(nodes, missing, startedAt, now)
  BY <1>4, SetLeavesSettles
<1>5. CASE \E chains \in Partial(Leaf, SUBSET Node) : SqlStoreAncestors(chains)
  BY <1>5 DEF SqlStoreAncestors, Ledger!ledgerVars
<1>6. CASE \E r \in Reservation, S \in SUBSET Leaf, tgt \in Target, exactOnly \in BOOLEAN,
             purpose \in Purpose, now \in 0 .. clock : SqlTryReserve(r, S, tgt, exactOnly, purpose, now)
  BY <1>6, TryReserveReserves
<1>7. CASE \E r \in Reservation, S \in SUBSET Leaf, purpose \in Purpose, now \in 0 .. clock :
              SqlReserveByIds(r, S, purpose, now)
  BY <1>7, ReserveByIdsReserves
<1>8. CASE \E r \in Reservation, keep \in Batch, now \in 0 .. clock : SqlCancel(r, keep, now)
  BY <1>8, ReleaseSettles DEF SqlCancel
<1>9. CASE \E r \in Reservation, hasNew \in BOOLEAN, new \in Batch, now \in 0 .. clock :
              /\ ~hasNew => new = EmptyMap
              /\ SqlFinalize(r, hasNew, new, now)
  BY <1>9, ReleaseSettles DEF SqlFinalize
<1> QED BY <1>2, <1>3, <1>4, <1>5, <1>6, <1>7, <1>8, <1>9 DEF SqlOther

(* So is an update that brings no leaf somebody else holds. *)
LEMMA LedgerSteps ==
    SqlInv /\ SqlInv' /\ [CarefulNext]_storeVars => [Ledger!LedgerNext]_(Ledger!ledgerVars)
<1> SUFFICES ASSUME SqlInv, SqlInv', [CarefulNext]_storeVars
             PROVE  Ledger!LedgerNext \/ UNCHANGED Ledger!ledgerVars
  OBVIOUS
<1>1. CASE UNCHANGED storeVars
  BY <1>1 DEF storeVars, Ledger!ledgerVars
<1>2. CASE SqlOther
  BY <1>2, OtherSteps
<1>3. CASE \E r \in Reservation, reserved, change \in Batch, now \in 0 .. clock :
              /\ DOMAIN reserved \cap HeldByOthers(r) = {}
              /\ SqlUpdate(r, reserved, change, now)
  BY <1>3, UpdateExchanges, BatchIsListing, PastIsTime
<1> QED BY <1>1, <1>2, <1>3 DEF CarefulNext

(* Careful callers are callers. *)
LEMMA CarefulInvariant == CarefulSpec => []SqlInv
<1>1. [CarefulNext]_storeVars => [SqlNext]_storeVars
  BY DEF CarefulNext, SqlNext
<1> QED BY <1>1, SqlInitInv, SqlNextInv, PTL DEF CarefulSpec

(* The Postgres store refines the contract of the TreeStore trait: as long *)
(* as an update brings no leaf that another reservation holds, in every    *)
(* behaviour a reservation keeps exactly its leaves until it is cancelled, *)
(* finalized, updated or expired, upserts free no reserved leaf, only free *)
(* leaves are reserved, and an update frees its change and nothing else.   *)
THEOREM SqlImplementsTreeStore == CarefulSpec => ImplementsTreeStore
<1> QED BY LedgerStarts, LedgerSteps, CarefulInvariant, PTL
        DEF CarefulSpec, ImplementsTreeStore, Ledger!LedgerSpec

=============================================================================
