----------------------------- MODULE TreeState -----------------------------
(***************************************************************************)
(* The state every backend of the leaf store keeps (crates/spark/src/tree, *)
(* crates/spark-postgres): the pool of unreserved leaves, the              *)
(* reservations with the leaves they hold, the spent markers, the time of  *)
(* the last completed swap, the ancestor chains and the semaphore that     *)
(* bounds concurrent reservations.  The commands of the two backends are   *)
(* in MemoryTreeStore and SqlTreeStore, the choice of leaves for a target  *)
(* amount is in LeafSelection.                                             *)
(*                                                                         *)
(* A TreeNode is abstracted to what the store looks at: whether its status *)
(* is Available and the id of its parent.  A batch of nodes is a function  *)
(* from leaf ids to such records.                                          *)
(***************************************************************************)
EXTENDS Integers, FiniteSets, Functions, FiniteSetsExt, LeafSelection

CONSTANTS
    Node,           \* ids of the intermediate nodes of exit chains
    NoParent,       \* the parent of a leaf that is itself a root
    Reservation,    \* reservation ids (uuids)
    MaxTime,        \* bound on the clock
    MaxConcurrentReservations,
    Batch,          \* the batches of nodes callers pass in
    Target          \* the target amounts callers ask for

ASSUME ReservationFinite == IsFiniteSet(Reservation)
ASSUME NoParentFresh == NoParent \notin Node
ASSUME MaxTimeAssumption == MaxTime \in Nat
ASSUME TargetAssumption ==
    \A tgt \in Target :
        /\ tgt.kind = "amount" => tgt.amount \in Nat /\ tgt.fee \in Nat
        /\ tgt.kind = "denoms" => /\ IsFiniteSet(DOMAIN tgt.denoms) /\ DOMAIN tgt.denoms \subseteq Nat
                                 /\ \A v \in DOMAIN tgt.denoms : tgt.denoms[v] \in Nat
        /\ tgt.kind \in {"all", "amount", "denoms"}
ASSUME PermitAssumption == MaxConcurrentReservations \in Nat \ {0}

VARIABLES
    pool,       \* leaf id -> row: the unreserved leaves
    resv,       \* reservation id -> entry
    spent,      \* leaf id -> the time it was marked spent
    lastSwap,   \* when a swap last completed; Never when none has
    ancestors,  \* leaf id -> the ids of the nodes of its stored chain
    permits,    \* free permits of the reservation semaphore
    inflight,   \* permits travelling with a queued reserve command
    clock       \* the store's clock

storeVars == <<pool, resv, spent, lastSwap, ancestors, permits, inflight, clock>>

Never == -1

Time == 0 .. MaxTime

Purpose == {"Payment", "Swap"}

(* What a TreeNode tells the store. *)
NodeData == [available : BOOLEAN, parent : Node \cup {NoParent}]

(* A leaf as it is stored, in the pool or in a reservation. *)
Row == [available : BOOLEAN, parent : Node \cup {NoParent}, missing : BOOLEAN, at : Time]

(* The functions from some subset of D to R: what a HashMap<D, R> can hold. *)
Partial(D, R) == UNION {[S -> R] : S \in SUBSET D}

ASSUME BatchAssumption == Batch \subseteq Partial(Leaf, NodeData)

-----------------------------------------------------------------------------
(* Helpers on partial functions. *)

(* f after inserting every pair of g *)
Put(f, g) == [x \in DOMAIN f \cup DOMAIN g |-> IF x \in DOMAIN g THEN g[x] ELSE f[x]]

(* f after removing the keys in S *)
Drop(f, S) == [x \in DOMAIN f \ S |-> f[x]]

(* The single-pair function. *)
Pair(x, v) == [y \in {x} |-> v]

EmptyMap == [x \in {} |-> {}]

-----------------------------------------------------------------------------

(* StoredLeaf::from_node and from_node_missing *)
FromNode(n, t, isMissing) ==
    [available |-> n.available, parent |-> n.parent, missing |-> isMissing, at |-> t]

ReservedLeaves == UNION {DOMAIN resv[r].leaves : r \in DOMAIN resv}

StoredLeaves == DOMAIN pool \cup ReservedLeaves

(* LeavesState::selectable_leaves *)
Selectable == {l \in DOMAIN pool : pool[l].available /\ ~pool[l].missing}

(* LeavesState::available_balance *)
AvailableBalance == Sats(Selectable)

(* LeavesState::pending_balance *)
PendingBalance == MapThenSumSet(LAMBDA r : resv[r].pending, DOMAIN resv)

(* chain_backs_exit: the leaf's current parent is among the stored nodes *)
ChainBacksExit(row, chain) == row.parent = NoParent \/ row.parent \in chain

ChainOf(l) == IF l \in DOMAIN ancestors THEN ancestors[l] ELSE {}

(* process_leaves_missing_exit_chains *)
LeavesMissingExitChains ==
    {l \in DOMAIN pool : ~ChainBacksExit(pool[l], ChainOf(l))} \cup
    {l \in ReservedLeaves :
        \E r \in DOMAIN resv : /\ l \in DOMAIN resv[r].leaves
                               /\ ~ChainBacksExit(resv[r].leaves[l], ChainOf(l))}

-----------------------------------------------------------------------------
(* A new store, empty. *)
StoreInit ==
    /\ pool = EmptyMap
    /\ resv = EmptyMap
    /\ spent = EmptyMap
    /\ lastSwap = Never
    /\ ancestors = EmptyMap
    /\ permits = MaxConcurrentReservations
    /\ inflight = 0
    /\ clock = 0

(* The store's clock moves on; two commands may also read the same time. *)
ClockTick ==
    /\ clock < MaxTime
    /\ clock' = clock + 1
    /\ UNCHANGED <<pool, resv, spent, lastSwap, ancestors, permits, inflight>>

-----------------------------------------------------------------------------
(* The type of the store's state. *)
StoreTypeOK ==
    /\ pool \in Partial(Leaf, Row)
    /\ DOMAIN resv \subseteq Reservation
    /\ \A r \in DOMAIN resv : /\ resv[r].leaves \in Partial(Leaf, Row)
                              /\ resv[r].purpose \in Purpose
    /\ spent \in Partial(Leaf, Time)
    /\ lastSwap \in Time \cup {Never}
    /\ ancestors \in Partial(Leaf, SUBSET Node)
    /\ permits \in Nat
    /\ inflight \in Nat
    /\ clock \in Time

(* The reservation system prevents double-spending: a leaf is in the pool  *)
(* or in one reservation, never in two places.                             *)
ReservedOnce ==
    /\ DOMAIN pool \cap ReservedLeaves = {}
    /\ \A p, q \in DOMAIN resv :
          p # q => DOMAIN resv[p].leaves \cap DOMAIN resv[q].leaves = {}

(* A chain is stored only for a leaf that is stored: both backends say one *)
(* left behind by its leaf would never be collected.                       *)
ChainsHaveLeaves == DOMAIN ancestors \subseteq StoredLeaves

=============================================================================
