-------------------------- MODULE LeafWalletProofs --------------------------
(***************************************************************************)
(* Proofs about the callers of the leaf store, for any payments,           *)
(* optimization rounds, refreshes, claims, leaves and targets, and on      *)
(* either backend: what the store promises carries over to the wallet that *)
(* runs on it; no path but the one that returns without cancelling forgets *)
(* a reservation; what a caller holds is what it has reserved; a refresh   *)
(* loses no leaf that is newer than it; and over a SQL store a finalized   *)
(* leaf does not come back, on conditions that are stated.                 *)
(***************************************************************************)
EXTENDS LeafWallet, TreeStoreProofs

(* The nodes of a set of leaves are a listing of these leaves. *)
LEMMA NodesListing ==
    ASSUME NEW S, S \subseteq Leaf
    PROVE  Nodes(S) \in Listing /\ DOMAIN Nodes(S) = S
<1>1. Nodes(S) \in [S -> NodeData] /\ DOMAIN Nodes(S) = S
  BY DEF Nodes, NodeData
<1>2. Nodes(S) \in Partial(Leaf, NodeData)
  BY <1>1, PartialIntro
<1> QED BY <1>1, <1>2 DEF Listing

-----------------------------------------------------------------------------
(***************************************************************************)
(* What the store promises on the backend in use, and what a step does to  *)
(* reservation q when it is not q's own: it does not appear, and on the    *)
(* memory backend, where nothing expires, it holds the same leaves.        *)
(***************************************************************************)
StoreInv == (InMemory => MemInv) /\ (~InMemory => SqlInv)

Keeps(q) ==
    /\ q \in DOMAIN resv' => q \in DOMAIN resv
    /\ InMemory => StoredFor(q)' = StoredFor(q)

(* The time a transaction of the wallet runs at. *)
LEMMA NowIsTime == SqlInv => clock \in Time
BY DEF SqlInv

LEMMA KeepsSame ==
    ASSUME resv' = resv
    PROVE  \A q : Keeps(q)
<1> QED BY DEF Keeps, StoredFor

LEMMA KeepsDomains ==
    ASSUME DOMAIN resv' = DOMAIN resv,
           \A q \in DOMAIN resv : DOMAIN resv'[q].leaves = DOMAIN resv[q].leaves
    PROVE  \A q : Keeps(q)
<1> QED BY DEF Keeps, StoredFor

(* Refreshing the rows of reserved leaves moves none of them. *)
LEMMA RefreshedKeeps ==
    ASSUME NEW h, NEW rows, resv' = Refreshed(h, rows)
    PROVE  \A q : Keeps(q)
<1>1. DOMAIN resv' = DOMAIN resv
  BY DEF Refreshed
<1>2. ASSUME NEW q \in DOMAIN resv PROVE DOMAIN resv'[q].leaves = DOMAIN resv[q].leaves
  <2> DEFINE new == [l \in DOMAIN resv[q].leaves |->
                       IF l \in DOMAIN h /\ h[l] = q THEN rows[l] ELSE resv[q].leaves[l]]
  <2>1. resv'[q] = [resv[q] EXCEPT !.leaves = new]
    BY DEF Refreshed
  <2>2. DOMAIN new = DOMAIN resv[q].leaves
    OBVIOUS
  <2> HIDE DEF new
  <2> QED BY <2>1, <2>2
<1> QED BY <1>1, <1>2, KeepsDomains

(* Stuttering, and the passing of time. *)
LEMMA StillFacts ==
    ASSUME StoreInv, UNCHANGED storeVars
    PROVE  StoreInv' /\ \A q : Keeps(q)
<1>1. StoreInv'
  BY StutterInv, SqlStutterInv DEF StoreInv, InMemory
<1> QED BY <1>1, KeepsSame DEF storeVars

LEMMA TickFacts ==
    ASSUME StoreInv, ClockTick
    PROVE  StoreInv' /\ (\A q : Keeps(q)) /\ clock' = clock + 1 /\ clock' \in Time
<1>1. StoreInv'
  BY TickInv, SqlTickInv DEF StoreInv, InMemory
<1>2. clock' \in Time
  BY <1>1, SqlInvMeans DEF StoreInv, MemInv, SqlInv, StoreTypeOK
<1> QED BY <1>1, <1>2, KeepsSame DEF ClockTick

(* add_leaves *)
LEMMA AddLeavesFacts ==
    ASSUME StoreInv, NEW S, S \subseteq Leaf, AddLeaves(S)
    PROVE  StoreInv' /\ (\A q : Keeps(q)) /\ clock' = clock
<1> DEFINE nodes == Nodes(S)
<1>0. nodes \in Listing
  BY NodesListing
<1>1. CASE InMemory
  <2>1. MemInv /\ MemAddLeaves(nodes)
    BY <1>1 DEF AddLeaves, StoreInv
  <2> HIDE DEF nodes
  <2>2. MemInv'
    BY <1>0, <2>1, AddLeavesInv
  <2>3. clock' = clock /\ \E h, rows : resv' = Refreshed(h, rows)
    BY <2>1 DEF MemAddLeaves
  <2> QED BY <1>1, <2>2, <2>3, RefreshedKeeps DEF StoreInv, InMemory
<1>2. CASE ~InMemory
  <2>1. SqlInv /\ SqlAddLeaves(nodes, S, clock)
    BY <1>2 DEF AddLeaves, StoreInv
  <2> HIDE DEF nodes
  <2>2. SqlInv'
    BY <1>0, <2>1, NowIsTime, SqlAddLeavesInv
  <2>3. clock' = clock /\ DOMAIN resv' = DOMAIN resv
    BY <2>1 DEF SqlAddLeaves, UpsertReserved
  <2> QED BY <1>2, <2>2, <2>3 DEF StoreInv, InMemory, Keeps
<1> QED BY <1>1, <1>2

(* set_leaves: a reservation may expire, none appears. *)
LEMMA SetLeavesFacts ==
    ASSUME StoreInv, NEW S, S \subseteq Leaf, NEW miss, miss \subseteq Leaf, NEW t \in 0 .. clock,
           SetLeaves(S, miss, t)
    PROVE  StoreInv' /\ (\A q : Keeps(q)) /\ clock' = clock
<1> DEFINE nodes == Nodes(S)
           missing == Nodes(miss)
<1>0. nodes \in Listing /\ missing \in Listing
  BY NodesListing
<1>1. CASE InMemory
  <2>1. MemInv /\ MemSetLeaves(nodes, missing, t)
    BY <1>1 DEF SetLeaves, StoreInv
  <2> HIDE DEF nodes, missing
  <2>2. MemInv'
    BY <1>0, <2>1, SetLeavesInv
  <2>3. clock' = clock /\ (resv' = resv \/ \E h, rows : resv' = Refreshed(h, rows))
    BY <2>1 DEF MemSetLeaves, storeVars
  <2>4. \A q : Keeps(q)
    BY <2>3, RefreshedKeeps, KeepsSame
  <2> QED BY <1>1, <2>2, <2>3, <2>4 DEF StoreInv, InMemory
<1>2. CASE ~InMemory
  <2>1. SqlInv /\ SqlSetLeaves(nodes, missing, t, clock)
    BY <1>2 DEF SetLeaves, StoreInv
  <2> HIDE DEF nodes, missing
  <2>2. SqlInv'
    BY <1>0, <2>1, NowIsTime, SqlSetLeavesInv
  <2> DEFINE live == Drop(resv, StaleReservations(clock))
  <2>3. clock' = clock /\ (resv' = live \/ \E rows : resv' = UpsertReserved(live, rows))
    BY <2>1 DEF SqlSetLeaves
  <2>4. DOMAIN live \subseteq DOMAIN resv
    BY DEF Drop
  <2> HIDE DEF live
  <2>5. DOMAIN resv' \subseteq DOMAIN resv
    BY <2>3, <2>4 DEF UpsertReserved
  <2> QED BY <1>2, <2>2, <2>3, <2>5 DEF StoreInv, InMemory, Keeps
<1> QED BY <1>1, <1>2

(* acquiring a permit *)
LEMMA AcquireFacts ==
    ASSUME StoreInv, IF InMemory THEN MemAcquirePermit ELSE UNCHANGED storeVars
    PROVE  StoreInv' /\ (\A q : Keeps(q)) /\ clock' = clock /\ resv' = resv
<1>1. CASE InMemory
  <2>1. MemInv' /\ resv' = resv /\ clock' = clock
    BY <1>1, AcquirePermitInv DEF StoreInv, MemAcquirePermit
  <2> QED BY <1>1, <2>1, KeepsSame DEF StoreInv, InMemory
<1>2. CASE ~InMemory
  BY <1>2, StillFacts DEF storeVars
<1> QED BY <1>1, <1>2

(* a reserve command that reserves nothing *)
LEMMA RejectFacts ==
    ASSUME StoreInv, NEW p, WaitForPending(p) \/ InsufficientFunds(p)
    PROVE  StoreInv' /\ (\A q : Keeps(q)) /\ clock' = clock /\ resv' = resv
<1>1. CASE InMemory
  <2>1. MemReserveRejected
    BY <1>1 DEF WaitForPending, InsufficientFunds, MemWaitForPending, MemInsufficientFunds
  <2>2. MemInv' /\ resv' = resv /\ clock' = clock
    BY <1>1, <2>1, ReserveRejectedInv DEF StoreInv, MemReserveRejected
  <2> QED BY <1>1, <2>2, KeepsSame DEF StoreInv, InMemory
<1>2. CASE ~InMemory
  <2>1. UNCHANGED storeVars
    BY <1>2 DEF WaitForPending, InsufficientFunds, SqlWaitForPending, SqlInsufficientFunds
  <2> QED BY <2>1, StillFacts DEF storeVars
<1> QED BY <1>1, <1>2

(* reserve_internal and create_reservation give p the leaves S. *)
LEMMA NewReservation ==
    ASSUME NEW p, NEW S, NEW e, p \notin DOMAIN resv, resv' = Put(resv, Pair(p, e)),
           DOMAIN e.leaves = S
    PROVE  (\A q : q # p => Keeps(q)) /\ StoredFor(p)' = S
<1>1. /\ DOMAIN resv' = DOMAIN resv \cup {p}
      /\ resv'[p] = e
      /\ \A q \in DOMAIN resv : resv'[q] = resv[q]
  BY DEF Put, Pair
<1>2. StoredFor(p)' = S
  BY <1>1 DEF StoredFor
<1>3. ASSUME NEW q, q # p PROVE Keeps(q)
  BY <1>1, <1>3 DEF Keeps, StoredFor
<1> QED BY <1>2, <1>3

LEMMA TryReserveFacts ==
    ASSUME StoreInv, NEW p \in Proc, NEW S, TryReserve(p, S)
    PROVE  /\ StoreInv' /\ (\A q : q # p => Keeps(q)) /\ clock' = clock
           /\ StoredFor(p)' = S
<1>0. p \in Reservation /\ PurposeOf(p) \in Purpose
  BY ProcAssumption DEF PurposeOf, Purpose
<1> DEFINE tgt == TargetOf[p]
           purpose == PurposeOf(p)
<1>1. CASE InMemory
  <2>1. MemInv /\ MemTryReserve(p, S, tgt, FALSE, purpose)
    BY <1>1 DEF TryReserve, StoreInv
  <2> HIDE DEF tgt, purpose
  <2>2. PICK n : ReserveInternal(p, S, purpose, n)
    BY <2>1 DEF MemTryReserve
  <2>3. MemInv'
    BY <1>0, <2>1, <2>2, ReserveInternalInv DEF purpose
  <2> DEFINE e == [leaves |-> Restrict(pool, S), purpose |-> purpose, pending |-> n, created |-> 0]
  <2>4. p \notin DOMAIN resv /\ resv' = Put(resv, Pair(p, e)) /\ clock' = clock
    BY <2>2 DEF ReserveInternal
  <2>5. DOMAIN e.leaves = S
    BY <2>2 DEF ReserveInternal, Restrict
  <2> HIDE DEF e
  <2>6. (\A q : q # p => Keeps(q)) /\ StoredFor(p)' = S
    BY <2>4, <2>5, NewReservation
  <2> QED BY <1>1, <2>3, <2>4, <2>6 DEF StoreInv, InMemory
<1>2. CASE ~InMemory
  <2>1. SqlInv /\ SqlTryReserve(p, S, tgt, FALSE, purpose, clock)
    BY <1>2 DEF TryReserve, StoreInv
  <2>2. SqlInv'
    <3> HIDE DEF tgt
    <3> QED BY <1>0, <2>1, SqlTryReserveInv
  <2> HIDE DEF tgt, purpose
  <2>3. PICK n : CreateReservation(p, S, purpose, n, clock)
    BY <2>1 DEF SqlTryReserve
  <2> DEFINE e == [leaves |-> Restrict(pool, S), purpose |-> purpose, pending |-> n, created |-> clock]
  <2>4. p \notin DOMAIN resv /\ resv' = Put(resv, Pair(p, e)) /\ clock' = clock
    BY <2>3 DEF CreateReservation
  <2>5. DOMAIN e.leaves = S
    BY DEF Restrict
  <2> HIDE DEF e
  <2>6. (\A q : q # p => Keeps(q)) /\ StoredFor(p)' = S
    BY <2>4, <2>5, NewReservation
  <2> QED BY <1>2, <2>2, <2>4, <2>6 DEF StoreInv, InMemory
<1> QED BY <1>1, <1>2

(* Dropping p's reservation leaves the others. *)
LEMMA DropKeeps ==
    ASSUME NEW p, resv' = Drop(resv, {p})
    PROVE  (\A q : q # p => Keeps(q)) /\ p \notin DOMAIN resv'
<1>1. DOMAIN resv' = DOMAIN resv \ {p} /\ \A q \in DOMAIN resv \ {p} : resv'[q] = resv[q]
  BY DEF Drop
<1>2. ASSUME NEW q, q # p PROVE Keeps(q)
  BY <1>1, <1>2 DEF Keeps, StoredFor
<1> QED BY <1>1, <1>2

LEMMA SqlDropKeeps ==
    ASSUME ~InMemory, NEW p, NEW rows, resv' = UpsertReserved(Drop(resv, {p}), rows)
    PROVE  (\A q : q # p => Keeps(q)) /\ p \notin DOMAIN resv'
<1>1. DOMAIN resv' = DOMAIN resv \ {p}
  BY DropDomain DEF UpsertReserved
<1> QED BY <1>1 DEF Keeps

(* cancel_reservation *)
LEMMA CancelFacts ==
    ASSUME StoreInv, NEW p, NEW S, S \subseteq Leaf, Cancel(p, S)
    PROVE  /\ StoreInv' /\ (\A q : q # p => Keeps(q)) /\ clock' = clock
           /\ p \notin DOMAIN resv'
<1> DEFINE nodes == Nodes(S)
<1>0. nodes \in Listing
  BY NodesListing
<1>1. CASE InMemory
  <2>1. MemInv /\ MemCancel(p, nodes)
    BY <1>1 DEF Cancel, StoreInv
  <2> HIDE DEF nodes
  <2>2. MemInv'
    BY <1>0, <2>1, CancelInv
  <2>3. clock' = clock /\ resv' = Drop(resv, {p})
    BY <2>1 DEF MemCancel
  <2> QED BY <1>1, <2>2, <2>3, DropKeeps DEF StoreInv, InMemory
<1>2. CASE ~InMemory
  <2>1. SqlInv /\ SqlCancel(p, nodes, clock)
    BY <1>2 DEF Cancel, StoreInv
  <2> HIDE DEF nodes
  <2>2. SqlInv'
    BY <1>0, <2>1, NowIsTime, SqlCancelInv
  <2>3. clock' = clock /\ \E rows : resv' = UpsertReserved(Drop(resv, {p}), rows)
    BY <2>1 DEF SqlCancel
  <2> QED BY <1>2, <2>2, <2>3, SqlDropKeeps DEF StoreInv, InMemory
<1> QED BY <1>1, <1>2

(* finalize_reservation *)
LEMMA FinalizeFacts ==
    ASSUME StoreInv, NEW p, NEW hasNew, NEW S, S \subseteq Leaf, Finalize(p, hasNew, S)
    PROVE  /\ StoreInv' /\ (\A q : q # p => Keeps(q)) /\ clock' = clock
           /\ p \notin DOMAIN resv'
<1> DEFINE nodes == Nodes(S)
<1>0. nodes \in Listing
  BY NodesListing
<1>1. CASE InMemory
  <2>1. MemInv /\ MemFinalize(p, hasNew, nodes)
    BY <1>1 DEF Finalize, StoreInv
  <2> HIDE DEF nodes
  <2>2. MemInv'
    BY <1>0, <2>1, FinalizeInv
  <2>3. clock' = clock /\ resv' = Drop(resv, {p})
    BY <2>1 DEF MemFinalize
  <2> QED BY <1>1, <2>2, <2>3, DropKeeps DEF StoreInv, InMemory
<1>2. CASE ~InMemory
  <2>1. SqlInv /\ SqlFinalize(p, hasNew, nodes, clock)
    BY <1>2 DEF Finalize, StoreInv
  <2> HIDE DEF nodes
  <2>2. SqlInv'
    BY <1>0, <2>1, NowIsTime, SqlFinalizeInv
  <2>3. clock' = clock /\ \E rows : resv' = UpsertReserved(Drop(resv, {p}), rows)
    BY <2>1 DEF SqlFinalize
  <2> QED BY <1>2, <2>2, <2>3, SqlDropKeeps DEF StoreInv, InMemory
<1> QED BY <1>1, <1>2

(* update_reservation *)
LEMMA UpdateFacts ==
    ASSUME StoreInv, NEW p, NEW S, S \subseteq Leaf, NEW change, change \subseteq Leaf,
           Update(p, S, change)
    PROVE  /\ StoreInv' /\ (\A q : q # p => Keeps(q)) /\ clock' = clock
           /\ InMemory => StoredFor(p)' = S
<1> DEFINE nodes == Nodes(S)
           rest == Nodes(change)
<1>0. nodes \in Listing /\ rest \in Listing /\ DOMAIN nodes = S
  BY NodesListing
<1>1. CASE InMemory
  <2>1. MemInv /\ MemUpdate(p, nodes, rest)
    BY <1>1 DEF Update, StoreInv
  <2> HIDE DEF nodes, rest
  <2>2. MemInv'
    BY <1>0, <2>1, UpdateInv
  <2> DEFINE new == [l \in DOMAIN nodes |-> FromNode(nodes[l], clock, FALSE)]
  <2>3. /\ p \in DOMAIN resv
        /\ resv' = [resv EXCEPT ![p].leaves = new, ![p].pending = 0]
        /\ clock' = clock
    BY <2>1 DEF MemUpdate
  <2>4. DOMAIN new = S
    BY <1>0
  <2> HIDE DEF new
  <2>5. /\ DOMAIN resv' = DOMAIN resv
        /\ \A q \in DOMAIN resv \ {p} : resv'[q] = resv[q]
        /\ resv'[p] = [[resv[p] EXCEPT !.leaves = new] EXCEPT !.pending = 0]
    BY <2>3
  <2>6. resv'[p].leaves = new
    BY <2>5
  <2>7. StoredFor(p)' = S
    BY <2>3, <2>4, <2>5, <2>6 DEF StoredFor
  <2>8. ASSUME NEW q, q # p PROVE Keeps(q)
    BY <2>5, <2>8 DEF Keeps, StoredFor
  <2> QED BY <1>1, <2>2, <2>3, <2>7, <2>8 DEF StoreInv, InMemory
<1>2. CASE ~InMemory
  <2>1. SqlInv /\ SqlUpdate(p, nodes, rest, clock)
    BY <1>2 DEF Update, StoreInv
  <2> HIDE DEF nodes, rest
  <2>2. SqlInv'
    BY <1>0, <2>1, NowIsTime, SqlUpdateInv
  <2>3. clock' = clock /\ DOMAIN resv' = DOMAIN resv
    BY <2>1 DEF SqlUpdate
  <2> QED BY <1>2, <2>2, <2>3 DEF StoreInv, InMemory, Keeps
<1> QED BY <1>1, <1>2

-----------------------------------------------------------------------------
(***************************************************************************)
(* The inductive invariant.  It adds to the store's own invariant and the  *)
(* callers' type that refreshes started in the past (which set_leaves      *)
(* needs), and for each process q that holds a reservation that q has not  *)
(* come to an end other than by the leak; on the memory backend, that q    *)
(* holds what it has reserved.                                             *)
(***************************************************************************)
StoreTime == \A f \in Refresher : startedAt[f] <= clock

OwnOK(q) ==
    /\ q \in DOMAIN resv => /\ q \in Proc
                            /\ pc[q] \notin {"idle", "queued", "waiting", "done", "failed"}
    /\ InMemory /\ q \in Proc /\ pc[q] \in {"reserved", "send", "finalize", "swap", "oswap"} =>
          held[q] = StoredFor(q)

WalletInv ==
    /\ TypeOK
    /\ StoreInv
    /\ StoreTime
    /\ \A q \in Reservation : OwnOK(q)

(* The wallet starts in it. *)
LEMMA WalletStarts == Init => WalletInv
<1> SUFFICES ASSUME Init PROVE WalletInv
  OBVIOUS
<1> DEFINE row == FromNode([available |-> TRUE, parent |-> NoParent], 0, FALSE)
<1>1. row \in Row
  BY MaxTimeAssumption DEF FromNode, Row, Time
<1>2. pool \in [Genesis -> Row]
  BY <1>1 DEF Init
<1>3. /\ pool \in Partial(Leaf, Row)
      /\ spent \in Partial(Leaf, Time)
      /\ ancestors \in Partial(Leaf, SUBSET Node)
      /\ DOMAIN resv = {} /\ DOMAIN spent = {} /\ DOMAIN ancestors = {}
  <2>1. pool \in Partial(Leaf, Row)
    BY <1>2, GenesisAssumption, PartialIntro
  <2> QED BY <2>1, EmptyMapType DEF Init
<1>4. /\ lastSwap \in Time \cup {Never} /\ clock \in Time /\ clock = 0 /\ inflight = 0
      /\ permits = MaxConcurrentReservations /\ permits \in Nat /\ inflight \in Nat
  BY MaxTimeAssumption, PermitAssumption DEF Init, Time
<1>5. MemInv
  <2>1. StoreTypeOK
    BY <1>3, <1>4 DEF StoreTypeOK
  <2>2. PermitsConserved
    <3>1. Cardinality(DOMAIN resv) = 0
      BY <1>3, FS_EmptySet
    <3> QED BY <1>4, <3>1 DEF PermitsConserved
  <2>3. ChainsHaveLeaves
    BY <1>3 DEF ChainsHaveLeaves
  <2> QED BY <2>1, <2>2, <2>3 DEF MemInv
<1>6. SqlInv
  <2>1. HeldIn(resv) = {}
    BY <1>3 DEF HeldIn
  <2>2. TablesOK(pool, resv)
    BY <1>3, <2>1 DEF TablesOK
  <2> QED BY <1>3, <1>4, <2>1, <2>2 DEF SqlInv
<1>7. TypeOK
  BY <1>4, GenesisAssumption, MaxWaitsAssumption DEF Init, TypeOK, OwnerState
<1>8. StoreTime
  BY <1>4 DEF Init, StoreTime
<1>9. ASSUME NEW q \in Reservation PROVE OwnOK(q)
  BY <1>3 DEF Init, OwnOK
<1> QED BY <1>5, <1>6, <1>7, <1>8, <1>9 DEF WalletInv, StoreInv

-----------------------------------------------------------------------------
(* What a step of the process p must do, and what follows from it. *)
Own(p) ==
    /\ StoreInv'
    /\ \A q : q # p => Keeps(q)
    /\ clock' = clock
    /\ OwnOK(p)'

LEMMA OwnStep ==
    ASSUME WalletInv, NEW p \in Proc, Own(p), TypeOK',
           \A q \in Proc \ {p} : pc'[q] = pc[q] /\ held'[q] = held[q],
           startedAt' = startedAt
    PROVE  WalletInv'
<1>1. ASSUME NEW q \in Reservation PROVE OwnOK(q)'
  <2>1. CASE q = p
    BY <2>1 DEF Own
  <2>2. CASE q # p
    <3>1. OwnOK(q) /\ Keeps(q)
      BY <2>2 DEF WalletInv, Own
    <3>2. q \in Proc => pc'[q] = pc[q] /\ held'[q] = held[q]
      BY <2>2
    <3> QED BY <3>1, <3>2 DEF OwnOK, Keeps
  <2> QED BY <2>1, <2>2
<1>2. StoreTime'
  BY DEF WalletInv, StoreTime, Own
<1> QED BY <1>1, <1>2 DEF WalletInv, Own

LEMMA OtherStep ==
    ASSUME WalletInv, StoreInv', \A q : Keeps(q), TypeOK', StoreTime', pc' = pc, held' = held
    PROVE  WalletInv'
<1>1. ASSUME NEW q \in Reservation PROVE OwnOK(q)'
  <2>1. OwnOK(q) /\ Keeps(q)
    BY DEF WalletInv
  <2> QED BY <2>1 DEF OwnOK, Keeps
<1> QED BY <1>1 DEF WalletInv

(* A step that leaves the store alone, or only refreshes rows, and moves p *)
(* without letting go of anything.                                         *)
LEMMA QuietStep ==
    ASSUME WalletInv, NEW p \in Proc, StoreInv', \A q : Keeps(q), clock' = clock,
           p \notin DOMAIN resv \/ pc'[p] \notin {"idle", "queued", "waiting", "done", "failed"},
           \/ pc'[p] \notin {"reserved", "send", "finalize", "swap", "oswap"}
           \/ pc[p] \in {"reserved", "send", "finalize", "swap", "oswap"} /\ held' = held
    PROVE  Own(p)
<1>1. OwnOK(p) /\ Keeps(p)
  BY ProcAssumption DEF WalletInv
<1>2. OwnOK(p)'
  BY <1>1 DEF OwnOK, Keeps
<1> QED BY <1>2 DEF Own

(* Nobody in these states has a reservation. *)
LEMMA NotYet ==
    ASSUME WalletInv, NEW p \in Proc, pc[p] \in {"idle", "queued", "waiting", "done", "failed"}
    PROVE  p \notin DOMAIN resv
<1> QED BY ProcAssumption DEF WalletInv, OwnOK

(* Every step of a process. *)
LEMMA ProcOwn ==
    ASSUME WalletInv, NEW p \in Proc, ProcStep(p) \/ Crash(p)
    PROVE  Own(p)
<1>0. /\ StoreInv /\ TypeOK
      /\ pc \in [Proc -> {"idle", "queued", "waiting", "reserved", "send", "finalize", "verify",
                        "cancel", "swap", "claim", "update", "oswap", "oclaim", "ofinalize",
                        "done", "failed", "leaked", "dead"}]
      /\ held[p] \subseteq Leaf /\ keep[p] \subseteq Leaf /\ outputs[p] \subseteq Leaf
      /\ held \in [Proc -> SUBSET Leaf]
  BY DEF WalletInv, TypeOK
<1> DEFINE Still == UNCHANGED storeVars
<1>s. Still => StoreInv' /\ (\A q : Keeps(q)) /\ clock' = clock
  BY <1>0, StillFacts DEF storeVars
<1>g. ASSUME NEW label, Goto(p, label) PROVE pc'[p] = label
  BY <1>0, <1>g DEF Goto
<1>1. CASE Acquire(p)
  <2>1. StoreInv' /\ (\A q : Keeps(q)) /\ clock' = clock
    BY <1>0, <1>1, AcquireFacts DEF Acquire
  <2> QED BY <1>1, <1>g, <2>1, NotYet, QuietStep DEF Acquire
<1>2. CASE ResourceBusy(p)
  BY <1>2, <1>s, <1>g, NotYet, QuietStep DEF ResourceBusy
<1>3. CASE Reserve(p)
  <2>1. PICK S \in SUBSET Leaf : TryReserve(p, S) /\ held' = [held EXCEPT ![p] = S]
    BY <1>3 DEF Reserve
  <2>2. /\ StoreInv' /\ (\A q : q # p => Keeps(q)) /\ clock' = clock
        /\ StoredFor(p)' = S
    BY <1>0, <2>1, TryReserveFacts
  <2>3. pc'[p] = "reserved" /\ held'[p] = S
    BY <1>0, <1>3, <1>g, <2>1 DEF Reserve
  <2>4. OwnOK(p)'
    BY <2>2, <2>3 DEF OwnOK
  <2> QED BY <2>2, <2>4 DEF Own
<1>4. CASE ReserveWait(p)
  <2>1. StoreInv' /\ (\A q : Keeps(q)) /\ clock' = clock
    BY <1>0, <1>4, RejectFacts DEF ReserveWait
  <2>2. pc'[p] \in {"waiting", "failed"}
    BY <1>4, <1>g DEF ReserveWait
  <2> QED BY <1>4, <2>1, <2>2, NotYet, QuietStep DEF ReserveWait
<1>5. CASE ReserveFail(p)
  <2>1. StoreInv' /\ (\A q : Keeps(q)) /\ clock' = clock
    BY <1>0, <1>5, RejectFacts DEF ReserveFail
  <2> QED BY <1>5, <1>g, <2>1, NotYet, QuietStep DEF ReserveFail
<1>6. CASE Wake(p)
  BY <1>6, <1>s, <1>g, NotYet, QuietStep DEF Wake
<1>7. CASE Renew(p)
  <2>1. Still \/ AddLeaves(held[p])
    BY <1>7 DEF Renew
  <2>2. StoreInv' /\ (\A q : Keeps(q)) /\ clock' = clock
    BY <1>0, <1>s, <2>1, AddLeavesFacts
  <2>3. pc'[p] \in {"send", "oswap", "swap", "verify", "leaked"}
    BY <1>7, <1>g DEF Renew, AfterSelect
  <2> QED BY <1>7, <2>2, <2>3, QuietStep DEF Renew
<1>8. CASE Send(p)
  <2>1. pc'[p] \in {"finalize", "verify"}
    BY <1>8, <1>g DEF Send
  <2> QED BY <1>8, <1>s, <2>1, QuietStep DEF Send
<1>9. CASE FinalizeSend(p)
  <2>1. StoreInv' /\ (\A q : q # p => Keeps(q)) /\ clock' = clock /\ p \notin DOMAIN resv'
    <3> DEFINE none == {}
    <3>1. Finalize(p, FALSE, none)
      BY <1>9 DEF FinalizeSend
    <3>2. none \subseteq Leaf
      OBVIOUS
    <3> HIDE DEF none
    <3> QED BY <1>0, <3>1, <3>2, FinalizeFacts
  <2>2. pc'[p] = "done"
    BY <1>9, <1>g DEF FinalizeSend
  <2> QED BY <2>1, <2>2 DEF Own, OwnOK
<1>10. CASE Verify(p)
  BY <1>10, <1>s, <1>g, QuietStep DEF Verify
<1>11. CASE CancelReservation(p)
  <2>1. StoreInv' /\ (\A q : q # p => Keeps(q)) /\ clock' = clock /\ p \notin DOMAIN resv'
    BY <1>0, <1>11, CancelFacts DEF CancelReservation
  <2>2. pc'[p] = "failed"
    BY <1>11, <1>g DEF CancelReservation
  <2> QED BY <2>1, <2>2 DEF Own, OwnOK
<1>12. CASE SwapRequest(p)
  <2>1. pc'[p] \in {"verify", "claim", "oclaim"}
    BY <1>12, <1>g DEF SwapRequest
  <2> QED BY <1>12, <1>s, <2>1, QuietStep DEF SwapRequest
<1>13. CASE SwapClaim(p)
  <2>1. pc'[p] \in {"update", "ofinalize", "verify"}
    BY <1>13, <1>g DEF SwapClaim
  <2> QED BY <1>13, <1>s, <2>1, QuietStep DEF SwapClaim
<1>14. CASE UpdateReservation(p)
  <2>1. CASE /\ p \in DOMAIN resv
             /\ \E S \in TargetSelections(outputs[p], TargetOf[p]) :
                   Update(p, S, outputs[p] \ S) /\ held' = [held EXCEPT ![p] = S]
             /\ Goto(p, AfterSelect(p))
    <3>1. PICK S \in TargetSelections(outputs[p], TargetOf[p]) :
             Update(p, S, outputs[p] \ S) /\ held' = [held EXCEPT ![p] = S]
      BY <2>1
    <3>2. S \subseteq outputs[p]
      BY SelectionInside
    <3>3. S \subseteq Leaf /\ outputs[p] \ S \subseteq Leaf
      BY <1>0, <3>2
    <3>4. /\ StoreInv' /\ (\A q : q # p => Keeps(q)) /\ clock' = clock
          /\ InMemory => StoredFor(p)' = S
      BY <1>0, <3>1, <3>3, UpdateFacts
    <3>5. pc'[p] \in {"send", "oswap"} /\ held'[p] = S
      BY <1>0, <2>1, <1>g, <3>1 DEF AfterSelect
    <3>6. OwnOK(p)'
      BY <3>4, <3>5 DEF OwnOK, InMemory
    <3> QED BY <3>4, <3>6 DEF Own
  <2>2. CASE p \notin DOMAIN resv /\ Finalize(p, TRUE, outputs[p]) /\ Goto(p, "failed")
    <3>1. StoreInv' /\ (\A q : q # p => Keeps(q)) /\ clock' = clock /\ p \notin DOMAIN resv'
      BY <1>0, <2>2, FinalizeFacts
    <3>2. pc'[p] = "failed"
      BY <2>2, <1>g
    <3> QED BY <3>1, <3>2 DEF Own, OwnOK
  <2>3. CASE Goto(p, "leaked") /\ Still
    BY <2>3, <1>s, <1>g, QuietStep
  <2> QED BY <1>14, <2>1, <2>2, <2>3 DEF UpdateReservation
<1>15. CASE FinalizeSwap(p)
  <2>1. StoreInv' /\ (\A q : q # p => Keeps(q)) /\ clock' = clock /\ p \notin DOMAIN resv'
    BY <1>0, <1>15, FinalizeFacts DEF FinalizeSwap
  <2>2. pc'[p] = "done"
    BY <1>15, <1>g DEF FinalizeSwap
  <2> QED BY <2>1, <2>2 DEF Own, OwnOK
<1>16. CASE Crash(p)
  BY <1>16, <1>s, <1>g, QuietStep DEF Crash
<1> QED BY <1>1, <1>2, <1>3, <1>4, <1>5, <1>6, <1>7, <1>8, <1>9, <1>10, <1>11, <1>12, <1>13,
           <1>14, <1>15, <1>16 DEF ProcStep

(* What a step of a process leaves alone. *)
LEMMA ProcFrame ==
    ASSUME TypeOK, NEW p \in Proc, ProcStep(p) \/ Crash(p)
    PROVE  /\ \A q \in Proc \ {p} : pc'[q] = pc[q] /\ held'[q] = held[q]
           /\ UNCHANGED <<refreshVars, claimVars>>
<1>1. ASSUME NEW q \in Proc \ {p} PROVE pc'[q] = pc[q]
  BY DEF ProcStep, Acquire, ResourceBusy, Reserve, ReserveWait, ReserveFail, Wake, Renew, Send,
         FinalizeSend, Verify, CancelReservation, SwapRequest, SwapClaim, UpdateReservation,
         FinalizeSwap, Crash, Goto, TypeOK
<1>2. ASSUME NEW q \in Proc \ {p} PROVE held'[q] = held[q]
  BY DEF ProcStep, Acquire, ResourceBusy, Reserve, ReserveWait, ReserveFail, Wake, Renew, Send,
         FinalizeSend, Verify, CancelReservation, SwapRequest, SwapClaim, UpdateReservation,
         FinalizeSwap, Crash, TypeOK
<1>3. UNCHANGED <<refreshVars, claimVars>>
  BY DEF ProcStep, Acquire, ResourceBusy, Reserve, ReserveWait, ReserveFail, Wake, Renew, Send,
         FinalizeSend, Verify, CancelReservation, SwapRequest, SwapClaim, UpdateReservation,
         FinalizeSwap, Crash, refreshVars, claimVars
<1> QED BY <1>1, <1>2, <1>3

(* The leaves of a reservation are leaves. *)
LEMMA StoredInside ==
    ASSUME StoreInv, NEW p
    PROVE  StoredFor(p) \subseteq Leaf
<1>1. StoreTypeOK
  BY SqlInvMeans DEF StoreInv, MemInv
<1>2. CASE p \in DOMAIN resv
  <2>1. resv[p].leaves \in Partial(Leaf, Row)
    BY <1>1, <1>2 DEF StoreTypeOK
  <2>2. DOMAIN resv[p].leaves \subseteq Leaf
    BY <2>1, PartialElim
  <2> QED BY <2>2 DEF StoredFor
<1>3. CASE p \notin DOMAIN resv
  BY <1>3 DEF StoredFor
<1> QED BY <1>2, <1>3

(* The callers' type is preserved by the steps of a process. *)
LEMMA ProcType ==
    ASSUME TypeOK, StoreInv, NEW p \in Proc, ProcStep(p) \/ Crash(p)
    PROVE  TypeOK'
<1> DEFINE Label == {"idle", "queued", "waiting", "reserved", "send", "finalize", "verify",
                     "cancel", "swap", "claim", "update", "oswap", "oclaim", "ofinalize",
                     "done", "failed", "leaked", "dead"}
<1>0. /\ pc \in [Proc -> Label] /\ held \in [Proc -> SUBSET Leaf] /\ keep \in [Proc -> SUBSET Leaf]
      /\ outputs \in [Proc -> SUBSET Leaf] /\ waits \in [Proc -> 0 .. MaxWaits]
      /\ owner \in [Leaf -> OwnerState] /\ finalized \subseteq Leaf
  BY DEF TypeOK
<1>1. pc' \in [Proc -> Label]
  <2>1. \E label \in Label : Goto(p, label)
    <3>1. AfterSelect(p) \in Label
      BY DEF AfterSelect
    <3> QED BY <3>1 DEF ProcStep, Acquire, ResourceBusy, Reserve, ReserveWait, ReserveFail, Wake, Renew, Send,
         FinalizeSend, Verify, CancelReservation, SwapRequest, SwapClaim, UpdateReservation,
         FinalizeSwap, Crash
  <2> QED BY <1>0, <2>1 DEF Goto
<1> HIDE DEF Label
<1>2. held' \in [Proc -> SUBSET Leaf]
  <2>1. CASE Reserve(p)
    BY <1>0, <2>1 DEF Reserve
  <2>2. CASE UpdateReservation(p)
    <3>1. held' = held \/ \E S \in TargetSelections(outputs[p], TargetOf[p]) : held' = [held EXCEPT ![p] = S]
      BY <2>2 DEF UpdateReservation
    <3>2. \A S \in TargetSelections(outputs[p], TargetOf[p]) : S \subseteq outputs[p]
      BY SelectionInside
    <3> QED BY <1>0, <3>1, <3>2
  <2>3. CASE ~Reserve(p) /\ ~UpdateReservation(p)
    <3>1. held' = held
      BY <2>3 DEF ProcStep, Acquire, ResourceBusy, ReserveWait, ReserveFail, Wake, Renew, Send,
         FinalizeSend, Verify, CancelReservation, SwapRequest, SwapClaim, FinalizeSwap, Crash
    <3> QED BY <1>0, <3>1
  <2> QED BY <2>1, <2>2, <2>3
<1>3. keep' \in [Proc -> SUBSET Leaf]
  <2>1. CASE Verify(p)
    BY <1>0, <2>1 DEF Verify, Mine
  <2>2. CASE ~Verify(p)
    <3>1. keep' = keep
      BY <2>2 DEF ProcStep, Acquire, ResourceBusy, Reserve, ReserveWait, ReserveFail, Wake, Renew, Send,
         FinalizeSend, CancelReservation, SwapRequest, SwapClaim, UpdateReservation, FinalizeSwap, Crash
    <3> QED BY <1>0, <3>1
  <2> QED BY <2>1, <2>2
<1>4. outputs' \in [Proc -> SUBSET Leaf]
  <2>1. outputs' = outputs \/ \E S \in SUBSET Leaf : outputs' = [outputs EXCEPT ![p] = S]
    <3>1. CASE SwapRequest(p)
      BY <3>1 DEF SwapRequest
    <3>2. CASE SwapClaim(p)
      BY <3>2 DEF SwapClaim
    <3>3. CASE ~SwapRequest(p) /\ ~SwapClaim(p)
      BY <3>3 DEF ProcStep, Acquire, ResourceBusy, Reserve, ReserveWait, ReserveFail, Wake, Renew, Send,
         FinalizeSend, Verify, CancelReservation, UpdateReservation, FinalizeSwap, Crash
    <3> QED BY <3>1, <3>2, <3>3
  <2> QED BY <1>0, <2>1
<1>5. waits' \in [Proc -> 0 .. MaxWaits]
  <2>1. waits' = waits \/ (waits[p] < MaxWaits /\ waits' = [waits EXCEPT ![p] = waits[p] + 1])
    BY DEF ProcStep, Acquire, ResourceBusy, Reserve, ReserveWait, ReserveFail, Wake, Renew, Send,
         FinalizeSend, Verify, CancelReservation, SwapRequest, SwapClaim, UpdateReservation,
         FinalizeSwap, Crash
  <2>2. waits[p] \in 0 .. MaxWaits
    BY <1>0
  <2>3. waits[p] < MaxWaits => waits[p] + 1 \in 0 .. MaxWaits
    BY <2>2, MaxWaitsAssumption
  <2> QED BY <1>0, <2>1, <2>3
<1>6. owner' \in [Leaf -> OwnerState]
  <2>1. ASSUME NEW S, NEW o \in OwnerState PROVE SetOwner(S, o) \in [Leaf -> OwnerState]
    BY <1>0 DEF SetOwner
  <2>2. CASE Send(p)
    BY <1>0, <2>1, <2>2 DEF Send, OwnerState
  <2>3. CASE SwapRequest(p)
    <3>1. \/ owner' = owner
          \/ owner' = SetOwner(held[p], "locked")
          \/ \E out : owner' = [l \in Leaf |-> IF l \in held[p] THEN "gone"
                                                ELSE IF l \in out THEN "inbound" ELSE owner[l]]
      BY <2>3 DEF SwapRequest
    <3> QED BY <1>0, <2>1, <3>1 DEF OwnerState
  <2>4. CASE SwapClaim(p)
    <3>1. owner' = owner \/ owner' = SetOwner(outputs[p], "mine")
      BY <2>4 DEF SwapClaim
    <3> QED BY <1>0, <2>1, <3>1 DEF OwnerState
  <2>5. CASE ~Send(p) /\ ~SwapRequest(p) /\ ~SwapClaim(p)
    <3>1. owner' = owner
      BY <2>5 DEF ProcStep, Acquire, ResourceBusy, Reserve, ReserveWait, ReserveFail, Wake, Renew,
         FinalizeSend, Verify, CancelReservation, UpdateReservation, FinalizeSwap, Crash
    <3> QED BY <1>0, <3>1
  <2> QED BY <2>2, <2>3, <2>4, <2>5
<1>7. finalized' \subseteq Leaf
  <2>1. finalized' = finalized \/ finalized' = finalized \cup StoredFor(p)
    BY DEF ProcStep, Acquire, ResourceBusy, Reserve, ReserveWait, ReserveFail, Wake, Renew, Send,
         FinalizeSend, Verify, CancelReservation, SwapRequest, SwapClaim, UpdateReservation,
         FinalizeSwap, Crash
  <2> QED BY <1>0, <2>1, StoredInside
<1>8. UNCHANGED <<refreshVars, claimVars>>
  BY ProcFrame
<1> QED BY <1>1, <1>2, <1>3, <1>4, <1>5, <1>6, <1>7, <1>8 DEF TypeOK, refreshVars, claimVars, Label

-----------------------------------------------------------------------------
(* Every step of the wallet preserves the invariant. *)
LEMMA WalletSteps == WalletInv /\ [Next]_vars => WalletInv'
<1> SUFFICES ASSUME WalletInv, [Next]_vars PROVE WalletInv'
  OBVIOUS
<1>0. /\ TypeOK /\ StoreInv /\ StoreTime /\ clock \in Time
      /\ owner \in [Leaf -> OwnerState]
      /\ startedAt \in [Refresher -> Time] /\ snapshot \in [Refresher -> SUBSET Leaf]
      /\ unseen \in [Refresher -> SUBSET Leaf] /\ claimed \in [Claimer -> SUBSET Leaf]
      /\ rpc \in [Refresher -> {"idle", "query", "apply"}] /\ cpc \in [Claimer -> {"idle", "insert"}]
  BY SqlInvMeans DEF WalletInv, StoreInv, MemInv, StoreTypeOK, TypeOK
<1>m. Mine \in SUBSET Leaf
  BY DEF Mine
<1>s. UNCHANGED storeVars => StoreInv' /\ (\A q : Keeps(q)) /\ clock' = clock
  BY <1>0, StillFacts DEF storeVars
<1>1. ASSUME NEW p \in Proc, ProcStep(p) \/ Crash(p) PROVE WalletInv'
  <2>1. Own(p) /\ TypeOK'
    BY <1>0, <1>1, ProcOwn, ProcType
  <2>2. /\ \A q \in Proc \ {p} : pc'[q] = pc[q] /\ held'[q] = held[q]
        /\ startedAt' = startedAt
    BY <1>0, <1>1, ProcFrame DEF refreshVars
  <2> QED BY <2>1, <2>2, OwnStep
<1>2. CASE Tick
  <2>1. StoreInv' /\ (\A q : Keeps(q)) /\ clock' = clock + 1
    BY <1>0, <1>2, TickFacts DEF Tick
  <2>2. TypeOK' /\ pc' = pc /\ held' = held /\ startedAt' = startedAt
    BY <1>0, <1>2 DEF Tick, TypeOK, procVars, refreshVars, claimVars
  <2>3. StoreTime'
    BY <1>0, <2>1, <2>2 DEF StoreTime, Time
  <2> QED BY <2>1, <2>2, <2>3, OtherStep
<1>3. ASSUME NEW f \in Refresher, RefreshStep(f) PROVE WalletInv'
  <2>1. CASE RefreshStart(f)
    <3>1. UNCHANGED <<storeVars, procVars>> /\ startedAt' = [startedAt EXCEPT ![f] = clock]
      BY <2>1 DEF RefreshStart
    <3>2. TypeOK'
      BY <1>0, <2>1 DEF RefreshStart, TypeOK, procVars, claimVars
    <3>3. StoreTime'
      BY <1>0, <1>s, <3>1 DEF StoreTime, Time
    <3> QED BY <1>s, <3>1, <3>2, <3>3, OtherStep DEF procVars
  <2>2. CASE RefreshQuery(f)
    <3>1. UNCHANGED <<storeVars, procVars, startedAt>>
      BY <2>2 DEF RefreshQuery
    <3>2. TypeOK'
      <4>1. snapshot' \in [Refresher -> SUBSET Leaf] /\ unseen' \in [Refresher -> SUBSET Leaf]
        BY <1>0, <1>m, <2>2 DEF RefreshQuery
      <4>2. rpc' \in [Refresher -> {"idle", "query", "apply"}]
        BY <1>0, <2>2 DEF RefreshQuery
      <4> QED BY <1>0, <2>2, <4>1, <4>2 DEF RefreshQuery, TypeOK, procVars, claimVars
    <3>3. StoreTime'
      BY <1>0, <1>s, <3>1 DEF StoreTime
    <3> QED BY <1>s, <3>1, <3>2, <3>3, OtherStep DEF procVars
  <2>3. CASE RefreshFail(f)
    <3>1. UNCHANGED <<storeVars, procVars, startedAt>>
      BY <2>3 DEF RefreshFail
    <3>2. TypeOK'
      BY <1>0, <2>3 DEF RefreshFail, TypeOK, procVars, claimVars
    <3>3. StoreTime'
      BY <1>0, <1>s, <3>1 DEF StoreTime
    <3> QED BY <1>s, <3>1, <3>2, <3>3, OtherStep DEF procVars
  <2>4. CASE RefreshApply(f)
    <3>1. /\ SetLeaves(snapshot[f] \ unseen[f], unseen[f], startedAt[f])
          /\ UNCHANGED <<procVars, startedAt>>
      BY <2>4 DEF RefreshApply
    <3>2. startedAt[f] \in 0 .. clock
      BY <1>0 DEF StoreTime, Time
    <3>3. snapshot[f] \ unseen[f] \subseteq Leaf /\ unseen[f] \subseteq Leaf
      BY <1>0
    <3>4. StoreInv' /\ (\A q : Keeps(q)) /\ clock' = clock
      BY <1>0, <3>1, <3>2, <3>3, SetLeavesFacts
    <3>5. TypeOK'
      BY <1>0, <2>4 DEF RefreshApply, TypeOK, procVars, claimVars
    <3>6. StoreTime'
      BY <1>0, <3>1, <3>4 DEF StoreTime
    <3> QED BY <3>1, <3>4, <3>5, <3>6, OtherStep DEF procVars
  <2> QED BY <1>3, <2>1, <2>2, <2>3, <2>4 DEF RefreshStep
<1>4. ASSUME NEW c \in Claimer, ClaimStep(c) PROVE WalletInv'
  <2>1. CASE Claim(c)
    <3>1. UNCHANGED <<storeVars, procVars, refreshVars>>
      BY <2>1 DEF Claim
    <3>2. owner' \in [Leaf -> OwnerState] /\ claimed' \in [Claimer -> SUBSET Leaf]
      <4>1. PICK S \in SUBSET Claimable :
               owner' = SetOwner(S, "mine") /\ claimed' = [claimed EXCEPT ![c] = S]
        BY <2>1 DEF Claim
      <4>2. S \subseteq Leaf
        BY DEF Claimable
      <4> QED BY <1>0, <4>1, <4>2 DEF SetOwner, OwnerState
    <3>3. TypeOK'
      BY <1>0, <2>1, <3>2 DEF Claim, TypeOK, procVars, refreshVars
    <3>4. StoreTime'
      BY <1>0, <1>s, <3>1 DEF StoreTime, refreshVars
    <3> QED BY <1>s, <3>1, <3>3, <3>4, OtherStep DEF procVars
  <2>2. CASE InsertLeaves(c)
    <3>1. UNCHANGED <<procVars, refreshVars>> /\ (AddLeaves(claimed[c]) \/ UNCHANGED storeVars)
      BY <2>2 DEF InsertLeaves
    <3>2. claimed[c] \subseteq Leaf
      BY <1>0
    <3>3. StoreInv' /\ (\A q : Keeps(q)) /\ clock' = clock
      BY <1>0, <1>s, <3>1, <3>2, AddLeavesFacts
    <3>4. TypeOK'
      BY <1>0, <2>2 DEF InsertLeaves, TypeOK, procVars, refreshVars
    <3>5. StoreTime'
      BY <1>0, <3>1, <3>3 DEF StoreTime, refreshVars
    <3> QED BY <3>1, <3>3, <3>4, <3>5, OtherStep DEF procVars
  <2> QED BY <1>4, <2>1, <2>2 DEF ClaimStep
<1>5. ASSUME NEW l \in Leaf, LockExpires(l) PROVE WalletInv'
  <2>1. UNCHANGED <<storeVars, procVars, refreshVars>>
    BY <1>5 DEF LockExpires
  <2>2. TypeOK'
    BY <1>0, <1>5 DEF LockExpires, TypeOK, OwnerState, procVars, refreshVars, claimVars
  <2>3. StoreTime'
    BY <1>0, <1>s, <2>1 DEF StoreTime, refreshVars
  <2> QED BY <1>s, <2>1, <2>2, <2>3, OtherStep DEF procVars
<1>6. CASE UNCHANGED vars
  <2>1. UNCHANGED <<storeVars, procVars, refreshVars>>
    BY <1>6 DEF vars
  <2>2. TypeOK'
    BY <1>0, <1>6 DEF vars, TypeOK, procVars, refreshVars, claimVars
  <2>3. StoreTime'
    BY <1>0, <1>s, <2>1 DEF StoreTime, refreshVars
  <2> QED BY <1>s, <2>1, <2>2, <2>3, OtherStep DEF procVars
<1> QED BY <1>1, <1>2, <1>3, <1>4, <1>5, <1>6 DEF Next

LEMMA WalletInvariant == Spec => []WalletInv
<1> QED BY WalletStarts, WalletSteps, PTL DEF Spec

(* Whatever its callers do, the store keeps its promises under them: its   *)
(* type, and on the memory backend no exit chain without its leaf and no   *)
(* permit lost or freed twice.                                             *)
THEOREM StoreKeepsPromises ==
    Spec => [](StoreTypeOK /\ (InMemory => PermitsConserved /\ ChainsHaveLeaves))
<1>1. WalletInv => StoreTypeOK /\ (InMemory => PermitsConserved /\ ChainsHaveLeaves)
  BY SqlInvMeans DEF WalletInv, StoreInv, MemInv
<1> QED BY <1>1, WalletInvariant, PTL

(* On the memory backend a caller that is about to hand leaves to the      *)
(* operators (send, swap, finalize) holds exactly what its reservation     *)
(* holds, whatever refreshes, renewals and the other callers did between   *)
(* its awaits; the callers' types hold on both backends.                   *)
THEOREM CallersStayOK == Spec => [](TypeOK /\ (InMemory => CallersOK))
<1>1. WalletInv => TypeOK /\ (InMemory => CallersOK)
  BY ProcAssumption DEF WalletInv, OwnOK, CallersOK, HeldIsReserved
<1> QED BY <1>1, WalletInvariant, PTL

(* On both backends a reservation is forgotten by two error paths only,    *)
(* the errors of renew_reservation_timelocks that do not cancel and the    *)
(* one perform_swap_and_update_reservation returns as it is: all the other *)
(* error paths of select_leaves, with_reserved_leaves and execute_one_swap *)
(* release what they took.                                                 *)
THEOREM OnlyTheLeaksOrphan == Spec => []NoOrphanReservation
<1>1. WalletInv => NoOrphanReservation
  <2> SUFFICES ASSUME WalletInv, NEW p \in DOMAIN resv
               PROVE  pc[p] \notin {"idle", "queued", "waiting", "done", "failed"}
    BY DEF NoOrphanReservation
  <2>1. p \in Reservation
    BY SqlInvMeans DEF WalletInv, StoreInv, MemInv, StoreTypeOK
  <2>2. OwnOK(p)
    BY <2>1 DEF WalletInv
  <2> QED BY <2>2 DEF OwnOK
<1> QED BY <1>1, WalletInvariant, PTL

-----------------------------------------------------------------------------
(* set_leaves keeps every row that is not older than the refresh: in the   *)
(* pool, or in the reservation that already held the leaf.                 *)
LEMMA SetLeavesKeepsNew ==
    ASSUME StoreInv, NEW S, NEW miss, NEW t \in Int, SetLeaves(S, miss, t),
           NEW l \in DOMAIN pool, pool[l].at >= t
    PROVE  l \in StoredLeaves'
<1> DEFINE nodes == Nodes(S)
           missing == Nodes(miss)
<1>1. CASE InMemory
  <2>1. MemSetLeaves(nodes, missing, t)
    BY <1>1 DEF SetLeaves
  <2> HIDE DEF nodes, missing
  <2>2. CASE RefreshSkipped(t)
    BY <2>1, <2>2 DEF MemSetLeaves, storeVars, StoredLeaves
  <2>3. CASE ~RefreshSkipped(t)
    <3> DEFINE recent  == Restrict(pool, {k \in DOMAIN pool : pool[k].at >= t})
    <3>1. PICK listed, rows, h, gone :
             /\ resv' = Refreshed(h, rows)
             /\ gone = DOMAIN Put(recent, listed) \cap ReservedLeaves
             /\ pool' = Drop(Put(recent, listed), gone)
      BY <2>1, <2>3 DEF MemSetLeaves
    <3>2. l \in DOMAIN recent
      BY DEF Restrict
    <3> HIDE DEF recent
    <3>3. l \in DOMAIN Put(recent, listed)
      BY <3>2 DEF Put
    <3>4. CASE l \in ReservedLeaves
      <4>1. PICK r \in DOMAIN resv : l \in DOMAIN resv[r].leaves
        BY <3>4 DEF ReservedLeaves
      <4>2. Keeps(r)
        BY <3>1, RefreshedKeeps
      <4>3. StoredFor(r)' = DOMAIN resv[r].leaves
        BY <1>1, <4>1, <4>2 DEF Keeps, StoredFor
      <4>4. r \in DOMAIN resv' /\ l \in DOMAIN resv'[r].leaves
        BY <4>1, <4>3 DEF StoredFor
      <4> QED BY <4>4 DEF StoredLeaves, ReservedLeaves
    <3>5. CASE l \notin ReservedLeaves
      <4>1. l \in DOMAIN pool'
        BY <3>1, <3>3, <3>5 DEF Drop
      <4> QED BY <4>1 DEF StoredLeaves
    <3> QED BY <3>4, <3>5
  <2> QED BY <2>2, <2>3
<1>2. CASE ~InMemory
  <2>1. SqlSetLeaves(nodes, missing, t, clock)
    BY <1>2 DEF SetLeaves
  <2> HIDE DEF nodes, missing
  <2> DEFINE deleted == {k \in DOMAIN ReleasedPool(clock) : ReleasedPool(clock)[k].at < t}
  <2>2. pool' = ReleasedPool(clock) \/ \E e, rows : pool' = UpsertPool(Drop(ReleasedPool(clock), deleted), e, rows)
    BY <2>1 DEF SqlSetLeaves
  <2>3. l \in DOMAIN ReleasedPool(clock) /\ ReleasedPool(clock)[l] = pool[l]
    BY DEF ReleasedPool
  <2>4. l \notin deleted
    <3>1. pool \in Partial(Leaf, Row)
      BY <1>2 DEF StoreInv, SqlInv, TablesOK
    <3>2. pool[l] \in Row
      BY <3>1, PartialElim
    <3>3. pool[l].at \in Int
      BY <3>2 DEF Row, Time
    <3> QED BY <2>3, <3>3
  <2>5. l \in DOMAIN Drop(ReleasedPool(clock), deleted)
    BY <2>3, <2>4, DropDomain
  <2> HIDE DEF deleted
  <2>6. l \in DOMAIN pool'
    <3> DEFINE left == Drop(ReleasedPool(clock), deleted)
    <3>1. pool' = ReleasedPool(clock) \/ \E e, rows : pool' = UpsertPool(left, e, rows)
      BY <2>2
    <3>2. l \in DOMAIN left
      BY <2>5
    <3> HIDE DEF left
    <3>3. \A e, rows : DOMAIN left \subseteq DOMAIN UpsertPool(left, e, rows)
      BY DEF UpsertPool, Put
    <3> QED BY <2>3, <3>1, <3>2, <3>3
  <2> QED BY <2>6 DEF StoredLeaves
<1> QED BY <1>1, <1>2

(* A refresh does not lose a leaf that entered the pool after it started,  *)
(* on either backend, for any number of concurrent refreshes, claims and   *)
(* payments: set_leaves compares the time each row was added with the      *)
(* refresh_started_at that was read before the operators were asked.       *)
THEOREM RefreshLosesNothingNew == Spec => RefreshKeepsNewLeaves
<1> DEFINE Kept == \A f \in Refresher :
                      rpc[f] = "apply" /\ rpc'[f] = "idle" =>
                         {l \in DOMAIN pool : pool[l].at >= startedAt[f]} \subseteq StoredLeaves'
<1>1. ASSUME WalletInv, Next PROVE Kept
  <2> SUFFICES ASSUME NEW f \in Refresher, rpc[f] = "apply", rpc'[f] = "idle",
                      NEW l \in DOMAIN pool, pool[l].at >= startedAt[f]
               PROVE  l \in StoredLeaves'
    OBVIOUS
  <2>0. /\ StoreInv /\ TypeOK /\ startedAt[f] \in Int
        /\ rpc \in [Refresher -> {"idle", "query", "apply"}]
    BY <1>1 DEF WalletInv, TypeOK, Time
  <2>1. rpc' # rpc
    BY <2>0
  <2>2. PICK g \in Refresher : RefreshStep(g)
    <3>1. ASSUME NEW p \in Proc, ProcStep(p) \/ Crash(p) PROVE FALSE
      BY <2>0, <2>1, <3>1, ProcFrame DEF refreshVars
    <3>2. ~Tick
      BY <2>1 DEF Tick, refreshVars
    <3>3. ASSUME NEW c \in Claimer, ClaimStep(c) PROVE FALSE
      BY <2>1, <3>3 DEF ClaimStep, Claim, InsertLeaves, refreshVars
    <3>4. ASSUME NEW k \in Leaf, LockExpires(k) PROVE FALSE
      BY <2>1, <3>4 DEF LockExpires, refreshVars
    <3> QED BY <1>1, <3>1, <3>2, <3>3, <3>4 DEF Next
  <2>3. g = f /\ (RefreshFail(g) \/ RefreshApply(g))
    BY <2>0, <2>2 DEF RefreshStep, RefreshStart, RefreshQuery, RefreshFail, RefreshApply
  <2>4. CASE RefreshFail(g)
    BY <2>4 DEF RefreshFail, storeVars, StoredLeaves
  <2>5. CASE RefreshApply(g)
    <3> DEFINE S == snapshot[f] \ unseen[f]
               miss == unseen[f]
               t == startedAt[f]
    <3>1. SetLeaves(S, miss, t) /\ t \in Int /\ pool[l].at >= t
      BY <2>0, <2>3, <2>5 DEF RefreshApply
    <3> HIDE DEF S, miss, t
    <3> QED BY <2>0, <3>1, SetLeavesKeepsNew
  <2> QED BY <2>3, <2>4, <2>5
<1>2. ASSUME WalletInv, [Next]_vars PROVE [Kept]_vars
  BY <1>1, <1>2
<1> QED BY <1>2, WalletInvariant, PTL DEF Spec, RefreshKeepsNewLeaves

-----------------------------------------------------------------------------
(***************************************************************************)
(* What the commands of the SQL store do to where leaves are and to the    *)
(* spent markers.                                                          *)
(***************************************************************************)
Same(q) == (q \in DOMAIN resv' <=> q \in DOMAIN resv) /\ StoredFor(q)' = StoredFor(q)

LEMMA StoredMeans ==
    ASSUME NEW l
    PROVE  /\ l \in StoredLeaves <=> l \in DOMAIN pool \/ \E q \in DOMAIN resv : l \in StoredFor(q)
           /\ l \in ReservedLeaves <=> \E q \in DOMAIN resv : l \in StoredFor(q)
           /\ HeldIn(resv) = ReservedLeaves
BY DEF StoredLeaves, ReservedLeaves, HeldIn, StoredFor

(* The same, after a step. *)
LEMMA StoredMeansNext ==
    ASSUME NEW l
    PROVE  l \in StoredLeaves' <=> l \in DOMAIN pool' \/ \E q \in DOMAIN resv' : l \in StoredFor(q)'
BY DEF StoredLeaves, ReservedLeaves, StoredFor

(* A leaf is in one place. *)
LEMMA OnePlace ==
    ASSUME SqlInv, NEW p, NEW l \in StoredFor(p)
    PROVE  p \in DOMAIN resv /\ l \notin DOMAIN pool /\ l \in StoredLeaves /\ \A q : q # p => l \notin StoredFor(q)
<1>1. ReservedOnce
  BY SqlInvMeans
<1>2. p \in DOMAIN resv
  BY DEF StoredFor
<1>3. l \in ReservedLeaves /\ l \in StoredLeaves
  BY <1>2, StoredMeans
<1>4. ASSUME NEW q, q # p PROVE l \notin StoredFor(q)
  BY <1>1, <1>2, <1>4 DEF ReservedOnce, StoredFor
<1> QED BY <1>1, <1>2, <1>3, <1>4 DEF ReservedOnce

(* Deleting the reservations R, with or without upserting rows. *)
LEMMA OthersSame ==
    ASSUME NEW R, resv' = Drop(resv, R) \/ \E rows : resv' = UpsertReserved(Drop(resv, R), rows)
    PROVE  (\A q : q \notin R => Same(q)) /\ (\A q \in R : q \notin DOMAIN resv')
<1> DEFINE live == Drop(resv, R)
<1>1. DOMAIN live = DOMAIN resv \ R /\ \A q \in DOMAIN resv \ R : live[q] = resv[q]
  BY DEF Drop
<1>2. resv' = live \/ \E rows : resv' = UpsertReserved(live, rows)
  OBVIOUS
<1> HIDE DEF live
<1>3. DOMAIN resv' = DOMAIN live
  BY <1>2 DEF UpsertReserved
<1>4. \A q \in DOMAIN live : DOMAIN resv'[q].leaves = DOMAIN live[q].leaves
  BY <1>2, UpsertReservedDomain
<1> QED BY <1>1, <1>3, <1>4 DEF Same, StoredFor

(* add_leaves: a reserved leaf stays where it is; the markers of the       *)
(* leaves are deleted.                                                     *)
LEMMA AddMoves ==
    ASSUME ~InMemory, SqlInv, NEW S, S \subseteq Leaf, AddLeaves(S)
    PROVE  /\ \A q : Same(q)
           /\ \A l \in StoredLeaves' : l \in StoredLeaves \/ l \in S
           /\ DOMAIN spent' = DOMAIN spent \ S
           /\ \A l \in DOMAIN spent \ S : spent'[l] = spent[l]
           /\ clock' = clock
<1> DEFINE nodes == Nodes(S)
           rows == Rows(nodes, FALSE, clock)
           none == {}
<1>1. nodes \in Listing /\ DOMAIN nodes = S /\ SqlAddLeaves(nodes, S, clock) /\ clock \in Time
  BY NodesListing DEF AddLeaves, SqlInv
<1> HIDE DEF nodes
<1>2. DOMAIN rows = S
  BY <1>1, RowsFacts
<1> HIDE DEF rows
<1>3. /\ spent' = Drop(spent, S) /\ pool' = UpsertPool(pool, resv, rows)
      /\ resv' = UpsertReserved(resv, rows) /\ clock' = clock
  BY <1>1 DEF SqlAddLeaves, rows
<1>4. \A q : Same(q)
  <2>1. DOMAIN resv' = DOMAIN resv
    BY <1>3 DEF UpsertReserved
  <2>2. \A q \in DOMAIN resv : DOMAIN resv'[q].leaves = DOMAIN resv[q].leaves
    BY <1>3, UpsertReservedDomain
  <2> QED BY <2>1, <2>2 DEF Same, StoredFor
<1>5. DOMAIN pool' = DOMAIN pool \cup (S \ HeldIn(resv))
  BY <1>2, <1>3, UpsertPoolDomain
<1>6. \A l \in StoredLeaves' : l \in StoredLeaves \/ l \in S
  BY <1>4, <1>5, StoredMeans, StoredMeansNext DEF Same
<1>7. DOMAIN spent' = DOMAIN spent \ S /\ \A l \in DOMAIN spent \ S : spent'[l] = spent[l]
  BY <1>3 DEF Drop
<1> QED BY <1>3, <1>4, <1>6, <1>7

(* set_leaves: only what has expired is released; a listed leaf with a     *)
(* marker from the refresh's time is ignored; recent markers stay.         *)
LEMMA SetMoves ==
    ASSUME ~InMemory, SqlInv, NEW S, S \subseteq Leaf, NEW miss, miss \subseteq Leaf,
           NEW t \in Nat, SetLeaves(S, miss, t)
    PROVE  /\ \A q : q \notin StaleReservations(clock) => Same(q)
           /\ \A l \in StoredLeaves' :
                 \/ l \in StoredLeaves
                 \/ l \in S \cup miss /\ ~(l \in DOMAIN spent /\ spent[l] >= t)
           /\ DOMAIN spent' \subseteq DOMAIN spent
           /\ \A l \in DOMAIN spent : spent[l] + SpentMarkerThreshold >= t =>
                 l \in DOMAIN spent' /\ spent'[l] = spent[l]
           /\ clock' = clock
<1> DEFINE nodes == Nodes(S)
           missing == Nodes(miss)
           live     == Drop(resv, StaleReservations(clock))
           skipped  == \/ \E r \in DOMAIN live : live[r].purpose = "Swap"
                       \/ lastSwap >= t
           markers  == {l \in DOMAIN spent : spent[l] + SpentMarkerThreshold >= t}
           spentIds == {l \in markers : spent[l] >= t}
           deleted  == {l \in DOMAIN ReleasedPool(clock) : ReleasedPool(clock)[l].at < t}
           seen     == Drop(Rows(nodes, FALSE, clock), spentIds)
           lacking  == Drop(Rows(missing, TRUE, clock), spentIds)
           listed   == Put(seen, lacking)
<1>1. /\ nodes \in Listing /\ missing \in Listing /\ DOMAIN nodes = S /\ DOMAIN missing = miss
      /\ SqlSetLeaves(nodes, missing, t, clock) /\ clock \in Time
  BY NodesListing DEF SetLeaves, SqlInv
<1> HIDE DEF nodes, missing
<1>2. /\ resv' = IF skipped THEN live ELSE UpsertReserved(live, listed)
      /\ pool' = IF skipped THEN ReleasedPool(clock)
                 ELSE UpsertPool(Drop(ReleasedPool(clock), deleted), live, listed)
      /\ spent' = IF skipped THEN spent ELSE Restrict(spent, markers)
      /\ clock' = clock
  BY <1>1 DEF SqlSetLeaves
<1>3. \A l \in DOMAIN spent : spent[l] >= t => l \in spentIds
  <2>1. \A l \in DOMAIN spent : spent[l] \in Nat
    <3>1. spent \in Partial(Leaf, Time)
      BY DEF SqlInv
    <3>2. spent \in [DOMAIN spent -> Time]
      BY <3>1, PartialElim
    <3> QED BY <3>2, MaxTimeAssumption DEF Time
  <2> QED BY <2>1, SqlTimeoutAssumption
<1>4. DOMAIN listed \subseteq (S \cup miss) \ spentIds
  <2>1. DOMAIN Rows(nodes, FALSE, clock) = S /\ DOMAIN Rows(missing, TRUE, clock) = miss
    BY <1>1, RowsFacts
  <2>2. DOMAIN seen = S \ spentIds /\ DOMAIN lacking = miss \ spentIds
    BY <2>1, DropDomain
  <2> HIDE DEF seen, lacking
  <2> QED BY <2>2, PutDomain
<1>5. DOMAIN ReleasedPool(clock) \cup HeldIn(live) = DOMAIN pool \cup HeldIn(resv)
  BY ReleasedTables
<1> HIDE DEF skipped, listed, deleted, spentIds
<1>6. (\A q : q \notin StaleReservations(clock) => Same(q)) /\ (\A q \in StaleReservations(clock) : q \notin DOMAIN resv')
  <2>1. resv' = Drop(resv, StaleReservations(clock)) \/ \E rows : resv' = UpsertReserved(Drop(resv, StaleReservations(clock)), rows)
    BY <1>2
  <2> HIDE DEF live
  <2> QED BY <2>1, OthersSame
<1> HIDE DEF live
<1>7. DOMAIN pool' \subseteq DOMAIN pool \cup HeldIn(resv) \cup DOMAIN listed
  <2>1. DOMAIN Drop(ReleasedPool(clock), deleted) \subseteq DOMAIN ReleasedPool(clock)
    BY DropDomain
  <2>2. DOMAIN UpsertPool(Drop(ReleasedPool(clock), deleted), live, listed)
           \subseteq DOMAIN ReleasedPool(clock) \cup DOMAIN listed
    <3>1. DOMAIN UpsertPool(Drop(ReleasedPool(clock), deleted), live, listed)
             = DOMAIN Drop(ReleasedPool(clock), deleted) \cup (DOMAIN listed \ HeldIn(live))
      BY UpsertPoolDomain
    <3> QED BY <2>1, <3>1
  <2> QED BY <1>2, <1>5, <2>2
<1>8. \A l \in StoredLeaves' : l \in StoredLeaves \/ l \in DOMAIN listed
  BY <1>6, <1>7, StoredMeans, StoredMeansNext DEF Same
<1>9. DOMAIN spent' \subseteq DOMAIN spent /\ \A l \in markers : l \in DOMAIN spent' /\ spent'[l] = spent[l]
  BY <1>2 DEF Restrict
<1> QED BY <1>2, <1>3, <1>4, <1>6, <1>8, <1>9

(* try_reserve_leaves *)
LEMMA ReserveMoves ==
    ASSUME ~InMemory, SqlInv, NEW p \in Proc, NEW S, TryReserve(p, S)
    PROVE  /\ p \notin DOMAIN resv /\ p \in DOMAIN resv' /\ StoredFor(p)' = S
           /\ \A q : q # p => Same(q)
           /\ \A l \in StoredLeaves' : l \in StoredLeaves
           /\ spent' = spent /\ clock' = clock
<1> DEFINE tgt == TargetOf[p]
           purpose == PurposeOf(p)
<1>1. SqlTryReserve(p, S, tgt, FALSE, purpose, clock)
  BY DEF TryReserve
<1> HIDE DEF tgt, purpose
<1>2. PICK slim, n :
         /\ slim \in SlimCandidates(Selectable, tgt)
         /\ S \in TargetSelections(slim, tgt) \/ S \in MinimumAmount(slim, TotalSats(tgt))
         /\ CreateReservation(p, S, purpose, n, clock)
  BY <1>1 DEF SqlTryReserve
<1>3. S \subseteq DOMAIN pool
  <2>1. slim \subseteq DOMAIN pool
    BY <1>2 DEF SlimCandidates, Selectable
  <2>2. S \subseteq slim
    BY <1>2, SelectionInside, MinimumInside
  <2> QED BY <2>1, <2>2
<1> DEFINE e == [leaves |-> Restrict(pool, S), purpose |-> purpose, pending |-> n, created |-> clock]
<1>4. /\ p \notin DOMAIN resv /\ resv' = Put(resv, Pair(p, e)) /\ pool' = Drop(pool, S)
      /\ spent' = spent /\ clock' = clock
  BY <1>2 DEF CreateReservation
<1>5. DOMAIN e.leaves = S
  BY DEF Restrict
<1> HIDE DEF e
<1>6. /\ DOMAIN resv' = DOMAIN resv \cup {p}
      /\ resv'[p] = e
      /\ \A q \in DOMAIN resv : resv'[q] = resv[q]
  BY <1>4 DEF Put, Pair
<1>7. p \in DOMAIN resv' /\ StoredFor(p)' = S /\ \A q : q # p => Same(q)
  BY <1>4, <1>5, <1>6 DEF StoredFor, Same
<1>8. DOMAIN pool' \subseteq DOMAIN pool
  BY <1>4, DropDomain
<1>9. \A l \in StoredLeaves' : l \in StoredLeaves
  BY <1>3, <1>7, <1>8, StoredMeans, StoredMeansNext DEF Same
<1> QED BY <1>4, <1>7, <1>9

(* Deleting p's reservation with its rows and upserting those of S. *)
LEMMA ReleaseMoves ==
    ASSUME SqlInv, NEW p, NEW S, S \subseteq Leaf,
           resv' = UpsertReserved(Drop(resv, {p}), Rows(Nodes(S), FALSE, clock)),
           pool' = UpsertPool(pool, Drop(resv, {p}), Rows(Nodes(S), FALSE, clock))
    PROVE  /\ p \notin DOMAIN resv' /\ \A q : q # p => Same(q)
           /\ \A l \in StoredLeaves' : (l \in StoredLeaves /\ l \notin StoredFor(p)) \/ l \in S
<1>1. DOMAIN Rows(Nodes(S), FALSE, clock) = S
  BY NodesListing, RowsFacts DEF SqlInv
<1>2. p \notin DOMAIN resv' /\ \A q : q # p => Same(q)
  <2>1. (\A q : q \notin {p} => Same(q)) /\ (\A q \in {p} : q \notin DOMAIN resv')
    BY OthersSame
  <2> QED BY <2>1
<1>3. DOMAIN pool' \subseteq DOMAIN pool \cup S
  <2> DEFINE rows == Rows(Nodes(S), FALSE, clock)
             rest == Drop(resv, {p})
  <2>1. DOMAIN UpsertPool(pool, rest, rows) = DOMAIN pool \cup (DOMAIN rows \ HeldIn(rest))
    BY UpsertPoolDomain
  <2>2. pool' = UpsertPool(pool, rest, rows) /\ DOMAIN rows = S
    BY <1>1
  <2> HIDE DEF rows, rest
  <2> QED BY <2>1, <2>2
<1>4. ASSUME NEW l \in StoredLeaves' PROVE (l \in StoredLeaves /\ l \notin StoredFor(p)) \/ l \in S
  <2>1. CASE l \in DOMAIN pool'
    BY <1>3, <2>1, StoredMeans, OnePlace
  <2>2. CASE \E q \in DOMAIN resv' : l \in StoredFor(q)'
    <3>1. PICK q \in DOMAIN resv' : l \in StoredFor(q)'
      BY <2>2
    <3>2. q # p /\ q \in DOMAIN resv /\ l \in StoredFor(q)
      BY <1>2, <3>1 DEF Same
    <3> QED BY <3>2, StoredMeans, OnePlace
  <2> QED BY <2>1, <2>2, StoredMeansNext
<1> QED BY <1>2, <1>4

(* batch_insert_spent_leaves: what is newly marked is marked now. *)
LEMMA NewMarkers ==
    ASSUME SqlInv, NEW ids, ids \subseteq Leaf, spent' = MarkSpent(ids, clock)
    PROVE  /\ DOMAIN spent' = DOMAIN spent \cup ids
           /\ \A l \in DOMAIN spent : spent'[l] = spent[l]
           /\ \A l \in ids \ DOMAIN spent : spent'[l] = clock
<1>1. DOMAIN spent' = DOMAIN spent \cup ids /\ \A l \in DOMAIN spent : spent'[l] = spent[l]
  BY NowIsTime, MarkSpentFacts
<1>2. \A l \in ids \ DOMAIN spent : spent'[l] = clock
  BY DEF MarkSpent, Put
<1> QED BY <1>1, <1>2

(* cancel_reservation *)
LEMMA CancelMoves ==
    ASSUME ~InMemory, SqlInv, NEW p, NEW S, S \subseteq Leaf, Cancel(p, S)
    PROVE  /\ p \notin DOMAIN resv' /\ \A q : q # p => Same(q)
           /\ \A l \in StoredLeaves' : (l \in StoredLeaves /\ l \notin StoredFor(p)) \/ l \in S
           /\ spent' = spent /\ clock' = clock
BY ReleaseMoves DEF Cancel, SqlCancel

(* finalize_reservation *)
LEMMA FinalizeMoves ==
    ASSUME ~InMemory, SqlInv, NEW p, NEW hasNew, NEW S, S \subseteq Leaf, Finalize(p, hasNew, S)
    PROVE  /\ p \notin DOMAIN resv' /\ \A q : q # p => Same(q)
           /\ \A l \in StoredLeaves' : (l \in StoredLeaves /\ l \notin StoredFor(p)) \/ l \in S
           /\ DOMAIN spent' = DOMAIN spent \cup StoredFor(p)
           /\ \A l \in DOMAIN spent : spent'[l] = spent[l]
           /\ \A l \in StoredFor(p) \ DOMAIN spent : spent'[l] = clock
           /\ clock' = clock
<1>1. SqlFinalize(p, hasNew, Nodes(S), clock)
  BY DEF Finalize
<1>2. /\ p \notin DOMAIN resv' /\ \A q : q # p => Same(q)
      /\ \A l \in StoredLeaves' : (l \in StoredLeaves /\ l \notin StoredFor(p)) \/ l \in S
  BY <1>1, ReleaseMoves DEF SqlFinalize
<1>3. spent' = MarkSpent(StoredFor(p), clock) /\ clock' = clock
  BY <1>1 DEF SqlFinalize, StoredFor
<1>4. StoredFor(p) \subseteq Leaf
  BY StoredInside DEF StoreInv, InMemory
<1> QED BY <1>2, <1>3, <1>4, NewMarkers

(* update_reservation: the reserved leaves are taken from wherever they    *)
(* were.                                                                   *)
LEMMA UpdateMoves ==
    ASSUME ~InMemory, SqlInv, NEW p, NEW S, S \subseteq Leaf, NEW change, change \subseteq Leaf, Update(p, S, change)
    PROVE  /\ p \in DOMAIN resv' /\ StoredFor(p)' = S
           /\ \A q : q # p => (q \in DOMAIN resv' <=> q \in DOMAIN resv) /\ StoredFor(q)' = StoredFor(q) \ S
           /\ \A l \in StoredLeaves' : (l \in StoredLeaves /\ l \notin StoredFor(p)) \/ l \in S \cup change
           /\ DOMAIN spent' = DOMAIN spent \cup StoredFor(p)
           /\ \A l \in DOMAIN spent : spent'[l] = spent[l]
           /\ \A l \in StoredFor(p) \ DOMAIN spent : spent'[l] = clock
           /\ clock' = clock
<1> DEFINE reserved == Nodes(S)
           rest  == Drop(resv, {p})
           rows  == Rows(Nodes(change), FALSE, clock)
           ue    == UpsertReserved(rest, rows)
           new   == Rows(reserved, FALSE, clock)
<1>1. /\ reserved \in Listing /\ DOMAIN reserved = S /\ clock \in Time /\ DOMAIN rows = change
      /\ DOMAIN new = S
  <2>1. Nodes(S) \in Listing /\ DOMAIN Nodes(S) = S /\ Nodes(change) \in Listing /\ DOMAIN Nodes(change) = change
    BY NodesListing
  <2>2. clock \in Time
    BY DEF SqlInv
  <2> QED BY <2>1, <2>2, RowsFacts
<1>2. /\ p \in DOMAIN resv
      /\ resv' = [q \in DOMAIN resv |->
                     IF q = p THEN [resv[p] EXCEPT !.leaves = new, !.pending = 0]
                     ELSE [ue[q] EXCEPT !.leaves = Drop(@, DOMAIN reserved)]]
      /\ pool' = Drop(UpsertPool(pool, rest, rows), DOMAIN reserved)
      /\ spent' = MarkSpent(DOMAIN resv[p].leaves, clock) /\ clock' = clock
  BY DEF Update, SqlUpdate
<1>3. ASSUME NEW q \in DOMAIN resv \ {p}
      PROVE  DOMAIN ue[q].leaves = DOMAIN resv[q].leaves
  <2>1. q \in DOMAIN rest /\ rest[q] = resv[q]
    BY DEF Drop
  <2> HIDE DEF rest
  <2>2. DOMAIN ue[q].leaves = DOMAIN rest[q].leaves
    BY <2>1, UpsertReservedDomain
  <2> QED BY <2>1, <2>2
<1> HIDE DEF ue, new, reserved, rest, rows
<1>4. DOMAIN resv' = DOMAIN resv
  BY <1>2
<1>5. resv'[p].leaves = new
  <2>1. resv'[p] = [[resv[p] EXCEPT !.leaves = new] EXCEPT !.pending = 0]
    BY <1>2
  <2> QED BY <2>1
<1>6. ASSUME NEW q \in DOMAIN resv \ {p}
      PROVE  DOMAIN resv'[q].leaves = DOMAIN resv[q].leaves \ S
  <2>1. resv'[q] = [ue[q] EXCEPT !.leaves = Drop(ue[q].leaves, S)]
    BY <1>1, <1>2
  <2>2. resv'[q].leaves = Drop(ue[q].leaves, S)
    BY <2>1
  <2>3. DOMAIN Drop(ue[q].leaves, S) = DOMAIN ue[q].leaves \ S
    BY DropDomain
  <2> QED BY <1>3, <2>2, <2>3
<1>7. /\ p \in DOMAIN resv' /\ StoredFor(p)' = S
      /\ \A q : q # p => (q \in DOMAIN resv' <=> q \in DOMAIN resv) /\ StoredFor(q)' = StoredFor(q) \ S
  BY <1>1, <1>2, <1>4, <1>5, <1>6 DEF StoredFor
<1>8. DOMAIN pool' \subseteq DOMAIN pool \cup change
  <2>1. DOMAIN UpsertPool(pool, rest, rows) \subseteq DOMAIN pool \cup change
    <3>1. DOMAIN UpsertPool(pool, rest, rows) = DOMAIN pool \cup (DOMAIN rows \ HeldIn(rest))
      BY UpsertPoolDomain
    <3> QED BY <1>1, <3>1
  <2>2. DOMAIN pool' \subseteq DOMAIN UpsertPool(pool, rest, rows)
    <3>1. DOMAIN Drop(UpsertPool(pool, rest, rows), DOMAIN reserved)
             = DOMAIN UpsertPool(pool, rest, rows) \ DOMAIN reserved
      BY DropDomain
    <3> QED BY <1>2, <3>1
  <2> QED BY <2>1, <2>2
<1>9. ASSUME NEW l \in StoredLeaves' PROVE (l \in StoredLeaves /\ l \notin StoredFor(p)) \/ l \in S \cup change
  <2>1. CASE l \in DOMAIN pool'
    BY <1>8, <2>1, StoredMeans, OnePlace
  <2>2. CASE \E q \in DOMAIN resv' : l \in StoredFor(q)'
    <3>1. PICK q \in DOMAIN resv' : l \in StoredFor(q)'
      BY <2>2
    <3>2. CASE q # p
      BY <1>7, <3>1, <3>2, StoredMeans, OnePlace
    <3>3. CASE q = p
      BY <1>7, <3>1, <3>3
    <3> QED BY <3>2, <3>3
  <2> QED BY <2>1, <2>2, StoredMeansNext
<1>10. spent' = MarkSpent(StoredFor(p), clock) /\ StoredFor(p) \subseteq Leaf
  BY <1>2, StoredInside DEF StoredFor, StoreInv, InMemory
<1>11. /\ DOMAIN spent' = DOMAIN spent \cup StoredFor(p)
       /\ \A l \in DOMAIN spent : spent'[l] = spent[l]
       /\ \A l \in StoredFor(p) \ DOMAIN spent : spent'[l] = clock
  BY <1>10, NewMarkers
<1> QED BY <1>2, <1>7, <1>9, <1>11

-----------------------------------------------------------------------------
(***************************************************************************)
(* A finalized leaf stays out of the SQL store, unless                     *)
(*   - the reservation of a caller that is still at work expires, so that  *)
(*     its leaves are reserved and spent by another one and then put back  *)
(*     by its own cancel_reservation or renewal;                           *)
(*   - a leaf that was just claimed is found by a refresh, reserved and    *)
(*     spent before the one who claimed it stores it;                      *)
(*   - a refresh takes so long that the marker it needs is deleted.        *)
(* TLC finds a counterexample without any one of the three conditions.     *)
(***************************************************************************)
OnlyTheDeadExpire == \A r \in StaleReservations(clock) : pc[r] \in {"dead", "leaked"}

(* The leaves that swaps and claims have obtained and not yet stored. *)
Arriving ==
    {l \in Leaf : \/ \E p \in Proc : pc[p] \in {"update", "ofinalize"} /\ l \in outputs[p]
                 \/ \E c \in Claimer : cpc[c] = "insert" /\ l \in claimed[c]}

NobodyAhead == ReservedLeaves \cap Arriving = {}

RefreshesInTime ==
    \A f \in Refresher : rpc[f] = "apply" => clock <= startedAt[f] + SpentMarkerThreshold

Benign == OnlyTheDeadExpire /\ NobodyAhead /\ RefreshesInTime

(* The states of a caller in which it answers for a reservation. *)
Active == {"reserved", "send", "finalize", "verify", "cancel", "swap", "oswap",
           "claim", "oclaim", "update", "ofinalize"}

Owned(o) == {l \in Leaf : owner[l] = o}

(***************************************************************************)
(* The inductive invariant.  A caller holds what is reserved for it; what  *)
(* it has sent or swapped away is gone, what its swap gave it is on its    *)
(* way to it alone or already ours, and so is what it will put back.  What *)
(* is finalized is gone; only finalized leaves are marked; and a refresh   *)
(* whose answer still lists one will find a marker that is not older.      *)
(***************************************************************************)
ProcFin(p) ==
    /\ pc[p] \in Active => p \in DOMAIN resv /\ StoredFor(p) = held[p]
    /\ pc[p] \in {"finalize", "claim", "oclaim", "update", "ofinalize"} =>
          held[p] \subseteq Owned("gone")
    /\ pc[p] \in {"claim", "oclaim"} => outputs[p] \subseteq Owned("inbound")
    /\ pc[p] \in {"update", "ofinalize"} => outputs[p] \subseteq Owned("mine")
    /\ pc[p] = "cancel" => keep[p] \subseteq held[p] \cap Owned("mine")

Apart ==
    \A p, q \in Proc :
        p # q /\ pc[p] \in {"claim", "oclaim"} /\ pc[q] \in {"claim", "oclaim"} =>
           outputs[p] \cap outputs[q] = {}

ClaimFin(c) == cpc[c] = "insert" => claimed[c] \subseteq Owned("mine")

RefreshFin(f) ==
    rpc[f] = "apply" =>
       /\ unseen[f] \subseteq snapshot[f]
       /\ \A l \in snapshot[f] \cap finalized : l \in DOMAIN spent /\ spent[l] >= startedAt[f]

StoreFin ==
    /\ finalized \subseteq Owned("gone")
    /\ DOMAIN spent \subseteq finalized
    /\ FinalizedStaysOut

FinInv ==
    /\ \A p \in Proc : ProcFin(p)
    /\ Apart
    /\ \A c \in Claimer : ClaimFin(c)
    /\ \A f \in Refresher : RefreshFin(f)
    /\ StoreFin

LEMMA FinStarts == Init => FinInv
<1> SUFFICES ASSUME Init PROVE FinInv
  OBVIOUS
<1>1. \A p \in Proc : pc[p] = "idle"
  BY DEF Init
<1>2. (\A c \in Claimer : cpc[c] = "idle") /\ (\A f \in Refresher : rpc[f] = "idle")
  BY DEF Init
<1>3. finalized = {} /\ DOMAIN spent = {}
  BY DEF Init, EmptyMap
<1> QED BY <1>1, <1>2, <1>3
        DEF FinInv, ProcFin, Active, Apart, ClaimFin, RefreshFin, StoreFin, FinalizedStaysOut

-----------------------------------------------------------------------------
(* What a step may do to the owners of leaves without disturbing the       *)
(* callers Q and the claimers.                                             *)
OwnersKept(Q) ==
    /\ \A l \in Leaf : owner[l] = "gone" => owner'[l] = "gone"
    /\ \A q \in Q : /\ pc[q] \in {"claim", "oclaim", "update", "ofinalize"} =>
                         \A l \in outputs[q] : owner'[l] = owner[l]
                    /\ pc[q] = "cancel" => \A l \in keep[q] : owner'[l] = owner[l]
    /\ \A c \in Claimer : cpc[c] = "insert" => \A l \in claimed[c] : owner'[l] = owner[l]

(* What a step may do to the store: leaves of new may enter it, and those  *)
(* of used leave it for good, marked.                                      *)
StoreStep(new, used) ==
    /\ finalized' = finalized \cup used
    /\ used \subseteq Owned("gone") \cap StoredLeaves
    /\ new \cap (finalized \cup used) = {}
    /\ \A l \in StoredLeaves' : (l \in StoredLeaves /\ l \notin used) \/ l \in new
    /\ DOMAIN spent' \subseteq DOMAIN spent \cup used
    /\ \A l \in used \ DOMAIN spent : l \in DOMAIN spent' /\ spent'[l] = clock
    /\ \A f \in Refresher : rpc[f] = "apply" =>
          \A l \in DOMAIN spent \cap finalized :
             spent[l] >= startedAt[f] => l \in DOMAIN spent' /\ spent'[l] = spent[l]

LEMMA StoreKept ==
    ASSUME StoreFin, NEW new, NEW used, StoreStep(new, used),
           \A l \in Leaf : owner[l] = "gone" => owner'[l] = "gone"
    PROVE  StoreFin'
<1>1. finalized' \subseteq Owned("gone")'
  BY DEF StoreFin, StoreStep, Owned
<1>2. DOMAIN spent' \subseteq finalized'
  BY DEF StoreFin, StoreStep
<1>3. \A l \in StoredLeaves' : l \notin finalized'
  BY DEF StoreFin, StoreStep, FinalizedStaysOut
<1> QED BY <1>1, <1>2, <1>3 DEF StoreFin, FinalizedStaysOut

LEMMA RefreshKept ==
    ASSUME StoreFin, StoreTime, clock \in Nat, NEW f \in Refresher, RefreshFin(f), startedAt[f] \in Nat,
           NEW new, NEW used, StoreStep(new, used),
           rpc'[f] = "apply" => /\ rpc[f] = "apply" /\ startedAt'[f] = startedAt[f]
                                /\ snapshot'[f] = snapshot[f] /\ unseen'[f] = unseen[f]
    PROVE  RefreshFin(f)'
<1> SUFFICES ASSUME rpc'[f] = "apply" PROVE RefreshFin(f)'
  BY DEF RefreshFin
<1>1. /\ rpc[f] = "apply" /\ startedAt'[f] = startedAt[f] /\ snapshot'[f] = snapshot[f]
      /\ unseen'[f] \subseteq snapshot'[f]
  BY DEF RefreshFin
<1>2. ASSUME NEW l \in snapshot[f] \cap finalized' PROVE l \in DOMAIN spent' /\ spent'[l] >= startedAt[f]
  <2>1. CASE l \in finalized
    BY <1>1, <1>2, <2>1 DEF RefreshFin, StoreStep
  <2>2. CASE l \notin finalized
    <3>1. l \in used \ DOMAIN spent
      BY <1>2, <2>2 DEF StoreStep, StoreFin
    <3>2. l \in DOMAIN spent' /\ spent'[l] = clock
      BY <3>1 DEF StoreStep
    <3> QED BY <3>2 DEF StoreTime
  <2> QED BY <2>1, <2>2
<1> QED BY <1>1, <1>2 DEF RefreshFin

LEMMA ProcKept ==
    ASSUME NEW Q, NEW q \in Q, ProcFin(q), OwnersKept(Q), pc'[q] = pc[q], held'[q] = held[q],
           keep'[q] = keep[q], outputs'[q] = outputs[q], pc[q] \in Active => Same(q)
    PROVE  ProcFin(q)'
<1>1. pc'[q] \in Active => q \in DOMAIN resv' /\ StoredFor(q)' = held'[q]
  BY DEF ProcFin, Same
<1>2. pc'[q] \in {"finalize", "claim", "oclaim", "update", "ofinalize"} => held'[q] \subseteq Owned("gone")'
  BY DEF ProcFin, Owned, OwnersKept
<1>3. pc'[q] \in {"claim", "oclaim"} => outputs'[q] \subseteq Owned("inbound")'
  BY DEF ProcFin, Owned, OwnersKept
<1>4. pc'[q] \in {"update", "ofinalize"} => outputs'[q] \subseteq Owned("mine")'
  BY DEF ProcFin, Owned, OwnersKept
<1>5. pc'[q] = "cancel" => keep'[q] \subseteq held'[q] \cap Owned("mine")'
  BY DEF ProcFin, Owned, OwnersKept
<1> QED BY <1>1, <1>2, <1>3, <1>4, <1>5 DEF ProcFin

LEMMA ClaimKept ==
    ASSUME NEW Q, OwnersKept(Q), NEW c \in Claimer, ClaimFin(c), cpc'[c] = cpc[c], claimed'[c] = claimed[c]
    PROVE  ClaimFin(c)'
BY DEF ClaimFin, OwnersKept, Owned

LEMMA ApartKept ==
    ASSUME Apart, \A q \in Proc : pc'[q] \in {"claim", "oclaim"} =>
                     pc[q] \in {"claim", "oclaim"} /\ outputs'[q] = outputs[q]
    PROVE  Apart'
BY DEF Apart

(* Steps that leave the store or the owners alone. *)
LEMMA StoreAlone ==
    ASSUME UNCHANGED storeVars
    PROVE  (finalized' = finalized => StoreStep({}, {})) /\ \A q : Same(q)
<1>1. /\ pool' = pool /\ resv' = resv /\ spent' = spent
  BY DEF storeVars
<1>2. StoredLeaves' = StoredLeaves
  BY <1>1 DEF StoredLeaves, ReservedLeaves
<1> QED BY <1>1, <1>2 DEF StoreStep, Same, StoredFor

LEMMA OwnersAlone ==
    ASSUME owner' = owner, NEW Q
    PROVE  OwnersKept(Q)
BY DEF OwnersKept

(* A step of p leaves the other callers' outputs and what they keep. *)
LEMMA OutputsFrame ==
    ASSUME TypeOK, NEW p \in Proc, ProcStep(p) \/ Crash(p)
    PROVE  \A q \in Proc \ {p} : keep'[q] = keep[q] /\ outputs'[q] = outputs[q]
<1>1. ASSUME NEW q \in Proc \ {p} PROVE keep'[q] = keep[q]
  BY DEF ProcStep, Acquire, ResourceBusy, Reserve, ReserveWait, ReserveFail, Wake, Renew, Send,
         FinalizeSend, Verify, CancelReservation, SwapRequest, SwapClaim, UpdateReservation,
         FinalizeSwap, Crash, TypeOK
<1>2. ASSUME NEW q \in Proc \ {p} PROVE outputs'[q] = outputs[q]
  BY DEF ProcStep, Acquire, ResourceBusy, Reserve, ReserveWait, ReserveFail, Wake, Renew, Send,
         FinalizeSend, Verify, CancelReservation, SwapRequest, SwapClaim, UpdateReservation,
         FinalizeSwap, Crash, TypeOK
<1> QED BY <1>1, <1>2

(* A step of p, from what it does to the store, to owners and to p. *)
LEMMA ProcCombine ==
    ASSUME WalletInv, FinInv, NEW p \in Proc, ProcStep(p) \/ Crash(p),
           NEW new, NEW used, StoreStep(new, used), OwnersKept(Proc \ {p}),
           \A q \in Proc \ {p} : pc[q] \in Active => Same(q),
           ProcFin(p)', Apart'
    PROVE  FinInv'
<1>0. TypeOK
  BY DEF WalletInv
<1>1. ASSUME NEW q \in Proc \ {p}
      PROVE  pc'[q] = pc[q] /\ held'[q] = held[q] /\ keep'[q] = keep[q] /\ outputs'[q] = outputs[q]
  BY <1>0, ProcFrame, OutputsFrame
<1>2. UNCHANGED <<refreshVars, claimVars>>
  BY <1>0, ProcFrame
<1>3. \A q \in Proc : ProcFin(q)'
  <2> SUFFICES ASSUME NEW q \in Proc \ {p} PROVE ProcFin(q)'
    OBVIOUS
  <2>1. ProcFin(q)
    BY DEF FinInv
  <2> DEFINE Q == Proc \ {p}
  <2>2. q \in Q /\ OwnersKept(Q)
    OBVIOUS
  <2> HIDE DEF Q
  <2> QED BY <1>1, <2>1, <2>2, ProcKept
<1>4. \A c \in Claimer : ClaimFin(c)'
  BY <1>2, ClaimKept DEF FinInv, claimVars
<1>5. clock \in Nat /\ StoreTime /\ \A f \in Refresher : startedAt[f] \in Nat
  <2>1. clock \in Time
    BY SqlInvMeans DEF WalletInv, StoreInv, MemInv, StoreTypeOK
  <2> QED BY <1>0, <2>1, MaxTimeAssumption DEF WalletInv, TypeOK, Time
<1>6. \A f \in Refresher : RefreshFin(f)'
  <2> SUFFICES ASSUME NEW f \in Refresher PROVE RefreshFin(f)'
    OBVIOUS
  <2> QED BY <1>2, <1>5, RefreshKept DEF FinInv, refreshVars
<1>7. StoreFin'
  BY StoreKept DEF FinInv, OwnersKept
<1> QED BY <1>3, <1>4, <1>6, <1>7 DEF FinInv

(* A step of a refresh, of a claim or of the environment. *)
LEMMA OtherCombine ==
    ASSUME FinInv, procVars' = procVars, NEW new, NEW used, StoreStep(new, used), OwnersKept(Proc),
           \A q \in Proc : pc[q] \in Active => Same(q),
           \A c \in Claimer : ClaimFin(c)', \A f \in Refresher : RefreshFin(f)'
    PROVE  FinInv'
<1>1. pc' = pc /\ held' = held /\ keep' = keep /\ outputs' = outputs
  BY DEF procVars
<1>2. \A q \in Proc : ProcFin(q)'
  BY <1>1, ProcKept DEF FinInv
<1>3. Apart'
  BY <1>1, ApartKept DEF FinInv
<1>4. StoreFin'
  BY StoreKept DEF FinInv, OwnersKept
<1> QED BY <1>2, <1>3, <1>4 DEF FinInv

-----------------------------------------------------------------------------
(***************************************************************************)
(* Each step preserves it.                                                 *)
(***************************************************************************)
FinNow == ~InMemory /\ WalletInv /\ FinInv /\ Benign

LEMMA FinFacts ==
    ASSUME FinNow
    PROVE  /\ ~InMemory /\ TypeOK /\ SqlInv /\ StoreFin /\ Apart
           /\ clock \in Nat /\ StoreTime /\ \A f \in Refresher : startedAt[f] \in Nat
           /\ \A q \in Proc : ProcFin(q)
           /\ \A q \in Proc : pc[q] \in Active => q \notin StaleReservations(clock)
<1>1. ~InMemory /\ TypeOK /\ SqlInv /\ StoreFin /\ Apart /\ StoreTime /\ \A q \in Proc : ProcFin(q)
  BY DEF FinNow, WalletInv, StoreInv, FinInv
<1>2. clock \in Time
  BY <1>1 DEF SqlInv
<1>3. clock \in Nat /\ \A f \in Refresher : startedAt[f] \in Nat
  BY <1>1, <1>2, MaxTimeAssumption DEF TypeOK, Time
<1>4. \A q \in Proc : pc[q] \in Active => q \notin StaleReservations(clock)
  BY DEF FinNow, Benign, OnlyTheDeadExpire, Active
<1> QED BY <1>1, <1>3, <1>4

(* What a caller at work holds is in the store, and in no other place. *)
LEMMA HeldFacts ==
    ASSUME FinNow, NEW p \in Proc, pc[p] \in Active
    PROVE  /\ p \in DOMAIN resv /\ StoredFor(p) = held[p]
           /\ held[p] \subseteq StoredLeaves /\ held[p] \cap Arriving = {}
           /\ \A q : q # p => held[p] \cap StoredFor(q) = {}
<1>1. p \in DOMAIN resv /\ StoredFor(p) = held[p]
  BY FinFacts DEF ProcFin
<1>2. ASSUME NEW l \in held[p]
      PROVE  l \in StoredLeaves /\ l \notin Arriving /\ \A q : q # p => l \notin StoredFor(q)
  <2>1. l \in ReservedLeaves
    BY <1>1, StoredMeans
  <2>2. l \notin Arriving
    BY <2>1 DEF FinNow, Benign, NobodyAhead
  <2> QED BY <1>1, <2>2, FinFacts, OnePlace
<1> QED BY <1>1, <1>2

(* Handing over what p holds, and creating leaves, disturbs nobody else. *)
LEMMA HeldApart ==
    ASSUME FinNow, NEW p \in Proc, pc[p] \in Active, held[p] \subseteq Mine,
           \A l \in Leaf : l \notin held[p] /\ owner[l] # "absent" => owner'[l] = owner[l]
    PROVE  OwnersKept(Proc \ {p})
<1>1. \A l \in Leaf : owner[l] = "gone" => owner'[l] = "gone"
  BY DEF Mine
<1>2. ASSUME NEW q \in Proc \ {p}, pc[q] \in {"claim", "oclaim"}, NEW l \in outputs[q]
      PROVE  owner'[l] = owner[l]
  BY <1>2, FinFacts DEF ProcFin, Owned, Mine
<1>3. ASSUME NEW q \in Proc \ {p}, pc[q] \in {"update", "ofinalize"}, NEW l \in outputs[q]
      PROVE  owner'[l] = owner[l]
  <2>1. l \in Leaf /\ owner[l] = "mine"
    BY <1>3, FinFacts DEF ProcFin, Owned
  <2>2. l \in Arriving
    BY <1>3, <2>1 DEF Arriving
  <2> QED BY <2>1, <2>2, HeldFacts
<1>4. ASSUME NEW q \in Proc \ {p}, pc[q] = "cancel", NEW l \in keep[q]
      PROVE  owner'[l] = owner[l]
  <2>1. l \in Leaf /\ owner[l] = "mine" /\ l \in held[q]
    BY <1>4, FinFacts DEF ProcFin, Owned
  <2>2. held[q] = StoredFor(q)
    BY <1>4, FinFacts DEF ProcFin, Active
  <2> QED BY <2>1, <2>2, HeldFacts
<1>5. ASSUME NEW c \in Claimer, cpc[c] = "insert", NEW l \in claimed[c]
      PROVE  owner'[l] = owner[l]
  <2>1. l \in Leaf /\ owner[l] = "mine"
    BY <1>5 DEF FinNow, FinInv, ClaimFin, Owned
  <2>2. l \in Arriving
    BY <1>5, <2>1 DEF Arriving
  <2> QED BY <2>1, <2>2, HeldFacts
<1> QED BY <1>1, <1>2, <1>3, <1>4, <1>5 DEF OwnersKept

(* Nor does claiming leaves that are not another caller's, or giving back  *)
(* locked ones.                                                            *)
LEMMA InboundApart ==
    ASSUME FinNow, NEW Q \in SUBSET Proc, NEW X,
           \A l \in X : l \in Leaf => owner[l] \in {"inbound", "locked"},
           \A l \in Leaf : l \notin X => owner'[l] = owner[l],
           \A q \in Q : pc[q] \in {"claim", "oclaim"} => outputs[q] \cap X = {}
    PROVE  OwnersKept(Q)
<1>1. \A l \in Leaf : owner[l] \in {"gone", "mine"} => owner'[l] = owner[l]
  OBVIOUS
<1>2. ASSUME NEW q \in Q, pc[q] \in {"claim", "oclaim"}, NEW l \in outputs[q]
      PROVE  owner'[l] = owner[l]
  BY <1>2, FinFacts DEF ProcFin, Owned
<1>3. ASSUME NEW q \in Q, pc[q] \in {"update", "ofinalize"}, NEW l \in outputs[q]
      PROVE  owner'[l] = owner[l]
  BY <1>1, <1>3, FinFacts DEF ProcFin, Owned
<1>4. ASSUME NEW q \in Q, pc[q] = "cancel", NEW l \in keep[q]
      PROVE  owner'[l] = owner[l]
  BY <1>1, <1>4, FinFacts DEF ProcFin, Owned
<1>5. ASSUME NEW c \in Claimer, cpc[c] = "insert", NEW l \in claimed[c]
      PROVE  owner'[l] = owner[l]
  BY <1>1, <1>5 DEF FinNow, FinInv, ClaimFin, Owned
<1> QED BY <1>1, <1>2, <1>3, <1>4, <1>5 DEF OwnersKept

(* Store commands that consume nothing, and those that consume what p      *)
(* holds.                                                                  *)
LEMMA NothingUsed ==
    ASSUME StoreFin, finalized' = finalized, NEW new, new \cap Owned("gone") = {},
           \A l \in StoredLeaves' : l \in StoredLeaves \/ l \in new,
           DOMAIN spent' \subseteq DOMAIN spent,
           \A f \in Refresher : rpc[f] = "apply" =>
              \A l \in DOMAIN spent \cap finalized :
                 spent[l] >= startedAt[f] => l \in DOMAIN spent' /\ spent'[l] = spent[l]
    PROVE  StoreStep(new, {})
BY DEF StoreFin, StoreStep

LEMMA HeldUsed ==
    ASSUME FinNow, NEW p \in Proc, pc[p] \in {"finalize", "update", "ofinalize"},
           finalized' = finalized \cup StoredFor(p), NEW new, new \subseteq Owned("mine"),
           \A l \in StoredLeaves' : (l \in StoredLeaves /\ l \notin StoredFor(p)) \/ l \in new,
           DOMAIN spent' = DOMAIN spent \cup StoredFor(p),
           \A l \in DOMAIN spent : spent'[l] = spent[l],
           \A l \in StoredFor(p) \ DOMAIN spent : spent'[l] = clock
    PROVE  StoreStep(new, StoredFor(p))
<1>1. StoredFor(p) \subseteq Owned("gone") \cap StoredLeaves
  BY FinFacts, HeldFacts DEF ProcFin, Active
<1>2. new \cap (finalized \cup StoredFor(p)) = {}
  BY <1>1, FinFacts DEF Owned, StoreFin
<1> QED BY <1>1, <1>2 DEF StoreStep

(* A caller that is not at work has nothing to answer for. *)
LEMMA RestFin ==
    ASSUME NEW p, pc'[p] \notin Active
    PROVE  ProcFin(p)'
BY DEF ProcFin, Active

LEMMA ApartStep ==
    ASSUME FinNow, NEW p \in Proc, ProcStep(p) \/ Crash(p), pc'[p] \notin {"claim", "oclaim"}
    PROVE  Apart'
<1>1. \A q \in Proc \ {p} : pc'[q] = pc[q] /\ outputs'[q] = outputs[q]
  BY FinFacts, ProcFrame, OutputsFrame
<1> QED BY <1>1, FinFacts, ApartKept

-----------------------------------------------------------------------------
(* The steps of a payment or an optimization round. *)
LEMMA RestSteps ==
    ASSUME FinNow, NEW p \in Proc,
           Acquire(p) \/ ResourceBusy(p) \/ ReserveWait(p) \/ ReserveFail(p) \/ Wake(p) \/ Crash(p)
    PROVE  FinInv'
<1>1. ProcStep(p) \/ Crash(p)
  BY DEF ProcStep
<1>2. UNCHANGED storeVars
  BY FinFacts DEF Acquire, ResourceBusy, ReserveWait, ReserveFail, Wake, Crash, WaitForPending,
     InsufficientFunds, SqlWaitForPending, SqlInsufficientFunds
<1>3. owner' = owner /\ finalized' = finalized
  BY DEF Acquire, ResourceBusy, ReserveWait, ReserveFail, Wake, Crash
<1>4. pc'[p] \in {"queued", "failed", "waiting", "idle", "dead"}
  BY FinFacts DEF Acquire, ResourceBusy, ReserveWait, ReserveFail, Wake, Crash, Goto, TypeOK
<1>5. ProcFin(p)' /\ Apart'
  BY <1>1, <1>4, RestFin, ApartStep DEF Active
<1>6. StoreStep({}, {}) /\ OwnersKept(Proc \ {p}) /\ \A q : Same(q)
  BY <1>2, <1>3, StoreAlone, OwnersAlone
<1> QED BY <1>1, <1>5, <1>6, ProcCombine DEF FinNow

LEMMA ReserveFin ==
    ASSUME FinNow, NEW p \in Proc, Reserve(p)
    PROVE  FinInv'
<1>1. ProcStep(p)
  BY DEF ProcStep
<1>2. PICK S \in SUBSET Leaf : TryReserve(p, S) /\ held' = [held EXCEPT ![p] = S]
  BY DEF Reserve
<1>3. pc'[p] = "reserved" /\ owner' = owner /\ finalized' = finalized /\ held'[p] = S
  BY <1>2, FinFacts DEF Reserve, Goto, TypeOK
<1>4. /\ p \in DOMAIN resv' /\ StoredFor(p)' = S /\ \A q : q # p => Same(q)
      /\ \A l \in StoredLeaves' : l \in StoredLeaves
      /\ spent' = spent
  BY <1>2, FinFacts, ReserveMoves
<1>5. StoreStep({}, {})
  BY <1>3, <1>4, FinFacts, NothingUsed
<1>6. ProcFin(p)' /\ Apart' /\ OwnersKept(Proc \ {p})
  BY <1>1, <1>3, <1>4, ApartStep, OwnersAlone DEF ProcFin
<1> QED BY <1>1, <1>4, <1>5, <1>6, ProcCombine DEF FinNow

LEMMA RenewFin ==
    ASSUME FinNow, NEW p \in Proc, Renew(p)
    PROVE  FinInv'
<1>1. ProcStep(p)
  BY DEF ProcStep
<1>2. /\ pc[p] = "reserved" /\ pc'[p] \in {"send", "oswap", "swap", "verify", "leaked"}
      /\ owner' = owner /\ finalized' = finalized /\ held' = held
      /\ UNCHANGED storeVars \/ AddLeaves(held[p])
  BY FinFacts DEF Renew, Goto, TypeOK, AfterSelect
<1>3. (\A q : Same(q)) /\ StoreStep({}, {})
  <2>1. CASE UNCHANGED storeVars
    BY <1>2, <2>1, StoreAlone
  <2>2. CASE AddLeaves(held[p])
    <3>1. held[p] \subseteq Leaf /\ held[p] \subseteq StoredLeaves
      BY <1>2, FinFacts, HeldFacts DEF TypeOK, Active
    <3>2. /\ \A q : Same(q)
          /\ \A l \in StoredLeaves' : l \in StoredLeaves \/ l \in held[p]
          /\ DOMAIN spent' = DOMAIN spent \ held[p]
          /\ \A l \in DOMAIN spent \ held[p] : spent'[l] = spent[l]
      BY <2>2, <3>1, FinFacts, AddMoves
    <3>3. DOMAIN spent \cap held[p] = {}
      BY <3>1, FinFacts DEF StoreFin, FinalizedStaysOut
    <3> QED BY <1>2, <3>1, <3>2, <3>3, FinFacts, NothingUsed
  <2> QED BY <1>2, <2>1, <2>2
<1>4. ProcFin(p)' /\ Apart' /\ OwnersKept(Proc \ {p})
  <2>1. p \in DOMAIN resv' /\ StoredFor(p)' = held'[p]
    BY <1>2, <1>3, HeldFacts DEF Same, Active
  <2> QED BY <1>1, <1>2, <2>1, ApartStep, OwnersAlone DEF ProcFin
<1> QED BY <1>1, <1>3, <1>4, ProcCombine DEF FinNow

LEMMA SendFin ==
    ASSUME FinNow, NEW p \in Proc, Send(p)
    PROVE  FinInv'
<1>1. ProcStep(p)
  BY DEF ProcStep
<1>2. /\ pc[p] = "send" /\ pc[p] \in Active /\ pc'[p] \in {"finalize", "verify"}
      /\ finalized' = finalized /\ held' = held /\ UNCHANGED storeVars
      /\ \/ owner' = owner /\ pc'[p] = "verify"
         \/ held[p] \subseteq Mine /\ owner' = SetOwner(held[p], "gone")
  BY FinFacts DEF Send, Goto, TypeOK, Active
<1>3. StoreStep({}, {}) /\ \A q : Same(q)
  BY <1>2, StoreAlone
<1>4. OwnersKept(Proc \ {p})
  <2>1. CASE owner' = owner
    BY <2>1, OwnersAlone
  <2>2. CASE held[p] \subseteq Mine /\ owner' = SetOwner(held[p], "gone")
    BY <1>2, <2>2, HeldApart DEF SetOwner
  <2> QED BY <1>2, <2>1, <2>2
<1>5. pc'[p] = "finalize" => held'[p] \subseteq Owned("gone")'
  BY <1>2, FinFacts DEF SetOwner, Owned, TypeOK
<1>6. ProcFin(p)' /\ Apart'
  <2>1. p \in DOMAIN resv' /\ StoredFor(p)' = held'[p]
    BY <1>2, <1>3, HeldFacts DEF Same
  <2> QED BY <1>1, <1>2, <1>5, <2>1, ApartStep DEF ProcFin
<1> QED BY <1>1, <1>3, <1>4, <1>6, ProcCombine DEF FinNow

LEMMA VerifyFin ==
    ASSUME FinNow, NEW p \in Proc, Verify(p)
    PROVE  FinInv'
<1>1. ProcStep(p)
  BY DEF ProcStep
<1>2. /\ pc[p] \in Active /\ pc'[p] = "cancel" /\ keep'[p] \subseteq held[p] \cap Mine
      /\ finalized' = finalized /\ held' = held /\ owner' = owner /\ UNCHANGED storeVars
  BY FinFacts DEF Verify, Goto, TypeOK, Active
<1>3. StoreStep({}, {}) /\ OwnersKept(Proc \ {p}) /\ \A q : Same(q)
  BY <1>2, StoreAlone, OwnersAlone
<1>4. ProcFin(p)' /\ Apart'
  <2>1. p \in DOMAIN resv' /\ StoredFor(p)' = held'[p]
    BY <1>2, <1>3, HeldFacts DEF Same
  <2>2. keep'[p] \subseteq held'[p] \cap Owned("mine")'
    BY <1>2 DEF Mine, Owned
  <2> QED BY <1>1, <1>2, <2>1, <2>2, ApartStep DEF ProcFin
<1> QED BY <1>1, <1>3, <1>4, ProcCombine DEF FinNow

LEMMA CancelFin ==
    ASSUME FinNow, NEW p \in Proc, CancelReservation(p)
    PROVE  FinInv'
<1>1. ProcStep(p)
  BY DEF ProcStep
<1>2. /\ pc[p] = "cancel" /\ pc'[p] = "failed" /\ Cancel(p, keep[p]) /\ keep[p] \subseteq Leaf
      /\ owner' = owner /\ finalized' = finalized
  BY FinFacts DEF CancelReservation, Goto, TypeOK
<1>3. /\ \A q : q # p => Same(q)
      /\ \A l \in StoredLeaves' : l \in StoredLeaves \/ l \in keep[p]
      /\ spent' = spent
  BY <1>2, FinFacts, CancelMoves
<1>4. keep[p] \cap Owned("gone") = {}
  BY <1>2, FinFacts DEF ProcFin, Owned
<1>5. StoreStep(keep[p], {})
  BY <1>2, <1>3, <1>4, FinFacts, NothingUsed
<1>6. ProcFin(p)' /\ Apart' /\ OwnersKept(Proc \ {p})
  BY <1>1, <1>2, RestFin, ApartStep, OwnersAlone DEF Active
<1> QED BY <1>1, <1>3, <1>5, <1>6, ProcCombine DEF FinNow

LEMMA FinalizeFin ==
    ASSUME FinNow, NEW p \in Proc, FinalizeSend(p) \/ FinalizeSwap(p)
    PROVE  FinInv'
<1>1. ProcStep(p)
  BY DEF ProcStep
<1>2. PICK new \in SUBSET Leaf :
         /\ \E hasNew : Finalize(p, hasNew, new)
         /\ new \subseteq Owned("mine") /\ pc[p] \in {"finalize", "ofinalize"}
  <2>1. CASE FinalizeSend(p)
    <3>1. {} \in SUBSET Leaf /\ Finalize(p, FALSE, {}) /\ pc[p] = "finalize"
      BY <2>1 DEF FinalizeSend
    <3> QED BY <3>1
  <2>2. CASE FinalizeSwap(p)
    <3>1. outputs[p] \in SUBSET Leaf /\ Finalize(p, TRUE, outputs[p]) /\ pc[p] = "ofinalize"
      BY <2>2, FinFacts DEF FinalizeSwap, TypeOK
    <3>2. outputs[p] \subseteq Owned("mine")
      BY <3>1, FinFacts DEF ProcFin
    <3> QED BY <3>1, <3>2
  <2> QED BY <2>1, <2>2
<1>3. pc'[p] = "done" /\ owner' = owner /\ finalized' = finalized \cup StoredFor(p)
  BY FinFacts DEF FinalizeSend, FinalizeSwap, Goto, TypeOK
<1>4. /\ \A q : q # p => Same(q)
      /\ \A l \in StoredLeaves' : (l \in StoredLeaves /\ l \notin StoredFor(p)) \/ l \in new
      /\ DOMAIN spent' = DOMAIN spent \cup StoredFor(p)
      /\ \A l \in DOMAIN spent : spent'[l] = spent[l]
      /\ \A l \in StoredFor(p) \ DOMAIN spent : spent'[l] = clock
  BY <1>2, FinFacts, FinalizeMoves
<1>5. StoreStep(new, StoredFor(p))
  BY <1>2, <1>3, <1>4, HeldUsed
<1>6. ProcFin(p)' /\ Apart' /\ OwnersKept(Proc \ {p})
  BY <1>1, <1>3, RestFin, ApartStep, OwnersAlone DEF Active
<1> QED BY <1>1, <1>4, <1>5, <1>6, ProcCombine DEF FinNow

(* submit_swap: the leaves it creates are nobody else's. *)
LEMMA SwapRequestFin ==
    ASSUME FinNow, NEW p \in Proc, SwapRequest(p)
    PROVE  FinInv'
<1>1. ProcStep(p)
  BY DEF ProcStep
<1>2. /\ pc[p] \in Active /\ finalized' = finalized /\ held' = held /\ UNCHANGED storeVars
  BY FinFacts DEF SwapRequest, Active
<1>3. StoreStep({}, {}) /\ \A q : Same(q)
  BY <1>2, StoreAlone
<1>4. p \in DOMAIN resv' /\ StoredFor(p)' = held'[p] /\ held[p] \subseteq Leaf
  BY <1>2, <1>3, HeldFacts, FinFacts DEF Same, TypeOK
<1>5. CASE owner' = owner /\ pc'[p] = "verify"
  <2>1. ProcFin(p)' /\ Apart' /\ OwnersKept(Proc \ {p})
    BY <1>1, <1>4, <1>5, ApartStep, OwnersAlone DEF ProcFin
  <2> QED BY <1>1, <1>3, <2>1, ProcCombine DEF FinNow
<1>6. CASE held[p] \subseteq Mine /\ owner' = SetOwner(held[p], "locked") /\ pc'[p] = "verify"
  <2>1. OwnersKept(Proc \ {p})
    BY <1>2, <1>6, HeldApart DEF SetOwner
  <2>2. ProcFin(p)' /\ Apart'
    BY <1>1, <1>4, <1>6, ApartStep DEF ProcFin
  <2> QED BY <1>1, <1>3, <2>1, <2>2, ProcCombine DEF FinNow
<1>7. CASE /\ held[p] \subseteq Mine /\ pc'[p] \in {"claim", "oclaim"}
           /\ \E out \in SUBSET {l \in Leaf : owner[l] = "absent"} :
                 /\ outputs' = [outputs EXCEPT ![p] = out]
                 /\ owner' = [l \in Leaf |-> IF l \in held[p] THEN "gone"
                                             ELSE IF l \in out THEN "inbound" ELSE owner[l]]
  <2>1. PICK out \in SUBSET {l \in Leaf : owner[l] = "absent"} :
           /\ outputs'[p] = out
           /\ owner' = [l \in Leaf |-> IF l \in held[p] THEN "gone"
                                       ELSE IF l \in out THEN "inbound" ELSE owner[l]]
    BY <1>7, FinFacts DEF TypeOK
  <2>2. OwnersKept(Proc \ {p})
    BY <1>2, <1>7, <2>1, HeldApart
  <2>3. held'[p] \subseteq Owned("gone")' /\ outputs'[p] \subseteq Owned("inbound")'
    BY <1>2, <1>4, <1>7, <2>1 DEF Owned, Mine
  <2>4. ProcFin(p)'
    BY <1>4, <1>7, <2>3 DEF ProcFin
  <2>5. \A q \in Proc \ {p} : pc'[q] = pc[q] /\ outputs'[q] = outputs[q]
    BY <1>1, FinFacts, ProcFrame, OutputsFrame
  <2>6. ASSUME NEW q \in Proc \ {p}, pc[q] \in {"claim", "oclaim"} PROVE outputs[q] \cap out = {}
    BY <2>6, FinFacts DEF ProcFin, Owned
  <2>7. Apart'
    BY <2>1, <2>5, <2>6, FinFacts DEF Apart
  <2> QED BY <1>1, <1>3, <2>2, <2>4, <2>7, ProcCombine DEF FinNow
<1>8. pc \in [Proc -> {"idle", "queued", "waiting", "reserved", "send", "finalize", "verify",
                       "cancel", "swap", "claim", "update", "oswap", "oclaim", "ofinalize",
                       "done", "failed", "leaked", "dead"}]
  BY FinFacts DEF TypeOK
<1> QED BY <1>5, <1>6, <1>7, <1>8 DEF SwapRequest, Goto

(* The outputs of a swap, claimed. *)
LEMMA SwapClaimFin ==
    ASSUME FinNow, NEW p \in Proc, SwapClaim(p)
    PROVE  FinInv'
<1>1. ProcStep(p)
  BY DEF ProcStep
<1>2. /\ pc[p] \in {"claim", "oclaim"} /\ pc[p] \in Active
      /\ finalized' = finalized /\ held' = held /\ UNCHANGED storeVars
      /\ owner' = owner \/ owner' = SetOwner(outputs[p], "mine")
      /\ pc'[p] \in {"update", "ofinalize", "verify"}
      /\ outputs'[p] = {} \/ (outputs'[p] = outputs[p] /\ owner' = SetOwner(outputs[p], "mine"))
  BY FinFacts DEF SwapClaim, Goto, TypeOK, Active
<1>3. StoreStep({}, {}) /\ \A q : Same(q)
  BY <1>2, StoreAlone
<1>4. OwnersKept(Proc \ {p})
  <2>1. CASE owner' = owner
    BY <2>1, OwnersAlone
  <2>2. CASE owner' = SetOwner(outputs[p], "mine")
    <3> DEFINE X == outputs[p]
               Q == Proc \ {p}
    <3>1. \A l \in X : owner[l] = "inbound"
      BY <1>2, FinFacts DEF ProcFin, Owned
    <3>2. \A l \in Leaf : l \notin X => owner'[l] = owner[l]
      BY <2>2 DEF SetOwner
    <3>3. \A q \in Q : pc[q] \in {"claim", "oclaim"} => outputs[q] \cap X = {}
      BY <1>2, FinFacts DEF Apart
    <3>4. Q \in SUBSET Proc
      OBVIOUS
    <3> HIDE DEF X, Q
    <3>5. OwnersKept(Q)
      BY <3>1, <3>2, <3>3, <3>4, InboundApart
    <3> QED BY <3>5 DEF Q
  <2> QED BY <1>2, <2>1, <2>2
<1>5. p \in DOMAIN resv' /\ StoredFor(p)' = held'[p]
  BY <1>2, <1>3, HeldFacts DEF Same
<1>6. held'[p] \subseteq Owned("gone")'
  <2>1. held[p] \subseteq Owned("gone")
    BY <1>2, FinFacts DEF ProcFin
  <2> QED BY <1>2, <1>4, <2>1 DEF OwnersKept, Owned
<1>7. outputs'[p] \subseteq Owned("mine")'
  BY <1>2, FinFacts DEF SetOwner, Owned, TypeOK
<1>8. ProcFin(p)' /\ Apart'
  BY <1>1, <1>2, <1>5, <1>6, <1>7, ApartStep DEF ProcFin
<1> QED BY <1>1, <1>3, <1>4, <1>8, ProcCombine DEF FinNow

(* update_reservation: what it reserves was reserved by nobody. *)
LEMMA UpdateFin ==
    ASSUME FinNow, NEW p \in Proc, UpdateReservation(p)
    PROVE  FinInv'
<1>1. ProcStep(p)
  BY DEF ProcStep
<1>2. pc[p] = "update" /\ pc[p] \in Active /\ owner' = owner
  BY DEF UpdateReservation, Active
<1>3. OwnersKept(Proc \ {p}) /\ p \in DOMAIN resv
  BY <1>2, OwnersAlone, HeldFacts
<1>4. outputs[p] \subseteq Leaf /\ outputs[p] \subseteq Owned("mine")
  BY <1>2, FinFacts DEF ProcFin, TypeOK
<1>5. CASE UNCHANGED storeVars /\ finalized' = finalized /\ Goto(p, "leaked")
  <2>1. pc'[p] = "leaked"
    BY <1>5, FinFacts DEF Goto, TypeOK
  <2>2. StoreStep({}, {}) /\ \A q : Same(q)
    BY <1>5, StoreAlone
  <2>3. ProcFin(p)' /\ Apart'
    BY <1>1, <2>1, RestFin, ApartStep DEF Active
  <2> QED BY <1>1, <1>3, <2>2, <2>3, ProcCombine DEF FinNow
<1>6. CASE /\ \E S \in TargetSelections(outputs[p], TargetOf[p]) :
                 Update(p, S, outputs[p] \ S) /\ held' = [held EXCEPT ![p] = S]
           /\ finalized' = finalized \cup StoredFor(p) /\ Goto(p, AfterSelect(p))
  <2>1. PICK S \in TargetSelections(outputs[p], TargetOf[p]) :
           Update(p, S, outputs[p] \ S) /\ held' = [held EXCEPT ![p] = S]
    BY <1>6
  <2>2. S \subseteq outputs[p] /\ S \subseteq Leaf /\ outputs[p] \ S \subseteq Leaf
    BY <1>4, SelectionInside
  <2>3. held'[p] = S /\ pc'[p] \in {"send", "oswap"}
    BY <1>6, <2>1, FinFacts DEF Goto, AfterSelect, TypeOK
  <2> DEFINE change == outputs[p] \ S
  <2>4. Update(p, S, change) /\ change \subseteq Leaf /\ S \cup change = outputs[p]
    BY <2>1, <2>2
  <2> HIDE DEF change
  <2>5. /\ p \in DOMAIN resv' /\ StoredFor(p)' = S
        /\ \A q : q # p => (q \in DOMAIN resv' <=> q \in DOMAIN resv) /\ StoredFor(q)' = StoredFor(q) \ S
        /\ \A l \in StoredLeaves' : (l \in StoredLeaves /\ l \notin StoredFor(p)) \/ l \in S \cup change
        /\ DOMAIN spent' = DOMAIN spent \cup StoredFor(p)
        /\ \A l \in DOMAIN spent : spent'[l] = spent[l]
        /\ \A l \in StoredFor(p) \ DOMAIN spent : spent'[l] = clock
    <3>1. ~InMemory /\ SqlInv
      BY FinFacts
    <3> QED BY <2>2, <2>4, <3>1, UpdateMoves
  <2>6. StoreStep(outputs[p], StoredFor(p))
    BY <1>2, <1>4, <1>6, <2>4, <2>5, HeldUsed
  <2>7. ASSUME NEW q \in Proc \ {p}, pc[q] \in Active PROVE Same(q)
    <3>1. StoredFor(q) = held[q] /\ held[q] \cap Arriving = {}
      BY <2>7, HeldFacts
    <3>2. S \subseteq Arriving
      BY <1>2, <2>2 DEF Arriving
    <3>3. StoredFor(q) \ S = StoredFor(q)
      BY <3>1, <3>2
    <3>4. (q \in DOMAIN resv' <=> q \in DOMAIN resv) /\ StoredFor(q)' = StoredFor(q) \ S
      BY <2>5
    <3> QED BY <3>3, <3>4 DEF Same
  <2>8. ProcFin(p)' /\ Apart'
    BY <1>1, <2>3, <2>5, ApartStep DEF ProcFin
  <2> QED BY <1>1, <1>3, <2>6, <2>7, <2>8, ProcCombine DEF FinNow
<1> QED BY <1>3, <1>5, <1>6 DEF UpdateReservation

-----------------------------------------------------------------------------
(* The steps of a refresh.  What the operators report is not finalized,    *)
(* and what is finalized from then on is marked with a later time.         *)
LEMMA RefreshQuietFin ==
    ASSUME FinNow, NEW f \in Refresher, RefreshStart(f) \/ RefreshQuery(f) \/ RefreshFail(f)
    PROVE  FinInv'
<1>1. /\ UNCHANGED storeVars /\ owner' = owner /\ procVars' = procVars /\ finalized' = finalized
      /\ cpc' = cpc /\ claimed' = claimed
  BY DEF RefreshStart, RefreshQuery, RefreshFail, claimVars
<1>2. StoreStep({}, {}) /\ OwnersKept(Proc) /\ \A q : Same(q)
  BY <1>1, StoreAlone, OwnersAlone
<1>3. \A c \in Claimer : ClaimFin(c)'
  BY <1>1, <1>2, ClaimKept DEF FinNow, FinInv
<1>4. ASSUME NEW g \in Refresher \ {f} PROVE RefreshFin(g)'
  <2>1. /\ rpc'[g] = rpc[g] /\ startedAt'[g] = startedAt[g]
        /\ snapshot'[g] = snapshot[g] /\ unseen'[g] = unseen[g]
    BY FinFacts DEF RefreshStart, RefreshQuery, RefreshFail, TypeOK
  <2> QED BY <1>2, <2>1, FinFacts, RefreshKept DEF FinNow, FinInv
<1>5. RefreshFin(f)'
  <2>1. CASE RefreshQuery(f)
    <3>1. unseen'[f] \subseteq snapshot'[f] /\ snapshot'[f] = Mine
      BY <2>1, FinFacts DEF RefreshQuery, TypeOK
    <3>2. Mine \cap finalized' = {}
      BY <1>1, FinFacts DEF StoreFin, Owned, Mine
    <3> QED BY <3>1, <3>2 DEF RefreshFin
  <2>2. CASE RefreshStart(f) \/ RefreshFail(f)
    <3>1. rpc'[f] # "apply"
      BY <2>2, FinFacts DEF RefreshStart, RefreshFail, TypeOK
    <3> QED BY <3>1 DEF RefreshFin
  <2> QED BY <2>1, <2>2
<1>6. \A g \in Refresher : RefreshFin(g)'
  BY <1>4, <1>5
<1> QED BY <1>1, <1>2, <1>3, <1>6, OtherCombine DEF FinNow

LEMMA RefreshApplyFin ==
    ASSUME FinNow, NEW f \in Refresher, RefreshApply(f)
    PROVE  FinInv'
<1>1. /\ owner' = owner /\ procVars' = procVars /\ finalized' = finalized
      /\ cpc' = cpc /\ claimed' = claimed
      /\ rpc[f] = "apply" /\ rpc'[f] = "idle"
      /\ SetLeaves(snapshot[f] \ unseen[f], unseen[f], startedAt[f])
      /\ \A g \in Refresher \ {f} : rpc'[g] = rpc[g]
      /\ startedAt' = startedAt /\ snapshot' = snapshot /\ unseen' = unseen
  BY FinFacts DEF RefreshApply, claimVars, TypeOK
<1> DEFINE S == snapshot[f] \ unseen[f]
           miss == unseen[f]
           t == startedAt[f]
           new == {l \in S \cup miss : ~(l \in DOMAIN spent /\ spent[l] >= t)}
<1>2. S \subseteq Leaf /\ miss \subseteq Leaf /\ t \in Nat /\ SetLeaves(S, miss, t)
  BY <1>1, FinFacts DEF TypeOK
<1>3. RefreshFin(f)
  BY DEF FinNow, FinInv
<1>4. new \cap finalized = {}
  BY <1>1, <1>3 DEF RefreshFin
<1>5. \A g \in Refresher : rpc[g] = "apply" => t <= startedAt[g] + SpentMarkerThreshold
  <2>1. t <= clock
    BY FinFacts DEF StoreTime
  <2> QED BY <1>2, <2>1, FinFacts, SqlTimeoutAssumption DEF FinNow, Benign, RefreshesInTime
<1> HIDE DEF S, miss, t
<1>6. /\ \A q : q \notin StaleReservations(clock) => Same(q)
      /\ \A l \in StoredLeaves' :
            \/ l \in StoredLeaves
            \/ l \in S \cup miss /\ ~(l \in DOMAIN spent /\ spent[l] >= t)
      /\ DOMAIN spent' \subseteq DOMAIN spent
      /\ \A l \in DOMAIN spent : spent[l] + SpentMarkerThreshold >= t =>
            l \in DOMAIN spent' /\ spent'[l] = spent[l]
  BY <1>2, FinFacts, SetMoves
<1>7. \A l \in StoredLeaves' : l \in StoredLeaves \/ l \in new
  BY <1>6
<1> HIDE DEF new
<1>8. ASSUME NEW g \in Refresher, rpc[g] = "apply", NEW l \in DOMAIN spent, spent[l] >= startedAt[g]
      PROVE  l \in DOMAIN spent' /\ spent'[l] = spent[l]
  <2>1. spent[l] \in Nat
    <3>1. spent \in Partial(Leaf, Time)
      BY FinFacts DEF SqlInv
    <3>2. spent \in [DOMAIN spent -> Time]
      BY <3>1, PartialElim
    <3> QED BY <3>2, MaxTimeAssumption DEF Time
  <2>2. spent[l] + SpentMarkerThreshold >= t
    BY <1>2, <1>5, <1>8, <2>1, FinFacts, SqlTimeoutAssumption
  <2> QED BY <1>6, <2>2
<1>9. StoreStep(new, {})
  BY <1>1, <1>4, <1>6, <1>7, <1>8 DEF StoreStep
<1>10. \A q \in Proc : pc[q] \in Active => Same(q)
  BY <1>6, FinFacts
<1>11. OwnersKept(Proc) /\ \A c \in Claimer : ClaimFin(c)'
  BY <1>1, OwnersAlone, ClaimKept DEF FinNow, FinInv
<1>12. ASSUME NEW g \in Refresher PROVE RefreshFin(g)'
  BY <1>1, <1>9, FinFacts, RefreshKept DEF FinNow, FinInv
<1> QED BY <1>1, <1>9, <1>10, <1>11, <1>12, OtherCombine DEF FinNow

-----------------------------------------------------------------------------
(* The steps of a claim, and those of nobody. *)
LEMMA RefreshersKept ==
    ASSUME FinNow, UNCHANGED refreshVars, NEW new, NEW used, StoreStep(new, used)
    PROVE  \A f \in Refresher : RefreshFin(f)'
<1> SUFFICES ASSUME NEW f \in Refresher PROVE RefreshFin(f)'
  OBVIOUS
<1> QED BY FinFacts, RefreshKept DEF FinNow, FinInv, refreshVars

LEMMA ClaimStepFin ==
    ASSUME FinNow, NEW c \in Claimer, ClaimStep(c)
    PROVE  FinInv'
<1>1. /\ procVars' = procVars /\ UNCHANGED refreshVars /\ finalized' = finalized
  BY DEF ClaimStep, Claim, InsertLeaves
<1>2. ASSUME NEW d \in Claimer \ {c} PROVE cpc'[d] = cpc[d] /\ claimed'[d] = claimed[d]
  BY FinFacts DEF ClaimStep, Claim, InsertLeaves, TypeOK
<1>3. CASE Claim(c)
  <2>1. PICK S \in (SUBSET Claimable) \ {{}} :
           owner' = SetOwner(S, "mine") /\ claimed' = [claimed EXCEPT ![c] = S]
    BY <1>3 DEF Claim
  <2>2. /\ UNCHANGED storeVars
        /\ claimed'[c] = S /\ S \subseteq Leaf
        /\ \A l \in Leaf : l \notin S => owner'[l] = owner[l]
        /\ \A l \in S : owner'[l] = "mine" /\ owner[l] = "inbound"
        /\ \A q \in Proc : pc[q] \in {"claim", "oclaim"} => outputs[q] \cap S = {}
    BY <1>3, <2>1, FinFacts DEF Claim, Claimable, SetOwner, TypeOK
  <2>3. StoreStep({}, {}) /\ \A q : Same(q)
    BY <1>1, <2>2, StoreAlone
  <2>4. OwnersKept(Proc)
    <3>1. Proc \in SUBSET Proc
      OBVIOUS
    <3> QED BY <2>2, <3>1, InboundApart
  <2>5. ClaimFin(c)'
    BY <2>2 DEF ClaimFin, Owned
  <2>6. \A d \in Claimer : ClaimFin(d)'
    BY <1>2, <2>4, <2>5, ClaimKept DEF FinNow, FinInv
  <2> QED BY <1>1, <2>3, <2>4, <2>6, RefreshersKept, OtherCombine DEF FinNow
<1>4. CASE InsertLeaves(c)
  <2>1. /\ owner' = owner /\ cpc[c] = "insert" /\ cpc'[c] = "idle"
        /\ AddLeaves(claimed[c]) \/ UNCHANGED storeVars
        /\ claimed[c] \subseteq Leaf
    BY <1>4, FinFacts DEF InsertLeaves, TypeOK
  <2>2. claimed[c] \subseteq Owned("mine")
    BY <2>1 DEF FinNow, FinInv, ClaimFin
  <2>3. (\A q : Same(q)) /\ \E new : StoreStep(new, {})
    <3>1. CASE UNCHANGED storeVars
      BY <1>1, <3>1, StoreAlone
    <3>2. CASE AddLeaves(claimed[c])
      <4>1. /\ \A q : Same(q)
            /\ \A l \in StoredLeaves' : l \in StoredLeaves \/ l \in claimed[c]
            /\ DOMAIN spent' = DOMAIN spent \ claimed[c]
            /\ \A l \in DOMAIN spent \ claimed[c] : spent'[l] = spent[l]
        BY <2>1, <3>2, FinFacts, AddMoves
      <4>2. claimed[c] \cap Owned("gone") = {} /\ DOMAIN spent \cap claimed[c] = {}
        BY <2>2, FinFacts DEF Owned, StoreFin
      <4>3. StoreStep(claimed[c], {})
        BY <1>1, <4>1, <4>2, FinFacts, NothingUsed
      <4> QED BY <4>1, <4>3
    <3> QED BY <2>1, <3>1, <3>2
  <2>4. OwnersKept(Proc)
    BY <2>1, OwnersAlone
  <2>5. ClaimFin(c)'
    BY <2>1 DEF ClaimFin
  <2>6. \A d \in Claimer : ClaimFin(d)'
    BY <1>2, <2>4, <2>5, ClaimKept DEF FinNow, FinInv
  <2>7. PICK new : StoreStep(new, {})
    BY <2>3
  <2> QED BY <1>1, <2>3, <2>4, <2>6, <2>7, RefreshersKept, OtherCombine DEF FinNow
<1> QED BY <1>3, <1>4 DEF ClaimStep

LEMMA EnvironmentFin ==
    ASSUME FinNow, Tick \/ (\E l \in Leaf : LockExpires(l)) \/ UNCHANGED vars
    PROVE  FinInv'
<1>1. /\ procVars' = procVars /\ UNCHANGED refreshVars /\ finalized' = finalized
      /\ cpc' = cpc /\ claimed' = claimed
      /\ pool' = pool /\ resv' = resv /\ spent' = spent
  BY DEF Tick, ClockTick, LockExpires, vars, claimVars, refreshVars, storeVars
<1>2. StoreStep({}, {}) /\ \A q : Same(q)
  <2>1. StoredLeaves' = StoredLeaves
    BY <1>1 DEF StoredLeaves, ReservedLeaves
  <2> QED BY <1>1, <2>1 DEF StoreStep, Same, StoredFor
<1>3. OwnersKept(Proc)
  <2>1. CASE owner' = owner
    BY <2>1, OwnersAlone
  <2>2. CASE \E l \in Leaf : LockExpires(l)
    <3>1. PICK l \in Leaf : LockExpires(l)
      BY <2>2
    <3> DEFINE X == {l}
    <3>2. /\ \A k \in X : k \in Leaf /\ owner[k] = "locked"
          /\ \A k \in Leaf : k \notin X => owner'[k] = owner[k]
      BY <3>1, FinFacts DEF LockExpires, TypeOK
    <3>3. \A q \in Proc : pc[q] \in {"claim", "oclaim"} => outputs[q] \cap X = {}
      BY <3>2, FinFacts DEF ProcFin, Owned
    <3>4. Proc \in SUBSET Proc
      OBVIOUS
    <3> HIDE DEF X
    <3> QED BY <3>2, <3>3, <3>4, InboundApart
  <2> QED BY <2>1, <2>2 DEF Tick, vars
<1>4. \A c \in Claimer : ClaimFin(c)'
  BY <1>1, <1>3, ClaimKept DEF FinNow, FinInv
<1> QED BY <1>1, <1>2, <1>3, <1>4, RefreshersKept, OtherCombine DEF FinNow

LEMMA FinSteps == FinNow /\ [Next]_vars => FinInv'
<1> SUFFICES ASSUME FinNow, [Next]_vars PROVE FinInv'
  OBVIOUS
<1>1. ASSUME NEW p \in Proc, ProcStep(p) \/ Crash(p) PROVE FinInv'
  BY <1>1, RestSteps, ReserveFin, RenewFin, SendFin, FinalizeFin, VerifyFin, CancelFin,
     SwapRequestFin, SwapClaimFin, UpdateFin DEF ProcStep
<1>2. ASSUME NEW f \in Refresher, RefreshStep(f) PROVE FinInv'
  BY <1>2, RefreshQuietFin, RefreshApplyFin DEF RefreshStep
<1> QED BY <1>1, <1>2, ClaimStepFin, EnvironmentFin DEF Next

(***************************************************************************)
(* Over a SQL store a leaf that a finalized payment or swap consumed is    *)
(* never selectable nor reserved again, whatever refreshes, claims,        *)
(* cancellations and crashes happen meanwhile, for any number of each, as  *)
(* long as a reservation expires only when its holder is dead or has       *)
(* forgotten it, nobody reserves claimed leaves before they are stored,    *)
(* and no refresh outlives SPENT_MARKER_CLEANUP_THRESHOLD_MS.              *)
(***************************************************************************)
THEOREM FinalizedStaysOutOfSql == ~InMemory => (Spec /\ []Benign => []FinalizedStaysOut)
<1> SUFFICES ASSUME ~InMemory PROVE Spec /\ []Benign => []FinalizedStaysOut
  OBVIOUS
<1>1. WalletInv /\ Benign /\ FinInv /\ [Next]_vars => FinInv'
  BY FinSteps DEF FinNow
<1>2. FinInv => FinalizedStaysOut
  BY DEF FinInv, StoreFin
<1> QED BY <1>1, <1>2, FinStarts, WalletInvariant, PTL DEF Spec

=============================================================================
