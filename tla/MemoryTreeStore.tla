-------------------------- MODULE MemoryTreeStore --------------------------
(***************************************************************************)
(* InMemoryTreeStore (crates/spark/src/tree/store.rs).  A single processor *)
(* task takes the commands off a channel one at a time, so each command is *)
(* one atomic action; what runs concurrently is the callers, which acquire *)
(* a permit in one step and have their command processed in a later one.   *)
(*                                                                         *)
(* MemSpec lets any caller send any command with any arguments at any      *)
(* time: what is proved of it holds whatever the services above do.        *)
(***************************************************************************)
EXTENDS TreeState

(* The ways to attribute each leaf of ids to one reservation holding it.   *)
(* The loops over leaves_reservations stop at the first one found.         *)
Holders(ids) ==
    {h \in [ids -> DOMAIN resv] : \A l \in ids : l \in DOMAIN resv[h[l]].leaves}

(* Faulty variant: a reservation loses the leaves that are not refreshed. *)
RefreshedOnly(h, rows) ==
    [r \in DOMAIN resv |->
        [resv[r] EXCEPT !.leaves = [l \in {k \in DOMAIN h : h[k] = r} |-> rows[l]]]]

(* The reservations with the copy held by h[l] of every leaf l of rows     *)
(* replaced by rows[l].                                                    *)
Refreshed(h, rows) ==
    [r \in DOMAIN resv |->
        [resv[r] EXCEPT !.leaves =
            [l \in DOMAIN resv[r].leaves |->
                IF l \in DOMAIN h /\ h[l] = r THEN rows[l] ELSE resv[r].leaves[l]]]]

-----------------------------------------------------------------------------

(* process_add_leaves: a reserved leaf is updated where it is; any other   *)
(* one loses its spent marker and enters the pool.                         *)
MemAddLeaves(nodes) ==
    LET held  == DOMAIN nodes \cap ReservedLeaves
        fresh == DOMAIN nodes \ held
    IN  /\ \E h \in Holders(held) :
              resv' = Refreshed(h, [l \in held |->
                         [resv[h[l]].leaves[l] EXCEPT !.available = nodes[l].available,
                                                      !.parent = nodes[l].parent]])
        /\ spent' = Drop(spent, fresh)
        /\ pool' = Put(pool, [l \in fresh |-> FromNode(nodes[l], clock, FALSE)])
        /\ UNCHANGED <<lastSwap, ancestors, permits, inflight, clock>>

(* Faulty variant: an active swap does not stop the refresh. *)
RefreshSkippedAfterSwap(startedAt) == lastSwap >= startedAt

(* The early return of process_set_leaves. *)
RefreshSkipped(startedAt) ==
    \/ \E r \in DOMAIN resv : resv[r].purpose = "Swap"
    \/ lastSwap >= startedAt

(* Faulty variant: a leaf spent in the tick the refresh started is         *)
(* forgotten.                                                              *)
MarkersKeptAfter(startedAt) == {l \in DOMAIN spent : spent[l] > startedAt}

(* The spent markers process_set_leaves retains. *)
MarkersKept(startedAt) == {l \in DOMAIN spent : spent[l] >= startedAt}

(* Faulty variant: the pool becomes what the operators listed, without the *)
(* leaves added since.                                                     *)
MemSetLeavesForgets(nodes, missing, startedAt) ==
    IF RefreshSkipped(startedAt)
    THEN UNCHANGED storeVars
    ELSE LET kept    == MarkersKept(startedAt)
             rebuilt == Put([l \in DOMAIN nodes \ kept |-> FromNode(nodes[l], clock, FALSE)],
                            [l \in DOMAIN missing \ kept |-> FromNode(missing[l], clock, TRUE)])
             held    == DOMAIN rebuilt \cap ReservedLeaves
         IN  /\ spent' = Restrict(spent, kept)
             /\ \E h \in Holders(held) : resv' = Refreshed(h, rebuilt)
             /\ pool' = Drop(rebuilt, held)
             /\ ancestors' = Drop(ancestors, DOMAIN pool \ (DOMAIN rebuilt \ held))
             /\ UNCHANGED <<lastSwap, permits, inflight, clock>>

(* process_set_leaves: rebuild the pool from a refresh that started at     *)
(* startedAt.  missing (the leaves some operator does not report) is       *)
(* applied after nodes.                                                    *)
MemSetLeaves(nodes, missing, startedAt) ==
    IF RefreshSkipped(startedAt)
    THEN UNCHANGED storeVars
    ELSE LET kept    == MarkersKept(startedAt)
             listed  == Put([l \in DOMAIN nodes \ kept |-> FromNode(nodes[l], clock, FALSE)],
                            [l \in DOMAIN missing \ kept |-> FromNode(missing[l], clock, TRUE)])
             recent  == Restrict(pool, {l \in DOMAIN pool : pool[l].at >= startedAt})
             rebuilt == Put(recent, listed)
             held    == DOMAIN rebuilt \cap ReservedLeaves
         IN  /\ spent' = Restrict(spent, kept)
             /\ \E h \in Holders(held) : resv' = Refreshed(h, rebuilt)
             /\ pool' = Drop(rebuilt, held)
             /\ ancestors' = Drop(ancestors, DOMAIN pool \ (DOMAIN rebuilt \ held))
             /\ UNCHANGED <<lastSwap, permits, inflight, clock>>

(* Faulty variant: a chain is stored though its leaf is not. *)
MemStoreAncestorsUnchecked(chains) ==
    /\ ancestors' = Put(ancestors, Restrict(chains, {l \in DOMAIN chains : chains[l] # {}}))
    /\ UNCHANGED <<pool, resv, spent, lastSwap, permits, inflight, clock>>

(* process_store_ancestors with upsert_ancestors: a chain replaces the     *)
(* stored one; an empty chain, and one of a leaf no longer stored, are     *)
(* ignored.                                                                *)
MemStoreAncestors(chains) ==
    /\ ancestors' = Put(ancestors,
                        Restrict(chains, {l \in DOMAIN chains \cap StoredLeaves : chains[l] # {}}))
    /\ UNCHANGED <<pool, resv, spent, lastSwap, permits, inflight, clock>>

-----------------------------------------------------------------------------

(* The semaphore wait at the head of try_reserve_leaves and                *)
(* try_reserve_leaves_by_ids.                                              *)
MemAcquirePermit ==
    /\ permits > 0
    /\ permits' = permits - 1
    /\ inflight' = inflight + 1
    /\ UNCHANGED <<pool, resv, spent, lastSwap, ancestors, clock>>

(* A reserve command that ends without a reservation drops its permit. *)
MemReserveRejected ==
    /\ inflight > 0
    /\ permits' = permits + 1
    /\ inflight' = inflight - 1
    /\ UNCHANGED <<pool, resv, spent, lastSwap, ancestors, clock>>

(* reserve_internal: move the leaves S out of the pool into reservation r. *)
ReserveInternal(r, S, purpose, pending) ==
    /\ inflight > 0
    /\ r \notin DOMAIN resv
    /\ S # {}
    /\ S \subseteq DOMAIN pool
    /\ resv' = Put(resv, Pair(r, [leaves |-> Restrict(pool, S), purpose |-> purpose,
                                  pending |-> pending, created |-> 0]))
    /\ pool' = Drop(pool, S)
    /\ inflight' = inflight - 1
    /\ UNCHANGED <<spent, lastSwap, ancestors, permits, clock>>

(* The value a reservation of S for tgt expects back as change. *)
PendingChange(S, tgt) ==
    IF TotalSats(tgt) > 0 /\ Sats(S) > TotalSats(tgt) THEN Sats(S) - TotalSats(tgt) ELSE 0

(* process_try_reserve_leaves, the outcome Success(S) *)
MemTryReserve(r, S, tgt, exactOnly, purpose) ==
    \/ /\ S \in TargetSelections(Selectable, tgt)
       /\ ReserveInternal(r, S, purpose, 0)
    \/ /\ TargetMayFail(Selectable, tgt)
       /\ ~exactOnly
       /\ S \in MinimumAmount(Selectable, TotalSats(tgt))
       /\ ReserveInternal(r, S, purpose, PendingChange(S, tgt))

(* What process_try_reserve_leaves answers when it reserves nothing. *)
NothingToReserve(tgt, exactOnly) ==
    /\ TargetMayFail(Selectable, tgt)
    /\ exactOnly \/ MinimumAmount(Selectable, TotalSats(tgt)) = {}

(* process_try_reserve_leaves, the outcome WaitForPending *)
MemWaitForPending(tgt, exactOnly) ==
    /\ NothingToReserve(tgt, exactOnly)
    /\ AvailableBalance + PendingBalance >= TotalSats(tgt)
    /\ MemReserveRejected

(* process_try_reserve_leaves, the outcome InsufficientFunds, and the      *)
(* error NonReservableLeaves when everything is asked for and there is     *)
(* nothing.                                                                *)
MemInsufficientFunds(tgt, exactOnly) ==
    /\ \/ /\ NothingToReserve(tgt, exactOnly)
          /\ AvailableBalance + PendingBalance < TotalSats(tgt)
       \/ {} \in TargetSelections(Selectable, tgt)
    /\ MemReserveRejected

(* process_reserve_leaves_by_ids *)
MemReserveByIds(r, S, purpose) ==
    /\ S \subseteq Selectable
    /\ ReserveInternal(r, S, purpose, 0)

-----------------------------------------------------------------------------
(* Faulty variant: cancelling a reservation that is gone frees a permit. *)
MemCancelFreesTwice(r, keep) ==
    LET prior == IF r \in DOMAIN resv THEN DOMAIN resv[r].leaves ELSE {}
    IN  /\ resv' = Drop(resv, {r})
        /\ permits' = permits + 1
        /\ ancestors' = Drop(ancestors, prior \ DOMAIN keep)
        /\ pool' = Put(pool, [l \in DOMAIN keep |-> FromNode(keep[l], clock, FALSE)])
        /\ UNCHANGED <<spent, lastSwap, inflight, clock>>

(* process_cancel_reservation: keep goes back to the pool whether or not   *)
(* the reservation was still there.                                        *)
MemCancel(r, keep) ==
    LET prior == IF r \in DOMAIN resv THEN DOMAIN resv[r].leaves ELSE {}
    IN  /\ resv' = Drop(resv, {r})
        /\ permits' = IF r \in DOMAIN resv THEN permits + 1 ELSE permits
        /\ ancestors' = Drop(ancestors, prior \ DOMAIN keep)
        /\ pool' = Put(pool, [l \in DOMAIN keep |-> FromNode(keep[l], clock, FALSE)])
        /\ UNCHANGED <<spent, lastSwap, inflight, clock>>

(* process_finalize_reservation.  hasNew distinguishes Some(new_leaves)    *)
(* from None.                                                              *)
MemFinalize(r, hasNew, new) ==
    LET prior == IF r \in DOMAIN resv THEN DOMAIN resv[r].leaves ELSE {}
    IN  /\ resv' = Drop(resv, {r})
        /\ permits' = IF r \in DOMAIN resv THEN permits + 1 ELSE permits
        /\ spent' = Put(spent, [l \in prior |-> clock])
        /\ ancestors' = Drop(ancestors, prior)
        /\ lastSwap' = IF r \in DOMAIN resv /\ resv[r].purpose = "Swap" /\ hasNew
                       THEN clock ELSE lastSwap
        /\ pool' = Put(pool, [l \in DOMAIN new |-> FromNode(new[l], clock, FALSE)])
        /\ UNCHANGED <<inflight, clock>>

(* Faulty variant: the expected change is not reset. *)
MemUpdateKeepsPending(r, reserved, change) ==
    /\ r \in DOMAIN resv
    /\ resv' = [resv EXCEPT
                  ![r].leaves = [l \in DOMAIN reserved |-> FromNode(reserved[l], clock, FALSE)]]
    /\ ancestors' = Drop(ancestors, DOMAIN resv[r].leaves)
    /\ pool' = Put(pool, [l \in DOMAIN change |-> FromNode(change[l], clock, FALSE)])
    /\ UNCHANGED <<spent, lastSwap, permits, inflight, clock>>

(* process_update_reservation; disabled (an error) when r is gone. *)
MemUpdate(r, reserved, change) ==
    /\ r \in DOMAIN resv
    /\ resv' = [resv EXCEPT
                  ![r].leaves = [l \in DOMAIN reserved |-> FromNode(reserved[l], clock, FALSE)],
                  ![r].pending = 0]
    /\ ancestors' = Drop(ancestors, DOMAIN resv[r].leaves)
    /\ pool' = Put(pool, [l \in DOMAIN change |-> FromNode(change[l], clock, FALSE)])
    /\ UNCHANGED <<spent, lastSwap, permits, inflight, clock>>

-----------------------------------------------------------------------------
MemNext ==
    \/ ClockTick
    \/ \E nodes \in Batch : MemAddLeaves(nodes)
    \/ \E nodes, missing \in Batch, startedAt \in 0 .. clock :
          MemSetLeaves(nodes, missing, startedAt)
    \/ \E chains \in Partial(Leaf, SUBSET Node) : MemStoreAncestors(chains)
    \/ MemAcquirePermit
    \/ \E r \in Reservation, S \in SUBSET Leaf, tgt \in Target, exactOnly \in BOOLEAN,
         purpose \in Purpose :
          MemTryReserve(r, S, tgt, exactOnly, purpose)
    \/ \E tgt \in Target, exactOnly \in BOOLEAN : MemWaitForPending(tgt, exactOnly)
    \/ \E tgt \in Target, exactOnly \in BOOLEAN : MemInsufficientFunds(tgt, exactOnly)
    \/ \E r \in Reservation, S \in SUBSET Leaf, purpose \in Purpose :
          MemReserveByIds(r, S, purpose)
    \/ \E r \in Reservation, keep \in Batch : MemCancel(r, keep)
    \/ \E r \in Reservation, hasNew \in BOOLEAN, new \in Batch :
          /\ ~hasNew => new = EmptyMap
          /\ MemFinalize(r, hasNew, new)
    \/ \E r \in Reservation, reserved, change \in Batch : MemUpdate(r, reserved, change)

MemSpec == StoreInit /\ [][MemNext]_storeVars

-----------------------------------------------------------------------------
(* Every permit is free, travelling with a queued command, or held by      *)
(* exactly one reservation: no sequence of cancels, finalizes (of a        *)
(* reservation that is gone, too), updates and rejected reserves leaks one *)
(* or returns one twice (ReservationEntry::_permit).                       *)
PermitsConserved ==
    permits + inflight + Cardinality(DOMAIN resv) = MaxConcurrentReservations

(* The change a reservation expects back is less than the value it holds,  *)
(* and an updated reservation expects none: pending_balance never promises *)
(* more than the reserved leaves can return.                               *)
PendingBelowReserved ==
    \A r \in DOMAIN resv :
        resv[r].pending > 0 => resv[r].pending < Sats(DOMAIN resv[r].leaves)

=============================================================================
