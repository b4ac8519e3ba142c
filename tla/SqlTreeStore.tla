---------------------------- MODULE SqlTreeStore ----------------------------
(***************************************************************************)
(* PostgresTreeStore (crates/spark-postgres/src/tree_store.rs), which      *)
(* several SDK instances may share.  Each command is a transaction, which  *)
(* takes effect in one step: all but add_leaves hold the tenant's advisory *)
(* lock from their first statement on.  NOW() is the time at which the     *)
(* transaction began, before it waited for that lock: a command has it as  *)
(* its parameter now, which may be behind clock.                           *)
(*                                                                         *)
(* A row of brz_tree_leaves whose reservation_id is NULL is in pool; one   *)
(* whose reservation_id is r is in resv[r].leaves.  There is no semaphore: *)
(* permits and inflight never change.  Unlike the memory backend, a        *)
(* reservation expires, a spent marker is kept for a while after the       *)
(* refresh that ignores it, and a swap's inputs are marked spent.          *)
(***************************************************************************)
EXTENDS TreeState

CONSTANTS
    ReservationTimeout,     \* RESERVATION_TIMEOUT_SECS, in clock ticks
    SpentMarkerThreshold    \* SPENT_MARKER_CLEANUP_THRESHOLD_MS, in clock ticks

ASSUME SqlTimeoutAssumption ==
    ReservationTimeout \in Nat /\ SpentMarkerThreshold \in Nat

(* batch_upsert_leaves over the tables p and e: ON CONFLICT updates a row  *)
(* in place and keeps its reservation_id.                                  *)
UpsertPool(p, e, rows) ==
    Put(p, Drop(rows, UNION {DOMAIN e[r].leaves : r \in DOMAIN e}))

UpsertReserved(e, rows) ==
    [r \in DOMAIN e |->
        [e[r] EXCEPT !.leaves =
            [l \in DOMAIN e[r].leaves |-> IF l \in DOMAIN rows THEN rows[l] ELSE e[r].leaves[l]]]]

(* The rows a transaction that began at now writes. *)
Rows(nodes, isMissing, now) == [l \in DOMAIN nodes |-> FromNode(nodes[l], now, isMissing)]

(* batch_insert_spent_leaves: ON CONFLICT DO NOTHING keeps an older marker *)
MarkSpent(ids, now) == Put([l \in ids |-> now], spent)

-----------------------------------------------------------------------------
(* Faulty variant: ON CONFLICT also sets reservation_id, to NULL. *)
SqlAddLeavesUnreserves(nodes, unmarked, now) ==
    /\ spent' = Drop(spent, unmarked)
    /\ pool' = Put(pool, Rows(nodes, FALSE, now))
    /\ resv' = [r \in DOMAIN resv |-> [resv[r] EXCEPT !.leaves = Drop(@, DOMAIN nodes)]]
    /\ UNCHANGED <<lastSwap, ancestors, permits, inflight, clock>>

(* add_leaves, without the lock: it deletes the markers its first          *)
(* statement sees, not those committed between that statement and its      *)
(* upsert.  Hence unmarked, the leaves of the batch whose markers it saw.  *)
SqlAddLeaves(nodes, unmarked, now) ==
    /\ spent' = Drop(spent, unmarked)
    /\ pool' = UpsertPool(pool, resv, Rows(nodes, FALSE, now))
    /\ resv' = UpsertReserved(resv, Rows(nodes, FALSE, now))
    /\ UNCHANGED <<lastSwap, ancestors, permits, inflight, clock>>

(* cleanup_stale_reservations: which reservations have expired *)
StaleReservations(now) == {r \in DOMAIN resv : resv[r].created + ReservationTimeout < now}

(* The rows of the expired reservations, with reservation_id set to NULL. *)
ReleasedPool(now) ==
    [l \in DOMAIN pool \cup UNION {DOMAIN resv[r].leaves : r \in StaleReservations(now)} |->
        IF l \in DOMAIN pool THEN pool[l]
        ELSE LET r == CHOOSE r \in StaleReservations(now) : l \in DOMAIN resv[r].leaves
             IN  resv[r].leaves[l]]

(* Faulty variants: the skip is decided before the stale reservations are  *)
(* cleaned up; no row is deleted.                                          *)
SqlSetLeavesSkipsFirst(nodes, missing, startedAt, now) ==
    LET live     == Drop(resv, StaleReservations(now))
        skipped  == \/ \E r \in DOMAIN resv : resv[r].purpose = "Swap"
                    \/ lastSwap >= startedAt
        markers  == {l \in DOMAIN spent : spent[l] + SpentMarkerThreshold >= startedAt}
        spentIds == {l \in markers : spent[l] >= startedAt}
        deleted  == {l \in DOMAIN ReleasedPool(now) : ReleasedPool(now)[l].at < startedAt}
        listed   == Put(Drop(Rows(nodes, FALSE, now), spentIds), Drop(Rows(missing, TRUE, now), spentIds))
    IN  IF skipped THEN UNCHANGED storeVars
        ELSE /\ resv' = UpsertReserved(live, listed)
             /\ pool' = UpsertPool(Drop(ReleasedPool(now), deleted), live, listed)
             /\ spent' = Restrict(spent, markers)
             /\ ancestors' = Drop(ancestors, deleted \ (DOMAIN nodes \cup DOMAIN missing))
             /\ UNCHANGED <<lastSwap, permits, inflight, clock>>

SqlSetLeavesDeletesNone(nodes, missing, startedAt, now) ==
    LET live     == Drop(resv, StaleReservations(now))
        spentIds == {l \in DOMAIN spent : spent[l] >= startedAt}
        listed   == Put(Drop(Rows(nodes, FALSE, now), spentIds), Drop(Rows(missing, TRUE, now), spentIds))
    IN  IF lastSwap >= startedAt THEN UNCHANGED storeVars
        ELSE /\ resv' = UpsertReserved(live, listed)
             /\ pool' = UpsertPool(ReleasedPool(now), live, listed)
             /\ UNCHANGED <<spent, ancestors, lastSwap, permits, inflight, clock>>

(* set_leaves: the stale reservations go first and stay gone even when the *)
(* refresh itself is skipped.                                              *)
SqlSetLeaves(nodes, missing, startedAt, now) ==
    LET live     == Drop(resv, StaleReservations(now))
        skipped  == \/ \E r \in DOMAIN live : live[r].purpose = "Swap"
                    \/ lastSwap >= startedAt
        markers  == {l \in DOMAIN spent : spent[l] + SpentMarkerThreshold >= startedAt}
        spentIds == {l \in markers : spent[l] >= startedAt}
        deleted  == {l \in DOMAIN ReleasedPool(now) : ReleasedPool(now)[l].at < startedAt}
        listed   == Put(Drop(Rows(nodes, FALSE, now), spentIds), Drop(Rows(missing, TRUE, now), spentIds))
    IN  /\ resv' = IF skipped THEN live ELSE UpsertReserved(live, listed)
        /\ pool' = IF skipped THEN ReleasedPool(now)
                   ELSE UpsertPool(Drop(ReleasedPool(now), deleted), live, listed)
        /\ spent' = IF skipped THEN spent ELSE Restrict(spent, markers)
        /\ ancestors' = IF skipped THEN ancestors
                        ELSE Drop(ancestors, deleted \ (DOMAIN nodes \cup DOMAIN missing))
        /\ UNCHANGED <<lastSwap, permits, inflight, clock>>

(* store_ancestors *)
SqlStoreAncestors(chains) ==
    /\ ancestors' = Put(ancestors,
                        Restrict(chains, {l \in DOMAIN chains \cap StoredLeaves : chains[l] # {}}))
    /\ UNCHANGED <<pool, resv, spent, lastSwap, permits, inflight, clock>>

-----------------------------------------------------------------------------
(* create_reservation *)
CreateReservation(r, S, purpose, pending, now) ==
    /\ r \notin DOMAIN resv
    /\ S # {}
    /\ resv' = Put(resv, Pair(r, [leaves |-> Restrict(pool, S), purpose |-> purpose,
                                  pending |-> pending, created |-> now]))
    /\ pool' = Drop(pool, S)
    /\ UNCHANGED <<spent, lastSwap, ancestors, permits, inflight, clock>>

SqlPendingChange(S, tgt) ==
    IF TotalSats(tgt) > 0 /\ Sats(S) > TotalSats(tgt) THEN Sats(S) - TotalSats(tgt) ELSE 0

(* try_reserve_leaves, the outcome Success(S) *)
SqlTryReserve(r, S, tgt, exactOnly, purpose, now) ==
    \E slim \in SlimCandidates(Selectable, tgt) :
        \/ /\ S \in TargetSelections(slim, tgt)
           /\ CreateReservation(r, S, purpose, 0, now)
        \/ /\ TargetMayFail(slim, tgt)
           /\ ~exactOnly
           /\ S \in MinimumAmount(slim, TotalSats(tgt))
           /\ CreateReservation(r, S, purpose, SqlPendingChange(S, tgt), now)

SqlNothingToReserve(tgt, exactOnly) ==
    \E slim \in SlimCandidates(Selectable, tgt) :
        /\ TargetMayFail(slim, tgt)
        /\ exactOnly \/ MinimumAmount(slim, TotalSats(tgt)) = {}

(* try_reserve_leaves, the outcome WaitForPending *)
SqlWaitForPending(tgt, exactOnly) ==
    /\ SqlNothingToReserve(tgt, exactOnly)
    /\ AvailableBalance + PendingBalance >= TotalSats(tgt)
    /\ UNCHANGED storeVars

(* try_reserve_leaves, the outcome InsufficientFunds *)
SqlInsufficientFunds(tgt, exactOnly) ==
    /\ \/ /\ SqlNothingToReserve(tgt, exactOnly)
          /\ AvailableBalance + PendingBalance < TotalSats(tgt)
       \/ {} \in TargetSelections(Selectable, tgt)
    /\ UNCHANGED storeVars

(* try_reserve_leaves_by_ids *)
SqlReserveByIds(r, S, purpose, now) ==
    /\ S \subseteq Selectable
    /\ CreateReservation(r, S, purpose, 0, now)

-----------------------------------------------------------------------------
(* cancel_reservation *)
SqlCancel(r, keep, now) ==
    LET prior == IF r \in DOMAIN resv THEN DOMAIN resv[r].leaves ELSE {}
    IN  /\ resv' = UpsertReserved(Drop(resv, {r}), Rows(keep, FALSE, now))
        /\ pool' = UpsertPool(pool, Drop(resv, {r}), Rows(keep, FALSE, now))
        /\ ancestors' = Drop(ancestors, prior \ DOMAIN keep)
        /\ UNCHANGED <<spent, lastSwap, permits, inflight, clock>>

(* finalize_reservation *)
SqlFinalize(r, hasNew, new, now) ==
    LET prior == IF r \in DOMAIN resv THEN DOMAIN resv[r].leaves ELSE {}
    IN  /\ spent' = MarkSpent(prior, now)
        /\ ancestors' = Drop(ancestors, prior)
        /\ resv' = UpsertReserved(Drop(resv, {r}), Rows(new, FALSE, now))
        /\ pool' = UpsertPool(pool, Drop(resv, {r}), Rows(new, FALSE, now))
        /\ lastSwap' = IF r \in DOMAIN resv /\ resv[r].purpose = "Swap" /\ hasNew
                       THEN now ELSE lastSwap
        /\ UNCHANGED <<permits, inflight, clock>>

(* Faulty variant: the swapped leaves are not marked spent. *)
SqlUpdateUnmarked(r, reserved, change, now) ==
    LET rest == Drop(resv, {r})
        rows == Rows(change, FALSE, now)
    IN  /\ r \in DOMAIN resv
        /\ ancestors' = Drop(ancestors, DOMAIN resv[r].leaves)
        /\ pool' = Drop(UpsertPool(pool, rest, rows), DOMAIN reserved)
        /\ resv' = [q \in DOMAIN resv |->
                       IF q = r
                       THEN [resv[r] EXCEPT !.leaves = Rows(reserved, FALSE, now), !.pending = 0]
                       ELSE [UpsertReserved(rest, rows)[q] EXCEPT
                                !.leaves = Drop(@, DOMAIN reserved)]]
        /\ UNCHANGED <<spent, lastSwap, permits, inflight, clock>>

(* update_reservation: the old leaves are marked spent and deleted, the    *)
(* new rows upserted, and reservation_id set on the reserved ones wherever *)
(* they were.                                                              *)
SqlUpdate(r, reserved, change, now) ==
    LET prior == DOMAIN resv[r].leaves
        rest  == Drop(resv, {r})
        rows  == Rows(change, FALSE, now)
    IN  /\ r \in DOMAIN resv
        /\ spent' = MarkSpent(prior, now)
        /\ ancestors' = Drop(ancestors, prior)
        /\ pool' = Drop(UpsertPool(pool, rest, rows), DOMAIN reserved)
        /\ resv' = [q \in DOMAIN resv |->
                       IF q = r
                       THEN [resv[r] EXCEPT !.leaves = Rows(reserved, FALSE, now), !.pending = 0]
                       ELSE [UpsertReserved(rest, rows)[q] EXCEPT
                                !.leaves = Drop(@, DOMAIN reserved)]]
        /\ UNCHANGED <<lastSwap, permits, inflight, clock>>

-----------------------------------------------------------------------------
(* The leaves that reservations other than r hold. *)
HeldByOthers(r) == UNION {DOMAIN resv[q].leaves : q \in DOMAIN resv \ {r}}

(* Every command but update_reservation, from any caller at any time. *)
SqlOther ==
    \/ ClockTick
    \/ \E nodes \in Batch, now \in 0 .. clock : \E unmarked \in SUBSET (DOMAIN nodes \cap DOMAIN spent) :
          SqlAddLeaves(nodes, unmarked, now)
    \/ \E nodes, missing \in Batch, startedAt \in 0 .. clock : \E now \in startedAt .. clock :
          SqlSetLeaves(nodes, missing, startedAt, now)
    \/ \E chains \in Partial(Leaf, SUBSET Node) : SqlStoreAncestors(chains)
    \/ \E r \in Reservation, S \in SUBSET Leaf, tgt \in Target, exactOnly \in BOOLEAN,
         purpose \in Purpose, now \in 0 .. clock :
          SqlTryReserve(r, S, tgt, exactOnly, purpose, now)
    \/ \E r \in Reservation, S \in SUBSET Leaf, purpose \in Purpose, now \in 0 .. clock :
          SqlReserveByIds(r, S, purpose, now)
    \/ \E r \in Reservation, keep \in Batch, now \in 0 .. clock : SqlCancel(r, keep, now)
    \/ \E r \in Reservation, hasNew \in BOOLEAN, new \in Batch, now \in 0 .. clock :
          /\ ~hasNew => new = EmptyMap
          /\ SqlFinalize(r, hasNew, new, now)

(* Any caller sends any command at any time. *)
SqlNext ==
    \/ SqlOther
    \/ \E r \in Reservation, reserved, change \in Batch, now \in 0 .. clock :
          SqlUpdate(r, reserved, change, now)

SqlSpec == StoreInit /\ [][SqlNext]_storeVars

(* Callers that update a reservation only with leaves no other reservation *)
(* holds.  The store does not check it, and perform_swap_and_update_       *)
(* reservation, which brings the outputs of its swap, cannot (finding 1).  *)
CarefulNext ==
    \/ SqlOther
    \/ \E r \in Reservation, reserved, change \in Batch, now \in 0 .. clock :
          /\ DOMAIN reserved \cap HeldByOthers(r) = {}
          /\ SqlUpdate(r, reserved, change, now)

CarefulSpec == StoreInit /\ [][CarefulNext]_storeVars

=============================================================================
