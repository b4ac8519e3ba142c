----------------------------- MODULE LeafWallet -----------------------------
(***************************************************************************)
(* The callers of the leaf store, running concurrently: payments and the   *)
(* leaf optimizer (select_leaves, perform_swap_and_update_reservation,     *)
(* with_reserved_leaves, execute_one_swap), refreshes (refresh_leaves) and *)
(* transfer claims (claim_transfer, insert_leaves), against the Spark      *)
(* operators and the service provider, of which only who owns each leaf is *)
(* kept.                                                                   *)
(*                                                                         *)
(* An action is what a caller does between two awaits.  A reservation id   *)
(* is the process that holds it: a process makes one reservation.          *)
(***************************************************************************)
EXTENDS MemoryTreeStore, SqlTreeStore

CONSTANTS
    Backend,        \* "memory" or "sql": which store the wallet runs on
    Payment,        \* payment processes
    Optimizer,      \* optimization rounds
    Refresher,      \* tasks that call refresh_leaves
    Claimer,        \* tasks that claim inbound transfers
    TargetOf,       \* the target amounts of each payment and optimization
    Genesis,        \* the leaves the wallet holds, and has stored, at first
    Inbound,        \* the leaves of transfers waiting to be claimed
    Unreported,     \* leaves some operator other than the coordinator may not report
    Mortal,         \* processes whose SDK instance may die (sql backend)
    MaxWaits        \* bound on how often a payment waits for pending balance

Proc == Payment \cup Optimizer

ASSUME BackendAssumption == Backend \in {"memory", "sql"}
ASSUME ProcAssumption == Proc \subseteq Reservation /\ Payment \cap Optimizer = {}
ASSUME GenesisAssumption ==
    /\ Genesis \subseteq Leaf
    /\ Inbound \subseteq Leaf
    /\ Genesis \cap Inbound = {}
ASSUME MortalAssumption == Mortal \subseteq Proc /\ (Backend = "memory" => Mortal = {})
ASSUME MaxWaitsAssumption == MaxWaits \in Nat

VARIABLES
    owner,      \* what the operators say of each leaf
    pc,         \* where each process is
    held,       \* the leaves of the LeavesReservation a process holds
    keep,       \* the leaves verify_leaves_against_coordinator let it keep
    outputs,    \* the leaves its swap gave it
    waits,      \* how often it has waited for pending balance
    rpc,        \* where each refresher is
    startedAt,  \* its refresh_started_at
    snapshot,   \* the leaves the coordinator reported to it
    unseen,     \* those of them that some operator did not report
    cpc,        \* where each claimer is
    claimed,    \* the leaves it has claimed and not yet stored
    finalized   \* history: the leaves a finalize or an update consumed

procVars == <<pc, held, keep, outputs, waits>>
refreshVars == <<rpc, startedAt, snapshot, unseen>>
claimVars == <<cpc, claimed>>
vars == <<storeVars, owner, procVars, refreshVars, claimVars, finalized>>

-----------------------------------------------------------------------------
(* The operators as the code sees them: a leaf is not yet created,         *)
(* "inbound" in a transfer to us, "mine" (Available and owned by us),      *)
(* "locked" in a swap that failed half way, or "gone".                     *)
OwnerState == {"absent", "inbound", "mine", "locked", "gone"}

Mine == {l \in Leaf : owner[l] = "mine"}

SetOwner(S, o) == [l \in Leaf |-> IF l \in S THEN o ELSE owner[l]]

(* The nodes reported for S: Available leaves (their chains are left to    *)
(* the store's own specification).                                         *)
Nodes(S) == [l \in S |-> [available |-> TRUE, parent |-> NoParent]]

PurposeOf(p) == IF p \in Payment THEN "Payment" ELSE "Swap"

-----------------------------------------------------------------------------
(* The store commands of whichever backend is in use.  A transaction of    *)
(* the wallet begins and commits within one tick of the clock, and no      *)
(* other commits between the statements of its add_leaves: what happens    *)
(* otherwise is left to the store's own specification.                     *)
InMemory == Backend = "memory"

AddLeaves(S) ==
    \/ InMemory /\ MemAddLeaves(Nodes(S))
    \/ ~InMemory /\ SqlAddLeaves(Nodes(S), S, clock)

SetLeaves(S, miss, t) ==
    \/ InMemory /\ MemSetLeaves(Nodes(S), Nodes(miss), t)
    \/ ~InMemory /\ SqlSetLeaves(Nodes(S), Nodes(miss), t, clock)

TryReserve(p, S) ==
    \/ InMemory /\ MemTryReserve(p, S, TargetOf[p], FALSE, PurposeOf(p))
    \/ ~InMemory /\ SqlTryReserve(p, S, TargetOf[p], FALSE, PurposeOf(p), clock)

WaitForPending(p) ==
    \/ InMemory /\ MemWaitForPending(TargetOf[p], FALSE)
    \/ ~InMemory /\ SqlWaitForPending(TargetOf[p], FALSE)

InsufficientFunds(p) ==
    \/ InMemory /\ MemInsufficientFunds(TargetOf[p], FALSE)
    \/ ~InMemory /\ SqlInsufficientFunds(TargetOf[p], FALSE)

Cancel(p, S) ==
    \/ InMemory /\ MemCancel(p, Nodes(S))
    \/ ~InMemory /\ SqlCancel(p, Nodes(S), clock)

Finalize(p, hasNew, S) ==
    \/ InMemory /\ MemFinalize(p, hasNew, Nodes(S))
    \/ ~InMemory /\ SqlFinalize(p, hasNew, Nodes(S), clock)

Update(p, S, change) ==
    \/ InMemory /\ MemUpdate(p, Nodes(S), Nodes(change))
    \/ ~InMemory /\ SqlUpdate(p, Nodes(S), Nodes(change), clock)

(* The leaves reservation p holds in the store. *)
StoredFor(p) == IF p \in DOMAIN resv THEN DOMAIN resv[p].leaves ELSE {}

-----------------------------------------------------------------------------
Init ==
    /\ pool = [l \in Genesis |-> FromNode([available |-> TRUE, parent |-> NoParent], 0, FALSE)]
    /\ resv = EmptyMap
    /\ spent = EmptyMap
    /\ lastSwap = Never
    /\ ancestors = EmptyMap
    /\ permits = MaxConcurrentReservations
    /\ inflight = 0
    /\ clock = 0
    /\ owner = [l \in Leaf |-> IF l \in Genesis THEN "mine"
                               ELSE IF l \in Inbound THEN "inbound" ELSE "absent"]
    /\ pc = [p \in Proc |-> "idle"]
    /\ held = [p \in Proc |-> {}]
    /\ keep = [p \in Proc |-> {}]
    /\ outputs = [p \in Proc |-> {}]
    /\ waits = [p \in Proc |-> 0]
    /\ rpc = [f \in Refresher |-> "idle"]
    /\ startedAt = [f \in Refresher |-> 0]
    /\ snapshot = [f \in Refresher |-> {}]
    /\ unseen = [f \in Refresher |-> {}]
    /\ cpc = [c \in Claimer |-> "idle"]
    /\ claimed = [c \in Claimer |-> {}]
    /\ finalized = {}

Tick == ClockTick /\ UNCHANGED <<owner, procVars, refreshVars, claimVars, finalized>>

-----------------------------------------------------------------------------
(***************************************************************************)
(* A payment or an optimization round.                                     *)
(***************************************************************************)
Goto(p, label) == pc' = [pc EXCEPT ![p] = label]

(* try_reserve_leaves waits for a permit; the sql backend has none. *)
Acquire(p) ==
    /\ pc[p] = "idle"
    /\ Goto(p, "queued")
    /\ IF InMemory THEN MemAcquirePermit ELSE UNCHANGED storeVars
    /\ UNCHANGED <<owner, held, keep, outputs, waits, refreshVars, claimVars, finalized>>

(* ... and gives up with ResourceBusy when none is freed in time. *)
ResourceBusy(p) ==
    /\ pc[p] = "idle"
    /\ InMemory
    /\ permits = 0
    /\ Goto(p, "failed")
    /\ UNCHANGED <<storeVars, owner, held, keep, outputs, waits, refreshVars, claimVars, finalized>>

(* select_leaves: the reserve command succeeds *)
Reserve(p) ==
    /\ pc[p] = "queued"
    /\ \E S \in SUBSET Leaf : TryReserve(p, S) /\ held' = [held EXCEPT ![p] = S]
    /\ Goto(p, "reserved")
    /\ UNCHANGED <<owner, keep, outputs, waits, refreshVars, claimVars, finalized>>

(* ... or asks to wait.  The optimizer does not wait, and a payment gives  *)
(* up once max_wait_for_pending has elapsed.                               *)
ReserveWait(p) ==
    /\ pc[p] = "queued"
    /\ WaitForPending(p)
    /\ \/ /\ p \in Payment
          /\ waits[p] < MaxWaits
          /\ waits' = [waits EXCEPT ![p] = @ + 1]
          /\ Goto(p, "waiting")
       \/ waits' = waits /\ Goto(p, "failed")
    /\ UNCHANGED <<owner, held, keep, outputs, refreshVars, claimVars, finalized>>

ReserveFail(p) ==
    /\ pc[p] = "queued"
    /\ InsufficientFunds(p)
    /\ Goto(p, "failed")
    /\ UNCHANGED <<owner, held, keep, outputs, waits, refreshVars, claimVars, finalized>>

(* Faulty variant: no poll, only the notification of a larger balance. *)
WakeOnBalance(p) ==
    /\ pc[p] = "waiting"
    /\ AvailableBalance >= TotalSats(TargetOf[p])
    /\ Goto(p, "idle")
    /\ UNCHANGED <<storeVars, owner, held, keep, outputs, waits, refreshVars, claimVars, finalized>>

(* wait_for_pending_balance: a balance change, or the 5 second poll *)
Wake(p) ==
    /\ pc[p] = "waiting"
    /\ Goto(p, "idle")
    /\ UNCHANGED <<storeVars, owner, held, keep, outputs, waits, refreshVars, claimVars, finalized>>

(* reservation_matches_target *)
MatchesTarget(S, tgt) ==
    /\ TotalSats(tgt) = 0 \/ Sats(S) = TotalSats(tgt)
    /\ TargetSelections(S, tgt) # {}

AfterSelect(p) == IF p \in Payment THEN "send" ELSE "oswap"

(* renew_reservation_timelocks: nothing to renew, a renewal that is then   *)
(* written back with add_leaves, a failed renewal, which cancels, or an    *)
(* error of the check before it or of the store (the ? of the function),   *)
(* which returns with the reservation still in the store.                  *)
Renew(p) ==
    /\ pc[p] = "reserved"
    /\ \/ /\ \/ UNCHANGED storeVars
             \/ AddLeaves(held[p])
          /\ Goto(p, IF MatchesTarget(held[p], TargetOf[p]) THEN AfterSelect(p) ELSE "swap")
       \/ UNCHANGED storeVars /\ Goto(p, "verify")
       \/ UNCHANGED storeVars /\ Goto(p, "leaked")
    /\ UNCHANGED <<owner, held, keep, outputs, waits, refreshVars, claimVars, finalized>>

(* The transfer (or coop exit, or Lightning payment) of the held leaves:   *)
(* it succeeds, it is refused or lost, or it succeeds and the answer is    *)
(* lost.  The operators refuse leaves that are not ours.                   *)
Send(p) ==
    /\ pc[p] = "send"
    /\ \/ held[p] \subseteq Mine /\ owner' = SetOwner(held[p], "gone") /\ Goto(p, "finalize")
       \/ held[p] \subseteq Mine /\ owner' = SetOwner(held[p], "gone") /\ Goto(p, "verify")
       \/ owner' = owner /\ Goto(p, "verify")
    /\ UNCHANGED <<storeVars, held, keep, outputs, waits, refreshVars, claimVars, finalized>>

(* with_reserved_leaves, the Ok branch *)
FinalizeSend(p) ==
    /\ pc[p] = "finalize"
    /\ Finalize(p, FALSE, {})
    /\ finalized' = finalized \cup StoredFor(p)
    /\ Goto(p, "done")
    /\ UNCHANGED <<owner, held, keep, outputs, waits, refreshVars, claimVars>>

(* Faulty variant: nothing left to keep, nothing to cancel. *)
VerifyReturnsEarly(p) ==
    /\ pc[p] = "verify"
    /\ \E S \in {held[p] \cap Mine, {}} :
          keep' = [keep EXCEPT ![p] = S] /\ Goto(p, IF S = {} THEN "failed" ELSE "cancel")
    /\ UNCHANGED <<storeVars, owner, held, outputs, waits, refreshVars, claimVars, finalized>>

(* cancel_reservation, first half: verify_leaves_against_coordinator keeps *)
(* the leaves that are still ours and Available, or none when its three    *)
(* queries fail.                                                           *)
Verify(p) ==
    /\ pc[p] = "verify"
    /\ \E S \in {held[p] \cap Mine, {}} : keep' = [keep EXCEPT ![p] = S]
    /\ Goto(p, "cancel")
    /\ UNCHANGED <<storeVars, owner, held, outputs, waits, refreshVars, claimVars, finalized>>

CancelReservation(p) ==
    /\ pc[p] = "cancel"
    /\ Cancel(p, keep[p])
    /\ Goto(p, "failed")
    /\ UNCHANGED <<owner, held, keep, outputs, waits, refreshVars, claimVars, finalized>>

-----------------------------------------------------------------------------
(* submit_swap up to the counter transfer: refused, failed after the       *)
(* operators locked the leaves, or answered with outputs of equal value.   *)
SwapRequest(p) ==
    /\ pc[p] \in {"swap", "oswap"}
    /\ \/ owner' = owner /\ outputs' = outputs /\ Goto(p, "verify")
       \/ /\ held[p] \subseteq Mine
          /\ owner' = SetOwner(held[p], "locked")
          /\ outputs' = outputs
          /\ Goto(p, "verify")
       \/ /\ held[p] \subseteq Mine
          /\ \E out \in SUBSET {l \in Leaf : owner[l] = "absent"} :
                /\ Sats(out) = Sats(held[p])
                /\ pc[p] = "swap" => TargetSelections(out, TargetOf[p]) # {}
                /\ outputs' = [outputs EXCEPT ![p] = out]
                /\ owner' = [l \in Leaf |-> IF l \in held[p] THEN "gone"
                                            ELSE IF l \in out THEN "inbound" ELSE owner[l]]
          /\ Goto(p, IF pc[p] = "swap" THEN "claim" ELSE "oclaim")
    /\ UNCHANGED <<storeVars, held, keep, waits, refreshVars, claimVars, finalized>>

(* The operators return the leaves of an abandoned swap to their owner. *)
LockExpires(l) ==
    /\ owner[l] = "locked"
    /\ owner' = [owner EXCEPT ![l] = "mine"]
    /\ UNCHANGED <<storeVars, procVars, refreshVars, claimVars, finalized>>

(* The rest of submit_swap, and the renewal check of its outputs: claimed; *)
(* a claim that failed, at the operators or only in its answer, which is   *)
(* reported as an empty result; or an error, before or after the claim.    *)
SwapClaim(p) ==
    /\ pc[p] \in {"claim", "oclaim"}
    /\ LET next == IF pc[p] = "claim" THEN "update" ELSE "ofinalize"
       IN  \/ /\ owner' = SetOwner(outputs[p], "mine")
              /\ outputs' = outputs
              /\ Goto(p, next)
           \/ /\ outputs' = [outputs EXCEPT ![p] = {}]
              /\ owner' = owner \/ owner' = SetOwner(outputs[p], "mine")
              /\ Goto(p, next)
           \/ /\ outputs' = [outputs EXCEPT ![p] = {}]
              /\ owner' = owner \/ (pc[p] = "claim" /\ owner' = SetOwner(outputs[p], "mine"))
              /\ Goto(p, "verify")
    /\ UNCHANGED <<storeVars, held, keep, waits, refreshVars, claimVars, finalized>>

(* The end of perform_swap_and_update_reservation.  When the outputs do    *)
(* not cover the target the error is returned as it is, with the           *)
(* reservation still in the store; when the reservation is gone it is      *)
(* finalized with the outputs.                                             *)
UpdateReservation(p) ==
    /\ pc[p] = "update"
    /\ \/ /\ p \in DOMAIN resv
          /\ \E S \in TargetSelections(outputs[p], TargetOf[p]) :
                /\ Update(p, S, outputs[p] \ S)
                /\ held' = [held EXCEPT ![p] = S]
          /\ finalized' = finalized \cup StoredFor(p)
          /\ Goto(p, AfterSelect(p))
       \/ /\ p \notin DOMAIN resv
          /\ TargetSelections(outputs[p], TargetOf[p]) # {}
          /\ Finalize(p, TRUE, outputs[p])
          /\ Goto(p, "failed")
          /\ UNCHANGED <<held, finalized>>
       \/ /\ TargetMayFail(outputs[p], TargetOf[p])
          /\ Goto(p, "leaked")
          /\ UNCHANGED <<storeVars, held, finalized>>
    /\ UNCHANGED <<owner, keep, outputs, waits, refreshVars, claimVars>>

(* execute_one_swap: finalize with the swap's outputs *)
FinalizeSwap(p) ==
    /\ pc[p] = "ofinalize"
    /\ Finalize(p, TRUE, outputs[p])
    /\ finalized' = finalized \cup StoredFor(p)
    /\ Goto(p, "done")
    /\ UNCHANGED <<owner, held, keep, outputs, waits, refreshVars, claimVars>>

(* An SDK instance sharing the database dies. *)
Crash(p) ==
    /\ p \in Mortal
    /\ pc[p] \notin {"idle", "done", "failed", "leaked", "dead"}
    /\ Goto(p, "dead")
    /\ UNCHANGED <<storeVars, owner, held, keep, outputs, waits, refreshVars, claimVars, finalized>>

-----------------------------------------------------------------------------
(***************************************************************************)
(* refresh_leaves: the start time is read before any query; what the       *)
(* operators answer is applied later.                                      *)
(***************************************************************************)
RefreshStart(f) ==
    /\ rpc[f] = "idle"
    /\ rpc' = [rpc EXCEPT ![f] = "query"]
    /\ startedAt' = [startedAt EXCEPT ![f] = clock]
    /\ UNCHANGED <<storeVars, owner, procVars, snapshot, unseen, claimVars, finalized>>

RefreshQuery(f) ==
    /\ rpc[f] = "query"
    /\ rpc' = [rpc EXCEPT ![f] = "apply"]
    /\ snapshot' = [snapshot EXCEPT ![f] = Mine]
    /\ \E miss \in SUBSET (Mine \cap Unreported) : unseen' = [unseen EXCEPT ![f] = miss]
    /\ UNCHANGED <<storeVars, owner, procVars, startedAt, claimVars, finalized>>

(* An operator's error, or a renewal's, ends the refresh. *)
RefreshFail(f) ==
    /\ rpc[f] \in {"query", "apply"}
    /\ rpc' = [rpc EXCEPT ![f] = "idle"]
    /\ UNCHANGED <<storeVars, owner, procVars, startedAt, snapshot, unseen, claimVars, finalized>>

RefreshApply(f) ==
    /\ rpc[f] = "apply"
    /\ SetLeaves(snapshot[f] \ unseen[f], unseen[f], startedAt[f])
    /\ rpc' = [rpc EXCEPT ![f] = "idle"]
    /\ UNCHANGED <<owner, procVars, startedAt, snapshot, unseen, claimVars, finalized>>

-----------------------------------------------------------------------------
(* claim_pending_transfers leaves a counter-swap transfer to the swap that *)
(* asked for it until a grace period is over.                              *)
Claimable ==
    {l \in Leaf : /\ owner[l] = "inbound"
                  /\ \A p \in Proc : pc[p] \in {"claim", "oclaim"} => l \notin outputs[p]}

(* claim_transfer: claim at the operators, then insert_leaves, which       *)
(* stores nothing when a renewal fails.                                    *)
Claim(c) ==
    /\ cpc[c] = "idle"
    /\ \E S \in (SUBSET Claimable) \ {{}} :
          /\ owner' = SetOwner(S, "mine")
          /\ claimed' = [claimed EXCEPT ![c] = S]
    /\ cpc' = [cpc EXCEPT ![c] = "insert"]
    /\ UNCHANGED <<storeVars, procVars, refreshVars, finalized>>

InsertLeaves(c) ==
    /\ cpc[c] = "insert"
    /\ AddLeaves(claimed[c]) \/ UNCHANGED storeVars
    /\ cpc' = [cpc EXCEPT ![c] = "idle"]
    /\ claimed' = [claimed EXCEPT ![c] = {}]
    /\ UNCHANGED <<owner, procVars, refreshVars, finalized>>

-----------------------------------------------------------------------------
ProcStep(p) ==
    \/ Acquire(p) \/ ResourceBusy(p) \/ Reserve(p) \/ ReserveWait(p) \/ ReserveFail(p)
    \/ Wake(p) \/ Renew(p) \/ Send(p) \/ FinalizeSend(p) \/ Verify(p) \/ CancelReservation(p)
    \/ SwapRequest(p) \/ SwapClaim(p) \/ UpdateReservation(p) \/ FinalizeSwap(p)

RefreshStep(f) == RefreshStart(f) \/ RefreshQuery(f) \/ RefreshFail(f) \/ RefreshApply(f)

ClaimStep(c) == Claim(c) \/ InsertLeaves(c)

Next ==
    \/ Tick
    \/ \E p \in Proc : ProcStep(p) \/ Crash(p)
    \/ \E f \in Refresher : RefreshStep(f)
    \/ \E c \in Claimer : ClaimStep(c)
    \/ \E l \in Leaf : LockExpires(l)

Spec == Init /\ [][Next]_vars

(***************************************************************************)
(* Fairness.  A caller's future is polled until it returns; the periodic   *)
(* sync starts a refresh again and again, and one that is retried for ever *)
(* is answered and applied some time; a claim runs to its end; time        *)
(* passes; the operators return abandoned leaves.  An instance need not    *)
(* die, and a transfer need not be claimed.                                *)
(***************************************************************************)
Fairness ==
    /\ WF_vars(Tick)
    /\ \A p \in Proc : WF_vars(ProcStep(p))
    /\ \A f \in Refresher : /\ WF_vars(RefreshStart(f))
                            /\ SF_vars(RefreshQuery(f))
                            /\ SF_vars(RefreshApply(f))
    /\ \A c \in Claimer : WF_vars(InsertLeaves(c))
    /\ \A l \in Leaf : WF_vars(LockExpires(l))

FairSpec == Spec /\ Fairness

-----------------------------------------------------------------------------
(* The type of the callers' state (the store's is StoreTypeOK). *)
TypeOK ==
    /\ owner \in [Leaf -> OwnerState]
    /\ pc \in [Proc -> {"idle", "queued", "waiting", "reserved", "send", "finalize", "verify",
                        "cancel", "swap", "claim", "update", "oswap", "oclaim", "ofinalize",
                        "done", "failed", "leaked", "dead"}]
    /\ held \in [Proc -> SUBSET Leaf]
    /\ keep \in [Proc -> SUBSET Leaf]
    /\ outputs \in [Proc -> SUBSET Leaf]
    /\ waits \in [Proc -> 0 .. MaxWaits]
    /\ rpc \in [Refresher -> {"idle", "query", "apply"}]
    /\ startedAt \in [Refresher -> Time]
    /\ snapshot \in [Refresher -> SUBSET Leaf]
    /\ unseen \in [Refresher -> SUBSET Leaf]
    /\ cpc \in [Claimer -> {"idle", "insert"}]
    /\ claimed \in [Claimer -> SUBSET Leaf]
    /\ finalized \subseteq Leaf

(* A leaf that a finalized payment or swap consumed is never selectable    *)
(* nor reserved again: a refresh that started before it was spent does not *)
(* bring it back.                                                          *)
FinalizedStaysOut == finalized \cap StoredLeaves = {}

(* Two error paths forget a reservation, with its permit and the change it *)
(* promises to waiting payments: the errors of renew_reservation_timelocks *)
(* other than a failed renewal (service.rs:994, 1004, 1022), and a swap    *)
(* whose outputs do not cover the target (service.rs:690).  No other does, *)
(* refused or unanswered transfers, failed swaps and failed verifications  *)
(* included: any other reservation belongs to a process that will still    *)
(* cancel, update or finalize it.                                          *)
NoOrphanReservation ==
    \A p \in DOMAIN resv : pc[p] \notin {"idle", "queued", "waiting", "done", "failed"}

(* A swap that went through ends the reservation of its inputs: "Return    *)
(* empty so the caller finalizes the reservation (marks old leaves as      *)
(* spent)" (swap.rs:376-378).  False: finding 3.                           *)
SwapEndsReservation ==
    \A p \in DOMAIN resv :
        pc[p] \in {"done", "failed", "leaked"} => \A l \in StoredFor(p) : owner[l] # "gone"

(* A process that is about to hand leaves to the operators holds exactly   *)
(* what its reservation holds.                                             *)
HeldIsReserved ==
    \A p \in Proc :
        pc[p] \in {"reserved", "send", "finalize", "swap", "oswap"} => held[p] = StoredFor(p)

(* The callers' state: their types, and what they hold is what they have   *)
(* reserved, whatever refreshes, other payments and expiries have done to  *)
(* the store since.                                                        *)
CallersOK == TypeOK /\ HeldIsReserved

(* A refresh does not lose a leaf that entered the pool after it started,  *)
(* even if the operators' answer does not list it.                         *)
RefreshKeepsNewLeaves ==
    [][\A f \in Refresher :
          rpc[f] = "apply" /\ rpc'[f] = "idle" =>
             {l \in DOMAIN pool : pool[l].at >= startedAt[f]} \subseteq StoredLeaves']_vars

(* Leaves::balance: what the pool and the swap reservations hold. *)
Balance ==
    Sats(DOMAIN pool) +
    MapThenSumSet(LAMBDA p : Sats(DOMAIN resv[p].leaves),
                  {p \in DOMAIN resv : resv[p].purpose = "Swap"})

(* While the wallet only swaps its own leaves, the balance it reports      *)
(* never exceeds what it owns: a swap's inputs and outputs are never       *)
(* counted together.                                                       *)
BalanceNotInflated == Balance <= Sats(Genesis \cup Inbound)

(* A reservation whose holder lives is cancelled, updated away or          *)
(* finalized; one whose holder died or forgot it is released once it is    *)
(* older than the timeout, even though a Swap reservation makes every      *)
(* refresh skip.  (The database only: in memory a forgotten one stays.)    *)
ReservationsEnd ==
    \A p \in Proc :
        (p \in DOMAIN resv /\ resv[p].created + ReservationTimeout < MaxTime)
            ~> p \notin DOMAIN resv

(* No swap, and no reservation that could die with its holder or has been  *)
(* forgotten, is so close to the end of modelled time that nothing can be  *)
(* seen to follow it.                                                      *)
TimeLeft ==
    /\ lastSwap < MaxTime
    /\ \A p \in DOMAIN resv : p \in Mortal \/ pc[p] = "leaked" =>
          resv[p].created + ReservationTimeout < MaxTime

(* The store converges to what the operators say: a leaf of ours that no   *)
(* one has stored is found by a refresh, and a leaf that is gone does not  *)
(* stay selectable.  (A refresh can only do so while time moves on, hence  *)
(* TimeLeft, and the exception for rows written at the end of time.)       *)
PoolConverges ==
    []TimeLeft =>
        \A l \in Leaf :
            []<>(/\ owner[l] = "mine" => l \in StoredLeaves
                 /\ owner[l] = "gone" /\ l \in DOMAIN pool => pool[l].at = MaxTime)

(* Every payment and every optimization round comes to an end: none waits  *)
(* for ever for a permit or for change that never arrives.                 *)
ProcessesEnd ==
    \A p \in Proc : <>(pc[p] \in {"done", "failed", "leaked", "dead"})

=============================================================================
