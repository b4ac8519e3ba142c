---------------------------- MODULE TokenOutputs ----------------------------
(***************************************************************************)
(* The in-memory store of token outputs (crates/spark/src/token/store) and *)
(* the tasks that share it: transfers, consolidations and externally       *)
(* signed transfers (token_service.rs), refreshes (service.rs) and the     *)
(* handler of token transaction events (spark-wallet/src/wallet.rs).       *)
(*                                                                         *)
(* One token; a selection is any nonempty part of the pool.  An operation  *)
(* of the store holds its lock throughout and is one step.  The operators' *)
(* ledger is the set of unspent outputs.  Instead of the timestamps of     *)
(* outputs, spent markers and the last swap, every refresh in flight       *)
(* records which of them are not older than its start, the one question    *)
(* the code asks of a timestamp; a marker older than every refresh in      *)
(* flight is never looked at.                                              *)
(***************************************************************************)
EXTENDS Integers, Sequences, SequencesExt, FiniteSets

CONSTANTS
    Held,           \* outputs the wallet has at first
    Fresh,          \* outputs that transactions may create
    Payers,         \* tasks that spend outputs; each holds one reservation
    Refreshers      \* tasks that refresh the store

Outputs == Held \cup Fresh

ASSUME TokenOutputsAssumption == Held \cap Fresh = {} /\ IsFiniteSet(Payers)

VARIABLES
    unspent,        \* the operators: the wallet's unspent outputs
    unused,         \* outputs no transaction has created yet
    pool,           \* available_token_outputs
    reservations,   \* what each payer's reservation holds; {} is none
    payer,          \* where each payer is, its inputs and new outputs
    refresher,      \* where each refresh is, its data, and what is not older
                    \* than its start: outputs in the pool and in reservations,
                    \* spent markers (spent_outpoints), last_swap_completed_at
    toNotify,       \* transactions whose event is on its way
    handling        \* the transaction the event handler is at

storeVars == <<pool, reservations>>
ledgerVars == <<unspent, unused, toNotify>>
toVars == <<storeVars, ledgerVars, payer, refresher, handling>>

-----------------------------------------------------------------------------
NoTx == [spends |-> {}, creates |-> {}]
PayerIdle == [pc |-> "idle", kind |-> "pay", inputs |-> {}, creates |-> {}]
RefreshIdle == [pc |-> "idle", data |-> {}, added |-> {}, held |-> {}, spent |-> {}, swapped |-> FALSE]

TOInit ==
    /\ unspent = Held /\ unused = Fresh
    /\ pool = Held
    /\ reservations = [p \in Payers |-> {}]
    /\ payer = [p \in Payers |-> PayerIdle]
    /\ refresher = [r \in Refreshers |-> RefreshIdle]
    /\ toNotify = {} /\ handling = NoTx

(* A reservation's purpose is that of the task that made it. *)
IsSwap(p) == payer[p].kind = "swap"

Reserved == UNION {reservations[p] : p \in Payers}

(* A step of the store, in what every refresh in flight has to know. *)
Record(F(_)) == [r \in Refreshers |-> IF refresher[r].pc = "idle" THEN refresher[r] ELSE F(refresher[r])]

-----------------------------------------------------------------------------
(***************************************************************************)
(* The store.                                                              *)
(***************************************************************************)
(* update_token_outputs: the spent ones leave the pool and are marked, the *)
(* new ones enter it and are unmarked, whoever holds them.                 *)
UpdateTokenOutputs(remove, add) ==
    /\ pool' = (pool \ remove) \cup add
    /\ LET record(f) == [f EXCEPT !.added = (@ \ remove) \cup (add \ (pool \ remove)),
                                  !.spent = (@ \cup remove) \ add]
       IN  refresher' = Record(record)
    /\ UNCHANGED reservations

ReserveTokenOutputs(p, outputs) ==
    /\ outputs \subseteq pool /\ outputs # {}
    /\ pool' = pool \ outputs
    /\ reservations' = [reservations EXCEPT ![p] = outputs]
    /\ LET record(f) == [f EXCEPT !.added = @ \ outputs, !.held = @ \cup ({p} \X (f.added \cap outputs))]
       IN  refresher' = Record(record)

(* The outputs return with the time they had when they were reserved. *)
CancelReservation(p) ==
    /\ pool' = pool \cup reservations[p]
    /\ reservations' = [reservations EXCEPT ![p] = {}]
    /\ LET record(f) == [f EXCEPT !.added = (@ \ reservations[p]) \cup {o \in reservations[p] : <<p, o>> \in f.held},
                                  !.held = @ \ ({p} \X Outputs)]
       IN  refresher' = Record(record)

(* Without effect when a refresh has dropped the reservation. *)
FinalizeReservation(p) ==
    /\ reservations' = [reservations EXCEPT ![p] = {}]
    /\ LET record(f) == [f EXCEPT !.spent = @ \cup reservations[p], !.held = @ \ ({p} \X Outputs),
                                  !.swapped = @ \/ (reservations[p] # {} /\ IsSwap(p))]
       IN  refresher' = Record(record)
    /\ UNCHANGED pool

(* Faulty: a swap in progress does not hold refreshes off. *)
SkippedWhenCompleted(r) == refresher[r].swapped

(* A swap is active or has completed since the refresh started. *)
Skipped(r) ==
    \/ \E p \in Payers : reservations[p] # {} /\ IsSwap(p)
    \/ refresher[r].swapped

(* Faulty: what is reserved stays in the pool too. *)
ReconcilePool(refreshed, kept) == refreshed

(* What reservations still hold leaves the refreshed pool. *)
Reconcile(refreshed, kept) == refreshed \ UNION {kept[p] : p \in Payers}

(* The data, without what was marked spent since the refresh started, and  *)
(* what was added to the pool since.                                       *)
Refreshed(r) == (refresher[r].data \ refresher[r].spent) \cup refresher[r].added

(* Reservations are reconciled one after the other, in the order of a hash *)
(* map: an output two of them hold stays with the first.                   *)
ReplaceOutputs(r) ==
    \E order \in SetToSeqs(Payers) :
       LET before(p) == UNION {reservations[order[i]] : i \in {j \in DOMAIN order :
                                    \E k \in DOMAIN order : order[k] = p /\ j < k}}
           kept == [p \in Payers |-> (reservations[p] \cap Refreshed(r)) \ before(p)]
           record(f) == [f EXCEPT !.added = pool' \cap (@ \cup refresher[r].data),
                                  !.held = {h \in @ : h[2] \in kept[h[1]]},
                                  !.spent = @ \cap refresher[r].spent]
       IN  /\ pool' = Reconcile(Refreshed(r), kept)
           /\ reservations' = kept
           /\ refresher' = [Record(record) EXCEPT ![r] = RefreshIdle]

(* Faulty: a refresh that finds a completed swap tries again with the same *)
(* data.                                                                   *)
SetTokensOutputsAgain(r) ==
    IF Skipped(r) THEN UNCHANGED <<storeVars, refresher>> ELSE ReplaceOutputs(r)

SetTokensOutputs(r) ==
    IF Skipped(r)
    THEN refresher' = [refresher EXCEPT ![r] = RefreshIdle] /\ UNCHANGED storeVars
    ELSE ReplaceOutputs(r)

-----------------------------------------------------------------------------
(***************************************************************************)
(* Payers: transfer_tokens ("pay"), optimize_token_outputs ("swap") and    *)
(* prepare_token_transfer, submit_token_transfer ("submit").               *)
(***************************************************************************)
PayerAt(p, pc) == payer[p].pc = pc
PayerGoto(p, pc) == payer' = [payer EXCEPT ![p].pc = pc]

Reserve(p, kind, outputs) ==
    /\ PayerAt(p, "idle")
    /\ ReserveTokenOutputs(p, outputs)
    /\ payer' = [payer EXCEPT ![p] = [PayerIdle EXCEPT !.pc = "broadcast", !.kind = kind, !.inputs = outputs]]
    /\ UNCHANGED <<ledgerVars, handling>>

(* Outputs are selected, and reserved only once the client has signed. *)
Prepare(p, outputs) ==
    /\ PayerAt(p, "idle")
    /\ outputs \subseteq pool /\ outputs # {}
    /\ payer' = [payer EXCEPT ![p] = [PayerIdle EXCEPT !.pc = "submit", !.kind = "submit", !.inputs = outputs]]
    /\ UNCHANGED <<storeVars, ledgerVars, refresher, handling>>

(* All of the outpoints, or none. *)
ReserveByOutpoints(p) ==
    /\ PayerAt(p, "submit")
    /\ IF payer[p].inputs \subseteq pool
       THEN ReserveTokenOutputs(p, payer[p].inputs) /\ PayerGoto(p, "broadcast")
       ELSE payer' = [payer EXCEPT ![p] = PayerIdle] /\ UNCHANGED <<storeVars, refresher>>
    /\ UNCHANGED <<ledgerVars, handling>>

(* The operators commit a transaction that spends unspent outputs. *)
Commit(spends, creates) ==
    /\ spends \subseteq unspent /\ creates \subseteq unused
    /\ unspent' = (unspent \ spends) \cup creates
    /\ unused' = unused \ creates
    /\ toNotify' = toNotify \cup {[spends |-> spends, creates |-> creates]}

(* broadcast_token_transfer: committed, and the answer may be lost, or be  *)
(* malformed and name no outputs; or refused.  A payment has at most one   *)
(* change output, a consolidation gives as many outputs as it is told to.  *)
(* COMMIT_PROCESSING is taken as committed: the time the operators then    *)
(* still need is left out.                                                 *)
Broadcast(p, creates) ==
    /\ PayerAt(p, "broadcast")
    /\ IF IsSwap(p) THEN creates # {} ELSE Cardinality(creates) <= 1
    /\ Commit(payer[p].inputs, creates)
    /\ \E pc \in {"finalize", "cancel"}, named \in {creates, {}} :
          payer' = [payer EXCEPT ![p].pc = pc, ![p].creates = named]
    /\ UNCHANGED <<storeVars, refresher, handling>>

(* optimize_token_outputs: the signer fails to give the identity key after *)
(* the reservation and before with_reserved_token_outputs.  The task ends, *)
(* and its reservation stays.                                              *)
IdentityFails(p) ==
    /\ PayerAt(p, "broadcast") /\ IsSwap(p)
    /\ PayerGoto(p, "leaked")
    /\ UNCHANGED <<storeVars, ledgerVars, refresher, handling>>

BroadcastFails(p) ==
    /\ PayerAt(p, "broadcast")
    /\ PayerGoto(p, "cancel")
    /\ UNCHANGED <<storeVars, ledgerVars, refresher, handling>>

(* with_reserved_token_outputs *)
Finalize(p) ==
    /\ PayerAt(p, "finalize")
    /\ FinalizeReservation(p)
    /\ PayerGoto(p, "update")
    /\ UNCHANGED <<ledgerVars, handling>>

Cancel(p) ==
    /\ PayerAt(p, "cancel")
    /\ CancelReservation(p)
    /\ payer' = [payer EXCEPT ![p] = PayerIdle]
    /\ UNCHANGED <<ledgerVars, handling>>

AddNewOutputs(p) ==
    /\ PayerAt(p, "update")
    /\ UpdateTokenOutputs(IF payer[p].kind = "submit" THEN payer[p].inputs ELSE {}, payer[p].creates)
    /\ payer' = [payer EXCEPT ![p] = PayerIdle]
    /\ UNCHANGED <<ledgerVars, handling>>

-----------------------------------------------------------------------------
(* Somebody pays the wallet. *)
Receive(o) == Commit({}, {o}) /\ UNCHANGED <<storeVars, payer, refresher, handling>>

(* The event handler reads a transaction and, after it has fetched the     *)
(* metadata, applies it.                                                   *)
ReadTransaction(tx) ==
    /\ handling = NoTx /\ tx \in toNotify
    /\ handling' = tx /\ toNotify' = toNotify \ {tx}
    /\ UNCHANGED <<unspent, unused, storeVars, payer, refresher>>

ApplyTransaction ==
    /\ handling # NoTx
    /\ UpdateTokenOutputs(handling.spends, handling.creates)
    /\ handling' = NoTx
    /\ UNCHANGED <<ledgerVars, payer>>

StartRefresh(r) ==
    /\ refresher[r].pc = "idle"
    /\ refresher' = [refresher EXCEPT ![r] = [RefreshIdle EXCEPT !.pc = "query"]]
    /\ UNCHANGED <<storeVars, ledgerVars, payer, handling>>

QueryOutputs(r) ==
    /\ refresher[r].pc = "query"
    /\ refresher' = [refresher EXCEPT ![r].pc = "set", ![r].data = unspent]
    /\ UNCHANGED <<storeVars, ledgerVars, payer, handling>>

FinishRefresh(r) ==
    /\ refresher[r].pc = "set"
    /\ SetTokensOutputs(r)
    /\ UNCHANGED <<ledgerVars, payer, handling>>

PayerStep(p) ==
    \/ ReserveByOutpoints(p) \/ (\E creates \in SUBSET unused : Broadcast(p, creates)) \/ BroadcastFails(p)
    \/ IdentityFails(p)
    \/ Finalize(p) \/ Cancel(p) \/ AddNewOutputs(p)

RefreshStep(r) == StartRefresh(r) \/ QueryOutputs(r) \/ FinishRefresh(r)

TONext ==
    \/ \E p \in Payers, outputs \in SUBSET pool :
          Prepare(p, outputs) \/ \E kind \in {"pay", "swap"} : Reserve(p, kind, outputs)
    \/ \E p \in Payers : PayerStep(p)
    \/ \E o \in unused : Receive(o)
    \/ \E tx \in toNotify : ReadTransaction(tx)
    \/ ApplyTransaction
    \/ \E r \in Refreshers : RefreshStep(r)

(* A payment that has begun goes on, events are handled, and the wallet is *)
(* refreshed at every sync.                                                *)
TOFairness ==
    /\ \A p \in Payers : WF_toVars(PayerStep(p))
    /\ WF_toVars(ApplyTransaction) /\ WF_toVars(\E tx \in toNotify : ReadTransaction(tx))
    /\ \A r \in Refreshers : WF_toVars(RefreshStep(r))

TOSpec == TOInit /\ [][TONext]_toVars /\ TOFairness

-----------------------------------------------------------------------------
Txs == [spends : SUBSET Outputs, creates : SUBSET Outputs]

TOTypeOK ==
    /\ {unspent, unused, pool} \subseteq SUBSET Outputs
    /\ unspent \cap unused = {} /\ (pool \cup Reserved) \cap unused = {}
    /\ reservations \in [Payers -> SUBSET Outputs]
    /\ payer \in [Payers -> [pc : {"idle", "submit", "broadcast", "finalize", "cancel", "update", "leaked"},
                             kind : {"pay", "swap", "submit"}, inputs : SUBSET Outputs, creates : SUBSET Outputs]]
    /\ refresher \in [Refreshers -> [pc : {"idle", "query", "set"}, data : SUBSET Outputs,
                                     added : SUBSET pool, spent : SUBSET Outputs,
                                     held : SUBSET {h \in Payers \X Outputs : h[2] \in reservations[h[1]]}, swapped : BOOLEAN]]
    /\ toNotify \subseteq Txs /\ handling \in Txs

(* with_reserved_token_outputs settles every reservation it is given: none *)
(* outlives the task it was made for but that of a consolidation that ends *)
(* before it gets there (token_service.rs:1297), and none holds what the   *)
(* task did not select.                                                    *)
NoOrphanReservation ==
    \A p \in Payers :
        reservations[p] # {} => /\ payer[p].pc \in {"broadcast", "finalize", "cancel", "leaked"}
                                /\ payer[p].pc = "leaked" => payer[p].kind = "swap"
                                /\ reservations[p] \subseteq payer[p].inputs

(* The outputs of a swap count in the balance: until it is settled, which  *)
(* a leaked one never is, no refresh takes any of them out of its          *)
(* reservation.                                                            *)
SwapReservationHeld ==
    \A p \in Payers :
        (payer[p].kind = "swap" /\ payer[p].pc \in {"broadcast", "finalize", "cancel", "leaked"}) =>
            reservations[p] = payer[p].inputs

(* The state of payments and reservations. *)
ReservationsOK == TOTypeOK /\ NoOrphanReservation /\ SwapReservationHeld

(* The store holds exactly the unspent outputs, each of them once. *)
Exact ==
    /\ pool \cup Reserved = unspent
    /\ pool \cap Reserved = {}
    /\ \A p, q \in Payers : p # q => reservations[p] \cap reservations[q] = {}

(* set_tokens_outputs: whatever late updates and lost answers have left in *)
(* the store, a refresh whose data is current and during which nothing was *)
(* added to the pool puts it right, running payments included.             *)
RefreshRepairs ==
    [][\A r \in Refreshers :
         (/\ refresher[r].pc = "set" /\ refresher'[r].pc = "idle" /\ ~Skipped(r)
          /\ refresher[r].data = unspent /\ refresher[r].added = {}) => Exact']_toVars

(* When nobody pays any more, the store ends up exact, unless a            *)
(* consolidation has leaked its reservation: has_active_swap then skips    *)
(* every refresh for good (store/mod.rs:141-148).                          *)
Calm == (\A p \in Payers : PayerAt(p, "idle")) /\ toNotify = {} /\ handling = NoTx
StoreSettles == <>[]Calm => []<>Exact

(* token/mod.rs: swap outputs are "included in balance since we will       *)
(* receive the same amount back": what a swap has reserved is settled.     *)
SwapReservationEnds == \A p \in Payers : (IsSwap(p) /\ reservations[p] # {}) ~> (reservations[p] = {})

(* store/mod.rs: "Available (unreserved) token outputs": the pool holds    *)
(* nothing that a payment has reserved.                                    *)
PoolIsUnreserved == pool \cap Reserved = {}
=============================================================================
