------------------------- MODULE TokenOutputsProofs -------------------------
(***************************************************************************)
(* Proofs about the store of token outputs, for any outputs, payments and  *)
(* refreshes.                                                              *)
(***************************************************************************)
EXTENDS TokenOutputs, FiniteSetTheorems, TLAPS

PayerTypes == [pc : {"idle", "submit", "broadcast", "finalize", "cancel", "update", "leaked"},
               kind : {"pay", "swap", "submit"}, inputs : SUBSET Outputs, creates : SUBSET Outputs]

(* The types of the store and the ledger, and of what is on its way. *)
StoreTypes ==
    /\ unspent \subseteq Outputs /\ unused \subseteq Outputs /\ pool \subseteq Outputs
    /\ reservations \in [Payers -> SUBSET Outputs]
    /\ payer \in [Payers -> PayerTypes]
    /\ toNotify \subseteq Txs /\ handling \in Txs

RefreshTypes == [pc : {"idle", "query", "set"}, data : SUBSET Outputs, added : SUBSET Outputs,
                 held : SUBSET (Payers \X Outputs), spent : SUBSET Outputs, swapped : BOOLEAN]

(* What a refresh has recorded of the store is still there; an idle one    *)
(* has recorded nothing.                                                   *)
RefresherOK(r) ==
    /\ refresher[r].pc = "idle" => refresher[r] = RefreshIdle
    /\ refresher[r].added \subseteq pool
    /\ \A p \in Payers, o \in Outputs : <<p, o>> \in refresher[r].held => o \in reservations[p]

RefreshersOK ==
    /\ refresher \in [Refreshers -> RefreshTypes]
    /\ \A r \in Refreshers : RefresherOK(r)

(* An output exists before anybody knows of it. *)
NoneUnused ==
    /\ unspent \cap unused = {} /\ pool \cap unused = {} /\ handling.creates \cap unused = {}
    /\ \A p \in Payers : /\ reservations[p] \cap unused = {}
                         /\ payer[p].inputs \cap unused = {} /\ payer[p].creates \cap unused = {}
    /\ \A tx \in toNotify : tx.creates \cap unused = {}
    /\ \A r \in Refreshers : refresher[r].data \cap unused = {}

(* What is marked as spent, or will be, is spent for good. *)
Gone(outputs) == outputs \cap (unspent \cup unused) = {}

SpentIsGone ==
    /\ Gone(handling.spends)
    /\ \A tx \in toNotify : Gone(tx.spends)
    /\ \A p \in Payers : payer[p].pc \in {"finalize", "update"} => Gone(payer[p].inputs)
    /\ \A r \in Refreshers : Gone(refresher[r].spent)

(* A payment has inputs. *)
PaysSomething == \A p \in Payers : payer[p].pc # "idle" => payer[p].inputs # {}

TOInv ==
    /\ StoreTypes /\ RefreshersOK /\ NoneUnused /\ SpentIsGone /\ PaysSomething
    /\ NoOrphanReservation /\ SwapReservationHeld

(* An idle refresh has recorded nothing. *)
LEMMA IdleFacts ==
    /\ RefreshIdle \in RefreshTypes /\ RefreshIdle.pc = "idle" /\ RefreshIdle.data = {}
    /\ RefreshIdle.added = {} /\ RefreshIdle.held = {} /\ RefreshIdle.spent = {}
    /\ PayerIdle \in PayerTypes /\ PayerIdle.pc = "idle" /\ PayerIdle.kind = "pay"
    /\ PayerIdle.inputs = {} /\ PayerIdle.creates = {}
    /\ NoTx \in Txs /\ NoTx.spends = {} /\ NoTx.creates = {}
BY DEF RefreshIdle, RefreshTypes, PayerIdle, PayerTypes, NoTx, Txs

(* The initial state satisfies the invariant. *)
LEMMA TOInitInv == TOInit => TOInv
<1> SUFFICES ASSUME TOInit PROVE TOInv
  OBVIOUS
<1>1. StoreTypes
  BY IdleFacts DEF TOInit, StoreTypes, Outputs
<1>2. RefreshersOK
  BY IdleFacts DEF TOInit, RefreshersOK, RefresherOK
<1>3. NoneUnused /\ SpentIsGone
  BY IdleFacts, TokenOutputsAssumption DEF TOInit, NoneUnused, SpentIsGone, Gone
<1>4. PaysSomething /\ NoOrphanReservation /\ SwapReservationHeld
  BY IdleFacts DEF TOInit, PaysSomething, NoOrphanReservation, SwapReservationHeld
<1> QED BY <1>1, <1>2, <1>3, <1>4 DEF TOInv

-----------------------------------------------------------------------------
(* What a step of the store leaves of a refresh in flight: its data, and   *)
(* no more marks than those of the step.                                   *)
Recorded(marked) ==
    /\ RefreshersOK'
    /\ \A r \in Refreshers : /\ refresher'[r].pc = refresher[r].pc
                              /\ refresher'[r].data = refresher[r].data
                              /\ refresher'[r].spent \subseteq refresher[r].spent \cup marked

(* update_token_outputs *)
LEMMA UpdateRecorded ==
    ASSUME StoreTypes, RefreshersOK, NEW remove, NEW add, remove \subseteq Outputs, add \subseteq Outputs,
           UpdateTokenOutputs(remove, add)
    PROVE  Recorded(remove)
<1>1. pool' = (pool \ remove) \cup add /\ UNCHANGED reservations
  BY DEF UpdateTokenOutputs
<1>2. refresher' = [r \in Refreshers |->
         IF refresher[r].pc = "idle" THEN refresher[r]
         ELSE [refresher[r] EXCEPT !.added = (@ \ remove) \cup (add \ (pool \ remove)),
                                   !.spent = (@ \cup remove) \ add]]
  BY DEF UpdateTokenOutputs, Record
<1>3. ASSUME NEW r \in Refreshers
      PROVE  /\ refresher'[r] \in RefreshTypes
             /\ refresher'[r].pc = refresher[r].pc /\ refresher'[r].data = refresher[r].data
             /\ refresher'[r].held = refresher[r].held
             /\ refresher'[r].pc = "idle" => refresher'[r] = RefreshIdle
             /\ refresher'[r].added \subseteq (refresher[r].added \ remove) \cup add
             /\ refresher'[r].spent \subseteq refresher[r].spent \cup remove
  <2>1. refresher[r] \in RefreshTypes /\ RefresherOK(r)
    BY DEF RefreshersOK
  <2>2. CASE refresher[r].pc = "idle"
    BY <1>2, <2>1, <2>2, IdleFacts DEF RefresherOK
  <2>3. CASE refresher[r].pc # "idle"
    <3>1. refresher'[r] = [refresher[r] EXCEPT !.added = (@ \ remove) \cup (add \ (pool \ remove)),
                                               !.spent = (@ \cup remove) \ add]
      BY <1>2, <2>3
    <3> QED BY <2>1, <2>3, <3>1 DEF RefreshTypes
  <2> QED BY <2>2, <2>3
<1>4. \A r \in Refreshers : RefresherOK(r)'
  BY <1>1, <1>3 DEF RefreshersOK, RefresherOK
<1>5. refresher' \in [Refreshers -> RefreshTypes]
  BY <1>2, <1>3
<1> QED BY <1>3, <1>4, <1>5 DEF Recorded, RefreshersOK
(* reserve_token_outputs *)
LEMMA ReserveRecorded ==
    ASSUME StoreTypes, RefreshersOK, NEW p \in Payers, NEW outputs, ReserveTokenOutputs(p, outputs),
           reservations[p] = {}
    PROVE  Recorded({})
<1>1. /\ outputs \subseteq pool /\ pool' = pool \ outputs
      /\ reservations' = [reservations EXCEPT ![p] = outputs]
  BY DEF ReserveTokenOutputs
<1>2. refresher' = [r \in Refreshers |->
         IF refresher[r].pc = "idle" THEN refresher[r]
         ELSE [refresher[r] EXCEPT !.added = @ \ outputs,
                                   !.held = @ \cup ({p} \X (refresher[r].added \cap outputs))]]
  BY DEF ReserveTokenOutputs, Record
<1>3. ASSUME NEW r \in Refreshers
      PROVE  /\ refresher'[r] \in RefreshTypes
             /\ refresher'[r].pc = refresher[r].pc /\ refresher'[r].data = refresher[r].data
             /\ refresher'[r].spent = refresher[r].spent
             /\ refresher'[r].pc = "idle" => refresher'[r] = RefreshIdle
             /\ refresher'[r].added \subseteq refresher[r].added \ outputs
             /\ refresher'[r].held \subseteq refresher[r].held \cup ({p} \X outputs)
  <2>1. refresher[r] \in RefreshTypes /\ RefresherOK(r) /\ outputs \subseteq Outputs
    BY <1>1 DEF RefreshersOK, StoreTypes
  <2>2. CASE refresher[r].pc = "idle"
    BY <1>2, <2>1, <2>2, IdleFacts DEF RefresherOK
  <2>3. CASE refresher[r].pc # "idle"
    <3>1. refresher'[r] = [refresher[r] EXCEPT !.added = @ \ outputs,
                                               !.held = @ \cup ({p} \X (refresher[r].added \cap outputs))]
      BY <1>2, <2>3
    <3> DEFINE added == refresher[r].added \ outputs
               held == refresher[r].held \cup ({p} \X (refresher[r].added \cap outputs))
    <3>2. /\ added \subseteq Outputs /\ held \subseteq Payers \X Outputs
          /\ held \subseteq refresher[r].held \cup ({p} \X outputs)
      BY <2>1 DEF RefreshTypes
    <3>3. refresher'[r] = [refresher[r] EXCEPT !.added = added, !.held = held]
      BY <3>1
    <3>4. added \subseteq refresher[r].added \ outputs
      OBVIOUS
    <3> HIDE DEF added, held
    <3> QED BY <2>1, <2>3, <3>2, <3>3, <3>4 DEF RefreshTypes
  <2> QED BY <2>2, <2>3
<1>4. \A q \in Payers : reservations'[q] = IF q = p THEN outputs ELSE reservations[q]
  BY <1>1 DEF StoreTypes
<1>5. \A r \in Refreshers : RefresherOK(r)'
  <2> SUFFICES ASSUME NEW r \in Refreshers PROVE RefresherOK(r)'
    OBVIOUS
  <2>1. \A q \in Payers, o \in Outputs : <<q, o>> \in refresher'[r].held => o \in reservations'[q]
    BY <1>3, <1>4 DEF RefreshersOK, RefresherOK
  <2> QED BY <1>1, <1>3, <2>1 DEF RefreshersOK, RefresherOK
<1>6. refresher' \in [Refreshers -> RefreshTypes]
  BY <1>2, <1>3
<1> QED BY <1>3, <1>5, <1>6 DEF Recorded, RefreshersOK

(* cancel_reservation *)
LEMMA CancelRecorded ==
    ASSUME StoreTypes, RefreshersOK, NEW p \in Payers, CancelReservation(p)
    PROVE  Recorded({})
<1> DEFINE back == reservations[p]
<1>1. pool' = pool \cup back /\ reservations' = [reservations EXCEPT ![p] = {}]
  BY DEF CancelReservation
<1>2. refresher' = [r \in Refreshers |->
         IF refresher[r].pc = "idle" THEN refresher[r]
         ELSE [refresher[r] EXCEPT !.added = (@ \ back) \cup {o \in back : <<p, o>> \in refresher[r].held},
                                   !.held = @ \ ({p} \X Outputs)]]
  BY DEF CancelReservation, Record
<1>3. back \subseteq Outputs
  BY DEF StoreTypes
<1> HIDE DEF back
<1>4. ASSUME NEW r \in Refreshers
      PROVE  /\ refresher'[r] \in RefreshTypes
             /\ refresher'[r].pc = refresher[r].pc /\ refresher'[r].data = refresher[r].data
             /\ refresher'[r].spent = refresher[r].spent
             /\ refresher'[r].pc = "idle" => refresher'[r] = RefreshIdle
             /\ refresher'[r].added \subseteq refresher[r].added \cup back
             /\ refresher'[r].held \subseteq refresher[r].held \ ({p} \X Outputs)
  <2>1. refresher[r] \in RefreshTypes /\ RefresherOK(r)
    BY DEF RefreshersOK
  <2>2. CASE refresher[r].pc = "idle"
    BY <1>2, <2>1, <2>2, IdleFacts DEF RefresherOK
  <2>3. CASE refresher[r].pc # "idle"
    <3>1. refresher'[r] = [refresher[r] EXCEPT !.added = (@ \ back) \cup {o \in back : <<p, o>> \in refresher[r].held},
                                               !.held = @ \ ({p} \X Outputs)]
      BY <1>2, <2>3
    <3> DEFINE added == (refresher[r].added \ back) \cup {o \in back : <<p, o>> \in refresher[r].held}
               held == refresher[r].held \ ({p} \X Outputs)
    <3>2. /\ added \subseteq Outputs /\ held \subseteq Payers \X Outputs
          /\ added \subseteq refresher[r].added \cup back
      BY <1>3, <2>1 DEF RefreshTypes
    <3>3. refresher'[r] = [refresher[r] EXCEPT !.added = added, !.held = held]
      BY <3>1
    <3>4. held \subseteq refresher[r].held \ ({p} \X Outputs)
      OBVIOUS
    <3> HIDE DEF added, held
    <3> QED BY <2>1, <2>3, <3>2, <3>3, <3>4 DEF RefreshTypes
  <2> QED BY <2>2, <2>3
<1>5. \A q \in Payers : q # p => reservations'[q] = reservations[q]
  BY <1>1 DEF StoreTypes
<1>6. \A r \in Refreshers : RefresherOK(r)'
  <2> SUFFICES ASSUME NEW r \in Refreshers PROVE RefresherOK(r)'
    OBVIOUS
  <2>1. \A q \in Payers, o \in Outputs : <<q, o>> \in refresher'[r].held => o \in reservations'[q]
    BY <1>4, <1>5 DEF RefreshersOK, RefresherOK
  <2> QED BY <1>1, <1>4, <2>1 DEF RefreshersOK, RefresherOK
<1>7. refresher' \in [Refreshers -> RefreshTypes]
  BY <1>2, <1>4
<1> QED BY <1>4, <1>6, <1>7 DEF Recorded, RefreshersOK

(* finalize_reservation *)
LEMMA FinalizeRecorded ==
    ASSUME StoreTypes, RefreshersOK, NEW p \in Payers, FinalizeReservation(p)
    PROVE  Recorded(reservations[p])
<1> DEFINE used == reservations[p]
           swap == used # {} /\ IsSwap(p)
<1>1. pool' = pool /\ reservations' = [reservations EXCEPT ![p] = {}]
  BY DEF FinalizeReservation
<1>2. refresher' = [r \in Refreshers |->
         IF refresher[r].pc = "idle" THEN refresher[r]
         ELSE [refresher[r] EXCEPT !.spent = @ \cup used, !.held = @ \ ({p} \X Outputs), !.swapped = @ \/ swap]]
  BY DEF FinalizeReservation, Record
<1>3. used \subseteq Outputs /\ swap \in BOOLEAN
  BY DEF StoreTypes
<1> HIDE DEF used, swap
<1>4. ASSUME NEW r \in Refreshers
      PROVE  /\ refresher'[r] \in RefreshTypes
             /\ refresher'[r].pc = refresher[r].pc /\ refresher'[r].data = refresher[r].data
             /\ refresher'[r].spent \subseteq refresher[r].spent \cup used
             /\ refresher'[r].pc = "idle" => refresher'[r] = RefreshIdle
             /\ refresher'[r].added = refresher[r].added
             /\ refresher'[r].held \subseteq refresher[r].held \ ({p} \X Outputs)
  <2>1. refresher[r] \in RefreshTypes /\ RefresherOK(r)
    BY DEF RefreshersOK
  <2>2. CASE refresher[r].pc = "idle"
    BY <1>2, <2>1, <2>2, IdleFacts DEF RefresherOK
  <2>3. CASE refresher[r].pc # "idle"
    <3>1. refresher'[r] = [refresher[r] EXCEPT !.spent = @ \cup used, !.held = @ \ ({p} \X Outputs),
                                               !.swapped = @ \/ swap]
      BY <1>2, <2>3
    <3>2. (refresher[r].swapped \/ swap) \in BOOLEAN
      BY <1>3, <2>1 DEF RefreshTypes
    <3> DEFINE spent == refresher[r].spent \cup used
               held == refresher[r].held \ ({p} \X Outputs)
               swapped == refresher[r].swapped \/ swap
    <3>3. spent \subseteq Outputs /\ held \subseteq Payers \X Outputs /\ swapped \in BOOLEAN
      BY <1>3, <2>1, <3>2 DEF RefreshTypes
    <3>4. refresher'[r] = [refresher[r] EXCEPT !.spent = spent, !.held = held, !.swapped = swapped]
      BY <3>1
    <3>5. held \subseteq refresher[r].held \ ({p} \X Outputs) /\ spent \subseteq refresher[r].spent \cup used
      OBVIOUS
    <3> HIDE DEF spent, held, swapped
    <3> QED BY <2>1, <2>3, <3>3, <3>4, <3>5 DEF RefreshTypes
  <2> QED BY <2>2, <2>3
<1>5. \A q \in Payers : q # p => reservations'[q] = reservations[q]
  BY <1>1 DEF StoreTypes
<1>6. \A r \in Refreshers : RefresherOK(r)'
  <2> SUFFICES ASSUME NEW r \in Refreshers PROVE RefresherOK(r)'
    OBVIOUS
  <2>1. \A q \in Payers, o \in Outputs : <<q, o>> \in refresher'[r].held => o \in reservations'[q]
    BY <1>4, <1>5 DEF RefreshersOK, RefresherOK
  <2> QED BY <1>1, <1>4, <2>1 DEF RefreshersOK, RefresherOK
<1>7. refresher' \in [Refreshers -> RefreshTypes]
  BY <1>2, <1>4
<1> QED BY <1>4, <1>6, <1>7 DEF Recorded, RefreshersOK, used
(* Every payer is at some place of an order of the payers. *)
LEMMA OrderedPayers ==
    ASSUME NEW order \in SetToSeqs(Payers), NEW p \in Payers
    PROVE  \E k \in DOMAIN order : order[k] = p
<1> DEFINE D == 1..Cardinality(Payers)
<1>1. IsFiniteSet(Payers) /\ Cardinality(Payers) \in Nat
  BY TokenOutputsAssumption, FS_CardinalityType
<1>2. order \in [D -> Payers] /\ \A i, j \in D : i # j => order[i] # order[j]
  BY DEF SetToSeqs
<1>3. Cardinality(D) = Cardinality(Payers)
  BY <1>1, FS_Interval
<1> HIDE DEF D
<1>4. order \in Injection(D, Payers)
  BY <1>2 DEF Injection, IsInjective
<1>5. order \in Surjection(D, Payers)
  BY <1>1, <1>3, <1>4, FS_Injection
<1> QED BY <1>2, <1>5 DEF Surjection

(* set_tokens_outputs: a reservation keeps what was refreshed, an output   *)
(* two of them held stays with one, and the rest of the refreshed is the   *)
(* pool.                                                                   *)
LEMMA ReplaceFacts ==
    ASSUME StoreTypes, RefreshersOK, NEW r \in Refreshers, ReplaceOutputs(r)
    PROVE  /\ reservations' \in [Payers -> SUBSET Outputs]
           /\ \A p \in Payers : reservations'[p] \subseteq reservations[p] \cap Refreshed(r)
           /\ \A p, q \in Payers : p # q => reservations'[p] \cap reservations'[q] = {}
           /\ pool' = Refreshed(r) \ UNION {reservations'[p] : p \in Payers}
           /\ refresher'[r] = RefreshIdle
           /\ RefreshersOK'
           /\ \A s \in Refreshers : s # r => /\ refresher'[s].pc = refresher[s].pc
                                             /\ refresher'[s].data = refresher[s].data
                                             /\ refresher'[s].spent \subseteq refresher[s].spent
<1>1. PICK order \in SetToSeqs(Payers) :
         LET before(p) == UNION {reservations[order[i]] : i \in {j \in DOMAIN order :
                                      \E k \in DOMAIN order : order[k] = p /\ j < k}}
             kept == [p \in Payers |-> (reservations[p] \cap Refreshed(r)) \ before(p)]
             record(f) == [f EXCEPT !.added = pool' \cap (@ \cup refresher[r].data),
                                    !.held = {h \in @ : h[2] \in kept[h[1]]},
                                    !.spent = @ \cap refresher[r].spent]
         IN  /\ pool' = Reconcile(Refreshed(r), kept)
             /\ reservations' = kept
             /\ refresher' = [Record(record) EXCEPT ![r] = RefreshIdle]
  BY DEF ReplaceOutputs
<1> DEFINE before(p) == UNION {reservations[order[i]] : i \in {j \in DOMAIN order :
                                  \E k \in DOMAIN order : order[k] = p /\ j < k}}
<1>2. reservations' = [p \in Payers |-> (reservations[p] \cap Refreshed(r)) \ before(p)]
  BY <1>1
<1>3. pool' = Refreshed(r) \ UNION {reservations'[p] : p \in Payers}
  BY <1>1 DEF Reconcile
<1>4. refresher' = [s \in Refreshers |->
         IF s = r THEN RefreshIdle
         ELSE IF refresher[s].pc = "idle" THEN refresher[s]
         ELSE [refresher[s] EXCEPT !.added = pool' \cap (@ \cup refresher[r].data),
                                   !.held = {h \in @ : h[2] \in reservations'[h[1]]},
                                   !.spent = @ \cap refresher[r].spent]]
  BY <1>1 DEF Record
<1>5. \A p \in Payers : \E k \in DOMAIN order : order[k] = p
  BY OrderedPayers
<1>6. /\ order \in [1..Cardinality(Payers) -> Payers] /\ Cardinality(Payers) \in Nat
      /\ \A i, j \in DOMAIN order : i < j \/ j < i \/ i = j
  <2>1. Cardinality(Payers) \in Nat
    BY TokenOutputsAssumption, FS_CardinalityType
  <2> QED BY <2>1 DEF SetToSeqs
<1>7. Refreshed(r) \subseteq Outputs
  BY DEF Refreshed, RefreshersOK, RefreshTypes
<1>8. \A p, q \in Payers : p # q => reservations'[p] \cap reservations'[q] = {}
  <2>1. ASSUME NEW i \in DOMAIN order, NEW k \in DOMAIN order, i < k
        PROVE  reservations'[order[i]] \cap reservations'[order[k]] = {}
    <3>1. order[i] \in Payers /\ order[k] \in Payers
      BY <1>6
    <3>2. reservations[order[i]] \subseteq before(order[k])
      BY <2>1
    <3> HIDE DEF before
    <3> QED BY <1>2, <3>1, <3>2
  <2> SUFFICES ASSUME NEW p \in Payers, NEW q \in Payers, p # q
               PROVE  reservations'[p] \cap reservations'[q] = {}
    OBVIOUS
  <2>2. PICK i \in DOMAIN order, k \in DOMAIN order : order[i] = p /\ order[k] = q
    BY <1>5
  <2>3. i < k \/ k < i
    BY <1>6, <2>2
  <2> QED BY <2>1, <2>2, <2>3
<1> HIDE DEF before
<1>9. \A p \in Payers : reservations'[p] \subseteq reservations[p] \cap Refreshed(r)
  BY <1>2
<1>10. reservations' \in [Payers -> SUBSET Outputs]
  BY <1>2, <1>7
<1>11. ASSUME NEW s \in Refreshers
       PROVE  /\ refresher'[s] \in RefreshTypes
              /\ s = r => refresher'[s] = RefreshIdle
              /\ s # r => /\ refresher'[s].pc = refresher[s].pc
                          /\ refresher'[s].data = refresher[s].data
                          /\ refresher'[s].spent \subseteq refresher[s].spent
              /\ RefresherOK(s)'
  <2>1. refresher[s] \in RefreshTypes /\ RefresherOK(s)
    BY DEF RefreshersOK
  <2>2. CASE s = r
    BY <1>4, <2>2, IdleFacts DEF RefresherOK
  <2>3. CASE s # r /\ refresher[s].pc = "idle"
    <3>1. refresher'[s] = RefreshIdle /\ refresher[s] = RefreshIdle
      BY <1>4, <2>1, <2>3 DEF RefresherOK
    <3> QED BY <2>3, <3>1, IdleFacts DEF RefresherOK
  <2>4. CASE s # r /\ refresher[s].pc # "idle"
    <3> DEFINE added == pool' \cap (refresher[s].added \cup refresher[r].data)
               held == {h \in refresher[s].held : h[2] \in reservations'[h[1]]}
               spent == refresher[s].spent \cap refresher[r].spent
    <3>1. refresher'[s] = [refresher[s] EXCEPT !.added = added, !.held = held, !.spent = spent]
      BY <1>4, <2>4
    <3>2. added \subseteq Outputs /\ held \subseteq Payers \X Outputs /\ spent \subseteq Outputs
      BY <1>3, <1>7, <2>1 DEF RefreshTypes
    <3>3. added \subseteq pool' /\ spent \subseteq refresher[s].spent
      OBVIOUS
    <3>4. \A p \in Payers, o \in Outputs : <<p, o>> \in held => o \in reservations'[p]
      OBVIOUS
    <3> HIDE DEF added, held, spent
    <3>5. /\ refresher'[s] \in RefreshTypes
          /\ refresher'[s].pc = refresher[s].pc /\ refresher'[s].data = refresher[s].data
          /\ refresher'[s].added = added /\ refresher'[s].held = held /\ refresher'[s].spent = spent
      BY <2>1, <3>1, <3>2 DEF RefreshTypes
    <3>6. RefresherOK(s)'
      BY <2>4, <3>3, <3>4, <3>5 DEF RefresherOK
    <3> QED BY <2>4, <3>3, <3>5, <3>6
  <2> QED BY <2>2, <2>3, <2>4
<1>12. RefreshersOK'
  BY <1>4, <1>11 DEF RefreshersOK
<1> QED BY <1>3, <1>8, <1>9, <1>10, <1>11, <1>12

-----------------------------------------------------------------------------
(* Outputs are selected and reserved for a payment. *)
LEMMA ReserveKeeps ==
    ASSUME TOInv, NEW p \in Payers, NEW outputs, ReserveTokenOutputs(p, outputs), reservations[p] = {},
           NEW x \in PayerTypes, payer' = [payer EXCEPT ![p] = x],
           x.pc = "broadcast", x.inputs = outputs, x.creates \cap unused = {},
           UNCHANGED <<ledgerVars, handling>>
    PROVE  TOInv'
<1>0. /\ StoreTypes /\ RefreshersOK /\ NoneUnused /\ SpentIsGone /\ PaysSomething
      /\ NoOrphanReservation /\ SwapReservationHeld
  BY DEF TOInv
<1>1. /\ outputs \subseteq pool /\ outputs # {} /\ pool' = pool \ outputs
      /\ reservations' = [reservations EXCEPT ![p] = outputs]
  BY DEF ReserveTokenOutputs
<1>2. UNCHANGED <<unspent, unused, toNotify, handling>>
  BY DEF ledgerVars
<1>3. /\ \A q \in Payers : payer'[q] = IF q = p THEN x ELSE payer[q]
      /\ \A q \in Payers : reservations'[q] = IF q = p THEN outputs ELSE reservations[q]
  BY <1>0, <1>1 DEF StoreTypes
<1>4. StoreTypes'
  <2>1. payer' \in [Payers -> PayerTypes] /\ reservations' \in [Payers -> SUBSET Outputs]
    BY <1>0, <1>1 DEF StoreTypes
  <2> QED BY <1>0, <1>1, <1>2, <2>1 DEF StoreTypes
<1>5. Recorded({})
  BY <1>0, ReserveRecorded
<1>6. NoneUnused'
  BY <1>0, <1>1, <1>2, <1>3, <1>5 DEF NoneUnused, Recorded
<1>7. SpentIsGone'
  BY <1>0, <1>2, <1>3, <1>5 DEF SpentIsGone, Gone, Recorded
<1>8. PaysSomething' /\ NoOrphanReservation' /\ SwapReservationHeld'
  BY <1>0, <1>1, <1>3 DEF PaysSomething, NoOrphanReservation, SwapReservationHeld
<1> QED BY <1>4, <1>5, <1>6, <1>7, <1>8 DEF TOInv, Recorded

(* transfer_tokens, optimize_token_outputs *)
LEMMA ReserveInv ==
    ASSUME TOInv, NEW p \in Payers, NEW kind \in {"pay", "swap"}, NEW outputs, Reserve(p, kind, outputs)
    PROVE  TOInv'
<1> DEFINE x == [PayerIdle EXCEPT !.pc = "broadcast", !.kind = kind, !.inputs = outputs]
<1>1. /\ payer[p].pc = "idle" /\ ReserveTokenOutputs(p, outputs) /\ payer' = [payer EXCEPT ![p] = x]
      /\ UNCHANGED <<ledgerVars, handling>>
  BY DEF Reserve, PayerAt
<1>2. outputs \subseteq Outputs
  BY <1>1 DEF TOInv, StoreTypes, ReserveTokenOutputs
<1>3. x \in PayerTypes /\ x.pc = "broadcast" /\ x.inputs = outputs /\ x.creates = {}
  BY <1>2 DEF PayerIdle, PayerTypes
<1>4. reservations[p] = {}
  BY <1>1 DEF TOInv, NoOrphanReservation
<1> HIDE DEF x
<1> QED BY <1>1, <1>3, <1>4, ReserveKeeps

(* What it takes for a step of one payment that leaves the store alone.    *)
LEMMA PayerKeeps ==
    ASSUME TOInv, NEW p \in Payers, NEW x \in PayerTypes, payer' = [payer EXCEPT ![p] = x],
           x.inputs \cap unused = {}, x.creates \cap unused = {}, x.pc # "idle" => x.inputs # {},
           x.pc \in {"idle", "submit", "cancel", "leaked"}, x.pc = "leaked" => x.kind = "swap",
           reservations[p] # {} => x.pc \in {"cancel", "leaked"} /\ payer[p].inputs = x.inputs,
           x.pc \in {"cancel", "leaked"} =>
               payer[p].pc = "broadcast" /\ payer[p].inputs = x.inputs /\ payer[p].kind = x.kind,
           UNCHANGED <<storeVars, ledgerVars, refresher, handling>>
    PROVE  TOInv'
<1>0. /\ StoreTypes /\ RefreshersOK /\ NoneUnused /\ SpentIsGone /\ PaysSomething
      /\ NoOrphanReservation /\ SwapReservationHeld
  BY DEF TOInv
<1>1. UNCHANGED <<unspent, unused, toNotify, handling, pool, reservations, refresher>>
  BY DEF ledgerVars, storeVars
<1>2. \A q \in Payers : payer'[q] = IF q = p THEN x ELSE payer[q]
  BY <1>0 DEF StoreTypes
<1>3. StoreTypes'
  <2>1. payer' \in [Payers -> PayerTypes]
    BY <1>0 DEF StoreTypes
  <2> QED BY <1>0, <1>1, <2>1 DEF StoreTypes
<1>4. RefreshersOK'
  BY <1>0, <1>1 DEF RefreshersOK, RefresherOK
<1>5. NoneUnused'
  BY <1>0, <1>1, <1>2 DEF NoneUnused
<1>6. SpentIsGone'
  BY <1>0, <1>1, <1>2 DEF SpentIsGone, Gone
<1>7. PaysSomething' /\ NoOrphanReservation' /\ SwapReservationHeld'
  BY <1>0, <1>1, <1>2 DEF PaysSomething, NoOrphanReservation, SwapReservationHeld
<1> QED BY <1>3, <1>4, <1>5, <1>6, <1>7 DEF TOInv

(* prepare_token_transfer selects and reserves nothing. *)
LEMMA PrepareInv ==
    ASSUME TOInv, NEW p \in Payers, NEW outputs, Prepare(p, outputs)
    PROVE  TOInv'
<1> DEFINE x == [PayerIdle EXCEPT !.pc = "submit", !.kind = "submit", !.inputs = outputs]
<1>1. /\ payer[p].pc = "idle" /\ outputs \subseteq pool /\ outputs # {} /\ payer' = [payer EXCEPT ![p] = x]
      /\ UNCHANGED <<storeVars, ledgerVars, refresher, handling>>
  BY DEF Prepare, PayerAt
<1>2. outputs \subseteq Outputs /\ outputs \cap unused = {}
  BY <1>1 DEF TOInv, StoreTypes, NoneUnused
<1>3. x \in PayerTypes /\ x.pc = "submit" /\ x.inputs = outputs /\ x.creates = {}
  BY <1>2 DEF PayerIdle, PayerTypes
<1>4. reservations[p] = {}
  BY <1>1 DEF TOInv, NoOrphanReservation
<1> HIDE DEF x
<1> QED BY <1>1, <1>2, <1>3, <1>4, PayerKeeps

(* submit_token_transfer *)
LEMMA ReserveByOutpointsInv ==
    ASSUME TOInv, NEW p \in Payers, ReserveByOutpoints(p)
    PROVE  TOInv'
<1>1. payer[p].pc = "submit" /\ UNCHANGED <<ledgerVars, handling>>
  BY DEF ReserveByOutpoints, PayerAt
<1>2. reservations[p] = {} /\ payer[p] \in PayerTypes /\ payer[p].creates \cap unused = {}
  BY <1>1 DEF TOInv, NoOrphanReservation, StoreTypes, NoneUnused
<1>3. CASE payer[p].inputs \subseteq pool
  <2> DEFINE x == [payer[p] EXCEPT !.pc = "broadcast"]
  <2>1. ReserveTokenOutputs(p, payer[p].inputs) /\ payer' = [payer EXCEPT ![p] = x]
    BY <1>3 DEF ReserveByOutpoints, PayerGoto
  <2>2. x \in PayerTypes /\ x.pc = "broadcast" /\ x.inputs = payer[p].inputs /\ x.creates = payer[p].creates
    BY <1>2 DEF PayerTypes
  <2> HIDE DEF x
  <2> QED BY <1>1, <1>2, <2>1, <2>2, ReserveKeeps
<1>4. CASE ~(payer[p].inputs \subseteq pool)
  <2>1. payer' = [payer EXCEPT ![p] = PayerIdle] /\ UNCHANGED <<storeVars, refresher>>
    BY <1>4 DEF ReserveByOutpoints
  <2> QED BY <1>1, <1>2, <2>1, IdleFacts, PayerKeeps
<1> QED BY <1>3, <1>4

(* The operators refuse a transaction, or a consolidation ends before it.  *)
LEMMA BroadcastFailsInv ==
    ASSUME TOInv, NEW p \in Payers, BroadcastFails(p) \/ IdentityFails(p)
    PROVE  TOInv'
<1>0. PICK pc \in {"cancel", "leaked"} :
         /\ payer[p].pc = "broadcast" /\ payer' = [payer EXCEPT ![p].pc = pc]
         /\ pc = "leaked" => payer[p].kind = "swap"
         /\ UNCHANGED <<storeVars, ledgerVars, refresher, handling>>
  BY DEF BroadcastFails, IdentityFails, PayerAt, PayerGoto, IsSwap
<1> DEFINE x == [payer[p] EXCEPT !.pc = pc]
<1>1. payer[p].pc = "broadcast" /\ payer' = [payer EXCEPT ![p] = x]
  BY <1>0
<1>2. /\ payer[p] \in PayerTypes /\ payer[p].creates \cap unused = {} /\ payer[p].inputs \cap unused = {}
      /\ payer[p].inputs # {}
  BY <1>1 DEF TOInv, StoreTypes, NoneUnused, PaysSomething
<1>3. x \in PayerTypes /\ x.pc = pc /\ x.inputs = payer[p].inputs /\ x.creates = payer[p].creates
      /\ x.kind = payer[p].kind
  BY <1>2 DEF PayerTypes
<1> HIDE DEF x
<1> QED BY <1>0, <1>1, <1>2, <1>3, PayerKeeps
(* A committed transaction: what it spends is gone for good, what it       *)
(* creates exists from then on.                                            *)
LEMMA CommitFacts ==
    ASSUME StoreTypes, NoneUnused, SpentIsGone, NEW spends, NEW creates, Commit(spends, creates)
    PROVE  /\ unspent' \subseteq Outputs /\ unused' \subseteq unused /\ toNotify' \subseteq Txs
           /\ unspent' \cap unused' = {} /\ creates \subseteq Outputs /\ creates \cap unused' = {}
           /\ Gone(spends)' /\ unspent' \cup unused' \subseteq unspent \cup unused
           /\ \A tx \in toNotify' : tx.creates \cap unused' = {} /\ Gone(tx.spends)'
<1> DEFINE new == [spends |-> spends, creates |-> creates]
<1>1. /\ spends \subseteq unspent /\ creates \subseteq unused
      /\ unspent' = (unspent \ spends) \cup creates /\ unused' = unused \ creates
      /\ toNotify' = toNotify \cup {new}
  BY DEF Commit
<1>2. unspent \subseteq Outputs /\ unused \subseteq Outputs /\ unspent \cap unused = {}
  BY DEF StoreTypes, NoneUnused
<1>3. spends \cap (unspent' \cup unused') = {} /\ unspent' \cup unused' \subseteq unspent \cup unused
  BY <1>1, <1>2
<1>4. new \in Txs /\ new.spends = spends /\ new.creates = creates
  BY <1>1, <1>2 DEF Txs
<1> HIDE DEF new
<1>5. \A tx \in toNotify : tx.creates \cap unused' = {} /\ tx.spends \cap (unspent' \cup unused') = {}
  BY <1>1, <1>3 DEF NoneUnused, SpentIsGone, Gone
<1>6. toNotify' \subseteq Txs
  BY <1>1, <1>4 DEF StoreTypes
<1>7. ASSUME NEW tx \in toNotify' PROVE tx.creates \cap unused' = {} /\ Gone(tx.spends)'
  BY <1>1, <1>3, <1>4, <1>5 DEF Gone
<1> QED BY <1>1, <1>2, <1>3, <1>6, <1>7 DEF Gone

(* What a commit leaves of the store and of those who are not at it. *)
LEMMA CommitKeeps ==
    ASSUME TOInv, NEW spends, NEW creates, Commit(spends, creates), UNCHANGED <<storeVars, refresher, handling>>,
           payer' \in [Payers -> PayerTypes],
           \A p \in Payers : payer'[p].inputs = payer[p].inputs /\ payer'[p].kind = payer[p].kind,
           \A p \in Payers : payer'[p].creates = payer[p].creates \/ payer'[p].creates \subseteq creates,
           \A p \in Payers : \/ payer'[p].pc = payer[p].pc
                             \/ /\ payer[p].pc = "broadcast" /\ payer'[p].pc \in {"finalize", "cancel"}
                                /\ payer[p].inputs = spends
    PROVE  TOInv'
<1>0. /\ StoreTypes /\ RefreshersOK /\ NoneUnused /\ SpentIsGone /\ PaysSomething
      /\ NoOrphanReservation /\ SwapReservationHeld
  BY DEF TOInv
<1>1. UNCHANGED <<pool, reservations, refresher, handling>>
  BY DEF storeVars
<1>2. /\ unspent' \subseteq Outputs /\ unused' \subseteq unused /\ toNotify' \subseteq Txs
      /\ unspent' \cap unused' = {} /\ creates \subseteq Outputs /\ creates \cap unused' = {}
      /\ Gone(spends)' /\ unspent' \cup unused' \subseteq unspent \cup unused
      /\ \A tx \in toNotify' : tx.creates \cap unused' = {} /\ Gone(tx.spends)'
  BY <1>0, CommitFacts
<1>3. StoreTypes' /\ RefreshersOK'
  BY <1>0, <1>1, <1>2 DEF StoreTypes, RefreshersOK, RefresherOK
<1>4. NoneUnused'
  BY <1>0, <1>1, <1>2 DEF NoneUnused
<1>5. SpentIsGone'
  <2>1. \A S : S \cap (unspent \cup unused) = {} => S \cap (unspent' \cup unused') = {}
    BY <1>2
  <2>2. \A p \in Payers : payer'[p].pc \in {"finalize", "update"} =>
           payer[p].pc \in {"finalize", "update"} \/ payer[p].inputs = spends
    OBVIOUS
  <2> QED BY <1>0, <1>1, <1>2, <2>1, <2>2 DEF SpentIsGone, Gone
<1>6. PaysSomething' /\ NoOrphanReservation' /\ SwapReservationHeld'
  BY <1>0, <1>1 DEF PaysSomething, NoOrphanReservation, SwapReservationHeld
<1> QED BY <1>3, <1>4, <1>5, <1>6 DEF TOInv

(* broadcast_token_transfer *)
LEMMA BroadcastInv ==
    ASSUME TOInv, NEW p \in Payers, NEW creates, Broadcast(p, creates)
    PROVE  TOInv'
<1>1. /\ payer[p].pc = "broadcast" /\ Commit(payer[p].inputs, creates)
      /\ UNCHANGED <<storeVars, refresher, handling>>
  BY DEF Broadcast, PayerAt
<1>2. PICK pc \in {"finalize", "cancel"}, named \in {creates, {}} :
         payer' = [payer EXCEPT ![p].pc = pc, ![p].creates = named]
  BY DEF Broadcast
<1>3. StoreTypes /\ creates \subseteq Outputs
  BY <1>1 DEF TOInv, StoreTypes, Commit
<1> DEFINE x == [payer[p] EXCEPT !.pc = pc, !.creates = named]
<1>4. /\ x \in PayerTypes /\ x.pc = pc /\ x.creates \subseteq creates
      /\ x.inputs = payer[p].inputs /\ x.kind = payer[p].kind
  BY <1>3 DEF StoreTypes, PayerTypes
<1>5. payer' = [payer EXCEPT ![p] = x]
  BY <1>2, <1>3 DEF StoreTypes, PayerTypes
<1> HIDE DEF x
<1>6. payer' \in [Payers -> PayerTypes] /\ \A q \in Payers : payer'[q] = IF q = p THEN x ELSE payer[q]
  BY <1>3, <1>4, <1>5 DEF StoreTypes
<1>7. /\ \A q \in Payers : payer'[q].inputs = payer[q].inputs /\ payer'[q].kind = payer[q].kind
      /\ \A q \in Payers : payer'[q].creates = payer[q].creates \/ payer'[q].creates \subseteq creates
      /\ \A q \in Payers : \/ payer'[q].pc = payer[q].pc
                           \/ /\ payer[q].pc = "broadcast" /\ payer'[q].pc \in {"finalize", "cancel"}
                              /\ payer[q].inputs = payer[p].inputs
  BY <1>1, <1>2, <1>4, <1>6
<1> QED BY <1>1, <1>6, <1>7, CommitKeeps

(* Somebody pays the wallet. *)
LEMMA ReceiveInv ==
    ASSUME TOInv, NEW o, Receive(o)
    PROVE  TOInv'
<1>1. Commit({}, {o}) /\ UNCHANGED <<storeVars, payer, refresher, handling>>
  BY DEF Receive
<1>2. payer' \in [Payers -> PayerTypes]
  BY <1>1 DEF TOInv, StoreTypes
<1> QED BY <1>1, <1>2, CommitKeeps

(* A payment settles its reservation; only what it has spent is marked.    *)
LEMMA FinalizeInv ==
    ASSUME TOInv, NEW p \in Payers, Finalize(p)
    PROVE  TOInv'
<1> DEFINE x == [payer[p] EXCEPT !.pc = "update"]
<1>0. /\ StoreTypes /\ RefreshersOK /\ NoneUnused /\ SpentIsGone /\ PaysSomething
      /\ NoOrphanReservation /\ SwapReservationHeld
  BY DEF TOInv
<1>1. /\ payer[p].pc = "finalize" /\ FinalizeReservation(p) /\ payer' = [payer EXCEPT ![p] = x]
      /\ UNCHANGED <<unspent, unused, toNotify, handling>>
  BY DEF Finalize, PayerAt, PayerGoto, ledgerVars
<1>2. /\ x \in PayerTypes /\ x.pc = "update" /\ x.inputs = payer[p].inputs
      /\ x.creates = payer[p].creates /\ x.kind = payer[p].kind
  BY <1>0 DEF StoreTypes, PayerTypes
<1> HIDE DEF x
<1>3. pool' = pool /\ reservations' = [reservations EXCEPT ![p] = {}]
  BY <1>1 DEF FinalizeReservation
<1>4. Recorded(reservations[p])
  BY <1>0, <1>1, FinalizeRecorded
<1>5. /\ \A q \in Payers : payer'[q] = IF q = p THEN x ELSE payer[q]
      /\ \A q \in Payers : reservations'[q] = IF q = p THEN {} ELSE reservations[q]
  BY <1>0, <1>1, <1>3 DEF StoreTypes
<1>6. StoreTypes'
  <2>1. payer' \in [Payers -> PayerTypes] /\ reservations' \in [Payers -> SUBSET Outputs]
    BY <1>0, <1>1, <1>2, <1>3 DEF StoreTypes
  <2> QED BY <1>0, <1>1, <1>3, <2>1 DEF StoreTypes
<1>7. NoneUnused'
  BY <1>0, <1>1, <1>2, <1>3, <1>4, <1>5 DEF NoneUnused, Recorded
<1>8. SpentIsGone'
  <2>1. Gone(payer[p].inputs) /\ reservations[p] \subseteq payer[p].inputs
    BY <1>0, <1>1 DEF SpentIsGone, NoOrphanReservation
  <2>2. \A r \in Refreshers : Gone(refresher'[r].spent)
    BY <1>0, <1>4, <2>1 DEF SpentIsGone, Gone, Recorded
  <2> QED BY <1>0, <1>1, <1>2, <1>5, <2>1, <2>2 DEF SpentIsGone, Gone
<1>9. PaysSomething' /\ NoOrphanReservation' /\ SwapReservationHeld'
  BY <1>0, <1>1, <1>2, <1>5 DEF PaysSomething, NoOrphanReservation, SwapReservationHeld
<1> QED BY <1>4, <1>6, <1>7, <1>8, <1>9 DEF TOInv, Recorded

(* ... or cancels it. *)
LEMMA CancelInv ==
    ASSUME TOInv, NEW p \in Payers, Cancel(p)
    PROVE  TOInv'
<1>0. /\ StoreTypes /\ RefreshersOK /\ NoneUnused /\ SpentIsGone /\ PaysSomething
      /\ NoOrphanReservation /\ SwapReservationHeld
  BY DEF TOInv
<1>1. /\ CancelReservation(p) /\ payer' = [payer EXCEPT ![p] = PayerIdle]
      /\ UNCHANGED <<unspent, unused, toNotify, handling>>
  BY DEF Cancel, ledgerVars
<1>2. pool' = pool \cup reservations[p] /\ reservations' = [reservations EXCEPT ![p] = {}]
  BY <1>1 DEF CancelReservation
<1>3. Recorded({})
  BY <1>0, <1>1, CancelRecorded
<1>4. /\ \A q \in Payers : payer'[q] = IF q = p THEN PayerIdle ELSE payer[q]
      /\ \A q \in Payers : reservations'[q] = IF q = p THEN {} ELSE reservations[q]
  BY <1>0, <1>1, <1>2 DEF StoreTypes
<1>5. StoreTypes'
  <2>1. payer' \in [Payers -> PayerTypes] /\ reservations' \in [Payers -> SUBSET Outputs]
    BY <1>0, <1>1, <1>2, IdleFacts DEF StoreTypes
  <2> QED BY <1>0, <1>1, <1>2, <2>1 DEF StoreTypes
<1>6. NoneUnused'
  BY <1>0, <1>1, <1>2, <1>3, <1>4, IdleFacts DEF NoneUnused, Recorded
<1>7. SpentIsGone'
  BY <1>0, <1>1, <1>3, <1>4, IdleFacts DEF SpentIsGone, Gone, Recorded
<1>8. PaysSomething' /\ NoOrphanReservation' /\ SwapReservationHeld'
  BY <1>0, <1>1, <1>4, IdleFacts DEF PaysSomething, NoOrphanReservation, SwapReservationHeld
<1> QED BY <1>3, <1>5, <1>6, <1>7, <1>8 DEF TOInv, Recorded

(* What it takes to apply a transaction to the store. *)
LEMMA UpdateKeeps ==
    ASSUME TOInv, NEW remove, NEW add, UpdateTokenOutputs(remove, add),
           remove \subseteq Outputs, add \subseteq Outputs, Gone(remove), add \cap unused = {},
           payer' \in [Payers -> PayerTypes], handling' \in Txs,
           \A p \in Payers : payer'[p] = payer[p] \/ (payer[p].pc = "update" /\ payer'[p] = PayerIdle),
           handling' = handling \/ handling' = NoTx,
           UNCHANGED ledgerVars
    PROVE  TOInv'
<1>0. /\ StoreTypes /\ RefreshersOK /\ NoneUnused /\ SpentIsGone /\ PaysSomething
      /\ NoOrphanReservation /\ SwapReservationHeld
  BY DEF TOInv
<1>1. pool' = (pool \ remove) \cup add /\ UNCHANGED <<reservations, unspent, unused, toNotify>>
  BY DEF UpdateTokenOutputs, ledgerVars
<1>2. Recorded(remove)
  BY <1>0, UpdateRecorded
<1>3. StoreTypes'
  BY <1>0, <1>1 DEF StoreTypes
<1>4. NoneUnused'
  <2>1. handling'.creates \cap unused = {}
    BY <1>0, IdleFacts DEF NoneUnused
  <2>2. \A p \in Payers : payer'[p].inputs \cap unused = {} /\ payer'[p].creates \cap unused = {}
    BY <1>0, IdleFacts DEF NoneUnused
  <2> QED BY <1>0, <1>1, <1>2, <2>1, <2>2 DEF NoneUnused, Recorded
<1>5. SpentIsGone'
  <2>1. Gone(handling'.spends)
    BY <1>0, IdleFacts DEF SpentIsGone, Gone
  <2>2. \A p \in Payers : payer'[p].pc \in {"finalize", "update"} => Gone(payer'[p].inputs)
    BY <1>0, IdleFacts DEF SpentIsGone
  <2>3. \A r \in Refreshers : Gone(refresher'[r].spent)
    BY <1>0, <1>2 DEF SpentIsGone, Gone, Recorded
  <2> QED BY <1>0, <1>1, <2>1, <2>2, <2>3 DEF SpentIsGone, Gone
<1>6. PaysSomething' /\ NoOrphanReservation' /\ SwapReservationHeld'
  BY <1>0, <1>1, IdleFacts DEF PaysSomething, NoOrphanReservation, SwapReservationHeld
<1> QED BY <1>2, <1>3, <1>4, <1>5, <1>6 DEF TOInv, Recorded

(* The payment adds its new outputs, or the event handler does. *)
LEMMA AddNewOutputsInv ==
    ASSUME TOInv, NEW p \in Payers, AddNewOutputs(p)
    PROVE  TOInv'
<1> DEFINE remove == IF payer[p].kind = "submit" THEN payer[p].inputs ELSE {}
           add == payer[p].creates
<1>1. /\ payer[p].pc = "update" /\ UpdateTokenOutputs(remove, add)
      /\ payer' = [payer EXCEPT ![p] = PayerIdle] /\ UNCHANGED <<ledgerVars, handling>>
  BY DEF AddNewOutputs, PayerAt
<1>2. StoreTypes /\ payer[p] \in PayerTypes /\ handling \in Txs
  BY DEF TOInv, StoreTypes
<1>3. Gone(remove) /\ remove \subseteq Outputs
  BY <1>1, <1>2 DEF TOInv, SpentIsGone, Gone, PayerTypes
<1>4. add \subseteq Outputs /\ add \cap unused = {}
  BY <1>2 DEF TOInv, NoneUnused, PayerTypes
<1>5. payer' \in [Payers -> PayerTypes] /\ \A q \in Payers : payer'[q] = IF q = p THEN PayerIdle ELSE payer[q]
  BY <1>1, <1>2, IdleFacts DEF StoreTypes
<1> HIDE DEF remove, add
<1> QED BY <1>1, <1>2, <1>3, <1>4, <1>5, UpdateKeeps

(* The handler applies it. *)
LEMMA ApplyTransactionInv ==
    ASSUME TOInv, ApplyTransaction
    PROVE  TOInv'
<1>1. /\ UpdateTokenOutputs(handling.spends, handling.creates)
      /\ handling' = NoTx /\ UNCHANGED <<ledgerVars, payer>>
  BY DEF ApplyTransaction
<1>2. /\ handling.spends \subseteq Outputs /\ handling.creates \subseteq Outputs
      /\ Gone(handling.spends) /\ handling.creates \cap unused = {}
  BY DEF TOInv, StoreTypes, Txs, SpentIsGone, NoneUnused
<1>3. payer' \in [Payers -> PayerTypes] /\ handling' \in Txs
  BY <1>1, IdleFacts DEF TOInv, StoreTypes
<1> QED BY <1>1, <1>2, <1>3, UpdateKeeps

(* The handler of events reads a transaction. *)
LEMMA ReadTransactionInv ==
    ASSUME TOInv, NEW tx \in toNotify, ReadTransaction(tx)
    PROVE  TOInv'
<1>0. /\ StoreTypes /\ RefreshersOK /\ NoneUnused /\ SpentIsGone /\ PaysSomething
      /\ NoOrphanReservation /\ SwapReservationHeld
  BY DEF TOInv
<1>1. /\ handling' = tx /\ toNotify' = toNotify \ {tx}
      /\ UNCHANGED <<unspent, unused, pool, reservations, payer, refresher>>
  BY DEF ReadTransaction, storeVars
<1>2. StoreTypes' /\ RefreshersOK'
  BY <1>0, <1>1 DEF StoreTypes, RefreshersOK, RefresherOK
<1>3. NoneUnused'
  BY <1>0, <1>1 DEF NoneUnused
<1>4. SpentIsGone'
  BY <1>0, <1>1 DEF SpentIsGone, Gone
<1>5. PaysSomething' /\ NoOrphanReservation' /\ SwapReservationHeld'
  BY <1>0, <1>1 DEF PaysSomething, NoOrphanReservation, SwapReservationHeld
<1> QED BY <1>2, <1>3, <1>4, <1>5 DEF TOInv

-----------------------------------------------------------------------------
(* What a step of one refresh leaves of the rest, when the store has no    *)
(* more than before and the data of the operators.                         *)
LEMMA RefreshKeeps ==
    ASSUME TOInv, UNCHANGED <<ledgerVars, payer, handling>>, RefreshersOK',
           pool' \subseteq Outputs, pool' \cap unused = {},
           reservations' \in [Payers -> SUBSET Outputs],
           \A p \in Payers : reservations'[p] \subseteq reservations[p],
           \A p \in Payers : IsSwap(p) => reservations'[p] = reservations[p],
           \A r \in Refreshers : /\ refresher'[r].data \cap unused = {}
                                 /\ Gone(refresher'[r].spent)
    PROVE  TOInv'
<1>0. /\ StoreTypes /\ RefreshersOK /\ NoneUnused /\ SpentIsGone /\ PaysSomething
      /\ NoOrphanReservation /\ SwapReservationHeld
  BY DEF TOInv
<1>1. UNCHANGED <<unspent, unused, toNotify, payer, handling>>
  BY DEF ledgerVars
<1>2. StoreTypes'
  BY <1>0, <1>1 DEF StoreTypes
<1>3. NoneUnused'
  BY <1>0, <1>1 DEF NoneUnused
<1>4. SpentIsGone'
  BY <1>0, <1>1 DEF SpentIsGone, Gone
<1>5. PaysSomething' /\ NoOrphanReservation'
  BY <1>0, <1>1 DEF PaysSomething, NoOrphanReservation
<1>6. SwapReservationHeld'
  BY <1>0, <1>1 DEF SwapReservationHeld, IsSwap
<1> QED BY <1>2, <1>3, <1>4, <1>5, <1>6 DEF TOInv

(* One refresh goes on and the store is left alone. *)
LEMMA RefreshMoves ==
    ASSUME TOInv, NEW r \in Refreshers, NEW x \in RefreshTypes, refresher' = [refresher EXCEPT ![r] = x],
           UNCHANGED <<storeVars, ledgerVars, payer, handling>>,
           x.pc = "idle" => x = RefreshIdle, x.added \subseteq pool,
           \A p \in Payers, o \in Outputs : <<p, o>> \in x.held => o \in reservations[p],
           x.data \cap unused = {}, Gone(x.spent)
    PROVE  TOInv'
<1>0. StoreTypes /\ RefreshersOK /\ NoneUnused /\ SpentIsGone
  BY DEF TOInv
<1>1. UNCHANGED <<pool, reservations>>
  BY DEF storeVars
<1>2. /\ refresher' \in [Refreshers -> RefreshTypes]
      /\ \A s \in Refreshers : refresher'[s] = IF s = r THEN x ELSE refresher[s]
  BY <1>0 DEF RefreshersOK
<1>3. RefreshersOK'
  BY <1>0, <1>1, <1>2 DEF RefreshersOK, RefresherOK
<1>4. \A s \in Refreshers : refresher'[s].data \cap unused = {} /\ Gone(refresher'[s].spent)
  BY <1>0, <1>2 DEF NoneUnused, SpentIsGone
<1>5. /\ pool' \subseteq Outputs /\ pool' \cap unused = {} /\ reservations' \in [Payers -> SUBSET Outputs]
      /\ \A p \in Payers : reservations'[p] = reservations[p]
  BY <1>0, <1>1 DEF StoreTypes, NoneUnused
<1> QED BY <1>3, <1>4, <1>5, RefreshKeeps

(* refresh_tokens_outputs starts, *)
LEMMA StartRefreshInv ==
    ASSUME TOInv, NEW r \in Refreshers, StartRefresh(r)
    PROVE  TOInv'
<1> DEFINE x == [RefreshIdle EXCEPT !.pc = "query"]
<1>1. refresher' = [refresher EXCEPT ![r] = x] /\ UNCHANGED <<storeVars, ledgerVars, payer, handling>>
  BY DEF StartRefresh
<1>2. x \in RefreshTypes /\ x.pc = "query" /\ x.data = {} /\ x.added = {} /\ x.held = {} /\ x.spent = {}
  BY DEF RefreshIdle, RefreshTypes
<1> HIDE DEF x
<1> QED BY <1>1, <1>2, RefreshMoves DEF Gone

(* reads the operators' outputs, *)
LEMMA QueryOutputsInv ==
    ASSUME TOInv, NEW r \in Refreshers, QueryOutputs(r)
    PROVE  TOInv'
<1> DEFINE x == [refresher[r] EXCEPT !.pc = "set", !.data = unspent]
<1>1. refresher[r] \in RefreshTypes /\ RefresherOK(r) /\ refresher \in [Refreshers -> RefreshTypes]
      /\ Gone(refresher[r].spent) /\ unspent \subseteq Outputs /\ unspent \cap unused = {}
  BY DEF TOInv, RefreshersOK, SpentIsGone, StoreTypes, NoneUnused
<1>2. refresher' = [refresher EXCEPT ![r] = x] /\ UNCHANGED <<storeVars, ledgerVars, payer, handling>>
  BY <1>1 DEF QueryOutputs, RefreshTypes
<1>3. x \in RefreshTypes
  BY <1>1 DEF RefreshTypes
<1>4. x.pc = "set" /\ x.data = unspent /\ x.added = refresher[r].added
      /\ x.held = refresher[r].held /\ x.spent = refresher[r].spent
  BY <1>1 DEF RefreshTypes
<1> HIDE DEF x
<1> QED BY <1>1, <1>2, <1>3, <1>4, RefreshMoves DEF RefresherOK

(* and sets them, unless a swap is active or has completed since. *)
LEMMA FinishRefreshInv ==
    ASSUME TOInv, NEW r \in Refreshers, FinishRefresh(r)
    PROVE  TOInv'
<1>0. StoreTypes /\ RefreshersOK /\ NoneUnused /\ SpentIsGone
  BY DEF TOInv
<1>1. SetTokensOutputs(r) /\ UNCHANGED <<ledgerVars, payer, handling>>
  BY DEF FinishRefresh
<1>2. CASE Skipped(r)
  <2>1. refresher' = [refresher EXCEPT ![r] = RefreshIdle] /\ UNCHANGED storeVars
    BY <1>1, <1>2 DEF SetTokensOutputs
  <2> QED BY <1>1, <2>1, IdleFacts, RefreshMoves DEF Gone
<1>3. CASE ~Skipped(r)
  <2>1. ReplaceOutputs(r)
    BY <1>1, <1>3 DEF SetTokensOutputs
  <2>2. /\ reservations' \in [Payers -> SUBSET Outputs]
        /\ \A p \in Payers : reservations'[p] \subseteq reservations[p] \cap Refreshed(r)
        /\ pool' = Refreshed(r) \ UNION {reservations'[p] : p \in Payers}
        /\ refresher'[r] = RefreshIdle
        /\ RefreshersOK'
        /\ \A s \in Refreshers : s # r => /\ refresher'[s].data = refresher[s].data
                                          /\ refresher'[s].spent \subseteq refresher[s].spent
    BY <1>0, <2>1, ReplaceFacts
  <2>3. Refreshed(r) \subseteq Outputs /\ Refreshed(r) \cap unused = {}
    <3>1. refresher[r] \in RefreshTypes /\ refresher[r].added \subseteq pool
      BY <1>0 DEF RefreshersOK, RefresherOK
    <3> QED BY <1>0, <3>1 DEF Refreshed, RefreshTypes, NoneUnused
  <2>4. pool' \subseteq Outputs /\ pool' \cap unused = {}
    BY <2>2, <2>3
  <2>5. \A p \in Payers : IsSwap(p) => reservations'[p] = reservations[p]
    BY <1>3, <2>2 DEF Skipped
  <2>6. \A s \in Refreshers : refresher'[s].data \cap unused = {} /\ Gone(refresher'[s].spent)
    BY <1>0, <2>2, IdleFacts DEF NoneUnused, SpentIsGone, Gone
  <2> QED BY <1>1, <2>2, <2>4, <2>5, <2>6, RefreshKeeps
<1> QED BY <1>2, <1>3

(* Every step keeps the invariant. *)
LEMMA TONextInv == TOInv /\ [TONext]_toVars => TOInv'
<1> SUFFICES ASSUME TOInv, [TONext]_toVars PROVE TOInv'
  OBVIOUS
<1>1. ASSUME NEW p \in Payers, NEW outputs \in SUBSET pool, Prepare(p, outputs) PROVE TOInv'
  BY <1>1, PrepareInv
<1>2. ASSUME NEW p \in Payers, NEW outputs \in SUBSET pool, NEW kind \in {"pay", "swap"}, Reserve(p, kind, outputs)
      PROVE TOInv'
  BY <1>2, ReserveInv
<1>3. ASSUME NEW p \in Payers, PayerStep(p) PROVE TOInv'
  BY <1>3, ReserveByOutpointsInv, BroadcastInv, BroadcastFailsInv, FinalizeInv, CancelInv, AddNewOutputsInv
     DEF PayerStep
<1>4. ASSUME NEW r \in Refreshers, RefreshStep(r) PROVE TOInv'
  BY <1>4, StartRefreshInv, QueryOutputsInv, FinishRefreshInv DEF RefreshStep
<1>5. CASE UNCHANGED toVars
  BY <1>5 DEF toVars, storeVars, ledgerVars, TOInv, StoreTypes, RefreshersOK, RefresherOK, NoneUnused,
              SpentIsGone, Gone, PaysSomething, NoOrphanReservation, SwapReservationHeld
<1> QED BY <1>1, <1>2, <1>3, <1>4, <1>5, ReceiveInv, ReadTransactionInv, ApplyTransactionInv DEF TONext

(* The state of payments and reservations follows. *)
LEMMA TOInvImplies == TOInv => ReservationsOK
<1> SUFFICES ASSUME TOInv PROVE ReservationsOK
  OBVIOUS
<1>1. /\ StoreTypes /\ RefreshersOK /\ NoneUnused /\ NoOrphanReservation /\ SwapReservationHeld
  BY DEF TOInv
<1>2. {unspent, unused, pool} \subseteq SUBSET Outputs /\ toNotify \subseteq Txs /\ handling \in Txs
  BY <1>1 DEF StoreTypes
<1>3. unspent \cap unused = {} /\ (pool \cup Reserved) \cap unused = {}
  BY <1>1 DEF NoneUnused, Reserved
<1>4. reservations \in [Payers -> SUBSET Outputs] /\ payer \in [Payers -> PayerTypes]
  BY <1>1 DEF StoreTypes
<1> DEFINE H == {h \in Payers \X Outputs : h[2] \in reservations[h[1]]}
           R == [pc : {"idle", "query", "set"}, data : SUBSET Outputs, added : SUBSET pool,
                 spent : SUBSET Outputs, held : SUBSET H, swapped : BOOLEAN]
<1>5. ASSUME NEW r \in Refreshers PROVE refresher[r] \in R
  <2>1. refresher[r] \in RefreshTypes /\ RefresherOK(r)
    BY <1>1 DEF RefreshersOK
  <2>2. refresher[r].held \subseteq H
    BY <2>1 DEF RefreshTypes, RefresherOK
  <2> HIDE DEF H
  <2> QED BY <2>1, <2>2 DEF RefreshTypes, RefresherOK
<1>6. refresher \in [Refreshers -> R]
  BY <1>1, <1>5 DEF RefreshersOK
<1>7. TOTypeOK
  BY <1>2, <1>3, <1>4, <1>6, Zenon DEF TOTypeOK, PayerTypes
<1> QED BY <1>1, <1>7 DEF ReservationsOK

(* The invariant holds throughout. *)
LEMMA TOInvAlways == TOSpec => []TOInv
<1> QED BY TOInitInv, TONextInv, PTL DEF TOSpec

(* Only a consolidation that fails before with_reserved_token_outputs      *)
(* leaves its reservation behind, none holds what its payment did not      *)
(* select, no refresh takes an output from a swap, and nobody knows of an  *)
(* output before it exists.                                                *)
THEOREM ReservationsStayOK == TOSpec => []ReservationsOK
<1> QED BY TOInvAlways, TOInvImplies, PTL

(* A refresh that sets the operators' present outputs, with nothing added  *)
(* to the pool since it started, leaves the store exact, whatever was in   *)
(* it: no marker of a spent output hides an unspent one.                   *)
THEOREM RefreshesRepair == TOSpec => RefreshRepairs
<1> DEFINE Repair(r) == (/\ refresher[r].pc = "set" /\ refresher'[r].pc = "idle" /\ ~Skipped(r)
                         /\ refresher[r].data = unspent /\ refresher[r].added = {}) => Exact'
<1>1. ASSUME TOInv, [TONext]_toVars, NEW r \in Refreshers PROVE Repair(r)
  <2> SUFFICES ASSUME refresher[r].pc = "set", refresher'[r].pc = "idle", ~Skipped(r),
                      refresher[r].data = unspent, refresher[r].added = {}
               PROVE  Exact'
    OBVIOUS
  <2>0. StoreTypes /\ RefreshersOK /\ SpentIsGone
    BY <1>1 DEF TOInv
  <2>1. FinishRefresh(r)
    <3>1. ~(refresher'[r].pc = refresher[r].pc)
      OBVIOUS
    <3>2. ~UNCHANGED refresher
      BY <3>1
    <3>3. ASSUME NEW marked, Recorded(marked) PROVE FALSE
      BY <3>1, <3>3 DEF Recorded
    <3>4. ASSUME NEW p \in Payers, NEW outputs, ReserveTokenOutputs(p, outputs), reservations[p] = {} PROVE FALSE
      BY <2>0, <3>3, <3>4, ReserveRecorded
    <3>5. ASSUME NEW p \in Payers, NEW outputs, NEW kind, Reserve(p, kind, outputs) PROVE FALSE
      BY <1>1, <3>4, <3>5 DEF Reserve, PayerAt, TOInv, NoOrphanReservation
    <3>6. ASSUME NEW p \in Payers, ReserveByOutpoints(p) PROVE FALSE
      BY <1>1, <3>2, <3>4, <3>6 DEF ReserveByOutpoints, PayerAt, TOInv, NoOrphanReservation
    <3>7. ASSUME NEW p \in Payers, Finalize(p) PROVE FALSE
      BY <2>0, <3>3, <3>7, FinalizeRecorded DEF Finalize
    <3>8. ASSUME NEW p \in Payers, Cancel(p) PROVE FALSE
      BY <2>0, <3>3, <3>8, CancelRecorded DEF Cancel
    <3>9. ASSUME NEW p \in Payers, AddNewOutputs(p) PROVE FALSE
      <4> DEFINE remove == IF payer[p].kind = "submit" THEN payer[p].inputs ELSE {}
                 add == payer[p].creates
      <4>1. UpdateTokenOutputs(remove, add)
        BY <3>9 DEF AddNewOutputs
      <4>2. payer[p] \in PayerTypes
        BY <2>0 DEF StoreTypes
      <4>3. remove \subseteq Outputs /\ add \subseteq Outputs
        BY <4>2 DEF PayerTypes
      <4> HIDE DEF remove, add
      <4> QED BY <2>0, <3>3, <4>1, <4>3, UpdateRecorded
    <3>10. ASSUME ApplyTransaction PROVE FALSE
      <4>1. UpdateTokenOutputs(handling.spends, handling.creates)
        BY <3>10 DEF ApplyTransaction
      <4>2. handling.spends \subseteq Outputs /\ handling.creates \subseteq Outputs
        BY <2>0 DEF StoreTypes, Txs
      <4> QED BY <2>0, <3>3, <4>1, <4>2, UpdateRecorded
    <3>11. ASSUME NEW p \in Payers, PayerStep(p) PROVE FALSE
      BY <3>2, <3>6, <3>7, <3>8, <3>9, <3>11 DEF PayerStep, Broadcast, BroadcastFails, IdentityFails
    <3>12. ASSUME NEW s \in Refreshers, s # r, RefreshStep(s) PROVE FALSE
      <4>1. refresher \in [Refreshers -> RefreshTypes]
        BY <2>0 DEF RefreshersOK
      <4>2. ASSUME NEW x, refresher' = [refresher EXCEPT ![s] = x] PROVE FALSE
        BY <3>1, <3>12, <4>1, <4>2
      <4>3. ~StartRefresh(s) /\ ~QueryOutputs(s)
        BY <4>2 DEF StartRefresh, QueryOutputs
      <4>4. ASSUME FinishRefresh(s) PROVE FALSE
        <5>1. ReplaceOutputs(s)
          BY <4>2, <4>4 DEF FinishRefresh, SetTokensOutputs
        <5> QED BY <2>0, <3>1, <3>12, <5>1, ReplaceFacts
      <4> QED BY <3>12, <4>3, <4>4 DEF RefreshStep
    <3>13. ~StartRefresh(r) /\ ~QueryOutputs(r)
      BY DEF StartRefresh, QueryOutputs
    <3>14. TONext
      BY <1>1, <3>2 DEF toVars
    <3>15. ~(\E p \in Payers, outputs \in SUBSET pool :
               Prepare(p, outputs) \/ \E kind \in {"pay", "swap"} : Reserve(p, kind, outputs))
      BY <3>2, <3>5 DEF Prepare
    <3>16. ~(\E o \in unused : Receive(o)) /\ ~(\E tx \in toNotify : ReadTransaction(tx))
      BY <3>2 DEF Receive, ReadTransaction
    <3>17. \E s \in Refreshers : RefreshStep(s)
      BY <3>10, <3>11, <3>14, <3>15, <3>16 DEF TONext
    <3> QED BY <3>12, <3>13, <3>17 DEF RefreshStep
  <2>2. ReplaceOutputs(r) /\ unspent' = unspent
    BY <2>1 DEF FinishRefresh, SetTokensOutputs, ledgerVars
  <2>3. /\ \A p \in Payers : reservations'[p] \subseteq reservations[p] \cap Refreshed(r)
        /\ \A p, q \in Payers : p # q => reservations'[p] \cap reservations'[q] = {}
        /\ pool' = Refreshed(r) \ UNION {reservations'[p] : p \in Payers}
    BY <2>0, <2>2, ReplaceFacts
  <2>4. Refreshed(r) = unspent
    BY <2>0 DEF Refreshed, SpentIsGone, Gone
  <2> QED BY <2>2, <2>3, <2>4 DEF Exact, Reserved
<1>2. TOInv /\ [TONext]_toVars => [\A r \in Refreshers : Repair(r)]_toVars
  BY <1>1
<1> QED BY <1>2, TOInvAlways, PTL DEF TOSpec, RefreshRepairs
=============================================================================
