--------------------------- MODULE MCSqlTreeStore ---------------------------
(* Every sequence of store transactions, from any callers, over two leaves. *)
EXTENDS SqlLeafLedger, TLC

CONSTANTS l1, l2

(* Leaf l1 is worth 1 and l2 is worth 2. *)
MCValue == [l \in {l1, l2} |-> IF l = l1 THEN 1 ELSE 2]

(* The batches: any set of leaves, all available below a parent. *)
MCBatch == {[l \in S |-> [available |-> TRUE, parent |-> CHOOSE n \in Node : TRUE]] : S \in SUBSET Leaf}

MCTarget == {[kind |-> "amount", amount |-> 1, fee |-> 0]}

(* Reservation ids are uuids. *)
MCSymmetry == Permutations(Reservation)

=============================================================================
