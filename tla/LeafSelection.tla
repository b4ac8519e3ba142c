--------------------------- MODULE LeafSelection ---------------------------
(***************************************************************************)
(* Which leaves may pay a target amount (crates/spark/src/tree/            *)
(* select_helper.rs and the candidate query of the SQL stores).            *)
(*                                                                         *)
(* A target is a record: kind "all" (no target amounts), "amount"          *)
(* (amount_sats and, when fee > 0, fee_sats) or "denoms" (exact            *)
(* denominations, as how many leaves of each value).  HashMap iteration    *)
(* order is arbitrary, so each operator is the set of selections the code  *)
(* may return; the empty set is its error.                                 *)
(***************************************************************************)
EXTENDS Integers, FiniteSets, FiniteSetsExt

CONSTANTS
    Leaf,       \* leaf ids
    Value       \* the value in sats of each leaf

ASSUME LeafFinite == IsFiniteSet(Leaf)
ASSUME ValueAssumption == Value \in [Leaf -> Nat \ {0}]

Sats(S) == MapThenSumSet(LAMBDA l : Value[l], S)

TotalSats(tgt) ==
    CASE tgt.kind = "all"    -> 0
      [] tgt.kind = "amount" -> tgt.amount + tgt.fee
      [] OTHER               -> MapThenSumSet(LAMBDA v : v * tgt.denoms[v], DOMAIN tgt.denoms)

(* greedy_exact_match: every leaf passed over was too large for what was   *)
(* left once the leaves at least as large had been taken.                  *)
GreedyExact(L, amount) ==
    {S \in SUBSET L :
        /\ Sats(S) = amount
        /\ \A l \in L \ S :
              Value[l] > amount - Sats({m \in S : Value[m] >= Value[l]})}

PowersOfTwo(L) == {l \in L : \E k \in 0 .. Value[l] : Value[l] = 2 ^ k}

(* find_exact_multiple_match *)
ExactMultiple(L, amount) ==
    IF GreedyExact(L, amount) # {}
    THEN GreedyExact(L, amount)
    ELSE IF PowersOfTwo(L) = L THEN {} ELSE GreedyExact(PowersOfTwo(L), amount)

(* select_leaves_by_exact_amount *)
ExactAmount(L, amount) ==
    LET singles == {l \in L : Value[l] = amount}
    IN  CASE amount = 0 \/ Sats(L) < amount -> {}
          [] singles # {}                   -> {{l} : l \in singles}
          [] OTHER                          -> ExactMultiple(L, amount)

(* select_leaves_by_exact_denominations *)
ExactDenominations(L, denoms) ==
    {S \in SUBSET L :
        /\ \A l \in S : Value[l] \in DOMAIN denoms
        /\ \A v \in DOMAIN denoms : Cardinality({l \in S : Value[l] = v}) = denoms[v]}

(* select_leaves_by_target_amounts: the amount first, then the fee out of  *)
(* what is left.  An amount selection that leaves no fee selection fails.  *)
TargetSelections(L, tgt) ==
    CASE tgt.kind = "all"    -> {L}
      [] tgt.kind = "amount" ->
            IF tgt.fee = 0
            THEN ExactAmount(L, tgt.amount)
            ELSE UNION {{A \cup F : F \in ExactAmount(L \ A, tgt.fee)} :
                            A \in ExactAmount(L, tgt.amount)}
      [] OTHER               -> ExactDenominations(L, tgt.denoms)

(* The error of select_leaves_by_target_amounts, when some iteration order *)
(* of the leaves leads to it.                                              *)
TargetMayFail(L, tgt) ==
    \/ TargetSelections(L, tgt) = {}
    \/ /\ tgt.kind = "amount"
       /\ tgt.fee # 0
       /\ \E A \in ExactAmount(L, tgt.amount) : ExactAmount(L \ A, tgt.fee) = {}

(* select_leaves_by_minimum_amount: the shortest prefix, in some order,    *)
(* whose value reaches the amount.                                         *)
MinimumAmount(L, amount) ==
    IF amount = 0 THEN {}
    ELSE {S \in SUBSET L :
            /\ Sats(S) >= amount
            /\ \E l \in S : Sats(S \ {l}) < amount}

(* Faulty variant: only the leaves no larger than the target. *)
SlimWithoutLarger(L, tgt) ==
    IF tgt.kind = "all" THEN {L} ELSE {{l \in L : Value[l] <= TotalSats(tgt)}}

(* SLIM_LEAF_CANDIDATES_SQL: the leaves no larger than the target, and the *)
(* smallest of the larger ones.                                            *)
SlimCandidates(L, tgt) ==
    IF tgt.kind = "all" THEN {L}
    ELSE LET small  == {l \in L : Value[l] <= TotalSats(tgt)}
             larger == L \ small
         IN  IF larger = {} THEN {small}
             ELSE {small \cup {m} : m \in {m \in larger : \A k \in larger : Value[m] <= Value[k]}}

=============================================================================
