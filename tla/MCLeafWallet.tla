---------------------------- MODULE MCLeafWallet ----------------------------
(* Instances of LeafWallet. *)
EXTENDS LeafWallet

CONSTANTS a, b, c, d, p1, p2, o1

MCBatch == {EmptyMap}

(* a and b are worth 1, c and d are worth 2. *)
MCValue == [l \in Leaf |-> IF l \in {a, b} THEN 1 ELSE 2]

Amount(n) == [kind |-> "amount", amount |-> n, fee |-> 0]

(* Payments of 2; the optimizer gives two leaves of value 1. *)
ExactTargets ==
    [p \in Proc |-> IF p \in Payment THEN Amount(2)
                    ELSE [kind |-> "denoms", denoms |-> [v \in {1} |-> 2]]]

(* Payments of 1 out of leaves of value 2. *)
ChangeTargets == [p \in Proc |-> Amount(1)]

(* A payment of 1, and an optimizer that asks for one leaf of value 1:     *)
(* both have to swap.                                                      *)
CrashTargets ==
    [p \in Proc |-> IF p \in Payment THEN Amount(1)
                    ELSE [kind |-> "denoms", denoms |-> [v \in {1} |-> 1]]]

=============================================================================
