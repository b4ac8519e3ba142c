---------------------------- MODULE SelectHelper ----------------------------
(***************************************************************************)
(* select_leaves_by_exact_amount step by step (crates/spark/src/tree/      *)
(* select_helper.rs): the early returns, the single match, the greedy pass *)
(* over all leaves in order of decreasing value, and the second pass over  *)
(* the powers of two.  Its outcome is compared with the declarative        *)
(* operators of LeafSelection, which the specifications of the stores use. *)
(***************************************************************************)
EXTENDS LeafSelection

CONSTANTS MaxAmount     \* bound on the amounts asked for

ASSUME MaxAmountAssumption == MaxAmount \in Nat

VARIABLES
    leaves,     \* the leaves to select from
    amount,     \* the target amount
    phase,      \* "start", the pass under way, or the outcome
    todo,       \* the leaves the pass has not looked at yet
    taken,      \* the leaves it has taken
    remaining   \* what is left of the amount

selVars == <<leaves, amount, phase, todo, taken, remaining>>

SelInit ==
    /\ leaves \in SUBSET Leaf
    /\ amount \in 0 .. MaxAmount
    /\ phase = "start"
    /\ todo = {}
    /\ taken = {}
    /\ remaining = amount

(* InvalidAmount, InsufficientFunds, and the None of an empty set *)
Refuse ==
    /\ phase = "start"
    /\ amount = 0 \/ Sats(leaves) < amount
    /\ phase' = "none"
    /\ UNCHANGED <<leaves, amount, todo, taken, remaining>>

(* find_exact_single_match *)
SingleMatch ==
    /\ phase = "start"
    /\ amount # 0
    /\ \E l \in leaves : Value[l] = amount /\ taken' = {l}
    /\ phase' = "found"
    /\ remaining' = 0
    /\ UNCHANGED <<leaves, amount, todo>>

(* The first call of greedy_exact_match. *)
FirstPass ==
    /\ phase = "start"
    /\ amount # 0
    /\ Sats(leaves) >= amount
    /\ \A l \in leaves : Value[l] # amount
    /\ phase' = "all"
    /\ todo' = leaves
    /\ UNCHANGED <<leaves, amount, taken, remaining>>

(* Faulty variant: a leaf equal to what is left is passed over. *)
VisitStrict(l) ==
    /\ phase \in {"all", "powers"}
    /\ \A k \in todo : Value[k] <= Value[l]
    /\ todo' = todo \ {l}
    /\ taken' = IF Value[l] >= remaining THEN taken ELSE taken \cup {l}
    /\ remaining' = IF Value[l] >= remaining THEN remaining ELSE remaining - Value[l]
    /\ UNCHANGED <<leaves, amount, phase>>

(* One iteration of the loop of greedy_exact_match. *)
Visit(l) ==
    /\ phase \in {"all", "powers"}
    /\ \A k \in todo : Value[k] <= Value[l]
    /\ todo' = todo \ {l}
    /\ IF Value[l] > remaining
       THEN UNCHANGED <<taken, remaining, phase>>
       ELSE /\ taken' = taken \cup {l}
            /\ remaining' = remaining - Value[l]
            /\ phase' = IF remaining' = 0 THEN "found" ELSE phase
    /\ UNCHANGED <<leaves, amount>>

(* The second pass, when there were leaves that are not powers of two. *)
SecondPass ==
    /\ phase = "all"
    /\ todo = {}
    /\ PowersOfTwo(leaves) # leaves
    /\ phase' = "powers"
    /\ todo' = PowersOfTwo(leaves)
    /\ taken' = {}
    /\ remaining' = amount
    /\ UNCHANGED <<leaves, amount>>

(* UnselectableAmount *)
GiveUp ==
    /\ todo = {}
    /\ \/ phase = "all" /\ PowersOfTwo(leaves) = leaves
       \/ phase = "powers"
    /\ phase' = "none"
    /\ UNCHANGED <<leaves, amount, todo, taken, remaining>>

SelNext ==
    \/ Refuse
    \/ SingleMatch
    \/ FirstPass
    \/ \E l \in todo : Visit(l)
    \/ SecondPass
    \/ GiveUp

SelSpec == SelInit /\ [][SelNext]_selVars

-----------------------------------------------------------------------------
(* The loop finds exactly the selections of the declarative definition     *)
(* that the store specifications use, and fails only when it has none.     *)
MatchesReference ==
    /\ phase = "found" => taken \in ExactAmount(leaves, amount)
    /\ phase = "none" => ExactAmount(leaves, amount) = {}

(* Greedy selection is complete for powers of two, whatever other leaves   *)
(* lie between them: when no selection is found, no set of power-of-two    *)
(* leaves adds up to the amount, so a swap is really needed.               *)
PowersOfTwoSuffice ==
    phase = "none" /\ amount # 0 =>
        \A S \in SUBSET PowersOfTwo(leaves) : Sats(S) # amount

(* The loop finds what the definition has, and misses nothing it promises. *)
SelectionCorrect == MatchesReference /\ PowersOfTwoSuffice

(* Selecting from the candidates the SQL query returns is as good as       *)
(* selecting from all leaves: the exact selections of an amount and a fee  *)
(* are the same, and a minimum selection is missed by neither.             *)
SlimLosesNothing ==
    phase = "start" =>
        \A fee \in 0 .. 1 :
            LET tgt == [kind |-> "amount", amount |-> amount, fee |-> fee]
            IN  \A slim \in SlimCandidates(leaves, tgt) :
                    /\ TargetSelections(slim, tgt) = TargetSelections(leaves, tgt)
                    /\ (MinimumAmount(slim, TotalSats(tgt)) = {})
                          <=> (MinimumAmount(leaves, TotalSats(tgt)) = {})

=============================================================================
