----------------------------- MODULE LeafLedger -----------------------------
(***************************************************************************)
(* What the TreeStore trait (crates/spark/src/tree/mod.rs) promises its    *)
(* callers, whatever the backend: which leaves are free to be reserved and *)
(* which reservation holds which leaves.  How a leaf is recorded, when it  *)
(* was written, spent markers, exit chains and semaphores are up to the    *)
(* backend.                                                                *)
(***************************************************************************)
EXTENDS FiniteSets

CONSTANTS Leaf, Reservation

VARIABLES
    free,   \* the leaves nobody has reserved
    held    \* reservation id -> the leaves it holds

ledgerVars == <<free, held>>

(* The leaves the reservations in h hold. *)
HeldIn(h) == UNION {h[r] : r \in DOMAIN h}

(* h without the reservations in R *)
Without(h, R) == [r \in DOMAIN h \ R |-> h[r]]

LedgerInit ==
    /\ free = {}
    /\ held = [r \in {} |-> {}]

(* add_leaves and set_leaves, cancel_reservation, finalize_reservation and *)
(* the expiry of reservations: some reservations are dissolved, the others *)
(* keep exactly their leaves, and whatever is free afterwards nobody       *)
(* holds.  Which leaves come back is the caller's choice.  (That           *)
(* finalizing a reservation that does not exist is an error, as the trait  *)
(* says of it, is not said here: no backend does so.)                      *)
Settle(dissolved) ==
    /\ held' = Without(held, dissolved)
    /\ free' \in SUBSET (Leaf \ HeldIn(held'))

(* try_reserve_leaves: free leaves, under an id not in use *)
Reserve(r, S) ==
    /\ r \notin DOMAIN held
    /\ S # {}
    /\ S \subseteq free
    /\ held' = [q \in DOMAIN held \cup {r} |-> IF q = r THEN S ELSE held[q]]
    /\ free' = free \ S

(* update_reservation: the leaves of r are exchanged for S, the change is  *)
(* free, and what another reservation holds it keeps: a reservation        *)
(* prevents double-spending (mod.rs:546-548).                              *)
Exchange(r, S, change) ==
    /\ r \in DOMAIN held
    /\ S \cap HeldIn(Without(held, {r})) = {}
    /\ held' = [q \in DOMAIN held |-> IF q = r THEN S ELSE held[q]]
    /\ free' = (free \cup change) \ HeldIn(held')

LedgerNext ==
    \/ \E dissolved \in SUBSET DOMAIN held : Settle(dissolved)
    \/ \E r \in Reservation, S \in SUBSET Leaf : Reserve(r, S)
    \/ \E r \in Reservation, S, change \in SUBSET Leaf : Exchange(r, S, change)

LedgerSpec == LedgerInit /\ [][LedgerNext]_ledgerVars

=============================================================================
