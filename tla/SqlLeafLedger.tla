--------------------------- MODULE SqlLeafLedger ---------------------------
(***************************************************************************)
(* The PostgreSQL store as an implementation of the TreeStore trait: the   *)
(* rows without a reservation_id are the free leaves, the rows with one    *)
(* are held by that reservation.                                           *)
(***************************************************************************)
EXTENDS SqlTreeStore

Ledger == INSTANCE LeafLedger WITH
    free <- DOMAIN pool,
    held <- [r \in DOMAIN resv |-> DOMAIN resv[r].leaves]

(* Whatever transactions callers run, in whatever order and however late,  *)
(* as long as an update brings no leaf another reservation holds: a        *)
(* reservation keeps exactly its leaves until it is cancelled, finalized,  *)
(* updated or expired, only free leaves are reserved, upserting a reserved *)
(* leaf does not free it, and an update frees its change and nothing else. *)
ImplementsTreeStore == Ledger!LedgerSpec

=============================================================================
