--------------------------- MODULE MCRealtimeSync ---------------------------
(* Instances of RealtimeSync. *)
EXTENDS RealtimeSync

CONSTANTS a, b, r1, r2, fa, fb

(* Both clients write one record, each its own field. *)
SharedRecord == {<<a, r1, fa>>, <<b, r1, fb>>}

(* Each client writes a record of its own. *)
OwnRecords == {<<a, r1, fa>>, <<b, r2, fb>>}

MCMaxWrites == [c \in Client |-> IF c = a THEN 2 ELSE 1]

OneWrite == [c \in Client |-> 1]

=============================================================================
