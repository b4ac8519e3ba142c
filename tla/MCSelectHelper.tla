--------------------------- MODULE MCSelectHelper ---------------------------
(* Seven leaves, with equal values and values that are no powers of two. *)
EXTENDS SelectHelper

MCLeaf == 1 .. 7

MCValue == [l \in 1 .. 7 |-> IF l = 1 THEN 1 ELSE IF l = 7 THEN 8 ELSE l - 1]

=============================================================================
