--------------------------- MODULE MCTokenOutputs ---------------------------
(* One held output, one that transactions create, two payments, one        *)
(* refresh under way at a time.                                            *)
EXTENDS TokenOutputs

CONSTANTS o1, n1, p, q, r

=============================================================================
