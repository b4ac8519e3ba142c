---------------------------- MODULE Subsequences ----------------------------
(***************************************************************************)
(* Filtering a queue.                                                      *)
(***************************************************************************)
EXTENDS Integers, Sequences

(* The elements of s that are in T, in their order.  This is SelectSeq     *)
(* with a set in place of the test, as a recursive function, so that it    *)
(* can be reasoned about.                                                  *)
SelectIn(s, T) ==
    LET selected[i \in 0..Len(s)] ==
            IF i = 0 THEN <<>>
            ELSE IF s[i] \in T THEN Append(selected[i - 1], s[i])
            ELSE selected[i - 1]
    IN  selected[Len(s)]

=============================================================================
