------------------------------ MODULE MCHistory ------------------------------
(* A small instance of History for TLC.                                    *)
EXTENDS History, TLC

Receipts == 1..3
Sizes == {1, 3}
Policies == {[enabled |-> TRUE, count |-> 2, bytes |-> 2],
             [enabled |-> TRUE, count |-> 1, bytes |-> 4],
             [enabled |-> FALSE, count |-> 1, bytes |-> 4]}

Symmetry == Permutations(Process)

=============================================================================
