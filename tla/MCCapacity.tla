----------------------------- MODULE MCCapacity -----------------------------
(* Small instances of Capacity for TLC.                                     *)
EXTENDS Capacity, TLC

Symmetry == Permutations(Arena) \cup Permutations(Process)

=============================================================================
