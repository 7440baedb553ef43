------------------------- MODULE MCJsonPublication -------------------------
(* Small instances of JsonPublication for TLC. *)
EXTENDS JsonPublication, TLC

Symmetry == Permutations(Value) \cup Permutations(Reader)

=============================================================================
