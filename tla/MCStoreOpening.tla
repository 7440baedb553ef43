--------------------------- MODULE MCStoreOpening ---------------------------
(* Small instances of StoreOpening for TLC.                                *)
EXTENDS StoreOpening, TLC

Symmetry == Permutations(Process) \cup Permutations(Arena) \cup Permutations(Nonce)

=============================================================================
