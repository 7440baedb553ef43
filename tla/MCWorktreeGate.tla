--------------------------- MODULE MCWorktreeGate ---------------------------
(* Small instances of WorktreeGate for TLC: every worktree at one path, so  *)
(* that repositories take turns there.                                     *)
EXTENDS WorktreeGate, TLC

OnePath == [k \in WorktreeKey |-> CHOOSE d \in Path : TRUE]

=============================================================================
