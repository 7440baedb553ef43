---------------------------- MODULE MCArenaStore ----------------------------
(* Small instances of ArenaStore for TLC: two processes on one arena.      *)
EXTENDS ArenaStore, TLC

=============================================================================
