---------------------------- MODULE ArenaCreation ----------------------------
(***************************************************************************)
(* What the creation of an arena promises to the code that leases,         *)
(* collects and recovers arenas: an arena is there with its manifest or it *)
(* is not there, and once its entry in the arenas directory is on the disk *)
(* no loss of power takes it away.  StoreOpening implements this.          *)
(***************************************************************************)
CONSTANT Arena

VARIABLES
    arena,      \* "absent", "leased" (with an unfinished manifest) or "idle"
    kept        \* the arenas that a loss of power leaves

vars == <<arena, kept>>

Init == arena \in [Arena -> {"absent", "idle"}] /\ kept = {a \in Arena : arena[a] = "idle"}

\* A new arena appears with its manifest: for its lease, or settled by reconciliation.
Appear(a) ==
    /\ arena[a] = "absent"
    /\ \E state \in {"leased", "idle"} : arena' = [arena EXCEPT ![a] = state]
    /\ UNCHANGED kept

\* A lease begins or ends.
Lease(a) == arena[a] = "idle" /\ arena' = [arena EXCEPT ![a] = "leased"] /\ UNCHANGED kept
End(a) == arena[a] = "leased" /\ arena' = [arena EXCEPT ![a] = "idle"] /\ UNCHANGED kept

Keep(a) == arena[a] # "absent" /\ kept' = kept \cup {a} /\ UNCHANGED arena

PowerLoss ==
    /\ arena' \in [Arena -> {"absent", "leased", "idle"}]
    /\ \A a \in Arena : arena'[a] = arena[a] \/ (arena'[a] = "absent" /\ a \notin kept)
    /\ kept' = {a \in Arena : arena'[a] # "absent"}

Next ==
    \/ PowerLoss
    \/ \E a \in Arena : Appear(a) \/ Lease(a) \/ End(a) \/ Keep(a)

Spec == Init /\ [][Next]_vars

=============================================================================
