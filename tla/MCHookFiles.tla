---------------------------- MODULE MCHookFiles -----------------------------
(* Small instances of HookFiles for TLC. *)
EXTENDS HookFiles, TLC

CONSTANTS u1, u2, p1, p2

Symmetry == Permutations({u1, u2}) \cup Permutations({p1, p2})
=============================================================================
