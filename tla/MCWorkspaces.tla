---------------------------- MODULE MCWorkspaces ----------------------------
(* Small instances of Workspaces for TLC. *)
EXTENDS Workspaces, TLC

CONSTANTS app, w1, w2, k1, k2, p1, p2

Symmetry == Permutations({w1, w2}) \cup Permutations({k1, k2}) \cup Permutations({p1, p2})
=============================================================================
