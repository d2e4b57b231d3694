-------------------------- MODULE MCRestoreCommit ---------------------------
(* Small instances of RestoreCommit for TLC. *)
EXTENDS RestoreCommit, TLC

CONSTANTS d1, d2, d3, d4, n1, n2, p1, p2

Symmetry == Permutations({d1, d2, d3, d4}) \cup Permutations({n1, n2})
              \cup Permutations({p1, p2})
=============================================================================
