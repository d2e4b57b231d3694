----------------------------- MODULE MCSources ------------------------------
(* Small instances of Sources for TLC. *)
EXTENDS Sources, TLC

CONSTANTS r1, r2, s1, s2, o1, p1, p2

Symmetry == Permutations({r1, r2}) \cup Permutations({s1, s2})
              \cup Permutations({p1, p2})
=============================================================================
