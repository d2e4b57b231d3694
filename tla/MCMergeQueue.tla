---------------------------- MODULE MCMergeQueue ----------------------------
(* Small instances of MergeQueue for TLC. *)
EXTENDS MergeQueue, TLC

CONSTANTS main, x, t, p1, p2

OneOrNone == {<<>>, <<t>>}

Symmetry == Permutations({p1, p2})
=============================================================================
