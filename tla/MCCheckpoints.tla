--------------------------- MODULE MCCheckpoints ----------------------------
(* Small instances of Checkpoints for TLC. *)
EXTENDS Checkpoints, TLC

\* app is registered first; lib is another project; tree is a linked work tree
\* of app, at a path that begins with app's.
CONSTANTS app, lib, tree, s1, s2, p1, p2, k1, k2, main

MCRank == [r \in Repo |-> IF r = app THEN 1 ELSE 2]

MCObjectDb == [c \in Place |-> IF c = tree THEN app ELSE c]

\* app and lib are ordinary clones: git prints ".git" in every one.
ClonedCommonDir == [c \in Place |-> IF c = tree THEN "app/.git" ELSE ".git"]

TreeInsideApp == {<<app, tree>>}

Symmetry == Permutations({s1, s2}) \cup Permutations({p1, p2})
=============================================================================
