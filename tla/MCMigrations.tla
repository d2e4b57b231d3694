---------------------------- MODULE MCMigrations ----------------------------
(* Small instances of Migrations for TLC. *)
EXTENDS Migrations, TLC

CONSTANTS old, new, newest, edited, a, b, c, p1, p2

\* new is old with one more migration, newest is new with another; edited has
\* another second migration.
MCManifest ==
  (old :> <<a>>) @@ (new :> <<a, b>>) @@ (newest :> <<a, b, c>>) @@ (edited :> <<a, c>>)

Symmetry == Permutations({p1, p2})
=============================================================================
