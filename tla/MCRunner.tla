------------------------------ MODULE MCRunner ------------------------------
(* Small instances of Runner for TLC: the cfg gives every bound. *)
EXTENDS Runner
=============================================================================
