---------------------------- MODULE MCContinuity ----------------------------
(* A small instance of Continuity for TLC. *)
EXTENDS Continuity, TLC

CONSTANTS r1, s1, p1, p2

OneSession == s1 :> r1
Costs == [checkpoint |-> {1}, memory |-> {2}, verification |-> {1}]
Limits == [pack |-> 2, handoff |-> 1]
Symmetry == Permutations({p1, p2})
=============================================================================
