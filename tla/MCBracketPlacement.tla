-------------------------- MODULE MCBracketPlacement --------------------------
(* Instances of BracketPlacement for TLC. *)
EXTENDS BracketPlacement, TLC

Symmetry == Permutations(Callers) \cup Permutations(SignalIds) \cup Permutations(Types)
===============================================================================
