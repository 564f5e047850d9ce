-------------------------- MODULE MCOperatorControl --------------------------
(* Instances of OperatorControl for TLC. *)
EXTENDS OperatorControl, TLC

Symmetry == Permutations(SignalIds)
===============================================================================
