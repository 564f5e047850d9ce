-------------------------- MODULE MCAsyncWriteQueue --------------------------
(* Instances of AsyncWriteQueue for TLC. *)
EXTENDS AsyncWriteQueue, TLC

Symmetry == Permutations(High) \cup Permutations(Medium) \cup Permutations(Low)
===============================================================================
