-------------------------- MODULE MCMpscRingBuffer --------------------------
(* Instances of MpscRingBuffer for TLC. *)
EXTENDS MpscRingBuffer, TLC

Symmetry == Permutations(Producers)
=============================================================================
