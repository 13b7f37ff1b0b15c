------------------------------- MODULE MCSync -------------------------------
(* Instances of CellarSync for TLC. *)
EXTENDS CellarSync, TLC

ThreadSymmetry == Permutations(Threads)
=============================================================================
