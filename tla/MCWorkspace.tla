---------------------------- MODULE MCWorkspace ----------------------------
(* Instances of Workspace for TLC. *)
EXTENDS Workspace, TLC

ProcSymmetry == Permutations(Procs)
=============================================================================
