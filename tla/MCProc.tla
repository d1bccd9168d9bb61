------------------------------- MODULE MCProc -------------------------------
(* Model-checking instances of Proc. *)
EXTENDS Proc, TLC

CpuSymmetry == Permutations(CPUS)
=============================================================================
