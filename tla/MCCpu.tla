------------------------------- MODULE MCCpu --------------------------------
(* Model-checking instance of Cpu. *)
EXTENDS Cpu
=============================================================================
