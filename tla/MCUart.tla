------------------------------- MODULE MCUart -------------------------------
(* Model-checking instance of Uart: a write() is a batch and a half. *)
EXTENDS Uart

MCAsks == [p \in Writers |-> {3}]
=============================================================================
