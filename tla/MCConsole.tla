------------------------------ MODULE MCConsole ------------------------------
(* Model-checking instance of Console: a reader of two bytes and one of a  *)
(* single byte or none.                                                    *)
EXTENDS Console, TLC

CONSTANTS p1, p2

MCAsks == (p1 :> {2}) @@ (p2 :> {0, 1})
=============================================================================
