------------------------------ MODULE MCFiles -------------------------------
(* Model-checking instance of Files. *)
EXTENDS Files

CONSTANTS root, a, console

MCInums == {root, a, console}
MCDevices == {console}
MCCalls == {<<"open", <<a>>>>, <<"open", <<console>>>>, <<"exec", <<>>>>, <<"exec", <<a, NULL>>>>}
=============================================================================
