------------------------------ MODULE MCShell -------------------------------
(* Model-checking instance of Shell: a letter, a blank, a quote and a      *)
(* character of two bytes are typed; the names are ab, b and, for a file   *)
(* that is not a command, ab with a dot.                                   *)
EXTENDS Shell

CONSTANTS A, B, SP, Q1, Q2, LEAD, CONT, PERIOD

MCChars == {<<A>>, <<SP>>, <<Q1>>, <<LEAD, CONT>>}
MCBlanks == {SP, NL}
MCQuotes == {Q1, Q2}
MCConts == {CONT}
MCCommands == {<<A, B>>, <<B>>}
MCNames == MCCommands \cup {<<A, B, PERIOD>>}
=============================================================================
