----------------------------- MODULE MCFsImage ------------------------------
(* Model-checking instance of FsImage: up to three files, two names and a  *)
(* third that is too long and is cut to the second.                        *)
EXTENDS FsImage

CONSTANTS name1, name2, long

MCNames == {DOT, CONSOLE, name1, name2, long}

MCCut == [n \in MCNames |-> IF n = long THEN name2 ELSE n]

MCSizes == {0, 3, 8, 14}

MCFile == [name : {name1, name2}, size : MCSizes]

(* Also a file whose name does not fit, and one that is too large. *)
MCInputs == UNION {[1 .. n -> MCFile] : n \in 0 .. 3}
            \cup {<<[name |-> long, size |-> 1]>>, <<[name |-> name1, size |-> 15]>>}
=============================================================================
