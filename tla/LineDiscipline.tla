--------------------------- MODULE LineDiscipline ---------------------------
(***************************************************************************)
(* What the console promises its readers: two queues of bytes, the         *)
(* committed input and the line being edited, of bounded total length.     *)
(* Bytes reach the readers in the order they were typed, none lost or      *)
(* doubled once committed; editing affects the uncommitted line only.      *)
(***************************************************************************)
EXTENDS Integers, Sequences

CONSTANTS
    Cap,      \* most bytes held
    Bytes,    \* the bytes that can be stored
    EndLine,  \* those that end a line
    IsCont(_) \* continuation bytes of a multi-byte character

VARIABLES committed, editing, raw

vars == <<committed, editing, raw>>

Init == committed = <<>> /\ editing = <<>> /\ raw = FALSE

Room == Len(committed) + Len(editing) < Cap

(* A byte joins the line being edited. *)
Edit(c) ==
    /\ ~raw
    /\ c \notin EndLine
    /\ Len(committed) + Len(editing) + 1 < Cap
    /\ editing' = Append(editing, c)
    /\ UNCHANGED <<committed, raw>>

(* A byte that ends the line, fills the buffer, or is typed in raw mode    *)
(* hands everything typed so far to the readers.                           *)
Commit(c) ==
    /\ Room
    /\ raw \/ c \in EndLine \/ Len(committed) + Len(editing) + 1 = Cap
    /\ committed' = committed \o Append(editing, c)
    /\ editing' = <<>>
    /\ UNCHANGED raw

(* The line loses its last character: the bytes from the last one that is  *)
(* not a continuation byte, or all of them.                                *)
Erase ==
    /\ ~raw
    /\ editing # <<>>
    /\ \E k \in 1 .. Len(editing) :
           /\ k = 1 \/ ~IsCont(editing[k])
           /\ \A m \in k + 1 .. Len(editing) : IsCont(editing[m])
           /\ editing' = SubSeq(editing, 1, k - 1)
    /\ UNCHANGED <<committed, raw>>

(* A reader takes the oldest committed byte. *)
Take ==
    /\ committed # <<>>
    /\ committed' = Tail(committed)
    /\ UNCHANGED <<editing, raw>>

SetRaw == raw' \in BOOLEAN /\ UNCHANGED <<committed, editing>>

Next ==
    \/ \E c \in Bytes : Edit(c) \/ Commit(c)
    \/ Erase \/ Take \/ SetRaw

Spec == Init /\ [][Next]_vars
=============================================================================
