---------------------------- MODULE AddressSpaces ----------------------------
(***************************************************************************)
(* What the kernel's memory management promises: every process has a       *)
(* private sequence of pages, and sbrk(), fork(), exec() and exit() change *)
(* a sequence as a whole or leave all of them alone.                       *)
(***************************************************************************)
EXTENDS Naturals, Sequences

CONSTANTS
    Procs,      \* process slots
    MaxPages,   \* bound on the pages of a process
    NULL

VARIABLE space   \* the pages of each process, NULL for a slot without one

(* userinit(): one process, which has no memory yet. *)
Init ==
    \E p \in Procs : space = [q \in Procs |-> IF q = p THEN << >> ELSE NULL]

Live(p) == space[p] # NULL

Page(perm, word) == [perm |-> perm, word |-> word]

(* The user program writes to a page it may use. *)
Store(p) ==
    /\ Live(p)
    /\ \E i \in DOMAIN space[p] :
           /\ space[p][i].perm = "user"
           /\ space' = [space EXCEPT ![p][i].word = "data"]

(* sbrk(n) with n > 0 adds zeroed pages. *)
Grow(p) ==
    /\ Live(p)
    /\ \E k \in 0 .. MaxPages :
           space' = [space EXCEPT ![p] = @ \o [i \in 1 .. k |-> Page("user", "zero")]]

(* sbrk(n) with n < 0 drops pages at the end. *)
Shrink(p) ==
    /\ Live(p)
    /\ \E k \in 0 .. Len(space[p]) :
           space' = [space EXCEPT ![p] = SubSeq(space[p], 1, k)]

(* fork() gives a free slot a copy. *)
Fork(p, c) ==
    /\ Live(p) /\ ~Live(c)
    /\ space' = [space EXCEPT ![c] = space[p]]

(* exec() replaces the image: program, guard page, and a stack page that  *)
(* holds the arguments.                                                    *)
IsImage(s) ==
    LET n == Len(s) - 2
    IN /\ n >= 0
       /\ \A i \in 1 .. n : s[i] \in {Page("user", "zero"), Page("user", "text")}
       /\ s[n + 1] = Page("guard", "zero") /\ s[n + 2] = Page("user", "args")

Exec(p) ==
    /\ Live(p)
    /\ space'[p] # NULL
    /\ IsImage(space'[p])
    /\ space' = [space EXCEPT ![p] = space'[p]]

(* exit() gives the memory up. *)
Exit(p) ==
    /\ Live(p)
    /\ space' = [space EXCEPT ![p] = NULL]

Next ==
    \E p \in Procs : Store(p) \/ Grow(p) \/ Shrink(p) \/ Exec(p) \/ Exit(p)
                     \/ \E c \in Procs : Fork(p, c)

Spec == Init /\ [][Next]_space
=============================================================================
