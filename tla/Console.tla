------------------------------- MODULE Console -------------------------------
(***************************************************************************)
(* Console input, kernel/dev/console.c: the keyboard interrupt handler     *)
(* fills and edits a ring of bytes, readers empty it.                      *)
(*                                                                         *)
(* consoleintr() is one action, guarded by cons.lock being free, except    *)
(* for its kill-line loop; a reader holds the lock from one action to the  *)
(* next.                                                                   *)
(* sleep() releases the lock and sleeps in one step: Proc shows that it    *)
(* loses no wakeup.  The indices are unsigned and wrap at UMOD.            *)
(***************************************************************************)
EXTENDS Integers, Sequences

CONSTANTS
    INPUT_BUF_SIZE, \* bytes in the ring
    UMOD,           \* one more than the largest uint
    Readers,        \* processes that read the console
    NULL, INTR,     \* nobody; the interrupt handler, as holder of the lock
    Keys,           \* what is typed, of AllKeys
    Asks,           \* bound: how many bytes a read() of each may ask for
    MayFail         \* whether copyout() may fail

AllKeys == {"a", "lead", "cont", "CR", "^D", "^H", "^U", "^P", "NUL"}

ASSUME ConsoleAssumption ==
    /\ INPUT_BUF_SIZE \in Nat \ {0}
    /\ UMOD \in Nat \ {0}
    /\ UMOD > INPUT_BUF_SIZE
    /\ UMOD % INPUT_BUF_SIZE = 0
    /\ NULL \notin Readers /\ INTR \notin Readers /\ NULL # INTR
    /\ Keys \subseteq AllKeys
    /\ Asks \in [Readers -> SUBSET Nat]
    /\ MayFail \in BOOLEAN

VARIABLES
    buf, r, w, e, raw,  \* cons
    lock,               \* cons.lock: its holder, or NULL
    killed,             \* p->killed of each reader
    pc,                 \* where each reader is
    n, target           \* locals of consoleread()

cons == <<buf, r, w, e, raw>>
readvars == <<killed, pc, n, target>>
vars == <<cons, lock, readvars>>

(* Unsigned arithmetic. *)
Inc(x) == IF x + 1 = UMOD THEN 0 ELSE x + 1
Sub(x, y) == IF x >= y THEN x - y ELSE x - y + UMOD

At(x) == buf[x % INPUT_BUF_SIZE]

(* Bytes as they are stored: '\r' has become '\n'.  ^H and ^U, which raw   *)
(* mode stores, are bytes like any other once in the ring.                 *)
Stored(k) == CASE k = "CR" -> "NL" [] k \in {"^H", "^U"} -> "a" [] OTHER -> k
Bytes == {"a", "lead", "cont", "NL", "^D"}
EndLine == {"NL", "^D"}
IsCont(b) == b = "cont"

Init ==
    /\ buf = [x \in 0 .. INPUT_BUF_SIZE - 1 |-> "NUL"]
    /\ r = 0 /\ w = 0 /\ e = 0
    /\ raw = FALSE
    /\ lock = NULL
    /\ killed = [p \in Readers |-> FALSE]
    /\ pc = [p \in Readers |-> "user"]
    /\ n = [p \in Readers |-> 0]
    /\ target = [p \in Readers |-> 0]

----------------------------------------------------------------------------
(* consoleintr() *)

(* Wrong variant: only one reader is woken. *)
WakeupOne ==
    IF \E p \in Readers : pc[p] = "asleep"
    THEN \E p \in Readers : pc[p] = "asleep" /\ pc' = [pc EXCEPT ![p] = "wake"]
    ELSE pc' = pc

(* wakeup(&cons.r) *)
Wakeup == pc' = [p \in Readers |-> IF pc[p] = "asleep" THEN "wake" ELSE pc[p]]

HasRoom == Sub(e, r) < INPUT_BUF_SIZE

(* The byte is stored at e. *)
Store(k) ==
    /\ buf' = [buf EXCEPT ![e % INPUT_BUF_SIZE] = Stored(k)]
    /\ e' = Inc(e)

(* Raw mode: every byte is committed at once. *)
IntrRaw(k) ==
    /\ raw
    /\ k \notin {"^P", "NUL"}
    /\ HasRoom
    /\ Store(k)
    /\ w' = e'
    /\ Wakeup
    /\ UNCHANGED <<r, raw, killed, n, target>>

(* Wrong variant: a full ring does not commit the line. *)
CommitsUnlessFull(k) == Stored(k) \in EndLine

(* The byte ends the line or fills the ring. *)
Commits(k) == Stored(k) \in EndLine \/ Sub(Inc(e), r) = INPUT_BUF_SIZE

(* Cooked mode: a byte is echoed and stored, and may commit the line. *)
IntrStore(k) ==
    /\ ~raw
    /\ k \notin {"^P", "NUL", "^U", "^H"}
    /\ HasRoom
    /\ Store(k)
    /\ IF Commits(k) THEN w' = e' /\ Wakeup ELSE UNCHANGED <<w, pc>>
    /\ UNCHANGED <<r, raw, killed, n, target>>

(* Wrong variant: the last byte, whatever it is. *)
ByteLen(end) == IF end <= w THEN 0 ELSE 1

(* Wrong variant: continuation bytes are not counted. *)
LeadLen(end) == IF end <= w \/ IsCont(At(end - 1)) THEN 0 ELSE 1

(* utf8_char_len(): bytes of the character that ends before end, compared  *)
(* with cons.w as plain unsigned numbers.                                  *)
utf8_char_len(end) ==
    IF end <= w THEN 0
    ELSE CHOOSE k \in 1 .. end - w :
             /\ k = end - w \/ ~IsCont(At(end - k))
             /\ \A m \in 1 .. k - 1 : IsCont(At(end - m))

(* The last character of the line is erased, on the screen too. *)
EraseChar == e' = Sub(e, utf8_char_len(e))

(* Backspace. *)
IntrBackspace ==
    /\ ~raw
    /\ e # w
    /\ EraseChar
    /\ UNCHANGED <<buf, r, w, raw, readvars>>

(* uartintr() hands one key to consoleintr().  Keys that change nothing (a *)
(* NUL, ^P, a full ring, nothing to erase) are stuttering steps.           *)
consoleintr(k) ==
    /\ lock = NULL
    /\ IntrRaw(k) \/ IntrStore(k) \/ (k = "^H" /\ IntrBackspace)
    /\ UNCHANGED lock

(* Kill line is a loop, one action per character; the handler keeps the    *)
(* lock.                                                                   *)
IntrKill(k) ==
    /\ lock = NULL
    /\ ~raw
    /\ k = "^U"
    /\ lock' = INTR
    /\ UNCHANGED <<cons, readvars>>

MoreToKill == e # w /\ At(Sub(e, 1)) # "NL"

IntrKillChar ==
    /\ lock = INTR
    /\ MoreToKill
    /\ EraseChar
    /\ UNCHANGED <<buf, r, w, raw, lock, readvars>>

IntrKillDone ==
    /\ lock = INTR
    /\ ~MoreToKill
    /\ lock' = NULL
    /\ UNCHANGED <<cons, readvars>>

consolesetraw ==
    /\ lock = NULL
    /\ raw' \in BOOLEAN
    /\ UNCHANGED <<buf, r, w, e, lock, readvars>>

----------------------------------------------------------------------------
(* consoleread() *)

(* A reader calls read() on the console. *)
ReadBegin(p) ==
    /\ pc[p] = "user"
    /\ lock = NULL
    /\ lock' = p
    /\ \E k \in Asks[p] :
           n' = [n EXCEPT ![p] = k] /\ target' = [target EXCEPT ![p] = k]
    /\ pc' = [pc EXCEPT ![p] = "loop"]
    /\ UNCHANGED <<cons, killed>>

(* The lock is dropped and consoleread() returns; its locals are gone.  A  *)
(* killed reader then exits, and another process may read in its place.    *)
ReadReturn(p) ==
    /\ lock' = NULL
    /\ pc' = [pc EXCEPT ![p] = "user"]
    /\ killed' = [killed EXCEPT ![p] = FALSE]
    /\ n' = [n EXCEPT ![p] = 0]
    /\ target' = [target EXCEPT ![p] = 0]

(* The caller has all it asked for. *)
ReadDone(p) ==
    /\ pc[p] = "loop"
    /\ n[p] = 0
    /\ ReadReturn(p)
    /\ UNCHANGED cons

(* Nothing to read: a killed reader gives up, any other is about to sleep. *)
ReadKilled(p) ==
    /\ pc[p] = "loop"
    /\ n[p] > 0
    /\ r = w
    /\ killed[p]
    /\ ReadReturn(p)
    /\ UNCHANGED cons

ReadEmpty(p) ==
    /\ pc[p] = "loop"
    /\ n[p] > 0
    /\ r = w
    /\ ~killed[p]
    /\ pc' = [pc EXCEPT ![p] = "sleep"]
    /\ UNCHANGED <<cons, lock, killed, n, target>>

(* sleep(&cons.r, &cons.lock). *)
ReadSleep(p) ==
    /\ pc[p] = "sleep"
    /\ lock' = NULL
    /\ pc' = [pc EXCEPT ![p] = "asleep"]
    /\ UNCHANGED <<cons, killed, n, target>>

(* Awake, the reader takes the lock again. *)
ReadAwake(p) ==
    /\ pc[p] = "wake"
    /\ lock = NULL
    /\ lock' = p
    /\ pc' = [pc EXCEPT ![p] = "loop"]
    /\ UNCHANGED <<cons, killed, n, target>>

Reading(p) == pc[p] = "loop" /\ n[p] > 0 /\ r # w

(* ^D ends the read; after some bytes it is kept for the next read. *)
EofConsumed(p) == n[p] = target[p]

ReadEof(p) ==
    /\ Reading(p)
    /\ At(r) = "^D"
    /\ r' = IF EofConsumed(p) THEN Inc(r) ELSE r
    /\ ReadReturn(p)
    /\ UNCHANGED <<buf, w, e, raw>>

(* One byte is copied to the caller; a newline ends the read. *)
ReadByte(p) ==
    /\ Reading(p)
    /\ At(r) # "^D"
    /\ r' = Inc(r)
    /\ IF At(r) = "NL" THEN ReadReturn(p)
       ELSE n' = [n EXCEPT ![p] = @ - 1] /\ UNCHANGED <<lock, killed, pc, target>>
    /\ UNCHANGED <<buf, w, e, raw>>

(* copyout() fails: the byte is gone and the read ends. *)
ReadFault(p) ==
    /\ MayFail
    /\ Reading(p)
    /\ At(r) # "^D"
    /\ r' = Inc(r)
    /\ ReadReturn(p)
    /\ UNCHANGED <<buf, w, e, raw>>

(* kkill() of a reader, by another process. *)
Kill(p) ==
    /\ ~killed[p]
    /\ pc[p] # "user"
    /\ killed' = [killed EXCEPT ![p] = TRUE]
    /\ pc' = [pc EXCEPT ![p] = IF @ = "asleep" THEN "wake" ELSE @]
    /\ UNCHANGED <<cons, lock, n, target>>

ReadStep(p) ==
    \/ ReadDone(p) \/ ReadKilled(p) \/ ReadEmpty(p) \/ ReadSleep(p) \/ ReadAwake(p)
    \/ ReadEof(p) \/ ReadByte(p) \/ ReadFault(p)

Next ==
    \/ \E k \in Keys : consoleintr(k) \/ IntrKill(k)
    \/ IntrKillChar \/ IntrKillDone
    \/ consolesetraw
    \/ \E p \in Readers : ReadBegin(p) \/ ReadStep(p) \/ Kill(p)

Spec == Init /\ [][Next]_vars

(* The interrupt handler, which runs with interrupts off, goes on. *)
FairSpec == Spec /\ WF_vars(IntrKillChar) /\ WF_vars(IntrKillDone)

----------------------------------------------------------------------------
Uint == 0 .. UMOD - 1

(* The types of all variables. *)
TypeOK ==
    /\ buf \in [0 .. INPUT_BUF_SIZE - 1 -> Bytes \cup {"NUL"}]
    /\ r \in Uint /\ w \in Uint /\ e \in Uint
    /\ raw \in BOOLEAN
    /\ lock \in Readers \cup {NULL, INTR}
    /\ killed \in [Readers -> BOOLEAN]
    /\ pc \in [Readers -> {"user", "loop", "sleep", "asleep", "wake"}]
    /\ n \in [Readers -> Nat]
    /\ target \in [Readers -> Nat]

(* The ring never overflows: counted from r, the committed bytes come      *)
(* first, then the edited ones, and together they fit, also after the      *)
(* indices wrap and whatever consoleintr() erases and readers push back.   *)
RingBounds == Sub(w, r) <= Sub(e, r) /\ Sub(e, r) <= INPUT_BUF_SIZE

(* A full ring holds no uncommitted byte.  Otherwise no key, not even a    *)
(* newline, could be stored any more while the readers sleep for ever.     *)
FullIsCommitted == Sub(e, r) = INPUT_BUF_SIZE => w = e

(* No lost wakeup in consoleread(): while a reader sleeps there is nothing *)
(* it could read, however many readers compete for the same line.          *)
SleeperHasNoInput == \A p \in Readers : pc[p] = "asleep" => r = w

(* ^U leaves nothing of the line: its loop, which also stops at a newline, *)
(* never meets one, in whatever mode the bytes were typed.                 *)
KillEmptiesLine == [][lock = INTR /\ lock' = NULL => e' = w']_vars

(* ^U ends, with the line empty and cons.lock free, if e has not wrapped   *)
(* ahead of w: the loop of consoleintr() takes as many bytes each turn as  *)
(* utf8_char_len() counts, and that is 0 for a line across the wrap.       *)
KillEnds == lock = INTR /\ w <= e ~> lock = NULL /\ w = e

(* The ring as two queues. *)
Slice(x, y) == [k \in 1 .. Sub(y, x) |-> At(x + k - 1)]

Line == INSTANCE LineDiscipline WITH
            Cap <- INPUT_BUF_SIZE, committed <- Slice(r, w), editing <- Slice(w, e)

(* The ring implements the line discipline: bytes come out in the order    *)
(* they were typed, and editing never reaches a committed byte.            *)
ImplementsLine == Line!Spec
=============================================================================
