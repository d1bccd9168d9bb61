---------------------------- MODULE ConsoleProof ----------------------------
(***************************************************************************)
(* Proofs about Console for every size of the ring, any number of readers  *)
(* and bytes typed without end: the indices wrap.                          *)
(***************************************************************************)
EXTENDS Console, WellFoundedInduction, TLAPS

(* The reader that is between acquire() and release() or sleep() has the   *)
(* lock; it finds nothing to read before it sleeps, and nothing comes      *)
(* while it does.                                                          *)
Waiting(p) ==
    /\ pc[p] \in {"loop", "sleep"} <=> lock = p
    /\ pc[p] \in {"sleep", "asleep"} => r = w

ConsoleInv == RingBounds /\ FullIsCommitted /\ \A p \in Readers : Waiting(p)

(* The bytes being edited, from w to e, end no line: the newline commits   *)
(* all before it, in either mode.                                          *)
OneLine == \A x \in Uint : Sub(x, w) < Sub(e, w) => At(x) # "NL"

----------------------------------------------------------------------------
(* The ring *)

(* A set of numbers has a least one. *)
LEMMA Smallest ==
    ASSUME NEW T, T \subseteq Nat, T # {}
    PROVE  \E x \in T : \A y \in T : x <= y
<1> DEFINE R == OpToRel(<, Nat)
<1>1. \E x \in T : \A y \in T : ~(<<y, x>> \in R)
  <2>1. IsWellFoundedOn(R, Nat)
      BY NatLessThanWellFounded
  <2> HIDE DEF R
  <2> QED
      BY <2>1, WFMin
<1>2. ASSUME NEW x \in Nat, NEW y \in Nat, ~(<<y, x>> \in R) PROVE x <= y
    BY <1>2 DEF OpToRel
<1> QED
    BY <1>1, <1>2

LEMMA Modulus == UMOD \in Nat /\ UMOD > 0
    BY ConsoleAssumption

(* A byte more in the ring. *)
LEMMA StoreRing ==
    ASSUME TypeOK, HasRoom
    PROVE  Inc(e) \in Uint /\ Sub(Inc(e), r) = Sub(e, r) + 1
    BY ConsoleAssumption DEF TypeOK, HasRoom, Uint, Inc, Sub

(* A byte less of what is committed. *)
LEMMA TakeRing ==
    ASSUME TypeOK, RingBounds, r # w
    PROVE  /\ Inc(r) \in Uint
           /\ Sub(w, Inc(r)) = Sub(w, r) - 1
           /\ Sub(e, Inc(r)) = Sub(e, r) - 1
<1>1. r \in 0 .. UMOD - 1 /\ w \in 0 .. UMOD - 1 /\ e \in 0 .. UMOD - 1
    BY DEF TypeOK, Uint
<1>2. Inc(r) \in Uint
    BY <1>1, Modulus DEF Uint, Inc
<1>3. e # r
    BY <1>1, Modulus DEF RingBounds, Sub
<1>4. ASSUME NEW x \in 0 .. UMOD - 1, x # r PROVE Sub(x, Inc(r)) = Sub(x, r) - 1
    BY <1>1, <1>4, Modulus DEF Inc, Sub
<1> QED
    BY <1>1, <1>2, <1>3, <1>4

(* utf8_char_len() is at most what is being edited, as plain numbers. *)
LEMMA CharLen ==
    ASSUME TypeOK
    PROVE  utf8_char_len(e) = 0 \/ (e > w /\ utf8_char_len(e) \in 1 .. e - w)
<1> DEFINE T == {k \in 1 .. e - w : k = e - w \/ ~IsCont(At(e - k))}
<1>1. SUFFICES ASSUME e > w PROVE utf8_char_len(e) \in 1 .. e - w
    BY ConsoleAssumption DEF TypeOK, Uint, utf8_char_len
<1>2. e - w \in T /\ T \subseteq Nat
    BY <1>1, ConsoleAssumption DEF TypeOK, Uint
<1>3. PICK x \in T : \A y \in T : x <= y
  <2> HIDE DEF T
  <2> QED
      BY <1>2, Smallest
<1>4. \A m \in 1 .. x - 1 : IsCont(At(e - m))
  <2> TAKE m \in 1 .. x - 1
  <2>1. m \notin T /\ m \in 1 .. e - w
      BY <1>1, <1>3, ConsoleAssumption DEF TypeOK, Uint
  <2> QED
      BY <2>1
<1>5. ~(e <= w)
    BY <1>1, ConsoleAssumption DEF TypeOK, Uint
<1> QED
    BY <1>3, <1>4, <1>5 DEF utf8_char_len

LEMMA Between ==
    ASSUME NEW x \in Uint, NEW y \in Uint, NEW z \in Uint, NEW u \in y .. z - 1,
           Sub(y, x) <= Sub(z, x)
    PROVE  u \in Uint /\ u # z /\ Sub(y, x) <= Sub(u, x) /\ Sub(u, x) < Sub(z, x)
<1>1. x \in Nat /\ y \in Nat /\ z \in Nat /\ z < UMOD /\ u \in Nat /\ y <= u /\ u < z
    BY Modulus DEF Uint
<1>2. x <= y \/ z < x
    BY <1>1, Modulus DEF Sub
<1>3. CASE x <= y
    BY <1>1, <1>3, Modulus DEF Sub, Uint
<1>4. CASE z < x
    BY <1>1, <1>4, Modulus DEF Sub, Uint
<1> QED
    BY <1>2, <1>3, <1>4

(* Erasing never goes below w, also when the indices have wrapped. *)
LEMMA EraseRing ==
    ASSUME TypeOK, RingBounds, EraseChar
    PROVE  /\ e' \in Uint
           /\ Sub(w, r) <= Sub(e', r) /\ Sub(e', r) <= Sub(e, r)
           /\ e' # e => Sub(e', r) < Sub(e, r)
<1> DEFINE k == utf8_char_len(e)
<1>1. k = 0 \/ (e > w /\ k \in 1 .. e - w)
    BY CharLen
<1>2. e' = Sub(e, k)
    BY DEF EraseChar
<1>3. r \in 0 .. UMOD - 1 /\ w \in 0 .. UMOD - 1 /\ e \in 0 .. UMOD - 1
    BY DEF TypeOK, Uint
<1> HIDE DEF k
<1>4. CASE k = 0
  <2>1. e' = e
      BY <1>2, <1>3, <1>4, Modulus DEF Sub
  <2> QED
      BY <1>3, <2>1, Modulus DEF RingBounds, Uint, Sub
<1>5. CASE e > w /\ k \in 1 .. e - w
  <2>1. e' \in w .. e - 1
      BY <1>2, <1>3, <1>5, Modulus DEF Sub
  <2>2. Sub(w, r) <= Sub(e', r) /\ Sub(e', r) < Sub(e, r) /\ e' \in Uint /\ e' # e
      BY <1>3, <2>1, Between, Modulus DEF Uint, RingBounds
  <2>3. Sub(e', r) \in Int /\ Sub(e, r) \in Int
      BY <1>3, <2>2, Modulus DEF Uint, Sub
  <2> QED
      BY <2>2, <2>3
<1> QED
    BY <1>1, <1>4, <1>5

----------------------------------------------------------------------------
(* The steps *)

LEMMA StoredByte ==
    ASSUME NEW k \in Keys, k \notin {"^P", "NUL"} PROVE Stored(k) \in Bytes
    BY ConsoleAssumption DEF AllKeys, Stored, Bytes

(* Every step keeps the types. *)
LEMMA TypeStep == ASSUME TypeOK, ConsoleInv, [Next]_vars PROVE TypeOK'
<1>1. ASSUME NEW k \in Keys, consoleintr(k) /\ IntrRaw(k) PROVE TypeOK'
  <2>1. buf' \in [0 .. INPUT_BUF_SIZE - 1 -> Bytes \cup {"NUL"}]
      BY <1>1, StoredByte DEF IntrRaw, Store, TypeOK
  <2>2. e' \in Uint /\ w' = e' /\ pc' \in [Readers -> {"user", "loop", "sleep", "asleep", "wake"}]
      BY <1>1, StoreRing DEF IntrRaw, Store, Wakeup, TypeOK
  <2> QED
      BY <1>1, <2>1, <2>2 DEF TypeOK, consoleintr, IntrRaw
<1>2. ASSUME NEW k \in Keys, consoleintr(k) /\ IntrStore(k) PROVE TypeOK'
  <2>1. buf' \in [0 .. INPUT_BUF_SIZE - 1 -> Bytes \cup {"NUL"}]
      BY <1>2, StoredByte DEF IntrStore, Store, TypeOK
  <2>2. e' \in Uint /\ w' \in {w, e'}
      BY <1>2, StoreRing DEF IntrStore, Store
  <2>3. pc' \in [Readers -> {"user", "loop", "sleep", "asleep", "wake"}]
      BY <1>2 DEF IntrStore, Wakeup, TypeOK
  <2> QED
      BY <1>2, <2>1, <2>2, <2>3 DEF TypeOK, consoleintr, IntrStore
<1>3. ASSUME lock = NULL, IntrBackspace, UNCHANGED lock PROVE TypeOK'
    BY <1>3, EraseRing, ConsoleAssumption
    DEF TypeOK, ConsoleInv, cons, readvars, IntrBackspace
<1>4. ASSUME NEW k \in Keys, IntrKill(k) PROVE TypeOK'
    BY <1>4, ConsoleAssumption
    DEF TypeOK, ConsoleInv, cons, readvars, IntrKill
<1>5. ASSUME IntrKillChar PROVE TypeOK'
    BY <1>5, EraseRing, ConsoleAssumption
    DEF TypeOK, ConsoleInv, cons, readvars, IntrKillChar
<1>6. ASSUME IntrKillDone PROVE TypeOK'
    BY <1>6, ConsoleAssumption
    DEF TypeOK, ConsoleInv, cons, readvars, IntrKillDone
<1>7. ASSUME consolesetraw PROVE TypeOK'
    BY <1>7, ConsoleAssumption
    DEF TypeOK, ConsoleInv, cons, readvars, consolesetraw
<1>8. ASSUME NEW p \in Readers, ReadBegin(p) PROVE TypeOK'
  <2>1. Asks[p] \subseteq Nat
      BY ConsoleAssumption
  <2> QED
      BY <1>8, <2>1, ConsoleAssumption
      DEF TypeOK, ConsoleInv, cons, readvars, ReadBegin
<1>9. ASSUME NEW p \in Readers, ReadDone(p) PROVE TypeOK'
    BY <1>9, ConsoleAssumption
    DEF TypeOK, ConsoleInv, cons, readvars, ReadDone, ReadReturn
<1>10. ASSUME NEW p \in Readers, ReadKilled(p) PROVE TypeOK'
    BY <1>10, ConsoleAssumption
    DEF TypeOK, ConsoleInv, cons, readvars, ReadKilled, ReadReturn
<1>11. ASSUME NEW p \in Readers, ReadEmpty(p) PROVE TypeOK'
    BY <1>11, ConsoleAssumption
    DEF TypeOK, ConsoleInv, cons, readvars, ReadEmpty
<1>12. ASSUME NEW p \in Readers, ReadSleep(p) PROVE TypeOK'
    BY <1>12, ConsoleAssumption
    DEF TypeOK, ConsoleInv, cons, readvars, ReadSleep
<1>13. ASSUME NEW p \in Readers, ReadAwake(p) PROVE TypeOK'
    BY <1>13, ConsoleAssumption
    DEF TypeOK, ConsoleInv, cons, readvars, ReadAwake
<1>14. ASSUME NEW p \in Readers, ReadEof(p) PROVE TypeOK'
    BY <1>14, TakeRing, ConsoleAssumption
    DEF TypeOK, ConsoleInv, cons, readvars, ReadEof, Reading, EofConsumed, ReadReturn
<1>15. ASSUME NEW p \in Readers, ReadByte(p) PROVE TypeOK'
  <2>1. r' \in Uint
      BY <1>15, TakeRing DEF ConsoleInv, ReadByte, Reading
  <2>2. CASE ReadReturn(p)
      BY <1>15, <2>1, <2>2 DEF TypeOK, ReadByte, ReadReturn
  <2>3. CASE n' = [n EXCEPT ![p] = @ - 1] /\ UNCHANGED <<lock, killed, pc, target>>
      BY <1>15, <2>1, <2>3 DEF TypeOK, ReadByte, Reading
  <2> QED
      BY <1>15, <2>2, <2>3 DEF ReadByte
<1>16. ASSUME NEW p \in Readers, ReadFault(p) PROVE TypeOK'
    BY <1>16, TakeRing, ConsoleAssumption
    DEF TypeOK, ConsoleInv, cons, readvars, ReadFault, Reading, ReadReturn
<1>17. ASSUME NEW p \in Readers, Kill(p) PROVE TypeOK'
    BY <1>17, ConsoleAssumption
    DEF TypeOK, ConsoleInv, cons, readvars, Kill
<1>18. CASE UNCHANGED vars
    BY <1>18, ConsoleAssumption
    DEF TypeOK, ConsoleInv, cons, readvars, vars
<1> QED
    BY <1>1, <1>2, <1>3, <1>4, <1>5, <1>6, <1>7, <1>8, <1>9, <1>10, <1>11, <1>12, <1>13, <1>14,
       <1>15, <1>16, <1>17, <1>18 DEF Next, consoleintr, ReadStep

(* What a step does to the indices. *)
Moves ==
    \/ UNCHANGED <<r, w, e>>
    \/ e' = Inc(e) /\ r' = r /\ HasRoom /\ (w' = e' \/ (w' = w /\ Sub(Inc(e), r) # INPUT_BUF_SIZE))
    \/ EraseChar /\ UNCHANGED <<r, w>>
    \/ r' = Inc(r) /\ r # w /\ UNCHANGED <<w, e>>

LEMMA StepMoves == ASSUME [Next]_vars PROVE Moves
<1>1. ASSUME NEW k \in Keys, consoleintr(k) PROVE Moves
    BY <1>1 DEF Moves, consoleintr, IntrRaw, IntrStore, IntrBackspace, Store, Commits
<1>2. ASSUME NEW k \in Keys, IntrKill(k) PROVE Moves
    BY <1>2 DEF Moves, IntrKill, cons
<1>3. CASE IntrKillChar \/ IntrKillDone \/ consolesetraw \/ UNCHANGED vars
    BY <1>3 DEF Moves, IntrKillChar, IntrKillDone, consolesetraw, vars, cons
<1>4. ASSUME NEW p \in Readers, ReadBegin(p) \/ Kill(p) PROVE Moves
    BY <1>4 DEF Moves, ReadBegin, Kill, cons
<1>5. ASSUME NEW p \in Readers, ReadStep(p) PROVE Moves
    BY <1>5 DEF Moves, ReadStep, ReadDone, ReadKilled, ReadEmpty, ReadSleep, ReadAwake, ReadEof,
                ReadByte, ReadFault, Reading, cons
<1> QED
    BY <1>1, <1>2, <1>3, <1>4, <1>5 DEF Next

(* The ring stays in bounds, and when it is full nothing of it is edited. *)
LEMMA RingStep ==
    ASSUME TypeOK, ConsoleInv, [Next]_vars PROVE RingBounds' /\ FullIsCommitted'
<1> USE DEF ConsoleInv
<1>0. Sub(e, r) \in Int /\ Sub(w, r) \in Int
    BY Modulus DEF TypeOK, Uint, Sub
<1>1. CASE UNCHANGED <<r, w, e>>
    BY <1>1 DEF RingBounds, FullIsCommitted
<1>2. CASE /\ e' = Inc(e) /\ r' = r /\ HasRoom
           /\ w' = e' \/ (w' = w /\ Sub(Inc(e), r) # INPUT_BUF_SIZE)
  <2>1. Sub(e', r') = Sub(e, r) + 1 /\ Sub(e, r) < INPUT_BUF_SIZE
      BY <1>2, StoreRing DEF HasRoom
  <2> QED
      BY <1>0, <1>2, <2>1, ConsoleAssumption DEF RingBounds, FullIsCommitted
<1>3. CASE EraseChar /\ UNCHANGED <<r, w>>
  <2>1. /\ Sub(w, r) <= Sub(e', r) /\ Sub(e', r) <= Sub(e, r)
        /\ e' # e => Sub(e', r) < Sub(e, r)
        /\ Sub(e', r) \in Int
      BY <1>3, EraseRing, Modulus DEF TypeOK, Uint, Sub
  <2> QED
      BY <1>0, <1>3, <2>1, ConsoleAssumption DEF RingBounds, FullIsCommitted
<1>4. CASE r' = Inc(r) /\ r # w /\ UNCHANGED <<w, e>>
  <2>1. Sub(w', r') = Sub(w, r) - 1 /\ Sub(e', r') = Sub(e, r) - 1
      BY <1>4, TakeRing
  <2> QED
      BY <1>0, <2>1, ConsoleAssumption DEF RingBounds, FullIsCommitted
<1> QED
    BY StepMoves, <1>1, <1>2, <1>3, <1>4 DEF Moves

(* A reader with the lock keeps it until it returns or sleeps, and bytes   *)
(* are committed by a handler that wakes all that sleep.                   *)
LEMMA WaitStep ==
    ASSUME TypeOK, ConsoleInv, [Next]_vars, NEW q \in Readers PROVE Waiting(q)'
<1>0. Waiting(q) /\ NULL # q /\ INTR # q
    BY ConsoleAssumption DEF ConsoleInv
<1>1. ASSUME NEW k \in Keys, consoleintr(k) /\ IntrRaw(k) PROVE Waiting(q)'
    BY <1>0, <1>1 DEF TypeOK, consoleintr, IntrRaw, Wakeup, Waiting
<1>2. ASSUME NEW k \in Keys, consoleintr(k) /\ IntrStore(k) PROVE Waiting(q)'
    BY <1>0, <1>2 DEF TypeOK, consoleintr, IntrStore, Wakeup, Waiting
<1>3. CASE lock = NULL /\ IntrBackspace /\ UNCHANGED lock
    BY <1>0, <1>3 DEF IntrBackspace, readvars, Waiting
<1>4. ASSUME NEW k \in Keys, IntrKill(k) PROVE Waiting(q)'
    BY <1>0, <1>4 DEF IntrKill, cons, readvars, Waiting
<1>5. CASE IntrKillChar \/ IntrKillDone \/ consolesetraw \/ UNCHANGED vars
    BY <1>0, <1>5 DEF IntrKillChar, IntrKillDone, consolesetraw, vars, cons, readvars, Waiting
<1>6. ASSUME NEW p \in Readers, ReadBegin(p) \/ ReadAwake(p) PROVE Waiting(q)'
    BY <1>0, <1>6 DEF TypeOK, ReadBegin, ReadAwake, cons, Waiting
<1>7. ASSUME NEW p \in Readers, Kill(p) PROVE Waiting(q)'
    BY <1>0, <1>7 DEF TypeOK, Kill, cons, Waiting
<1>8. ASSUME NEW p \in Readers, ReadEmpty(p) \/ ReadSleep(p) PROVE Waiting(q)'
  <2>1. Waiting(p) /\ p # NULL
      BY ConsoleAssumption DEF ConsoleInv
  <2> QED
      BY <1>0, <1>8, <2>1 DEF TypeOK, ReadEmpty, ReadSleep, cons, Waiting
<1>9. ASSUME NEW p \in Readers, pc[p] = "loop", ReadReturn(p), UNCHANGED w, r' = r \/ r # w
      PROVE  Waiting(q)'
  <2>1. Waiting(p)
      BY DEF ConsoleInv
  <2> QED
      BY <1>0, <1>9, <2>1 DEF TypeOK, ReadReturn, Waiting
<1>10. ASSUME NEW p \in Readers, Reading(p), UNCHANGED <<lock, pc, w>> PROVE Waiting(q)'
    BY <1>0, <1>10 DEF Reading, Waiting
<1>11. ASSUME NEW p \in Readers, ReadStep(p) PROVE Waiting(q)'
    BY <1>6, <1>8, <1>9, <1>10, <1>11
    DEF ReadStep, ReadDone, ReadKilled, ReadEof, ReadByte, ReadFault, Reading, cons
<1> QED
    BY <1>1, <1>2, <1>3, <1>4, <1>5, <1>6, <1>7, <1>11 DEF Next, consoleintr

LEMMA ConsoleInit == Init => TypeOK /\ ConsoleInv
<1> SUFFICES ASSUME Init PROVE TypeOK /\ ConsoleInv
    OBVIOUS
<1>1. TypeOK
  <2>1. 0 \in Uint
      BY Modulus DEF Uint
  <2> QED
      BY <2>1 DEF Init, TypeOK
<1>2. RingBounds /\ FullIsCommitted
    BY Modulus, ConsoleAssumption DEF Init, RingBounds, FullIsCommitted, Sub
<1>3. \A p \in Readers : Waiting(p)
    BY ConsoleAssumption DEF Init, Waiting
<1> QED
    BY <1>1, <1>2, <1>3 DEF ConsoleInv

(* The invariant holds in every reachable state. *)
THEOREM ConsoleInductive == Spec => [](TypeOK /\ ConsoleInv)
<1>1. TypeOK /\ ConsoleInv /\ [Next]_vars => (TypeOK /\ ConsoleInv)'
    BY TypeStep, RingStep, WaitStep DEF ConsoleInv
<1> QED
    BY ConsoleInit, <1>1, PTL DEF Spec

LEMMA EditedGrows ==
    ASSUME TypeOK, RingBounds, HasRoom, NEW x \in Uint, Sub(x, w) < Sub(Inc(e), w)
    PROVE  x = e \/ Sub(x, w) < Sub(e, w)
<1>1. /\ r \in 0 .. UMOD - 1 /\ w \in 0 .. UMOD - 1 /\ e \in 0 .. UMOD - 1 /\ x \in 0 .. UMOD - 1
    BY DEF TypeOK, Uint
<1> QED
    BY <1>1, Modulus DEF Inc, Sub

LEMMA EditedShrinks ==
    ASSUME TypeOK, RingBounds, EraseChar PROVE Sub(e', w) <= Sub(e, w)
<1> DEFINE k == utf8_char_len(e)
<1>1. k = 0 \/ (e > w /\ k \in 1 .. e - w)
    BY CharLen
<1>2. e' = Sub(e, k)
    BY DEF EraseChar
<1>3. w \in 0 .. UMOD - 1 /\ e \in 0 .. UMOD - 1
    BY DEF TypeOK, Uint
<1> HIDE DEF k
<1> QED
    BY <1>1, <1>2, <1>3, Modulus DEF Sub

LEMMA LineStep == ASSUME TypeOK, TypeOK', ConsoleInv, OneLine, [Next]_vars PROVE OneLine'
<1> USE DEF ConsoleInv
<1>1. CASE UNCHANGED <<buf, w, e>>
    BY <1>1 DEF OneLine, At
<1>2. CASE w' = e'
  <2> SUFFICES ASSUME NEW x \in Uint, NEW y \in Uint PROVE ~(Sub(x, y) < Sub(y, y))
      BY <1>2 DEF OneLine, TypeOK
  <2> QED
      BY Modulus DEF Uint, Sub
<1>3. ASSUME NEW k \in Keys, Store(k), HasRoom, w' = w, Stored(k) # "NL" PROVE OneLine'
  <2> SUFFICES ASSUME NEW x \in Uint, Sub(x, w) < Sub(Inc(e), w) PROVE At(x)' # "NL"
      BY <1>3 DEF OneLine, Store
  <2>1. x = e \/ At(x) # "NL"
      BY <1>3, EditedGrows DEF OneLine
  <2>2. buf' = [buf EXCEPT ![e % INPUT_BUF_SIZE] = Stored(k)]
      BY <1>3 DEF Store
  <2> QED
      BY <1>3, <2>1, <2>2 DEF At, TypeOK
<1>4. CASE EraseChar /\ UNCHANGED <<buf, w>>
  <2> SUFFICES ASSUME NEW x \in Uint, Sub(x, w) < Sub(e', w) PROVE At(x) # "NL"
      BY <1>4 DEF OneLine, At
  <2>1. Sub(e', w) <= Sub(e, w)
      BY <1>4, EditedShrinks
  <2>2. Sub(x, w) \in Int /\ Sub(e', w) \in Int /\ Sub(e, w) \in Int
      BY Modulus DEF TypeOK, Uint, Sub
  <2> QED
      BY <2>1, <2>2 DEF OneLine
<1>5. ASSUME NEW k \in Keys, consoleintr(k) PROVE OneLine'
    BY <1>2, <1>3, <1>4, <1>5
    DEF consoleintr, IntrRaw, IntrStore, IntrBackspace, Commits, EndLine
<1>6. CASE IntrKillChar
    BY <1>4, <1>6 DEF IntrKillChar
<1>7. ASSUME NEW p \in Readers, ReadBegin(p) \/ Kill(p) \/ ReadStep(p) PROVE OneLine'
    BY <1>1, <1>7
    DEF ReadBegin, Kill, ReadStep, ReadDone, ReadKilled, ReadEmpty, ReadSleep, ReadAwake, ReadEof,
        ReadByte, ReadFault, cons
<1>8. CASE IntrKillDone \/ consolesetraw \/ UNCHANGED vars \/ \E k \in Keys : IntrKill(k)
    BY <1>1, <1>8 DEF IntrKillDone, consolesetraw, vars, cons, IntrKill
<1> QED
    BY <1>5, <1>6, <1>7, <1>8 DEF Next

(* With nothing but one line between w and e, the loop of ^U ends at w. *)
LEMMA KillStep ==
    ASSUME TypeOK, ConsoleInv, OneLine, [Next]_vars, lock = INTR, lock' = NULL PROVE e' = w'
<1>1. IntrKillDone
  <2>1. ASSUME NEW p \in Readers PROVE pc[p] \notin {"loop", "sleep"}
      BY ConsoleAssumption DEF ConsoleInv, Waiting
  <2>2. lock # lock' /\ lock # NULL
      BY ConsoleAssumption
  <2> QED
      BY <2>1, <2>2
      DEF Next, vars, consoleintr, IntrKill, IntrKillChar, consolesetraw, ReadBegin, Kill, ReadStep,
          ReadDone, ReadKilled, ReadEmpty, ReadSleep, ReadAwake, ReadEof, ReadByte, ReadFault, Reading
<1>2. e = w \/ At(Sub(e, 1)) = "NL"
    BY <1>1 DEF IntrKillDone, MoreToKill
<1>3. ASSUME e # w PROVE Sub(e, 1) \in Uint /\ Sub(Sub(e, 1), w) < Sub(e, w)
  <2>1. w \in 0 .. UMOD - 1 /\ e \in 0 .. UMOD - 1 /\ UMOD > 1
      BY <1>3, Modulus DEF TypeOK, Uint
  <2> QED
      BY <1>3, <2>1, Modulus DEF Uint, Sub
<1> QED
    BY <1>1, <1>2, <1>3 DEF OneLine, IntrKillDone, cons

(* ^U leaves nothing of the line, in a ring of any size. *)
THEOREM KillSafety == Spec => KillEmptiesLine
<1>1. Init => OneLine
    BY Modulus DEF Init, OneLine, Uint, Sub
<1>2. TypeOK /\ TypeOK' /\ ConsoleInv /\ OneLine /\ [Next]_vars => OneLine'
    BY LineStep
<1>3. TypeOK /\ ConsoleInv /\ OneLine /\ [Next]_vars =>
          [lock = INTR /\ lock' = NULL => e' = w']_vars
    BY KillStep
<1> QED
    BY ConsoleInductive, <1>1, <1>2, <1>3, PTL DEF Spec, KillEmptiesLine

(* The ring of console.c never overflows and editing never reaches what is *)
(* committed, for ever: also when the indices have wrapped.                *)
THEOREM RingSafety == Spec => []RingBounds
<1>1. ConsoleInv => RingBounds
    BY DEF ConsoleInv
<1> QED
    BY ConsoleInductive, <1>1, PTL

(* consoleintr() never leaves a full ring with a line that cannot end. *)
THEOREM FullSafety == Spec => []FullIsCommitted
<1>1. ConsoleInv => FullIsCommitted
    BY DEF ConsoleInv
<1> QED
    BY ConsoleInductive, <1>1, PTL

(* No reader in consoleread() sleeps while there is a line, whatever the   *)
(* number of readers.                                                      *)
THEOREM ReaderSafety == Spec => []SleeperHasNoInput
<1>1. ConsoleInv => SleeperHasNoInput
    BY DEF ConsoleInv, Waiting, SleeperHasNoInput
<1> QED
    BY ConsoleInductive, <1>1, PTL
=============================================================================
