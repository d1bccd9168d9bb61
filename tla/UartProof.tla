----------------------------- MODULE UartProof ------------------------------
(***************************************************************************)
(* Proofs about Uart for any number of CPUs, threads and writers, writes   *)
(* of any length and any amount that is printed and typed.                 *)
(***************************************************************************)
EXTENDS Uart, FiniteSetTheorems, TLAPS

(* Contexts that saw the device idle and have not stored their byte. *)
Storing == {x \in Contexts : spc[x] = "store"}

(* Bytes that may still come before the device is idle again are counted   *)
(* with those in it: one for each of those contexts and, unless tx_busy is *)
(* set, one of a writer.                                                   *)
Pending == fifo + Cardinality(Storing) + (IF tx_busy = TRUE THEN 0 ELSE 1)

(* The most that can be pending. *)
Most == IF panicking = TRUE THEN Cardinality(Threads) + 2 ELSE 3

(* Until a panic a thread stores only inside printf(), where it holds      *)
(* pr.lock; tx_busy promises an interrupt, and writers sleep only if it is *)
(* set.                                                                    *)
UartInv ==
    /\ Pending <= Most
    /\ panicking = FALSE =>
           \A x \in Contexts : /\ task[x] \notin {"panic", "halted"}
                               /\ spc[x] # "idle" => x = INTR \/ task[x] = "printf"
    /\ tx_busy = TRUE => fifo > 0 \/ thre = TRUE \/ ipc \in {"isr", "tx"}
    /\ \A p \in Writers : /\ wpc[p] = "asleep" => tx_busy = TRUE
                          /\ wpc[p] \in {"asleep", "wake"} => left[p] > 0
                          /\ wpc[p] = "batch" => rest[p] > 0
    /\ PrintfReleasesOwn

----------------------------------------------------------------------------
(* The number of contexts about to store *)

LEMMA Finite ==
    /\ IsFiniteSet(Contexts) /\ Cardinality(Contexts) = Cardinality(Threads) + 1
    /\ Cardinality(Threads) \in Nat /\ Cardinality(Threads) >= 1
<1>1. IsFiniteSet(Contexts) /\ Cardinality(Contexts) = Cardinality(Threads) + 1
    BY UartAssumption, FS_AddElement DEF Contexts
<1>2. Cardinality(Threads) \in Nat /\ Cardinality(Threads) # 0
    BY UartAssumption, FS_CardinalityType, FS_EmptySet
<1> QED
    BY <1>1, <1>2

LEMMA Counts ==
    /\ IsFiniteSet(Storing) /\ Cardinality(Storing) \in Nat
    /\ Cardinality(Storing) <= Cardinality(Threads) + 1
<1>1. Storing \subseteq Contexts
    BY DEF Storing
<1> QED
    BY <1>1, Finite, FS_Subset, FS_CardinalityType

LEMMA PairCounts ==
    ASSUME NEW a, NEW b
    PROVE  IsFiniteSet({a, b}) /\ Cardinality({a, b}) \in Nat /\ Cardinality({a, b}) <= 2
<1>1. IsFiniteSet({b}) /\ Cardinality({b}) = 1
    BY FS_Singleton
<1>2. {a, b} = {b} \cup {a}
    OBVIOUS
<1>3. /\ IsFiniteSet({b} \cup {a})
      /\ Cardinality({b} \cup {a}) = IF a \in {b} THEN Cardinality({b}) ELSE Cardinality({b}) + 1
    BY <1>1, FS_AddElement
<1> QED
    BY <1>1, <1>2, <1>3

(* Until a panic only the handler and the holder of pr.lock store. *)
LEMMA FewStore == ASSUME TypeOK, UartInv, panicking = FALSE PROVE Cardinality(Storing) <= 2
<1>1. Storing \subseteq {pr_lock, INTR}
    BY DEF Storing, TypeOK, UartInv, PrintfReleasesOwn
<1>2. /\ IsFiniteSet({pr_lock, INTR})
      /\ Cardinality({pr_lock, INTR}) \in Nat /\ Cardinality({pr_lock, INTR}) <= 2
    BY PairCounts
<1>3. Cardinality(Storing) <= Cardinality({pr_lock, INTR})
    BY <1>1, <1>2, FS_Subset
<1> QED
    BY <1>2, <1>3, Counts

(* A context that sees the device idle; until a panic it is the handler or *)
(* the holder of pr.lock, and so is every other that is about to store.    *)
LEMMA ReadyCounts ==
    ASSUME TypeOK, TypeOK', UartInv, NEW x \in Contexts, PutReady(x)
    PROVE  /\ Cardinality(Storing') \in Nat
           /\ Cardinality(Storing') <= Cardinality(Threads) + 1
           /\ panicking = FALSE => Cardinality(Storing') <= 2
<1>1. Storing' \subseteq Contexts
    BY DEF Storing, Contexts
<1>2. ASSUME panicking = FALSE PROVE Storing' \subseteq {pr_lock, INTR}
    BY <1>2 DEF PutReady, Storing, TypeOK, UartInv, PrintfReleasesOwn
<1>3. Cardinality(Storing') \in Nat /\ Cardinality(Storing') <= Cardinality(Threads) + 1
    BY <1>1, Finite, FS_Subset, FS_CardinalityType
<1>4. ASSUME panicking = FALSE PROVE Cardinality(Storing') <= 2
  <2>1. Storing' \subseteq {pr_lock, INTR}
      BY <1>2, <1>4
  <2>2. /\ IsFiniteSet({pr_lock, INTR})
        /\ Cardinality({pr_lock, INTR}) \in Nat /\ Cardinality({pr_lock, INTR}) <= 2
      BY PairCounts
  <2>3. Cardinality(Storing') <= Cardinality({pr_lock, INTR})
      BY <2>1, <2>2, FS_Subset
  <2> QED
      BY <1>3, <2>2, <2>3
<1> QED
    BY <1>3, <1>4

LEMMA StoreCounts ==
    ASSUME TypeOK, NEW x \in Contexts, PutStore(x)
    PROVE  Cardinality(Storing') = Cardinality(Storing) - 1
<1>1. x \in Storing /\ Storing' = Storing \ {x}
    BY DEF PutStore, Storing, TypeOK, Contexts
<1> QED
    BY <1>1, Counts, FS_RemoveElement

----------------------------------------------------------------------------
(* The writers' steps are one: a byte is stored, or the writer sleeps. *)
LEMMA WriterSends ==
    ASSUME TypeOK, UartInv, NEW p \in Writers,
           WriteMore(p) \/ WriteAwake(p) \/ \E n \in Asks[p] : consolewrite(p, n)
    PROVE  /\ \E k \in Nat, n \in Nat : k > 0 /\ Send(p, k, n)
           /\ UNCHANGED <<rx, cpuvars, printvars, bounds>>
<1>1. ASSUME NEW n \in Nat, n > 0, WriteBatch(p, n)
      PROVE  /\ \E k \in Nat, m \in Nat : k > 0 /\ Send(p, k, m)
             /\ UNCHANGED <<rx, cpuvars, printvars, bounds>>
    BY <1>1, UartAssumption DEF WriteBatch
<1>2. CASE WriteMore(p)
    BY <1>1, <1>2 DEF WriteMore, TypeOK, UartInv
<1>3. CASE WriteAwake(p)
    BY <1>3 DEF WriteAwake, TypeOK, UartInv
<1>4. ASSUME NEW n \in Asks[p], consolewrite(p, n)
      PROVE  /\ \E k \in Nat, m \in Nat : k > 0 /\ Send(p, k, m)
             /\ UNCHANGED <<rx, cpuvars, printvars, bounds>>
    BY <1>1, <1>4, UartAssumption DEF consolewrite
<1> QED
    BY <1>2, <1>3, <1>4

(* Every step keeps the types. *)
LEMMA TypeStep == ASSUME TypeOK, UartInv, [Next]_vars PROVE TypeOK'
<1> USE DEF TypeOK, device, writevars, cpuvars, printvars, bounds
<1>1. CASE Transmit \/ Receive
  <2>1. CASE Transmit
    <3>1. thre' \in BOOLEAN
        BY <2>1, Zenon DEF Transmit
    <3> QED
        BY <2>1, <3>1 DEF Transmit
  <2>2. CASE Receive
      BY <2>2 DEF Receive
  <2> QED
      BY <1>1, <2>1, <2>2
<1>2. ASSUME NEW p \in Writers, NEW k \in Nat, NEW n \in Nat, k > 0, Send(p, k, n),
             UNCHANGED <<rx, cpuvars, printvars, bounds>>
      PROVE  TypeOK'
  <2>1. CASE SetWriter(p, "asleep", k, n) /\ UNCHANGED <<fifo, thre, tx_busy>>
      BY <1>2, <2>1 DEF SetWriter
  <2>2. CASE Sent(p, k, n) /\ tx_busy' = TRUE
    <3>1. k - 1 \in Nat /\ fifo' \in Nat /\ thre' = FALSE
        BY <1>2, <2>2 DEF Sent, WriteTHR
    <3>2. wpc' \in [Writers -> {"user", "batch", "asleep", "wake"}]
        BY <2>2 DEF Sent, SetWriter
    <3>3. left' \in [Writers -> Nat] /\ rest' \in [Writers -> Nat]
        BY <2>2, <3>1 DEF Sent, SetWriter
    <3> QED
        BY <1>2, <2>2, <3>1, <3>2, <3>3
  <2> QED
      BY <1>2, <2>1, <2>2 DEF Send
<1>3. ASSUME NEW p \in Writers, WriteReturn(p) \/ Kill(p) PROVE TypeOK'
    BY <1>3 DEF WriteReturn, Kill, SetWriter
<1>4. ASSUME NEW x \in Contexts, PutBegin(x) \/ PutCheck(x) \/ PutReady(x) \/ PutStore(x) PROVE TypeOK'
  <2>1. fifo' \in Nat /\ printed' \in Nat
      BY <1>4 DEF PutBegin, PutCheck, PutReady, PutStore, WriteTHR
  <2>2. thre' \in BOOLEAN
      BY <1>4, Zenon DEF PutBegin, PutCheck, PutReady, PutStore, WriteTHR
  <2>3. spc' \in [Contexts -> {"idle", "check", "spin", "store", "frozen"}]
      BY <1>4 DEF PutBegin, PutCheck, PutReady, PutStore
  <2> QED
      BY <1>4, <2>1, <2>2, <2>3 DEF PutBegin, PutCheck, PutReady, PutStore
<1>5. ASSUME NEW x \in Contexts,
             PrintfBegin(x) \/ PrintfPush(x) \/ PrintfAcquire(x) \/ PrintfEnd(x) \/ panic(x) \/ PanicEnd(x)
      PROVE  TypeOK'
  <2>1. task' \in [Contexts -> {"none", "push", "acquire", "printf", "panic", "halted"}]
      BY <1>5 DEF PrintfBegin, PrintfPush, PrintfAcquire, PrintfEnd, panic, PanicEnd
  <2>2. masked' \subseteq Threads
      BY <1>5 DEF PrintfBegin, PrintfPush, PrintfAcquire, PrintfEnd, panic, PanicEnd, Contexts
  <2>3. pr_lock' \in Contexts \cup {NULL} /\ panicking' \in BOOLEAN /\ panicked' \in BOOLEAN
      BY <1>5 DEF PrintfBegin, PrintfPush, PrintfAcquire, PrintfEnd, panic, PanicEnd
  <2> QED
      BY <1>5, <2>1, <2>2, <2>3 DEF PrintfBegin, PrintfPush, PrintfAcquire, PrintfEnd, panic, PanicEnd
<1>6. ASSUME NEW t \in Threads, ReturnToUser(t) PROVE TypeOK'
    BY <1>6 DEF ReturnToUser
<1>7. CASE Claim \/ IntrStep
  <2>1. CASE IntrAck
    <3>1. thre' \in BOOLEAN
        BY <2>1, Zenon DEF IntrAck
    <3> QED
        BY <2>1, <3>1 DEF IntrAck
  <2>2. CASE IntrTx
    <3>1. tx_busy' \in BOOLEAN
        BY <2>2, Zenon DEF IntrTx
    <3>2. wpc' \in [Writers -> {"user", "batch", "asleep", "wake"}]
        BY <2>2 DEF IntrTx
    <3> QED
        BY <2>2, <3>1, <3>2 DEF IntrTx
  <2>3. CASE Claim \/ IntrRx \/ IntrEchoed \/ IntrDone
      BY <2>3 DEF Claim, IntrRx, IntrEchoed, IntrDone
  <2> QED
      BY <1>7, <2>1, <2>2, <2>3 DEF IntrStep
<1>8. CASE UNCHANGED vars
    BY <1>8 DEF vars
<1>9. ASSUME NEW p \in Writers, WriteStep(p) \/ Kill(p) \/ \E n \in Asks[p] : consolewrite(p, n)
      PROVE  TypeOK'
    BY <1>2, <1>3, <1>9, WriterSends DEF WriteStep
<1> QED
    BY <1>1, <1>4, <1>5, <1>6, <1>7, <1>8, <1>9 DEF Next, ContextStep, PutStep

(* Every step keeps the invariant. *)
LEMMA InvStep == ASSUME TypeOK, TypeOK', UartInv, [Next]_vars PROVE UartInv'
<1>0. /\ Cardinality(Threads) \in Nat /\ Cardinality(Threads) >= 1
      /\ Cardinality(Storing) \in Nat /\ Cardinality(Storing) <= Cardinality(Threads) + 1
      /\ panicking = FALSE => Cardinality(Storing) <= 2
    BY Counts, Finite, FewStore
<1> USE DEF TypeOK, UartInv, device, writevars, cpuvars, printvars, bounds
<1>1. CASE Transmit \/ Receive
  <2>1. Storing' = Storing
      BY <1>1 DEF Transmit, Receive, Storing
  <2> QED
      BY <1>0, <1>1, <2>1 DEF Transmit, Receive, Pending, Most, PrintfReleasesOwn
<1>2. ASSUME NEW p \in Writers, NEW k \in Nat, NEW n \in Nat, k > 0, Send(p, k, n),
             UNCHANGED <<rx, cpuvars, printvars, bounds>>
      PROVE  UartInv'
  <2>1. Storing' = Storing /\ PrintfReleasesOwn' /\ Most' = Most
      BY <1>2 DEF Storing, PrintfReleasesOwn, Most
  <2>2. CASE tx_busy = TRUE
      BY <1>0, <1>2, <2>1, <2>2 DEF Send, SetWriter, Pending
  <2>3. CASE tx_busy = FALSE
      BY <1>0, <1>2, <2>1, <2>3 DEF Send, Sent, SetWriter, WriteTHR, Pending
  <2> QED
      BY <2>2, <2>3
<1>3. ASSUME NEW p \in Writers, WriteReturn(p) \/ Kill(p) PROVE UartInv'
  <2>1. Storing' = Storing /\ PrintfReleasesOwn' /\ Most' = Most
      BY <1>3 DEF WriteReturn, Kill, Storing, PrintfReleasesOwn, Most
  <2> QED
      BY <1>0, <1>3, <2>1 DEF WriteReturn, Kill, SetWriter, Pending
<1>4. ASSUME NEW x \in Contexts, PutReady(x) PROVE UartInv'
  <2>1. /\ Cardinality(Storing') \in Nat
        /\ Cardinality(Storing') <= Cardinality(Threads) + 1
        /\ panicking = FALSE => Cardinality(Storing') <= 2
      BY <1>4, ReadyCounts
  <2>2. Pending' <= Most'
      BY <1>0, <1>4, <2>1 DEF PutReady, Pending, Most
  <2> QED
      BY <1>4, <2>2 DEF PutReady, PrintfReleasesOwn
<1>5. ASSUME NEW x \in Contexts, PutStore(x) PROVE UartInv'
  <2>1. Cardinality(Storing') = Cardinality(Storing) - 1
      BY <1>5, StoreCounts
  <2>2. Pending' <= Most'
      BY <1>0, <1>5, <2>1 DEF PutStore, WriteTHR, Pending, Most
  <2> QED
      BY <1>5, <2>2 DEF PutStore, WriteTHR, PrintfReleasesOwn
<1>6. ASSUME NEW x \in Contexts, PutBegin(x) \/ PutCheck(x) PROVE UartInv'
  <2>1. Storing' = Storing /\ Most' = Most
      BY <1>6 DEF PutBegin, PutCheck, Storing, Most
  <2>2. panicking' = FALSE =>
            \A y \in Contexts : /\ task'[y] \notin {"panic", "halted"}
                                /\ spc'[y] # "idle" => y = INTR \/ task'[y] = "printf"
      BY <1>6 DEF PutBegin, PutCheck, Printing
  <2> QED
      BY <1>0, <1>6, <2>1, <2>2 DEF PutBegin, PutCheck, Pending, PrintfReleasesOwn
<1>7. ASSUME NEW x \in Contexts, PrintfBegin(x) \/ PrintfPush(x) \/ PrintfAcquire(x) \/ PrintfEnd(x)
      PROVE  UartInv'
  <2>1. Storing' = Storing /\ Most' = Most
      BY <1>7 DEF PrintfBegin, PrintfPush, PrintfAcquire, PrintfEnd, Storing, Most
  <2>2. PrintfReleasesOwn'
      BY <1>7, UartAssumption
      DEF PrintfBegin, PrintfPush, PrintfAcquire, PrintfEnd, PrintfReleasesOwn, Contexts
  <2>3. panicking' = FALSE =>
            \A y \in Contexts : /\ task'[y] \notin {"panic", "halted"}
                                /\ spc'[y] # "idle" => y = INTR \/ task'[y] = "printf"
      BY <1>7 DEF PrintfBegin, PrintfPush, PrintfAcquire, PrintfEnd
  <2> QED
      BY <1>0, <1>7, <2>1, <2>2, <2>3 DEF PrintfBegin, PrintfPush, PrintfAcquire, PrintfEnd, Pending
<1>10. ASSUME NEW x \in Contexts, panic(x) \/ PanicEnd(x) PROVE UartInv'
  <2>1. Storing' = Storing /\ panicking' = TRUE
      BY <1>10 DEF panic, PanicEnd, Storing
  <2>2. Pending' = Pending
      BY <1>10, <2>1 DEF panic, PanicEnd, Pending
  <2>3. Pending' <= Most'
      BY <1>0, <2>1, <2>2 DEF Most, Pending
  <2> QED
      BY <1>10, <2>1, <2>3 DEF panic, PanicEnd, PrintfReleasesOwn
<1>11. ASSUME NEW t \in Threads, ReturnToUser(t) PROVE UartInv'
  <2>1. Storing' = Storing /\ PrintfReleasesOwn' /\ Most' = Most
      BY <1>11 DEF ReturnToUser, Storing, PrintfReleasesOwn, Most
  <2> QED
      BY <1>0, <1>11, <2>1 DEF ReturnToUser, Pending
<1>12. CASE Claim \/ IntrStep
  <2>1. Storing' = Storing /\ PrintfReleasesOwn' /\ Most' = Most
      BY <1>12 DEF IntrStep, Claim, IntrAck, IntrTx, IntrRx, IntrEchoed, IntrDone,
                   Storing, PrintfReleasesOwn, Most
  <2>2. CASE IntrAck
      BY <1>0, <2>1, <2>2 DEF IntrAck, Pending
  <2>3. CASE IntrTx
    <3>1. CASE fifo = 0
      <4>1. Pending' = Cardinality(Storing) + 1
          BY <1>0, <2>1, <2>3, <3>1 DEF IntrTx, Pending
      <4>2. Pending' <= Most'
          BY <1>0, <2>1, <4>1 DEF Most
      <4> QED
          BY <2>1, <2>3, <3>1, <4>2 DEF IntrTx
    <3>2. CASE fifo # 0
        BY <1>0, <2>1, <2>3, <3>2 DEF IntrTx, Pending
    <3> QED
        BY <3>1, <3>2
  <2>4. CASE Claim \/ IntrRx \/ IntrEchoed \/ IntrDone
      BY <1>0, <2>1, <2>4 DEF Claim, IntrRx, IntrEchoed, IntrDone, Pending
  <2> QED
      BY <1>12, <2>2, <2>3, <2>4 DEF IntrStep
<1>8. CASE UNCHANGED vars
    BY <1>8 DEF vars, Pending, Storing, Most, PrintfReleasesOwn
<1>9. ASSUME NEW p \in Writers, WriteStep(p) \/ Kill(p) \/ \E n \in Asks[p] : consolewrite(p, n)
      PROVE  UartInv'
    BY <1>2, <1>3, <1>9, WriterSends DEF WriteStep
<1> QED
    BY <1>1, <1>4, <1>5, <1>6, <1>7, <1>8, <1>9, <1>10, <1>11, <1>12
    DEF Next, ContextStep, PutStep

LEMMA UartInit == Init => TypeOK /\ UartInv
<1> SUFFICES ASSUME Init PROVE TypeOK /\ UartInv
    OBVIOUS
<1>1. TypeOK
    BY DEF Init, TypeOK
<1>2. Storing = {} /\ Cardinality(Storing) = 0
    BY FS_EmptySet DEF Init, Storing
<1> QED
    BY <1>1, <1>2, UartAssumption DEF Init, UartInv, Pending, Most, PrintfReleasesOwn, Contexts

(* The invariant holds in every reachable state. *)
THEOREM UartInductive == Spec => [](TypeOK /\ UartInv)
<1>1. TypeOK /\ UartInv /\ [Next]_vars => (TypeOK /\ UartInv)'
    BY TypeStep, InvStep
<1> QED
    BY UartInit, <1>1, PTL DEF Spec

(* Until a panic uartputc_sync() and uartwrite() together never put more   *)
(* than three bytes in the FIFO of 16, with any number of CPUs; after it   *)
(* they put in one for each thread that prints, one of the echo and one of *)
(* a writer, which with 64 processes can be more than 16.                  *)
THEOREM FifoSafety == Spec => []NoOverrun
<1>1. TypeOK /\ UartInv => NoOverrun
    BY Counts, Finite DEF TypeOK, UartInv, Pending, Most, NoOverrun
<1> QED
    BY UartInductive, <1>1, PTL

(* A writer asleep in uartwrite() has an interrupt to come. *)
THEOREM WriterSafety == Spec => []SleeperHasInterrupt
<1>1. TypeOK /\ UartInv => SleeperHasInterrupt
    BY DEF TypeOK, UartInv, SleeperHasInterrupt
<1> QED
    BY UartInductive, <1>1, PTL

(* printf() releases only the lock it took, and always does until a panic. *)
THEOREM PrintfSafety == Spec => []PrintfReleasesOwn
<1>1. UartInv => PrintfReleasesOwn
    BY DEF UartInv
<1> QED
    BY UartInductive, <1>1, PTL
=============================================================================
