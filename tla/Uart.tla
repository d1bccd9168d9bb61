-------------------------------- MODULE Uart --------------------------------
(***************************************************************************)
(* Console output: kernel/dev/uart.c below consolewrite() of console.c and *)
(* printf(), panic() of printf.c, with the path an interrupt takes through *)
(* devintr() and the PLIC.                                                 *)
(*                                                                         *)
(* User output goes through uartwrite(), which sleeps until the transmit   *)
(* interrupt says that the device is idle; the kernel's own output and the *)
(* echo of typed characters go through uartputc_sync(), which polls the    *)
(* device and takes no lock.                                               *)
(*                                                                         *)
(* Each critical section of tx_lock reads or writes one device register    *)
(* and is one action; sleep() gives up the lock in that action.            *)
(*                                                                         *)
(* What prints is a context: a kernel thread, or the handler of the uart's *)
(* interrupt, which the PLIC gives to one CPU at a time.  A context with   *)
(* interrupts off keeps its CPU; any other can be preempted by the timer   *)
(* and interrupted between any two steps, so it has no CPU of its own.     *)
(* Locks that the callers of printf() and panic() hold are left out: with  *)
(* interrupts off a caller is only interrupted less.                       *)
(***************************************************************************)
EXTENDS Integers, FiniteSets

CONSTANTS
    NCPU,
    Threads,    \* kernel threads that call printf() and panic()
    INTR,       \* the handler
    Writers,    \* processes that write to the console
    NULL,
    Batch,      \* bytes consolewrite() copies in at a time (32)
    Asks,       \* bound: how many bytes a write() of each may have
    MaxSync,    \* bound: bytes printed by the kernel
    MaxTyped,   \* bound: characters typed
    MayPanic    \* contexts in which panic() may be called

ASSUME UartAssumption ==
    /\ NCPU \in Nat \ {0}
    /\ IsFiniteSet(Threads) /\ Threads # {}
    /\ INTR \notin Threads /\ NULL \notin Threads \cup {INTR}
    /\ Batch \in Nat \ {0}
    /\ Asks \in [Writers -> SUBSET Nat] /\ MaxSync \in Nat /\ MaxTyped \in Nat
    /\ MayPanic \subseteq Threads \cup {INTR}

VARIABLES
    fifo,           \* device: bytes not yet sent
    thre,           \* device: transmit interrupt pending
    rx,             \* device: characters received
    tx_busy,
    wpc, left, rest,    \* uartwrite(): position, bytes left in the batch,
                        \* bytes of the write() after it
    task,           \* which printing function a context is in
    spc,            \* where it is in uartputc_sync()
    masked,         \* threads with interrupts off
    ipc,            \* where devintr() is with the uart's interrupt
    pr_lock, panicking, panicked,
    printed, typed      \* against the bounds

Contexts == Threads \cup {INTR}

device == <<fifo, thre, rx>>
writevars == <<wpc, left, rest>>
cpuvars == <<task, spc, masked, ipc>>
printvars == <<pr_lock, panicking, panicked>>
bounds == <<printed, typed>>
vars == <<device, tx_busy, writevars, cpuvars, printvars, bounds>>

(* uartinit() has enabled the transmit interrupt of an empty device. *)
Init ==
    /\ fifo = 0 /\ thre = TRUE /\ rx = 0
    /\ tx_busy = FALSE
    /\ wpc = [p \in Writers |-> "user"]
    /\ left = [p \in Writers |-> 0]
    /\ rest = [p \in Writers |-> 0]
    /\ task = [x \in Contexts |-> "none"]
    /\ spc = [x \in Contexts |-> "idle"]
    /\ masked = {}
    /\ ipc = "idle"
    /\ pr_lock = NULL
    /\ panicking = FALSE /\ panicked = FALSE
    /\ printed = 0 /\ typed = 0

----------------------------------------------------------------------------
(* The device. *)

(* A byte is written to THR; that withdraws the transmit interrupt. *)
WriteTHR == fifo' = fifo + 1 /\ thre' = FALSE

(* A byte goes out; the last one raises the transmit interrupt. *)
Transmit ==
    /\ fifo > 0
    /\ fifo' = fifo - 1
    /\ thre' = (thre \/ fifo = 1)
    /\ UNCHANGED <<rx, tx_busy, writevars, cpuvars, printvars, bounds>>

Receive ==
    /\ typed < MaxTyped
    /\ typed' = typed + 1
    /\ rx' = rx + 1
    /\ UNCHANGED <<fifo, thre, tx_busy, writevars, cpuvars, printvars, printed>>

----------------------------------------------------------------------------
(* The CPUs *)

(* CPUs with interrupts off: of those threads, and of the handler, which   *)
(* the trap has turned them off for.                                       *)
MaskedCpus == Cardinality(masked) + (IF ipc = "idle" THEN 0 ELSE 1)

(* A CPU has interrupts on: it takes one, or runs any thread that can be   *)
(* preempted.                                                              *)
OpenCpu == MaskedCpus < NCPU

HasCpu(x) == x \in masked \/ IF x = INTR THEN ipc # "idle" ELSE OpenCpu

(* User space has interrupts on, whatever noff is. *)
ReturnToUser(t) ==
    /\ task[t] = "none"
    /\ t \in masked
    /\ masked' = masked \ {t}
    /\ UNCHANGED <<device, tx_busy, writevars, task, spc, ipc, printvars, bounds>>

----------------------------------------------------------------------------
(* write() to the console *)

SetWriter(p, at, k, n) ==
    /\ wpc' = [wpc EXCEPT ![p] = at]
    /\ left' = [left EXCEPT ![p] = k]
    /\ rest' = [rest EXCEPT ![p] = n]

(* A byte is stored, of k left in the batch and n after it. *)
Sent(p, k, n) ==
    /\ WriteTHR
    /\ SetWriter(p, IF k > 1 THEN "asleep" ELSE IF n > 0 THEN "batch" ELSE "user", k - 1, n)

(* Wrong variant: tx_busy is neither read nor set. *)
SendForgetful(p, k, n) == Sent(p, k, n) /\ UNCHANGED tx_busy

(* The loop of uartwrite(), up to the next sleep() or the end, with k      *)
(* bytes of the batch left.                                                *)
Send(p, k, n) ==
    \/ /\ tx_busy
       /\ SetWriter(p, "asleep", k, n)
       /\ UNCHANGED <<fifo, thre, tx_busy>>
    \/ /\ ~tx_busy
       /\ Sent(p, k, n)
       /\ tx_busy' = TRUE

(* consolewrite() copies in the next batch of n bytes and passes it on. *)
WriteBatch(p, n) ==
    LET k == IF Batch > n THEN n ELSE Batch
    IN  /\ OpenCpu
        /\ Send(p, k, n - k)
        /\ UNCHANGED <<rx, cpuvars, printvars, bounds>>

(* A process calls write(). *)
consolewrite(p, n) == wpc[p] = "user" /\ n > 0 /\ WriteBatch(p, n)

WriteMore(p) == wpc[p] = "batch" /\ WriteBatch(p, rest[p])

(* copyin() fails: it returns early. *)
WriteReturn(p) ==
    /\ OpenCpu
    /\ wpc[p] = "batch"
    /\ SetWriter(p, "user", 0, 0)
    /\ UNCHANGED <<device, tx_busy, cpuvars, printvars, bounds>>

(* uartwrite() goes on after sleep(). *)
WriteAwake(p) ==
    /\ OpenCpu
    /\ wpc[p] = "wake"
    /\ Send(p, left[p], rest[p])
    /\ UNCHANGED <<rx, cpuvars, printvars, bounds>>

(* kkill() of a writer that sleeps wakes it; it looks at tx_busy again. *)
Kill(p) ==
    /\ OpenCpu
    /\ wpc[p] = "asleep"
    /\ wpc' = [wpc EXCEPT ![p] = "wake"]
    /\ UNCHANGED <<device, tx_busy, left, rest, cpuvars, printvars, bounds>>

----------------------------------------------------------------------------
(* uartputc_sync(c), for printf(), panic() and echo *)

(* printf(), panic() and consoleintr()'s echo print. *)
Printing(x) == task[x] \in {"printf", "panic"} \/ (x = INTR /\ ipc = "echo" /\ task[x] = "none")

(* push_off(), which is left out once panicking is set, changes nothing:   *)
(* the trap or acquire(&pr.lock) has turned interrupts off.                *)
PutBegin(x) ==
    /\ HasCpu(x)
    /\ Printing(x)
    /\ spc[x] = "idle"
    /\ printed < MaxSync
    /\ printed' = printed + 1
    /\ spc' = [spc EXCEPT ![x] = "check"]
    /\ UNCHANGED <<device, tx_busy, writevars, task, masked, ipc, printvars, typed>>

(* After a panic the context spins for ever. *)
PutCheck(x) ==
    /\ HasCpu(x)
    /\ spc[x] = "check"
    /\ spc' = [spc EXCEPT ![x] = IF panicked THEN "frozen" ELSE "spin"]
    /\ UNCHANGED <<device, tx_busy, writevars, task, masked, ipc, printvars, bounds>>

(* LSR reads idle; *)
PutReady(x) ==
    /\ HasCpu(x)
    /\ spc[x] = "spin"
    /\ fifo = 0
    /\ spc' = [spc EXCEPT ![x] = "store"]
    /\ UNCHANGED <<device, tx_busy, writevars, task, masked, ipc, printvars, bounds>>

(* the byte is stored, whatever others have stored since. *)
PutStore(x) ==
    /\ HasCpu(x)
    /\ spc[x] = "store"
    /\ WriteTHR
    /\ spc' = [spc EXCEPT ![x] = "idle"]
    /\ UNCHANGED <<rx, tx_busy, writevars, task, masked, ipc, printvars, bounds>>

----------------------------------------------------------------------------
(* printf() and panic() *)

(* A thread calls printf(); so does the handler, in procdump(). *)
PrintfBegin(x) ==
    /\ HasCpu(x)
    /\ task[x] = "none"
    /\ x = INTR => ipc = "echo" /\ spc[x] = "idle"
    /\ task' = [task EXCEPT ![x] = IF panicking THEN "printf" ELSE "push"]
    /\ UNCHANGED <<device, tx_busy, writevars, spc, masked, ipc, printvars, bounds>>

(* acquire(&pr.lock) turns interrupts off *)
PrintfPush(x) ==
    /\ HasCpu(x)
    /\ task[x] = "push"
    /\ task' = [task EXCEPT ![x] = "acquire"]
    /\ masked' = masked \cup ({x} \ {INTR})
    /\ UNCHANGED <<device, tx_busy, writevars, spc, ipc, printvars, bounds>>

(* Wrong variant: does not wait for the lock. *)
PrintfBarges(x) ==
    /\ task[x] = "acquire"
    /\ task' = [task EXCEPT ![x] = "printf"]
    /\ pr_lock' = x
    /\ UNCHANGED <<device, tx_busy, writevars, spc, masked, ipc, panicking, panicked, bounds>>

(* and then spins for the lock. *)
PrintfAcquire(x) ==
    /\ task[x] = "acquire"
    /\ pr_lock = NULL
    /\ task' = [task EXCEPT ![x] = "printf"]
    /\ pr_lock' = x
    /\ UNCHANGED <<device, tx_busy, writevars, spc, masked, ipc, panicking, panicked, bounds>>

(* If panicking has been set the lock stays held and interrupts stay off.  *)
PrintfEnd(x) ==
    /\ HasCpu(x)
    /\ task[x] = "printf"
    /\ spc[x] = "idle"
    /\ task' = [task EXCEPT ![x] = "none"]
    /\ IF panicking THEN UNCHANGED <<pr_lock, masked>>
       ELSE pr_lock' = NULL /\ masked' = masked \ {x}
    /\ UNCHANGED <<device, tx_busy, writevars, spc, ipc, panicking, panicked, bounds>>

(* panic() leaves interrupts as they are. *)
panic(x) ==
    /\ x \in MayPanic
    /\ HasCpu(x)
    /\ task[x] = "none" /\ spc[x] = "idle"
    /\ task' = [task EXCEPT ![x] = "panic"]
    /\ panicking' = TRUE
    /\ UNCHANGED <<device, tx_busy, writevars, spc, masked, ipc, pr_lock, panicked, bounds>>

(* The message is out: the others are to print no more. *)
PanicEnd(x) ==
    /\ HasCpu(x)
    /\ task[x] = "panic"
    /\ spc[x] = "idle"
    /\ task' = [task EXCEPT ![x] = "halted"]
    /\ panicked' = TRUE
    /\ UNCHANGED <<device, tx_busy, writevars, spc, masked, ipc, pr_lock, panicking, bounds>>

----------------------------------------------------------------------------
(* The interrupt: devintr(), plic_claim(), uartintr(), plic_complete() *)

(* The uart's line is up, no CPU serves it yet, and one with interrupts on *)
(* does, whatever its thread is doing.                                     *)
Claim ==
    /\ thre \/ rx > 0
    /\ ipc = "idle"
    /\ OpenCpu
    /\ ipc' = "isr"
    /\ UNCHANGED <<device, tx_busy, writevars, task, spc, masked, printvars, bounds>>

(* The handler runs; a panic in it ends it. *)
Serving == task[INTR] = "none" /\ spc[INTR] = "idle"

(* Reading ISR withdraws the transmit interrupt, unless input is reported  *)
(* in its place.                                                           *)
IntrAck ==
    /\ Serving /\ ipc = "isr"
    /\ thre' = (thre /\ rx > 0)
    /\ ipc' = "tx"
    /\ UNCHANGED <<fifo, rx, tx_busy, writevars, task, spc, masked, printvars, bounds>>

(* Wrong variant: nobody is woken. *)
IntrTxSilent ==
    /\ Serving /\ ipc = "tx"
    /\ tx_busy' = (tx_busy /\ fifo > 0)
    /\ ipc' = "rx"
    /\ UNCHANGED <<device, writevars, task, spc, masked, printvars, bounds>>

(* An idle device ends the wait of the writers. *)
IntrTx ==
    /\ Serving /\ ipc = "tx"
    /\ IF fifo = 0
       THEN /\ tx_busy' = FALSE
            /\ wpc' = [p \in Writers |-> IF wpc[p] = "asleep" THEN "wake" ELSE wpc[p]]
       ELSE UNCHANGED <<tx_busy, wpc>>
    /\ ipc' = "rx"
    /\ UNCHANGED <<device, left, rest, task, spc, masked, printvars, bounds>>

(* Each character received goes to consoleintr(), which may echo it. *)
IntrRx ==
    /\ Serving /\ ipc = "rx"
    /\ rx > 0
    /\ rx' = rx - 1
    /\ ipc' = "echo"
    /\ UNCHANGED <<fifo, thre, tx_busy, writevars, task, spc, masked, printvars, bounds>>

IntrEchoed ==
    /\ Serving /\ ipc = "echo"
    /\ ipc' = "rx"
    /\ UNCHANGED <<device, tx_busy, writevars, task, spc, masked, printvars, bounds>>

IntrDone ==
    /\ Serving /\ ipc = "rx"
    /\ rx = 0
    /\ ipc' = "idle"
    /\ UNCHANGED <<device, tx_busy, writevars, task, spc, masked, printvars, bounds>>

IntrStep == IntrAck \/ IntrTx \/ IntrRx \/ IntrEchoed \/ IntrDone

PutStep(x) == PutCheck(x) \/ PutReady(x) \/ PutStore(x)

ContextStep(x) ==
    \/ PutBegin(x) \/ PutStep(x)
    \/ PrintfBegin(x) \/ PrintfPush(x) \/ PrintfAcquire(x) \/ PrintfEnd(x)
    \/ panic(x) \/ PanicEnd(x)

WriteStep(p) == WriteMore(p) \/ WriteReturn(p) \/ WriteAwake(p)

Next ==
    \/ Transmit \/ Receive
    \/ \E p \in Writers : WriteStep(p) \/ Kill(p) \/ \E n \in Asks[p] : consolewrite(p, n)
    \/ \E x \in Contexts : ContextStep(x)
    \/ \E t \in Threads : ReturnToUser(t)
    \/ Claim \/ IntrStep

Spec == Init /\ [][Next]_vars

(* The device sends what it is given; a raised interrupt is taken when a   *)
(* CPU has interrupts on again and again; a context with interrupts off    *)
(* goes on, and gets a spin lock that becomes free again and again;        *)
(* consoleintr() ends, since procdump() prints a line for each process.    *)
FairSpec ==
    /\ Spec
    /\ WF_vars(Transmit)
    /\ SF_vars(Claim) /\ SF_vars(IntrStep)
    /\ \A x \in Contexts :
           WF_vars(PutStep(x) \/ PrintfPush(x) \/ PrintfEnd(x)) /\ SF_vars(PrintfAcquire(x))

----------------------------------------------------------------------------
(* The types of all variables. *)
TypeOK ==
    /\ fifo \in Nat /\ thre \in BOOLEAN /\ rx \in Nat
    /\ tx_busy \in BOOLEAN
    /\ wpc \in [Writers -> {"user", "batch", "asleep", "wake"}]
    /\ left \in [Writers -> Nat] /\ rest \in [Writers -> Nat]
    /\ task \in [Contexts -> {"none", "push", "acquire", "printf", "panic", "halted"}]
    /\ spc \in [Contexts -> {"idle", "check", "spin", "store", "frozen"}]
    /\ masked \subseteq Threads
    /\ ipc \in {"idle", "isr", "tx", "rx", "echo"}
    /\ pr_lock \in Contexts \cup {NULL}
    /\ panicking \in BOOLEAN /\ panicked \in BOOLEAN
    /\ printed \in Nat /\ typed \in Nat

(* The device's FIFO of 16 bytes never overruns, although uartputc_sync()  *)
(* stores without tx_lock some time after it saw the device idle: until a  *)
(* panic there are at most three bytes in it, of a printf(), of the echo   *)
(* and of a writer.  A panic lifts pr.lock and leaves interrupts on        *)
(* between poll and store: then only the number of threads is a bound.     *)
NoOverrun == fifo <= IF panicking THEN Cardinality(Threads) + 2 ELSE 3

(* No writer sleeps on an idle device: while one sleeps tx_busy is set,    *)
(* and an interrupt that will clear it is still to come, whatever the      *)
(* kernel prints meanwhile.                                                *)
SleeperHasInterrupt ==
    (\E p \in Writers : wpc[p] = "asleep") =>
        tx_busy /\ (fifo > 0 \/ thre \/ ipc \in {"isr", "tx"})

(* acquire() and release() of pr.lock in printf() pair up, although each   *)
(* depends on a flag that any CPU may raise: until a panic the lock is     *)
(* held by the context inside printf(), and by nobody if there is none, so *)
(* that release() never finds the lock of another or a free one.           *)
PrintfReleasesOwn ==
    ~panicking => \A x \in Contexts : task[x] = "printf" <=> pr_lock = x

(* A writer that sleeps is woken, however much is printed and typed,       *)
(* unless a cpu panics, which may happen in the handler that would wake it.*)
WriterWoken ==
    \A p \in Writers : wpc[p] = "asleep" ~> wpc[p] # "asleep" \/ panicking
=============================================================================
