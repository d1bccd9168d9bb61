-------------------------------- MODULE Proc --------------------------------
(***************************************************************************)
(* The process table of kernel/proc/proc.c: fork, exit, wait, kill, sleep, *)
(* wakeup, yield and the per-CPU scheduler, at the granularity of the      *)
(* spinlocks that protect them (p->lock of every slot and wait_lock).      *)
(*                                                                         *)
(* One action is the code between two lock operations.  A critical section *)
(* that takes and drops a lock without calling sched() is one action,      *)
(* guarded by the lock being free; a lock that stays held from one action  *)
(* to the next (wait_lock in exit and wait, p->lock across swtch) is a     *)
(* variable that names the CPU holding it.                                 *)
(***************************************************************************)
EXTENDS Integers

CONSTANTS
    NPROC,       \* size of the process table
    CPUS,        \* the harts
    NULL,        \* the null pointer
    MaxPid,      \* bound: user code forks only while nextpid <= MaxPid,
    MaxFull,     \* bound: or, when all slots are in use, while nextpid <= MaxFull
    KillPids,    \* the arguments user code gives to kill()
    MayFail      \* whether kalloc() and copyout() may fail

ASSUME ProcAssumption ==
    /\ NPROC \in Nat \ {0}
    /\ NULL \notin 0 .. NPROC - 1
    /\ NULL \notin CPUS
    /\ MaxPid \in Nat /\ MaxFull \in Nat
    /\ KillPids \subseteq Nat
    /\ MayFail \in BOOLEAN

Slots == 0 .. NPROC - 1
Init0 == 0                \* initproc: userinit() takes the first slot
Live == {"RUNNABLE", "RUNNING", "SLEEPING"}
States == Live \cup {"UNUSED", "USED", "ZOMBIE"}

VARIABLES
    \* struct proc
    state, chan, killed, pid, parent,
    nextpid,
    \* spinlocks: the CPU that holds them, or NULL
    plock, wait_lock,
    \* struct cpu: the process on whose kernel stack the CPU executes (NULL:
    \* the scheduler's), and the scheduler's position in the table
    run, cur,
    \* kernel thread of each process: where it is, where yield() returns to,
    \* its scan of the table, wakeup()'s scan, havekids, kill()'s argument
    pc, ret, i, j, havekids, arg,
    \* user/bin/init.c: pid of the shell it waits for; 0: about to fork,
    \* -1: a system call failed and it is about to exit
    sh

slotvars == <<state, chan, killed, pid, parent>>
lockvars == <<plock, wait_lock>>
cpuvars == <<run, cur>>
localvars == <<ret, i, j, havekids, arg>>
vars == <<slotvars, nextpid, lockvars, cpuvars, pc, localvars, sh>>

----------------------------------------------------------------------------
(* procinit() and userinit(): slot 0 holds init, every CPU scans. *)
Init ==
    /\ state = [p \in Slots |-> IF p = Init0 THEN "RUNNABLE" ELSE "UNUSED"]
    /\ chan = [p \in Slots |-> NULL]
    /\ killed = [p \in Slots |-> FALSE]
    /\ pid = [p \in Slots |-> IF p = Init0 THEN 1 ELSE 0]
    /\ parent = [p \in Slots |-> NULL]
    /\ nextpid = 2
    /\ plock = [p \in Slots |-> NULL]
    /\ wait_lock = NULL
    /\ run = [c \in CPUS |-> NULL]
    /\ cur = [c \in CPUS |-> 0]
    /\ pc = [p \in Slots |-> "resume"]
    /\ ret = [p \in Slots |-> "user"]
    /\ i = [p \in Slots |-> 0]
    /\ j = [p \in Slots |-> 0]
    /\ havekids = [p \in Slots |-> FALSE]
    /\ arg = [p \in Slots |-> 0]
    /\ sh = 0

(* The kernel thread of process p, executing on CPU c, is at l. *)
At(c, p, l) == run[c] = p /\ pc[p] = l

Goto(p, l) == pc' = [pc EXCEPT ![p] = l]

(* Nothing but the position of p's thread changes. *)
Move(p, l) ==
    /\ Goto(p, l)
    /\ UNCHANGED <<slotvars, nextpid, lockvars, cpuvars, localvars, sh>>

(* p's scan of the table goes on to the next slot. *)
ScanOn(p) ==
    /\ i' = [i EXCEPT ![p] = @ + 1]
    /\ UNCHANGED <<slotvars, nextpid, lockvars, cpuvars, pc, ret, j, havekids, arg, sh>>

(* p->lock can be acquired. *)
Free(p) == plock[p] = NULL

(* A system call of p returns v; init.c acts on the result. *)
Return(p, v) ==
    /\ Goto(p, "sysret")
    /\ sh' = IF p # Init0 THEN sh
             ELSE IF v = -1 \/ sh = 0 THEN v
             ELSE IF sh = v THEN 0 ELSE sh

(* The scan ends without success and the call returns -1. *)
Fail(p) ==
    /\ i' = [i EXCEPT ![p] = 0]
    /\ Return(p, -1)
    /\ UNCHANGED <<slotvars, nextpid, lockvars, cpuvars, ret, j, havekids, arg>>

----------------------------------------------------------------------------
(* trap.c *)

(* What the user program of p may ask for next: init.c runs its own loop,  *)
(* any other program calls what it likes.                                  *)
Calls(p) ==
    (IF p # Init0
     THEN {"exit", "wait"} \cup (IF KillPids = {} THEN {} ELSE {"kill"})
     ELSE IF sh = -1 THEN {"exit"} ELSE IF sh = 0 THEN {} ELSE {"wait"})
    \cup {x \in {"alloc"} : /\ nextpid <= IF \A q \in Slots : state[q] # "UNUSED"
                                         THEN MaxFull ELSE MaxPid
                            /\ p = Init0 => sh = 0}

(* usertrap() for a system call of a process that is not killed. *)
TrapSyscall(c, p) ==
    /\ At(c, p, "user")
    /\ Free(p)
    /\ ~killed[p]
    /\ \E call \in Calls(p) :
           /\ Goto(p, call)
           /\ \E k \in IF call = "kill" THEN KillPids ELSE {0} :
                  arg' = [arg EXCEPT ![p] = k]
    /\ i' = [i EXCEPT ![p] = 0]
    /\ UNCHANGED <<slotvars, nextpid, lockvars, cpuvars, ret, j, havekids, sh>>

(* usertrap() for a system call of a killed process: kexit(-1). *)
TrapKilled(c, p) ==
    /\ At(c, p, "user")
    /\ Free(p)
    /\ killed[p]
    /\ Move(p, "exit")

(* usertrap() for an exception it does not handle: setkilled(), kexit(-1). *)
TrapFault(c, p) ==
    /\ At(c, p, "user")
    /\ p # Init0
    /\ Free(p)
    /\ killed' = [killed EXCEPT ![p] = TRUE]
    /\ Goto(p, "exit")
    /\ UNCHANGED <<state, chan, pid, parent, nextpid, lockvars, cpuvars, localvars, sh>>

(* Wrong variant: the timer path does not look at p->killed. *)
TrapTimerUnchecked(c, p) ==
    /\ At(c, p, "user")
    /\ Move(p, "yield")

(* usertrap() for a timer interrupt. *)
TrapTimer(c, p) ==
    /\ At(c, p, "user")
    /\ Free(p)
    /\ Move(p, IF killed[p] THEN "exit" ELSE "yield")

(* The end of usertrap() after a system call. *)
SyscallReturn(c, p) ==
    /\ At(c, p, "sysret")
    /\ Free(p)
    /\ Move(p, IF killed[p] THEN "exit" ELSE "user")

(* Where a process is in the kernel with interrupts on: no lock is held. *)
Preemptible == {"alloc", "forkparent", "forkrun", "exit", "wait", "kill", "sysret"}

(* kerneltrap() for a timer interrupt. *)
KernelTimer(c, p) ==
    /\ run[c] = p
    /\ pc[p] \in Preemptible
    /\ ret' = [ret EXCEPT ![p] = pc[p]]
    /\ Goto(p, "yield")
    /\ UNCHANGED <<slotvars, nextpid, lockvars, cpuvars, i, j, havekids, arg, sh>>

----------------------------------------------------------------------------
(* yield(), sleep(), sched() and scheduler() *)

(* yield() up to the call of sched(). *)
Yield(c, p) ==
    /\ At(c, p, "yield")
    /\ Free(p)
    /\ plock' = [plock EXCEPT ![p] = c]
    /\ state' = [state EXCEPT ![p] = "RUNNABLE"]
    /\ Goto(p, "sched")
    /\ UNCHANGED <<chan, killed, pid, parent, nextpid, wait_lock, cpuvars, localvars, sh>>

(* sleep(p, &wait_lock) up to the call of sched(): p->lock is taken before *)
(* wait_lock is dropped.  Awake again, kwait() takes wait_lock and rescans. *)
Sleep(c, p) ==
    /\ At(c, p, "sleep")
    /\ Free(p)
    /\ plock' = [plock EXCEPT ![p] = c]
    /\ wait_lock' = NULL
    /\ chan' = [chan EXCEPT ![p] = p]
    /\ state' = [state EXCEPT ![p] = "SLEEPING"]
    /\ ret' = [ret EXCEPT ![p] = "wait"]
    /\ Goto(p, "sched")
    /\ UNCHANGED <<killed, pid, parent, nextpid, cpuvars, i, j, havekids, arg, sh>>

(* sched(): swtch() leaves p's kernel stack for the scheduler's. *)
Sched(c, p) ==
    /\ At(c, p, "sched")
    /\ run' = [run EXCEPT ![c] = NULL]
    /\ Goto(p, "resume")
    /\ UNCHANGED <<slotvars, nextpid, lockvars, cur, localvars, sh>>

(* The next slot of the scheduler's scan. *)
Advance(c) == cur' = [cur EXCEPT ![c] = (@ + 1) % NPROC]

(* scheduler() after swtch() comes back: it drops the lock that the        *)
(* process took.                                                           *)
SchedulerBack(c) ==
    /\ run[c] = NULL
    /\ plock[cur[c]] = c
    /\ plock' = [plock EXCEPT ![cur[c]] = NULL]
    /\ Advance(c)
    /\ UNCHANGED <<slotvars, nextpid, wait_lock, run, pc, localvars, sh>>

(* scheduler() finds a runnable process and switches to it with the lock   *)
(* held,                                                                   *)
SchedulerRun(c) ==
    LET p == cur[c] IN
    /\ run[c] = NULL
    /\ Free(p)
    /\ state[p] = "RUNNABLE"
    /\ plock' = [plock EXCEPT ![p] = c]
    /\ state' = [state EXCEPT ![p] = "RUNNING"]
    /\ run' = [run EXCEPT ![c] = p]
    /\ UNCHANGED <<chan, killed, pid, parent, nextpid, wait_lock, cur, pc, localvars, sh>>

(* or passes on to the next slot. *)
SchedulerSkip(c) ==
    /\ run[c] = NULL
    /\ Free(cur[c])
    /\ state[cur[c]] # "RUNNABLE"
    /\ Advance(c)
    /\ UNCHANGED <<slotvars, nextpid, lockvars, run, pc, localvars, sh>>

(* The rest of sched()'s caller, or forkret(), on the CPU that picked p. *)
Resume(c, p) ==
    /\ At(c, p, "resume")
    /\ chan' = [chan EXCEPT ![p] = NULL]
    /\ plock' = [plock EXCEPT ![p] = NULL]
    /\ Goto(p, ret[p])
    /\ ret' = [ret EXCEPT ![p] = "user"]
    /\ UNCHANGED <<state, killed, pid, parent, nextpid, wait_lock, cpuvars, i, j, havekids, arg, sh>>

----------------------------------------------------------------------------
(* kfork() *)

(* Wrong variant: p->killed survives the process. *)
freeprocKeepsKilled(q) ==
    /\ state' = [state EXCEPT ![q] = "UNUSED"]
    /\ chan' = [chan EXCEPT ![q] = NULL]
    /\ pid' = [pid EXCEPT ![q] = 0]
    /\ parent' = [parent EXCEPT ![q] = NULL]
    /\ UNCHANGED killed

(* freeproc(): every field of the slot is cleared. *)
freeproc(q) ==
    /\ state' = [state EXCEPT ![q] = "UNUSED"]
    /\ chan' = [chan EXCEPT ![q] = NULL]
    /\ killed' = [killed EXCEPT ![q] = FALSE]
    /\ pid' = [pid EXCEPT ![q] = 0]
    /\ parent' = [parent EXCEPT ![q] = NULL]

(* allocproc() passes over a slot in use, *)
AllocSkip(c, p) ==
    /\ At(c, p, "alloc")
    /\ Free(i[p])
    /\ state[i[p]] # "UNUSED"
    /\ i[p] + 1 < NPROC
    /\ ScanOn(p)

(* and returns 0 past the last one: fork fails. *)
AllocFull(c, p) ==
    /\ At(c, p, "alloc")
    /\ Free(i[p])
    /\ state[i[p]] # "UNUSED"
    /\ i[p] + 1 = NPROC
    /\ Fail(p)

(* allocproc() takes slot q and kfork() fills it, all with q's lock held;  *)
(* p->killed is left as it was found.                                      *)
AllocFound(c, p) ==
    LET q == i[p] IN
    /\ At(c, p, "alloc")
    /\ Free(q)
    /\ state[q] = "UNUSED"
    /\ state' = [state EXCEPT ![q] = "USED"]
    /\ pid' = [pid EXCEPT ![q] = nextpid]
    /\ nextpid' = nextpid + 1
    /\ pc' = [pc EXCEPT ![p] = "forkparent", ![q] = "resume"]
    /\ ret' = [ret EXCEPT ![q] = "user"]
    /\ UNCHANGED <<chan, killed, parent, lockvars, cpuvars, i, j, havekids, arg, sh>>

(* The same when kalloc() fails in allocproc() or uvmcopy(): the pid is    *)
(* consumed and freeproc() clears the slot.                                *)
AllocFail(c, p) ==
    /\ MayFail
    /\ At(c, p, "alloc")
    /\ Free(i[p])
    /\ state[i[p]] = "UNUSED"
    /\ freeproc(i[p])
    /\ nextpid' = nextpid + 1
    /\ i' = [i EXCEPT ![p] = 0]
    /\ Return(p, -1)
    /\ UNCHANGED <<lockvars, cpuvars, ret, j, havekids, arg>>

(* Wrong variant: the child's parent is never recorded. *)
ForkParentForgotten(c, p) ==
    /\ At(c, p, "forkparent")
    /\ wait_lock = NULL
    /\ Move(p, "forkrun")

(* kfork() publishes the parent under wait_lock, *)
ForkParent(c, p) ==
    /\ At(c, p, "forkparent")
    /\ wait_lock = NULL
    /\ parent' = [parent EXCEPT ![i[p]] = p]
    /\ Goto(p, "forkrun")
    /\ UNCHANGED <<state, chan, killed, pid, nextpid, lockvars, cpuvars, localvars, sh>>

(* and then makes the child runnable under the child's lock. *)
ForkRun(c, p) ==
    LET q == i[p] IN
    /\ At(c, p, "forkrun")
    /\ Free(q)
    /\ state' = [state EXCEPT ![q] = "RUNNABLE"]
    /\ i' = [i EXCEPT ![p] = 0]
    /\ Return(p, pid[q])
    /\ UNCHANGED <<chan, killed, pid, parent, nextpid, lockvars, cpuvars, ret, j, havekids, arg>>

----------------------------------------------------------------------------
(* kexit() *)

(* Files are closed and wait_lock is taken.  Init does not exit: panic()   *)
(* keeps its thread there, with interrupts as they are.                    *)
ExitLock(c, p) ==
    /\ At(c, p, "exit")
    /\ p # Init0
    /\ wait_lock = NULL
    /\ wait_lock' = c
    /\ i' = [i EXCEPT ![p] = 0]
    /\ Goto(p, "reparent")
    /\ UNCHANGED <<slotvars, nextpid, plock, cpuvars, ret, j, havekids, arg, sh>>

(* reparent() has looked at every slot, *)
ReparentDone(c, p) ==
    /\ At(c, p, "reparent")
    /\ i[p] = NPROC
    /\ Move(p, "wakeparent")

(* passes over a slot that is not a child, *)
ReparentSkip(c, p) ==
    /\ At(c, p, "reparent")
    /\ i[p] < NPROC
    /\ parent[i[p]] # p
    /\ ScanOn(p)

(* or hands a child to init, which is then woken. *)
ReparentChild(c, p) ==
    /\ At(c, p, "reparent")
    /\ i[p] < NPROC
    /\ parent[i[p]] = p
    /\ parent' = [parent EXCEPT ![i[p]] = Init0]
    /\ Goto(p, "wakeinit")
    /\ UNCHANGED <<state, chan, killed, pid, nextpid, lockvars, cpuvars, localvars, sh>>

(* One iteration of wakeup(ch) by p, at slot j[p]: p itself is skipped. *)
WakeupStep(p, ch) ==
    /\ j[p] < NPROC
    /\ j[p] # p => Free(j[p])
    /\ state' = IF j[p] # p /\ state[j[p]] = "SLEEPING" /\ chan[j[p]] = ch
                THEN [state EXCEPT ![j[p]] = "RUNNABLE"]
                ELSE state
    /\ j' = [j EXCEPT ![p] = @ + 1]
    /\ UNCHANGED <<chan, killed, pid, parent, nextpid, lockvars, cpuvars, pc, ret, i, havekids, arg, sh>>

(* wakeup() returns to its caller at l. *)
WakeupDone(p, l, k) ==
    /\ j[p] = NPROC
    /\ j' = [j EXCEPT ![p] = 0]
    /\ i' = [i EXCEPT ![p] = k]
    /\ Goto(p, l)
    /\ UNCHANGED <<slotvars, nextpid, lockvars, cpuvars, ret, havekids, arg, sh>>

(* wakeup(initproc) inside reparent(). *)
WakeInit(c, p) ==
    /\ At(c, p, "wakeinit")
    /\ WakeupStep(p, Init0) \/ WakeupDone(p, "reparent", i[p] + 1)

(* Wrong variant: the exiting process wakes its own channel. *)
WakeSelf(c, p) ==
    /\ At(c, p, "wakeparent")
    /\ WakeupStep(p, p) \/ WakeupDone(p, "zombie", 0)

(* wakeup(p->parent). *)
WakeParent(c, p) ==
    /\ At(c, p, "wakeparent")
    /\ WakeupStep(p, parent[p]) \/ WakeupDone(p, "zombie", 0)

(* p->lock is taken, the state becomes ZOMBIE, and only then wait_lock is  *)
(* dropped; p->lock is kept for sched().                                   *)
ExitZombie(c, p) ==
    /\ At(c, p, "zombie")
    /\ Free(p)
    /\ plock' = [plock EXCEPT ![p] = c]
    /\ state' = [state EXCEPT ![p] = "ZOMBIE"]
    /\ wait_lock' = NULL
    /\ Goto(p, "sched")
    /\ UNCHANGED <<chan, killed, pid, parent, nextpid, cpuvars, localvars, sh>>

----------------------------------------------------------------------------
(* kwait() *)

WaitLock(c, p) ==
    /\ At(c, p, "wait")
    /\ wait_lock = NULL
    /\ wait_lock' = c
    /\ i' = [i EXCEPT ![p] = 0]
    /\ havekids' = [havekids EXCEPT ![p] = FALSE]
    /\ Goto(p, "waitscan")
    /\ UNCHANGED <<slotvars, nextpid, plock, cpuvars, ret, j, arg, sh>>

(* A slot that is not an exited child of p. *)
WaitSkip(c, p) ==
    /\ At(c, p, "waitscan")
    /\ i[p] < NPROC
    /\ parent[i[p]] = p => Free(i[p]) /\ state[i[p]] # "ZOMBIE"
    /\ havekids' = [havekids EXCEPT ![p] = @ \/ parent[i[p]] = p]
    /\ i' = [i EXCEPT ![p] = @ + 1]
    /\ UNCHANGED <<slotvars, nextpid, lockvars, cpuvars, pc, ret, j, arg, sh>>

(* kwait() drops wait_lock and returns v. *)
WaitReturn(p, v) ==
    /\ wait_lock' = NULL
    /\ i' = [i EXCEPT ![p] = 0]
    /\ havekids' = [havekids EXCEPT ![p] = FALSE]
    /\ Return(p, v)

(* Wrong variant: the child's state is read without its lock. *)
ZombieChildUnlocked(p) == parent[i[p]] = p /\ state[i[p]] = "ZOMBIE"

(* The child at i[p] has exited and is off its stack: its lock is free. *)
ZombieChild(p) == parent[i[p]] = p /\ Free(i[p]) /\ state[i[p]] = "ZOMBIE"

(* An exited child: its slot is freed and its pid returned. *)
WaitReap(c, p) ==
    /\ At(c, p, "waitscan")
    /\ i[p] < NPROC
    /\ ZombieChild(p)
    /\ freeproc(i[p])
    /\ WaitReturn(p, pid[i[p]])
    /\ UNCHANGED <<nextpid, plock, cpuvars, ret, j, arg>>

(* The status cannot be copied out: the child stays.  init passes 0 for    *)
(* the address, so this cannot happen to it.                               *)
WaitCopyoutFail(c, p) ==
    /\ MayFail
    /\ p # Init0
    /\ At(c, p, "waitscan")
    /\ i[p] < NPROC
    /\ ZombieChild(p)
    /\ WaitReturn(p, -1)
    /\ UNCHANGED <<slotvars, nextpid, plock, cpuvars, ret, j, arg>>

(* No exited child, and no point in waiting: no children, or killed. *)
WaitGiveUp(c, p) ==
    /\ At(c, p, "waitscan")
    /\ i[p] = NPROC
    /\ ~havekids[p] \/ (Free(p) /\ killed[p])
    /\ WaitReturn(p, -1)
    /\ UNCHANGED <<slotvars, nextpid, plock, cpuvars, ret, j, arg>>

(* Wrong variant: wait_lock is dropped before sleep() takes p->lock. *)
WaitUnlocks(c, p) ==
    /\ At(c, p, "waitscan")
    /\ i[p] = NPROC
    /\ havekids[p] /\ Free(p) /\ ~killed[p]
    /\ wait_lock' = NULL
    /\ Goto(p, "sleep")
    /\ UNCHANGED <<slotvars, nextpid, plock, cpuvars, localvars, sh>>

(* Otherwise kwait() calls sleep(). *)
WaitSleep(c, p) ==
    /\ At(c, p, "waitscan")
    /\ i[p] = NPROC
    /\ havekids[p] /\ Free(p) /\ ~killed[p]
    /\ Move(p, "sleep")

----------------------------------------------------------------------------
(* kkill() *)

(* The victim is marked and, if asleep, woken. *)
KillSlot(q) ==
    /\ killed' = [killed EXCEPT ![q] = TRUE]
    /\ state' = IF state[q] = "SLEEPING"
                THEN [state EXCEPT ![q] = "RUNNABLE"] ELSE state

(* The slot has the pid: the scan ends. *)
KillHit(c, p) ==
    /\ At(c, p, "kill")
    /\ Free(i[p])
    /\ pid[i[p]] = arg[p]
    /\ KillSlot(i[p])
    /\ i' = [i EXCEPT ![p] = 0]
    /\ Return(p, 0)
    /\ UNCHANGED <<chan, pid, parent, nextpid, lockvars, cpuvars, ret, j, havekids, arg>>

(* It has not: on to the next slot, *)
KillSkip(c, p) ==
    /\ At(c, p, "kill")
    /\ Free(i[p])
    /\ pid[i[p]] # arg[p]
    /\ i[p] + 1 < NPROC
    /\ ScanOn(p)

(* or kill fails. *)
KillMiss(c, p) ==
    /\ At(c, p, "kill")
    /\ Free(i[p])
    /\ pid[i[p]] # arg[p]
    /\ i[p] + 1 = NPROC
    /\ Fail(p)

----------------------------------------------------------------------------
(* Steps of p's thread with no spinlock held, in a system call, *)
CallStep(c, p) ==
    \/ AllocSkip(c, p) \/ AllocFull(c, p) \/ AllocFound(c, p) \/ AllocFail(c, p)
    \/ ForkParent(c, p) \/ ForkRun(c, p)
    \/ ExitLock(c, p) \/ WaitLock(c, p)
    \/ KillHit(c, p) \/ KillSkip(c, p) \/ KillMiss(c, p)

(* holding wait_lock, *)
WaitLockStep(c, p) ==
    \/ ReparentDone(c, p) \/ ReparentSkip(c, p) \/ ReparentChild(c, p)
    \/ WakeInit(c, p) \/ WakeParent(c, p) \/ ExitZombie(c, p)
    \/ WaitSkip(c, p) \/ WaitReap(c, p) \/ WaitCopyoutFail(c, p)
    \/ WaitGiveUp(c, p) \/ WaitSleep(c, p) \/ Sleep(c, p)

(* or entering and leaving the kernel and the scheduler. *)
SwitchStep(c, p) ==
    SyscallReturn(c, p) \/ Yield(c, p) \/ Sched(c, p) \/ Resume(c, p)

(* The timer interrupts p, in user mode or in a system call. *)
TimerStep(c, p) == TrapTimer(c, p) \/ KernelTimer(c, p)

(* What the user program does. *)
UserStep(c, p) == TrapSyscall(c, p) \/ TrapKilled(c, p) \/ TrapFault(c, p)

SchedulerStep(c) == SchedulerRun(c) \/ SchedulerSkip(c) \/ SchedulerBack(c)

Next ==
    \E c \in CPUS :
        \/ SchedulerStep(c)
        \/ \E p \in Slots :
               \/ CallStep(c, p) \/ WaitLockStep(c, p) \/ SwitchStep(c, p)
               \/ TimerStep(c, p) \/ UserStep(c, p)

Spec == Init /\ [][Next]_vars

(* The scheduler visits the slots in turn, the timer fires again and again *)
(* on every CPU, and a CPU spinning for a lock gets one that is free again *)
(* and again; nothing is assumed of what user programs choose to do.       *)
Fairness ==
    /\ \A c \in CPUS : WF_vars(SchedulerStep(c))
    /\ \A p \in Slots :
           /\ SF_vars(\E c \in CPUS : CallStep(c, p))
           /\ SF_vars(\E c \in CPUS : WaitLockStep(c, p) \/ SwitchStep(c, p))
           /\ SF_vars(\E c \in CPUS : TimerStep(c, p))

FairSpec == Spec /\ Fairness

----------------------------------------------------------------------------
PcLabels ==
    Preemptible \cup {"user", "yield", "sched", "resume", "sleep",
                      "reparent", "wakeinit", "wakeparent", "zombie", "waitscan"}

(* The types of all variables. *)
TypeOK ==
    /\ state \in [Slots -> States]
    /\ chan \in [Slots -> Slots \cup {NULL}]
    /\ killed \in [Slots -> BOOLEAN]
    /\ pid \in [Slots -> Nat]
    /\ parent \in [Slots -> Slots \cup {NULL}]
    /\ nextpid \in Nat
    /\ plock \in [Slots -> CPUS \cup {NULL}]
    /\ wait_lock \in CPUS \cup {NULL}
    /\ run \in [CPUS -> Slots \cup {NULL}]
    /\ cur \in [CPUS -> Slots]
    /\ pc \in [Slots -> PcLabels]
    /\ ret \in [Slots -> Preemptible \cup {"user"}]
    /\ i \in [Slots -> 0 .. NPROC]
    /\ j \in [Slots -> 0 .. NPROC]
    /\ havekids \in [Slots -> BOOLEAN]
    /\ arg \in [Slots -> Nat]
    /\ sh \in Nat \cup {-1}

(* Two CPUs never execute on the same kernel stack, and a slot on whose    *)
(* stack a CPU executes has not been given back to the table: swtch() in   *)
(* sched() happens under p->lock, and wait() takes the child's lock.       *)
KernelStackExclusive ==
    \A c \in CPUS : run[c] # NULL =>
        /\ state[run[c]] \notin {"UNUSED", "USED"}
        /\ \A d \in CPUS : run[d] = run[c] => d = c

(* The panics of sched(): the caller holds its own p->lock, no other       *)
(* spinlock (noff = 1), and has given up the RUNNING state.                *)
SchedPrecondition ==
    \A c \in CPUS, p \in Slots : At(c, p, "sched") =>
        /\ plock[p] = c
        /\ state[p] # "RUNNING"
        /\ wait_lock # c
        /\ \A q \in Slots \ {p} : plock[q] # c

(* The scheduler runs what it claims: a slot is RUNNING exactly while a    *)
(* CPU executes it, except between a state change and the swtch().         *)
RunningHasCpu ==
    \A p \in Slots : Free(p) =>
        (state[p] = "RUNNING" <=> \E c \in CPUS : run[c] = p)

(* exit() leaves no child behind: every process but init has a parent that *)
(* has not itself exited, so somebody can reap it.                         *)
ParentAlive ==
    \A q \in Slots \ {Init0} : state[q] \in Live \cup {"ZOMBIE"} =>
        parent[q] # NULL /\ state[parent[q]] \in Live

(* No lost wakeup: outside wait_lock, a process asleep in wait() has no    *)
(* exited child to collect.                                                *)
SleeperHasNoZombie ==
    wait_lock = NULL =>
        \A p, q \in Slots :
            state[p] = "SLEEPING" /\ parent[q] = p => state[q] # "ZOMBIE"

(* A process starts its life without a pending kill: freeproc() clears     *)
(* p->killed and allocproc() relies on it.                                 *)
BornUnkilled ==
    [][\A q \in Slots : state[q] = "UNUSED" /\ state'[q] = "USED" => ~killed'[q]]_vars

(* p is inside kwait(), perhaps asleep or preempted there. *)
InWait(p) ==
    \/ pc[p] \in {"wait", "waitscan", "sleep"}
    \/ pc[p] \in {"yield", "sched", "resume"} /\ ret[p] = "wait"

(* A wait() whose caller has an exited child returns. *)
WaitReturns ==
    \A p \in Slots :
        InWait(p) /\ (\E q \in Slots : parent[q] = p /\ state[q] = "ZOMBIE") ~> ~InWait(p)

(* A process killed while in user mode exits: the next trap sees the flag  *)
(* and kexit() gets through.                                               *)
KilledExits ==
    \A p \in Slots \ {Init0} :
        killed[p] /\ state[p] \in Live /\ pc[p] = "user" ~> state[p] = "ZOMBIE"

----------------------------------------------------------------------------
(* The table seen through fork, exit and wait only. *)
Exiting(p) == pc[p] \in {"reparent", "wakeinit", "wakeparent", "zombie"}

TreeStatus ==
    [p \in Slots |-> CASE state[p] \in {"UNUSED", "USED"} -> "free"
                       [] state[p] = "ZOMBIE" -> "zombie"
                       [] state[p] \in Live /\ Exiting(p) -> "exiting"
                       [] OTHER -> "live"]

TreeParent ==
    [p \in Slots |-> IF state[p] \in {"UNUSED", "USED"} THEN NULL ELSE parent[p]]

Tree == INSTANCE ProcTree WITH
            Procs <- Slots, Root <- Init0, status <- TreeStatus, parent <- TreeParent

(* The lock protocol of proc.c implements the process tree. *)
ImplementsTree == Tree!Spec
=============================================================================
