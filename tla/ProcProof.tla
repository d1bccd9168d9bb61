----------------------------- MODULE ProcProof ------------------------------
(***************************************************************************)
(* Proofs about Proc, for every size of the process table and every set of *)
(* CPUs: who holds which spinlock, where each kernel thread is, and what   *)
(* follows for kernel stacks, sched() and the scheduler (LockInv); the     *)
(* parent pointers under fork, exit and wait (TreeInv); the wakeups of     *)
(* wait (SleepInv); and that Proc implements ProcTree.                     *)
(***************************************************************************)
EXTENDS Proc, TLAPS

(* Where wait_lock is held. *)
Waiting == {"reparent", "wakeinit", "wakeparent", "zombie", "waitscan", "sleep"}

(* The two ends of swtch(), where p->lock is held. *)
Switching == {"sched", "resume"}

(* p's thread is at one of ls, or was preempted there. *)
In(p, ls) == pc[p] \in ls \/ (pc[p] \in Switching \cup {"yield"} /\ ret[p] \in ls)

(* What TypeOK needs to be inductive: i[p] is a slot where it is used as one. *)
TypeInv ==
    /\ TypeOK
    /\ \A p \in Slots :
        /\ pc[p] \notin Switching \cup {"yield"} => ret[p] = "user"
        /\ In(p, {"alloc", "forkparent", "forkrun", "kill", "wakeinit"}) => i[p] \in Slots

(* The part of it that the locks depend on. *)
LockTypes ==
    /\ state \in [Slots -> States]
    /\ plock \in [Slots -> CPUS \cup {NULL}]
    /\ wait_lock \in CPUS \cup {NULL}
    /\ run \in [CPUS -> Slots \cup {NULL}]
    /\ cur \in [CPUS -> Slots]
    /\ pc \in [Slots -> PcLabels]
    /\ ret \in [Slots -> Preemptible \cup {"user"}]
    /\ i \in [Slots -> 0 .. NPROC]
    /\ j \in [Slots -> 0 .. NPROC]
    /\ \A p \in Slots :
        /\ pc[p] \notin Switching \cup {"yield"} => ret[p] = "user"
        /\ In(p, {"alloc", "forkparent", "forkrun", "kill", "wakeinit"}) => i[p] \in Slots

(* p->lock is held only around swtch(), by the CPU on either side of it. *)
PlockInv ==
    \A p \in Slots, c \in CPUS : plock[p] = c =>
        \/ run[c] = p /\ pc[p] \in Switching
        \/ run[c] = NULL /\ cur[c] = p /\ pc[p] = "resume" /\ state[p] # "RUNNING"

(* A CPU executing p is alone, and p's state says so. *)
RunInv ==
    \A p \in Slots, c \in CPUS : run[c] = p =>
        /\ cur[c] = p
        /\ pc[p] \in Switching => plock[p] = c
        /\ pc[p] = "sched" => state[p] \in {"RUNNABLE", "SLEEPING", "ZOMBIE"}
        /\ pc[p] # "sched" => state[p] = "RUNNING"
        /\ pc[p] \in Waiting => wait_lock = c
        /\ \A d \in CPUS : run[d] = p => d = c

(* A process no CPU executes is parked in swtch(). *)
ParkedInv ==
    \A p \in Slots : (\A c \in CPUS : run[c] # p) =>
        pc[p] = "resume" /\ state[p] # "RUNNING"

(* wait_lock is held by a CPU inside exit() or wait(). *)
WaitLockInv ==
    wait_lock # NULL => run[wait_lock] # NULL /\ pc[run[wait_lock]] \in Waiting

(* p is in kfork() between the allocation and the release of the child. *)
InFork(p) == In(p, {"forkparent", "forkrun"})

(* The slot kfork() fills is reserved for it. *)
ForkInv ==
    /\ \A p \in Slots : InFork(p) => state[i[p]] = "USED"
    /\ \A p, r \in Slots : InFork(p) /\ InFork(r) /\ i[p] = i[r] => p = r

LockInv == PlockInv /\ RunInv /\ ParkedInv /\ WaitLockInv /\ ForkInv

----------------------------------------------------------------------------
(* The constants, as the proofs use them. *)
LEMMA SlotFacts ==
    /\ NPROC \in Nat /\ NPROC > 0
    /\ Init0 \in Slots
    /\ Init0 = 0
    /\ NULL \notin Slots
    /\ NULL \notin CPUS
    /\ \A x \in 0 .. NPROC : x < NPROC => x \in Slots
    /\ \A x \in Slots : x \in Int /\ 0 <= x /\ x < NPROC /\ x + 1 \in 0 .. NPROC
    /\ \A x \in Slots : (x + 1) % NPROC \in Slots
    /\ \A k \in KillPids : k \in Nat
BY ProcAssumption DEF Slots, Init0

(* The types survive the scheduler's steps, *)
LEMMA TypeStepScheduler ==
    ASSUME TypeInv,
           \E c \in CPUS : SchedulerStep(c)
    PROVE  TypeInv'
<1> USE SlotFacts
<1> USE DEF TypeInv, TypeOK, States, Live, PcLabels, Preemptible, Switching, In, At, Goto, Free,
            slotvars, lockvars, cpuvars, localvars
<1>1. ASSUME NEW c \in CPUS, SchedulerRun(c) PROVE TypeInv'
  BY <1>1, Zenon DEF SchedulerRun
<1>2. ASSUME NEW c \in CPUS, SchedulerSkip(c) PROVE TypeInv'
  BY <1>2, ZenonT(30) DEF SchedulerSkip, Advance
<1>3. ASSUME NEW c \in CPUS, SchedulerBack(c) PROVE TypeInv'
  BY <1>3, ZenonT(30) DEF SchedulerBack, Advance
<1> HIDE DEF TypeInv
<1> QED
  BY <1>1, <1>2, <1>3, Zenon DEF SchedulerStep

(* the steps of user code and of its traps, *)
LEMMA TypeStepUser ==
    ASSUME TypeInv,
           \E c \in CPUS, p \in Slots : UserStep(c, p) \/ TimerStep(c, p)
    PROVE  TypeInv'
<1> USE SlotFacts
<1> USE DEF TypeInv, TypeOK, States, Live, PcLabels, Preemptible, Switching, In, At, Goto, Free,
            slotvars, lockvars, cpuvars, localvars
<1>4. ASSUME NEW c \in CPUS, NEW p \in Slots, TrapSyscall(c, p) PROVE TypeInv'
  BY <1>4, SMTT(60) DEF TrapSyscall, Calls
<1>5. ASSUME NEW c \in CPUS, NEW p \in Slots, TrapKilled(c, p) PROVE TypeInv'
  BY <1>5, SMTT(60) DEF TrapKilled, Move
<1>6. ASSUME NEW c \in CPUS, NEW p \in Slots, TrapFault(c, p) PROVE TypeInv'
  BY <1>6, ZenonT(30) DEF TrapFault
<1>7. ASSUME NEW c \in CPUS, NEW p \in Slots, TrapTimer(c, p) PROVE TypeInv'
  BY <1>7, Zenon DEF TrapTimer, Move
<1>9. ASSUME NEW c \in CPUS, NEW p \in Slots, KernelTimer(c, p) PROVE TypeInv'
  BY <1>9, Zenon DEF KernelTimer
<1> HIDE DEF TypeInv
<1> QED
  BY <1>4, <1>5, <1>6, <1>7, <1>9, Zenon DEF UserStep, TimerStep

(* sched(), yield(), sleep() and the resumption after swtch(), *)
LEMMA TypeStepSwitch ==
    ASSUME TypeInv,
           \E c \in CPUS, p \in Slots : SwitchStep(c, p)
    PROVE  TypeInv'
<1> USE SlotFacts
<1> USE DEF TypeInv, TypeOK, States, Live, PcLabels, Preemptible, Switching, In, At, Goto, Free,
            slotvars, lockvars, cpuvars, localvars
<1>8. ASSUME NEW c \in CPUS, NEW p \in Slots, SyscallReturn(c, p) PROVE TypeInv'
  BY <1>8, Zenon DEF SyscallReturn, Move
<1>10. ASSUME NEW c \in CPUS, NEW p \in Slots, Yield(c, p) PROVE TypeInv'
  BY <1>10, Zenon DEF Yield
<1>12. ASSUME NEW c \in CPUS, NEW p \in Slots, Sched(c, p) PROVE TypeInv'
  BY <1>12, Zenon DEF Sched
<1>13. ASSUME NEW c \in CPUS, NEW p \in Slots, Resume(c, p) PROVE TypeInv'
  BY <1>13, SMTT(60) DEF Resume
<1> HIDE DEF TypeInv
<1> QED
  BY <1>8, <1>10, <1>12, <1>13, Zenon DEF SwitchStep

(* the calls that do not hold wait_lock throughout: fork and kill, *)
LEMMA TypeStepCall ==
    ASSUME TypeInv,
           \E c \in CPUS, p \in Slots : CallStep(c, p)
    PROVE  TypeInv'
<1> USE SlotFacts
<1> USE DEF TypeInv, TypeOK, States, Live, PcLabels, Preemptible, Switching, In, At, Goto, Free,
            slotvars, lockvars, cpuvars, localvars
<1>14. ASSUME NEW c \in CPUS, NEW p \in Slots, AllocSkip(c, p) PROVE TypeInv'
  BY <1>14, ZenonT(30) DEF AllocSkip, ScanOn
<1>15. ASSUME NEW c \in CPUS, NEW p \in Slots, AllocFull(c, p) PROVE TypeInv'
  BY <1>15, SMTT(60) DEF AllocFull, Fail, Return
<1>16. ASSUME NEW c \in CPUS, NEW p \in Slots, AllocFound(c, p) PROVE TypeInv'
  <2>1. i[p] \in Slots
    BY <1>16, Zenon DEF AllocFound
  <2>2. pc' \in [Slots -> PcLabels] /\ ret' \in [Slots -> Preemptible \cup {"user"}]
    BY <1>16, <2>1, Zenon DEF AllocFound
  <2>0. state' \in [Slots -> States] /\ pid' \in [Slots -> Nat] /\ nextpid' \in Nat
    BY <1>16, <2>1, SMTT(60) DEF AllocFound
  <2>8. UNCHANGED <<chan, killed, parent, lockvars, cpuvars, i, j, havekids, arg, sh>>
    BY <1>16, Zenon DEF AllocFound
  <2>3. TypeOK'
    BY <2>0, <2>2, <2>8, Zenon
  <2>4. \A r \in Slots \ {p, i[p]} : pc'[r] = pc[r] /\ ret'[r] = ret[r]
    BY <1>16, <2>1, Zenon DEF AllocFound
  <2>5. pc'[i[p]] = "resume" /\ ret'[i[p]] = "user"
    BY <1>16, <2>1, Zenon DEF AllocFound
  <2>6. p # i[p] => pc'[p] = "forkparent" /\ ret'[p] = ret[p]
    BY <1>16, <2>1, Zenon DEF AllocFound
  <2>7. i' = i /\ pc[p] = "alloc"
    BY <1>16, Zenon DEF AllocFound
  <2> QED
    BY <2>1, <2>3, <2>4, <2>5, <2>6, <2>7, ZenonT(30)
<1>17. ASSUME NEW c \in CPUS, NEW p \in Slots, AllocFail(c, p) PROVE TypeInv'
  BY <1>17, SMTT(60) DEF AllocFail, Return, freeproc
<1>18. ASSUME NEW c \in CPUS, NEW p \in Slots, ForkParent(c, p) PROVE TypeInv'
  BY <1>18, Zenon DEF ForkParent
<1>19. ASSUME NEW c \in CPUS, NEW p \in Slots, ForkRun(c, p) PROVE TypeInv'
  BY <1>19, SMTT(60) DEF ForkRun, Return
<1>20. ASSUME NEW c \in CPUS, NEW p \in Slots, ExitLock(c, p) PROVE TypeInv'
  BY <1>20, SMTT(60) DEF ExitLock
<1>27. ASSUME NEW c \in CPUS, NEW p \in Slots, WaitLock(c, p) PROVE TypeInv'
  BY <1>27, SMTT(60) DEF WaitLock
<1>33. ASSUME NEW c \in CPUS, NEW p \in Slots, KillHit(c, p) PROVE TypeInv'
  BY <1>33, SMTT(60) DEF KillHit, KillSlot, Return
<1>34. ASSUME NEW c \in CPUS, NEW p \in Slots, KillSkip(c, p) PROVE TypeInv'
  BY <1>34, Zenon DEF KillSkip, ScanOn
<1>35. ASSUME NEW c \in CPUS, NEW p \in Slots, KillMiss(c, p) PROVE TypeInv'
  BY <1>35, SMTT(60) DEF KillMiss, Fail, Return
<1> HIDE DEF TypeInv
<1> QED
  BY <1>14, <1>15, <1>16, <1>17, <1>18, <1>19, <1>20, <1>27, <1>33, <1>34, <1>35, Zenon DEF CallStep

(* and exit() and wait(), which do. *)
LEMMA TypeStepWaitLock ==
    ASSUME TypeInv,
           \E c \in CPUS, p \in Slots : WaitLockStep(c, p)
    PROVE  TypeInv'
<1> USE SlotFacts
<1> USE DEF TypeInv, TypeOK, States, Live, PcLabels, Preemptible, Switching, In, At, Goto, Free,
            slotvars, lockvars, cpuvars, localvars
<1>21. ASSUME NEW c \in CPUS, NEW p \in Slots, ReparentDone(c, p) PROVE TypeInv'
  BY <1>21, Zenon DEF ReparentDone, Move
<1>22. ASSUME NEW c \in CPUS, NEW p \in Slots, ReparentSkip(c, p) PROVE TypeInv'
  BY <1>22, Zenon DEF ReparentSkip, ScanOn
<1>23. ASSUME NEW c \in CPUS, NEW p \in Slots, ReparentChild(c, p) PROVE TypeInv'
  BY <1>23, Zenon DEF ReparentChild
<1>24. ASSUME NEW c \in CPUS, NEW p \in Slots, WakeInit(c, p) PROVE TypeInv'
  <2>1. CASE WakeupStep(p, Init0)
    BY <1>24, <2>1, Zenon DEF WakeInit, WakeupStep
  <2>2. CASE WakeupDone(p, "reparent", i[p] + 1)
    BY <1>24, <2>2, SMTT(60) DEF WakeInit, WakeupDone
  <2> QED
    BY <1>24, <2>1, <2>2, Zenon DEF WakeInit
<1>25. ASSUME NEW c \in CPUS, NEW p \in Slots, WakeParent(c, p) PROVE TypeInv'
  <2>1. CASE WakeupStep(p, parent[p])
    BY <1>25, <2>1, Zenon DEF WakeParent, WakeupStep
  <2>2. CASE WakeupDone(p, "zombie", 0)
    BY <1>25, <2>2, SMTT(60) DEF WakeParent, WakeupDone
  <2> QED
    BY <1>25, <2>1, <2>2, Zenon DEF WakeParent
<1>26. ASSUME NEW c \in CPUS, NEW p \in Slots, ExitZombie(c, p) PROVE TypeInv'
  BY <1>26, SMTT(60) DEF ExitZombie
<1>28. ASSUME NEW c \in CPUS, NEW p \in Slots, WaitSkip(c, p) PROVE TypeInv'
  BY <1>28, Zenon DEF WaitSkip
<1>29. ASSUME NEW c \in CPUS, NEW p \in Slots, WaitReap(c, p) PROVE TypeInv'
  BY <1>29, SMTT(60) DEF WaitReap, ZombieChild, freeproc, WaitReturn, Return
<1>30. ASSUME NEW c \in CPUS, NEW p \in Slots, WaitCopyoutFail(c, p) PROVE TypeInv'
  BY <1>30, SMTT(60) DEF WaitCopyoutFail, ZombieChild, WaitReturn, Return
<1>31. ASSUME NEW c \in CPUS, NEW p \in Slots, WaitGiveUp(c, p) PROVE TypeInv'
  BY <1>31, SMTT(60) DEF WaitGiveUp, WaitReturn, Return
<1>32. ASSUME NEW c \in CPUS, NEW p \in Slots, WaitSleep(c, p) PROVE TypeInv'
  BY <1>32, SMTT(60) DEF WaitSleep, Move
<1>11. ASSUME NEW c \in CPUS, NEW p \in Slots, Sleep(c, p) PROVE TypeInv'
  BY <1>11 DEF Sleep
<1> HIDE DEF TypeInv
<1> QED
  BY <1>21, <1>22, <1>23, <1>24, <1>25, <1>26, <1>28, <1>29, <1>30, <1>31, <1>32, <1>11, Zenon DEF WaitLockStep

(* Every step of the kernel and of user code keeps the variables typed. *)
LEMMA TypeStep == ASSUME TypeInv, [Next]_vars PROVE TypeInv'
<1>1. CASE UNCHANGED vars
  BY <1>1, Zenon DEF vars, TypeInv, TypeOK, In, slotvars, lockvars, cpuvars, localvars
<1> QED
  BY <1>1, TypeStepScheduler, TypeStepUser, TypeStepSwitch, TypeStepCall, TypeStepWaitLock, Zenon DEF Next

(* The types the locks depend on are part of the type invariant. *)
LEMMA LockTyped == TypeInv => LockTypes
BY Zenon DEF TypeInv, TypeOK, LockTypes

(* p moves on, perhaps after waking a sleeper, and neither takes nor drops *)
(* a lock nor enters or leaves swtch() and the end of kfork().             *)
Onward(c, p) ==
    /\ run[c] = p
    /\ pc[p] \notin Switching /\ pc'[p] \notin Switching
    /\ pc[p] \in Waiting <=> pc'[p] \in Waiting
    /\ InFork(p)' => InFork(p) /\ i'[p] = i[p]
    /\ \A q \in Slots \ {p} : pc'[q] = pc[q] /\ ret'[q] = ret[q] /\ i'[q] = i[q]
    /\ \A q \in Slots :
           state'[q] # state[q] => state[q] = "SLEEPING" /\ state'[q] = "RUNNABLE"
    /\ UNCHANGED <<plock, wait_lock, run, cur>>

(* A thread that moves on without touching a lock or a state keeps LockInv. *)
LEMMA OnwardStep ==
    ASSUME LockTypes, LockInv, NEW c \in CPUS, NEW p \in Slots, Onward(c, p)
    PROVE  LockInv'
<1> USE DEF Switching, Waiting
<1>1. PlockInv'
  BY SlotFacts, SMTT(60) DEF LockTypes, LockInv, PlockInv, Onward
<1>2. RunInv'
  BY SlotFacts, SMTT(60) DEF LockTypes, LockInv, RunInv, Onward
<1>3. ParkedInv'
  BY SlotFacts, SMTT(60) DEF LockTypes, LockInv, ParkedInv, Onward
<1>4. WaitLockInv'
  <2> SUFFICES ASSUME wait_lock # NULL
               PROVE  run[wait_lock] # NULL /\ pc'[run[wait_lock]] \in Waiting
    BY Zenon DEF WaitLockInv, Onward
  <2>1. run[wait_lock] \in Slots /\ pc[run[wait_lock]] \in Waiting
    BY Zenon DEF LockTypes, LockInv, WaitLockInv
  <2> HIDE DEF Waiting, Switching
  <2>2. CASE run[wait_lock] = p
    BY <2>1, <2>2, SlotFacts, Zenon DEF Onward
  <2>3. CASE run[wait_lock] # p
    <3>1. run[wait_lock] \in Slots \ {p}
      BY <2>1, <2>3, Zenon
    <3>2. pc'[run[wait_lock]] = pc[run[wait_lock]]
      BY <3>1, ZenonT(30) DEF Onward
    <3> QED
      BY <2>1, <3>2, SlotFacts, ZenonT(30)
  <2> QED
    BY <2>2, <2>3, Zenon
<1>5. ForkInv'
  <2>1. \A q \in Slots : InFork(q)' => InFork(q) /\ i'[q] = i[q]
    BY Zenon DEF Onward, InFork, In
  <2>2. \A q \in Slots : InFork(q) => i[q] \in Slots
    BY Zenon DEF LockTypes, InFork, In
  <2> HIDE DEF Switching, Waiting
  <2> QED
    BY <2>1, <2>2, SMTT(60) DEF LockInv, ForkInv, Onward
<1> QED
  BY <1>1, <1>2, <1>3, <1>4, <1>5, Zenon DEF LockInv

(* wait() drops wait_lock and leaves, perhaps after freeing a child that   *)
(* no CPU executes.                                                        *)
Leave(c, p) ==
    /\ run[c] = p
    /\ pc[p] = "waitscan" /\ pc'[p] = "sysret"
    /\ wait_lock' = NULL
    /\ \A q \in Slots \ {p} : pc'[q] = pc[q] /\ ret'[q] = ret[q] /\ i'[q] = i[q]
    /\ \A q \in Slots :
           state'[q] # state[q] =>
               state[q] = "ZOMBIE" /\ state'[q] = "UNUSED" /\ plock[q] = NULL
    /\ UNCHANGED <<plock, run, cur>>

(* wait() leaving with wait_lock dropped keeps LockInv. *)
LEMMA LeaveStep ==
    ASSUME LockTypes, LockInv, NEW c \in CPUS, NEW p \in Slots, Leave(c, p)
    PROVE  LockInv'
<1> USE DEF Switching, Waiting
<1>1. PlockInv'
  BY SlotFacts, SMTT(60) DEF LockTypes, LockInv, PlockInv, Leave
<1>2. RunInv'
  BY SlotFacts, SMTT(60) DEF LockTypes, LockInv, RunInv, Leave
<1>3. ParkedInv'
  BY SlotFacts, SMTT(60) DEF LockTypes, LockInv, ParkedInv, Leave
<1>4. WaitLockInv'
  BY Zenon DEF WaitLockInv, Leave
<1>5. ForkInv'
  <2>1. \A q \in Slots : InFork(q)' => InFork(q) /\ i'[q] = i[q]
    BY Zenon DEF Leave, InFork, In
  <2>2. \A q \in Slots : InFork(q) => i[q] \in Slots
    BY SMTT(60) DEF LockTypes, InFork, In
  <2> HIDE DEF Switching, Waiting
  <2> QED
    BY <2>1, <2>2, SMTT(60) DEF LockInv, ForkInv, Leave
<1> QED
  BY <1>1, <1>2, <1>3, <1>4, <1>5 DEF LockInv

(* The lock discipline survives the scheduler's steps, *)
LEMMA LockStepScheduler ==
    ASSUME TypeInv, LockInv,
           \E c \in CPUS : SchedulerStep(c)
    PROVE  LockInv'
<1>0. LockTypes
  BY LockTyped, Zenon
<1> USE SlotFacts, <1>0
<1> USE DEF LockTypes, States, Live, PcLabels, Preemptible, Switching, In, At, Goto, Free,
            slotvars, lockvars, cpuvars, localvars,
            LockInv, PlockInv, RunInv, ParkedInv, WaitLockInv, ForkInv, InFork, Waiting
<1>1. ASSUME NEW c \in CPUS, SchedulerRun(c) PROVE LockInv'
  BY <1>1, SMTT(60) DEF SchedulerRun
<1>2. ASSUME NEW c \in CPUS, SchedulerSkip(c) PROVE LockInv'
  BY <1>2, SMTT(60) DEF SchedulerSkip, Advance
<1>3. ASSUME NEW c \in CPUS, SchedulerBack(c) PROVE LockInv'
  BY <1>3, SMTT(60) DEF SchedulerBack, Advance
<1> HIDE DEF LockTypes, LockInv
<1> QED
  BY <1>1, <1>2, <1>3, Zenon DEF SchedulerStep

(* the steps of user code and of its traps, *)
LEMMA LockStepUser ==
    ASSUME TypeInv, LockInv,
           \E c \in CPUS, p \in Slots : UserStep(c, p) \/ TimerStep(c, p)
    PROVE  LockInv'
<1>0. LockTypes
  BY LockTyped, Zenon
<1> USE SlotFacts, <1>0
<1> USE DEF LockTypes, Switching, Waiting, In, At, Goto, Free, slotvars, lockvars, cpuvars, localvars
<1>4. ASSUME NEW c \in CPUS, NEW p \in Slots, TrapSyscall(c, p) PROVE LockInv'
  <2>1. Onward(c, p)
    BY <1>4, SMTT(60) DEF TrapSyscall, Calls, Onward, InFork
  <2> QED
    BY <2>1, OnwardStep, Zenon
<1>5. ASSUME NEW c \in CPUS, NEW p \in Slots, TrapKilled(c, p) PROVE LockInv'
  <2>1. Onward(c, p)
    BY <1>5, Zenon DEF TrapKilled, Move, Onward, InFork
  <2> QED
    BY <2>1, OnwardStep
<1>6. ASSUME NEW c \in CPUS, NEW p \in Slots, TrapFault(c, p) PROVE LockInv'
  <2>1. Onward(c, p)
    BY <1>6, Zenon DEF TrapFault, Onward, InFork
  <2> QED
    BY <2>1, OnwardStep
<1>7. ASSUME NEW c \in CPUS, NEW p \in Slots, TrapTimer(c, p) PROVE LockInv'
  <2>1. Onward(c, p)
    BY <1>7, Zenon DEF TrapTimer, Move, Onward, InFork
  <2> QED
    BY <2>1, OnwardStep
<1>9. ASSUME NEW c \in CPUS, NEW p \in Slots, KernelTimer(c, p) PROVE LockInv'
  <2>1. Onward(c, p)
    BY <1>9, Zenon DEF KernelTimer, Preemptible, Onward, InFork
  <2> QED
    BY <2>1, OnwardStep
<1> HIDE DEF LockTypes, LockInv
<1> QED
  BY <1>4, <1>5, <1>6, <1>7, <1>9, Zenon DEF UserStep, TimerStep

(* the hand-over of p->lock in sched(), sleep() and after swtch(), *)
LEMMA LockStepSwitch ==
    ASSUME TypeInv, LockInv,
           \E c \in CPUS, p \in Slots : SwitchStep(c, p)
    PROVE  LockInv'
<1>0. LockTypes
  BY LockTyped, Zenon
<1> USE SlotFacts, <1>0
<1> USE DEF LockTypes, Switching, Waiting, In, At, Goto, Free, slotvars, lockvars, cpuvars, localvars
<1>8. ASSUME NEW c \in CPUS, NEW p \in Slots, SyscallReturn(c, p) PROVE LockInv'
  <2>1. Onward(c, p)
    BY <1>8, Zenon DEF SyscallReturn, Move, Onward, InFork
  <2> QED
    BY <2>1, OnwardStep, Zenon
<1> USE DEF States, Live, Preemptible, PcLabels,
            LockInv, PlockInv, RunInv, ParkedInv, WaitLockInv, ForkInv, InFork
<1>10. ASSUME NEW c \in CPUS, NEW p \in Slots, Yield(c, p) PROVE LockInv'
  BY <1>10, SMTT(60) DEF Yield
<1>12. ASSUME NEW c \in CPUS, NEW p \in Slots, Sched(c, p) PROVE LockInv'
  <2>0. run[c] = p /\ pc[p] = "sched"
    BY <1>12, Zenon DEF Sched
  <2>1. run[c] = p /\ cur[c] = p /\ state[p] # "RUNNING" /\ pc[p] = "sched"
    BY <2>0, SMTT(60)
  <2>2. run'[c] = NULL /\ \A d \in CPUS \ {c} : run'[d] = run[d] /\ run[d] # p
    BY <1>12, SMTT(60) DEF Sched
  <2>3. pc'[p] = "resume" /\ \A r \in Slots \ {p} : pc'[r] = pc[r]
    BY <1>12, SMTT(60) DEF Sched
  <2>4. cur' = cur /\ state' = state /\ plock' = plock /\ wait_lock' = wait_lock
    BY <1>12, Zenon DEF Sched
  <2>5. PlockInv'
    BY <2>1, <2>2, <2>3, <2>4, SMTT(60)
  <2>6. RunInv'
    BY <1>12, SMTT(60) DEF Sched
  <2>7. ParkedInv'
    <3> SUFFICES ASSUME NEW r \in Slots, \A d \in CPUS : run'[d] # r
                 PROVE  pc'[r] = "resume" /\ state[r] # "RUNNING"
      BY <2>4, Zenon
    <3>1. CASE r = p
      BY <2>1, <2>3, <3>1, Zenon
    <3>2. CASE r # p
      <4>1. ASSUME NEW d \in CPUS PROVE run[d] # r
        <5>1. CASE d = c
          BY <2>1, <3>2, <5>1, Zenon
        <5>2. CASE d # c
          <6> run'[d] = run[d]
            BY <2>2, <5>2, Zenon
          <6> QED
            OBVIOUS
        <5> QED
          BY <5>1, <5>2, Zenon
      <4> QED
        BY <2>3, <3>2, <4>1, SMTT(60)
    <3> QED
      BY <3>1, <3>2, Zenon
  <2>8. WaitLockInv'
    BY <1>12, SMTT(60) DEF Sched
  <2>9. ForkInv'
    BY <1>12, SMTT(60) DEF Sched
  <2> QED
    BY <2>5, <2>6, <2>7, <2>8, <2>9, Zenon
<1>13. ASSUME NEW c \in CPUS, NEW p \in Slots, Resume(c, p) PROVE LockInv'
  <2>0. pc'[p] \in Preemptible \cup {"user"} /\ \A r \in Slots \ {p} : pc'[r] = pc[r]
    BY <1>13, SMTT(60) DEF Resume
  <2>1. PlockInv'
    BY <1>13, SMTT(60) DEF Resume
  <2>2. RunInv'
    BY <1>13, <2>0, SMTT(60) DEF Resume
  <2>3. ParkedInv'
    BY <1>13, SMTT(60) DEF Resume
  <2>4. WaitLockInv'
    BY <1>13, SMTT(60) DEF Resume
  <2>5. ForkInv'
    BY <1>13, SMTT(60) DEF Resume
  <2> QED
    BY <2>1, <2>2, <2>3, <2>4, <2>5
<1> HIDE DEF LockTypes, LockInv
<1> QED
  BY <1>8, <1>10, <1>12, <1>13, Zenon DEF SwitchStep

(* fork and kill, *)
LEMMA LockStepCall ==
    ASSUME TypeInv, LockInv,
           \E c \in CPUS, p \in Slots : CallStep(c, p)
    PROVE  LockInv'
<1>0. LockTypes
  BY LockTyped
<1> USE SlotFacts, <1>0
<1> USE DEF LockTypes, Switching, Waiting, In, At, Goto, Free, slotvars, lockvars, cpuvars, localvars
<1>14. ASSUME NEW c \in CPUS, NEW p \in Slots, AllocSkip(c, p) PROVE LockInv'
  <2>1. Onward(c, p)
    BY <1>14, Zenon DEF AllocSkip, ScanOn, Onward, InFork
  <2> QED
    BY <2>1, OnwardStep
<1>15. ASSUME NEW c \in CPUS, NEW p \in Slots, AllocFull(c, p) PROVE LockInv'
  <2>1. Onward(c, p)
    BY <1>15, Zenon DEF AllocFull, Fail, Return, Onward, InFork
  <2> QED
    BY <2>1, OnwardStep
<1>17. ASSUME NEW c \in CPUS, NEW p \in Slots, AllocFail(c, p) PROVE LockInv'
  <2>1. Onward(c, p)
    BY <1>17, Zenon DEF AllocFail, freeproc, Return, Onward, InFork
  <2> QED
    BY <2>1, OnwardStep
<1>18. ASSUME NEW c \in CPUS, NEW p \in Slots, ForkParent(c, p) PROVE LockInv'
  <2>1. Onward(c, p)
    BY <1>18, Zenon DEF ForkParent, Onward, InFork
  <2> QED
    BY <2>1, OnwardStep
<1>33. ASSUME NEW c \in CPUS, NEW p \in Slots, KillHit(c, p) PROVE LockInv'
  <2>1. Onward(c, p)
    BY <1>33, Zenon DEF KillHit, KillSlot, Return, Onward, InFork
  <2> QED
    BY <2>1, OnwardStep
<1>34. ASSUME NEW c \in CPUS, NEW p \in Slots, KillSkip(c, p) PROVE LockInv'
  <2>1. Onward(c, p)
    BY <1>34, Zenon DEF KillSkip, ScanOn, Onward, InFork
  <2> QED
    BY <2>1, OnwardStep
<1>35. ASSUME NEW c \in CPUS, NEW p \in Slots, KillMiss(c, p) PROVE LockInv'
  <2>1. Onward(c, p)
    BY <1>35, Zenon DEF KillMiss, Fail, Return, Onward, InFork
  <2> QED
    BY <2>1, OnwardStep
<1> USE DEF States, Live, Preemptible, PcLabels,
            LockInv, PlockInv, RunInv, ParkedInv, WaitLockInv, ForkInv, InFork
<1>16. ASSUME NEW c \in CPUS, NEW p \in Slots, AllocFound(c, p) PROVE LockInv'
  <2>0. i[p] \in Slots /\ p # i[p] /\ \A d \in CPUS : run[d] # i[p]
    BY <1>16, SMTT(60) DEF AllocFound
  <2>1. PlockInv'
    BY <1>16, SMTT(60) DEF AllocFound
  <2>2. RunInv'
    BY <1>16, SMTT(60) DEF AllocFound
  <2>3. ParkedInv'
    BY <1>16, SMTT(60) DEF AllocFound
  <2>6. /\ wait_lock' = wait_lock /\ run' = run /\ pc[p] \notin Waiting
        /\ \A r \in Slots \ {p, i[p]} : pc'[r] = pc[r]
    BY <1>16, <2>0, SMTT(60) DEF AllocFound
  <2>4. WaitLockInv'
    <3> SUFFICES ASSUME wait_lock # NULL
                 PROVE  run[wait_lock] # NULL /\ pc'[run[wait_lock]] \in Waiting
      BY <2>6, Zenon
    <3>1. wait_lock \in CPUS /\ run[wait_lock] \in Slots \ {p, i[p]}
      BY <2>0, <2>6, SMTT(60)
    <3>2. pc'[run[wait_lock]] = pc[run[wait_lock]]
      BY <2>6, <3>1, ZenonT(30)
    <3> QED
      BY <3>1, <3>2, Zenon
  <2>7. /\ state[i[p]] = "UNUSED" /\ state'[i[p]] = "USED"
        /\ \A r \in Slots \ {i[p]} : state'[r] = state[r]
        /\ pc'[i[p]] = "resume" /\ ret'[i[p]] = "user" /\ i' = i
        /\ \A r \in Slots \ {i[p]} : ret'[r] = ret[r]
    BY <1>16, <2>0, SMTT(60) DEF AllocFound
  <2>8. \A r \in Slots : InFork(r)' => r = p \/ (r # i[p] /\ InFork(r))
    BY <2>0, <2>6, <2>7, ZenonT(30)
  <2>9. \A r \in Slots : InFork(r) => i[r] \in Slots /\ i[r] # i[p]
    BY <2>7, SMTT(60)
  <2> HIDE DEF LockTypes, PlockInv, RunInv, ParkedInv, WaitLockInv, InFork
  <2>10. ASSUME NEW r \in Slots, InFork(r)' PROVE state'[i[r]] = "USED"
    <3>1. CASE r = p
      BY <2>7, <3>1, Zenon
    <3>2. CASE InFork(r)
      <4>1. state[i[r]] = "USED"
        BY <3>2, ZenonT(30)
      <4> QED
        BY <2>7, <2>9, <3>2, <4>1, ZenonT(30)
    <3> QED
      BY <2>8, <2>10, <3>1, <3>2, Zenon
  <2>11. \A r, t \in Slots : InFork(r)' /\ InFork(t)' /\ i'[r] = i'[t] => r = t
    BY <2>7, <2>8, <2>9, Zenon
  <2>5. ForkInv'
    BY <2>7, <2>10, <2>11, Zenon
  <2> QED
    BY <2>1, <2>2, <2>3, <2>4, <2>5, Zenon
<1>19. ASSUME NEW c \in CPUS, NEW p \in Slots, ForkRun(c, p) PROVE LockInv'
  BY <1>19, SMTT(60) DEF ForkRun, Return
<1>20. ASSUME NEW c \in CPUS, NEW p \in Slots, ExitLock(c, p) PROVE LockInv'
  BY <1>20, SMTT(60) DEF ExitLock
<1>27. ASSUME NEW c \in CPUS, NEW p \in Slots, WaitLock(c, p) PROVE LockInv'
  BY <1>27, SMTT(60) DEF WaitLock
<1> HIDE DEF LockTypes, LockInv
<1> QED
  BY <1>14, <1>15, <1>17, <1>18, <1>33, <1>34, <1>35, <1>16, <1>19, <1>20, <1>27, Zenon DEF CallStep

(* and exit() and wait(), which hold wait_lock across steps. *)
LEMMA LockStepWaitLock ==
    ASSUME TypeInv, LockInv,
           \E c \in CPUS, p \in Slots : WaitLockStep(c, p)
    PROVE  LockInv'
<1>0. LockTypes
  BY LockTyped
<1> USE SlotFacts, <1>0
<1> USE DEF LockTypes, Switching, Waiting, In, At, Goto, Free, slotvars, lockvars, cpuvars, localvars
<1>21. ASSUME NEW c \in CPUS, NEW p \in Slots, ReparentDone(c, p) PROVE LockInv'
  <2>1. Onward(c, p)
    BY <1>21, Zenon DEF ReparentDone, Move, Onward, InFork
  <2> QED
    BY <2>1, OnwardStep
<1>22. ASSUME NEW c \in CPUS, NEW p \in Slots, ReparentSkip(c, p) PROVE LockInv'
  <2>1. Onward(c, p)
    BY <1>22, Zenon DEF ReparentSkip, ScanOn, Onward, InFork
  <2> QED
    BY <2>1, OnwardStep
<1>23. ASSUME NEW c \in CPUS, NEW p \in Slots, ReparentChild(c, p) PROVE LockInv'
  <2>1. Onward(c, p)
    BY <1>23, Zenon DEF ReparentChild, Onward, InFork
  <2> QED
    BY <2>1, OnwardStep
<1>24. ASSUME NEW c \in CPUS, NEW p \in Slots, WakeInit(c, p) PROVE LockInv'
  <2>1. Onward(c, p)
    BY <1>24, SMTT(60) DEF WakeInit, WakeupStep, WakeupDone, Onward, InFork
  <2> QED
    BY <2>1, OnwardStep
<1>25. ASSUME NEW c \in CPUS, NEW p \in Slots, WakeParent(c, p) PROVE LockInv'
  <2>1. Onward(c, p)
    BY <1>25, SMTT(60) DEF WakeParent, WakeupStep, WakeupDone, Onward, InFork
  <2> QED
    BY <2>1, OnwardStep
<1>28. ASSUME NEW c \in CPUS, NEW p \in Slots, WaitSkip(c, p) PROVE LockInv'
  <2>1. Onward(c, p)
    BY <1>28, Zenon DEF WaitSkip, Onward, InFork
  <2> QED
    BY <2>1, OnwardStep
<1>32. ASSUME NEW c \in CPUS, NEW p \in Slots, WaitSleep(c, p) PROVE LockInv'
  <2>1. Onward(c, p)
    BY <1>32, Zenon DEF WaitSleep, Move, Onward, InFork
  <2> QED
    BY <2>1, OnwardStep
<1>29. ASSUME NEW c \in CPUS, NEW p \in Slots, WaitReap(c, p) PROVE LockInv'
  <2>1. Leave(c, p)
    BY <1>29, Zenon DEF WaitReap, ZombieChild, freeproc, WaitReturn, Return, Leave
  <2> QED
    BY <2>1, LeaveStep
<1>30. ASSUME NEW c \in CPUS, NEW p \in Slots, WaitCopyoutFail(c, p) PROVE LockInv'
  <2>1. Leave(c, p)
    BY <1>30, Zenon DEF WaitCopyoutFail, WaitReturn, Return, Leave
  <2> QED
    BY <2>1, LeaveStep
<1>31. ASSUME NEW c \in CPUS, NEW p \in Slots, WaitGiveUp(c, p) PROVE LockInv'
  <2>1. Leave(c, p)
    BY <1>31, Zenon DEF WaitGiveUp, WaitReturn, Return, Leave
  <2> QED
    BY <2>1, LeaveStep
<1> USE DEF States, Live, Preemptible, PcLabels,
            LockInv, PlockInv, RunInv, ParkedInv, WaitLockInv, ForkInv, InFork
<1>26. ASSUME NEW c \in CPUS, NEW p \in Slots, ExitZombie(c, p) PROVE LockInv'
  BY <1>26, SMTT(60) DEF ExitZombie
<1>11. ASSUME NEW c \in CPUS, NEW p \in Slots, Sleep(c, p) PROVE LockInv'
  BY <1>11, SMTT(60) DEF Sleep
<1> HIDE DEF LockTypes, LockInv
<1> QED
  BY <1>21, <1>22, <1>23, <1>24, <1>25, <1>28, <1>32, <1>29, <1>30, <1>31, <1>26, <1>11, Zenon DEF WaitLockStep

(* Locks, CPUs and the slots of fork: LockInv is inductive. *)
LEMMA LockStep == ASSUME TypeInv, LockInv, [Next]_vars PROVE LockInv'
<1>1. CASE UNCHANGED vars
  <2>1. UNCHANGED <<state, plock, wait_lock, run, cur, pc, ret, i>>
    BY <1>1, Zenon DEF vars, slotvars, lockvars, cpuvars, localvars
  <2>2. PlockInv' /\ RunInv'
    BY <2>1, SMTT(60) DEF LockInv, PlockInv, RunInv
  <2>3. ParkedInv' /\ WaitLockInv'
    BY <2>1, Zenon DEF LockInv, ParkedInv, WaitLockInv
  <2>4. ForkInv'
    BY <2>1, Zenon DEF LockInv, ForkInv, InFork, In
  <2> QED
    BY <2>2, <2>3, <2>4, Zenon DEF LockInv
<1> QED
  BY <1>1, LockStepScheduler, LockStepUser, LockStepSwitch, LockStepCall, LockStepWaitLock, Zenon DEF Next

----------------------------------------------------------------------------
(* What userinit() establishes. *)
LEMMA LockInit == Init => TypeInv /\ LockInv
<1> SUFFICES ASSUME Init PROVE TypeInv /\ LockInv
  BY Zenon
<1> USE SlotFacts DEF Init
<1>1. TypeInv
  BY SMTT(60) DEF TypeInv, TypeOK, States, Live, PcLabels, Preemptible, Switching, In
<1>2. LockInv
  BY Zenon DEF LockInv, PlockInv, RunInv, ParkedInv, WaitLockInv, ForkInv, InFork, In, Switching
<1> QED
  BY <1>1, <1>2, Zenon

(* TypeInv and LockInv together are an inductive invariant. *)
THEOREM LockInductive == Spec => [](TypeInv /\ LockInv)
<1>1. TypeInv /\ LockInv /\ [Next]_vars => (TypeInv /\ LockInv)'
  BY TypeStep, LockStep, Zenon
<1> QED
  BY LockInit, <1>1, PTL DEF Spec

(* The variables keep their types: no scan of scheduler(), allocproc(),    *)
(* reparent(), wakeup(), kwait() or kkill() leaves the table.              *)
THEOREM TypeCorrect == Spec => []TypeOK
<1>1. TypeInv => TypeOK
  BY Zenon DEF TypeInv
<1> QED
  BY LockInductive, <1>1, PTL

(* Whatever the number of CPUs, no two of them ever execute on one kernel  *)
(* stack, and wait() never frees a slot whose stack is in use.             *)
THEOREM StackSafety == Spec => []KernelStackExclusive
<1>1. TypeInv /\ LockInv => KernelStackExclusive
  <2> SUFFICES ASSUME TypeInv, LockInv, NEW c \in CPUS, run[c] # NULL
               PROVE  /\ state[run[c]] \notin {"UNUSED", "USED"}
                      /\ \A d \in CPUS : run[d] = run[c] => d = c
    BY Zenon DEF KernelStackExclusive
  <2>1. run[c] \in Slots
    BY Zenon DEF TypeInv, TypeOK
  <2> QED
    BY <2>1, SMTT(60) DEF LockInv, RunInv
<1> QED
  BY LockInductive, <1>1, PTL

(* The panics of sched() on its callers' locks and state cannot happen. *)
THEOREM SchedSafety == Spec => []SchedPrecondition
<1>1. TypeInv /\ LockInv => SchedPrecondition
  <2> SUFFICES ASSUME TypeInv, LockInv, NEW c \in CPUS, NEW p \in Slots, At(c, p, "sched")
               PROVE  /\ plock[p] = c
                      /\ state[p] # "RUNNING"
                      /\ wait_lock # c
                      /\ \A q \in Slots \ {p} : plock[q] # c
    BY Zenon DEF SchedPrecondition
  <2> USE SlotFacts DEF LockInv, At
  <2>1. plock[p] = c /\ state[p] # "RUNNING"
    BY SMTT(60) DEF RunInv, Switching
  <2>2. wait_lock # c
    BY Zenon DEF WaitLockInv, Waiting
  <2>3. \A q \in Slots \ {p} : plock[q] # c
    BY Zenon DEF PlockInv
  <2> QED
    BY <2>1, <2>2, <2>3, Zenon
<1> QED
  BY LockInductive, <1>1, PTL

(* scheduler() runs what it marks RUNNING, and nothing else is so marked. *)
THEOREM RunningSafety == Spec => []RunningHasCpu
<1>1. TypeInv /\ LockInv => RunningHasCpu
  BY SlotFacts DEF LockInv, RunInv, ParkedInv, RunningHasCpu, Free, Switching
<1> QED
  BY LockInductive, <1>1, PTL

----------------------------------------------------------------------------
(* The tree of processes and the wakeups of wait(). *)

(* A process forked before or after its parent is recorded has one. *)
ParentInv ==
    \A p \in Slots :
        /\ state[p] \in {"UNUSED", "USED", "ZOMBIE"} => ret[p] = "user"
        /\ In(p, {"forkrun"}) => parent[i[p]] = p
        /\ state[p] = "UNUSED" => parent[p] = NULL
        /\ parent[p] # NULL => state[parent[p]] \in Live
        /\ p # Init0 /\ state[p] \in Live \cup {"ZOMBIE"} => parent[p] # NULL

(* What reparent() has achieved so far. *)
ReparentInv ==
    \A p, q \in Slots :
        /\ pc[p] \in {"reparent", "wakeinit"} /\ q < i[p] => parent[q] # p
        /\ pc[p] = "wakeinit" /\ q = i[p] => parent[q] # p
        /\ pc[p] \in {"wakeparent", "zombie"} => parent[q] # p

InitInv ==
    /\ state[Init0] \in Live
    /\ pc[Init0] \notin {"reparent", "wakeinit", "wakeparent", "zombie"}

TreeInv == ParentInv /\ ReparentInv /\ InitInv

ZombieOf(q, p) == parent[q] = p /\ state[q] = "ZOMBIE"

(* A sleeper is in wait(), on its own address; wakeup() starts at slot 0. *)
ChanInv ==
    \A p \in Slots :
        /\ state[p] = "SLEEPING" => chan[p] = p
        /\ pc[p] \notin {"wakeinit", "wakeparent"} => j[p] = 0

(* What wait()'s scan of the children has established so far, *)
WaitScanInv ==
    \A p, q \in Slots :
        /\ pc[p] = "waitscan" /\ q < i[p] => ~ZombieOf(q, p)
        /\ pc[p] = "sleep" => ~ZombieOf(q, p)

(* and what exit()'s wakeup() of the parent has. *)
WakeScanInv ==
    \A p \in Slots :
        /\ pc[p] = "wakeparent" /\ j[p] > parent[p] => state[parent[p]] # "SLEEPING"
        /\ pc[p] = "zombie" => state[parent[p]] # "SLEEPING"

(* Only init can be asleep with an exited child, and only while reparent() *)
(* has not yet woken it.                                                   *)
WakeInv ==
    \A p, q \in Slots : state[p] = "SLEEPING" /\ ZombieOf(q, p) =>
        p = Init0 /\ \E e \in Slots : pc[e] = "wakeinit" /\ j[e] = 0

SleepInv == ChanInv /\ WaitScanInv /\ WakeScanInv /\ WakeInv

(* Where the position of a thread matters to SleepInv. *)
Sensitive == {"wakeinit", "wakeparent", "zombie", "waitscan", "sleep"}

(* A step that SleepInv does not notice: nobody exits, falls asleep or     *)
(* makes progress in wait() or in the wakeups of exit().                   *)
Quiet ==
    /\ j' = j
    /\ \A r \in Slots :
        /\ state'[r] = "SLEEPING" => state[r] = "SLEEPING" /\ chan'[r] = chan[r]
        /\ state'[r] = "ZOMBIE" => state[r] = "ZOMBIE" /\ parent'[r] = parent[r]
        /\ pc'[r] \in Sensitive \/ pc[r] \in {"wakeinit", "wakeparent"} =>
               pc'[r] = pc[r] /\ i'[r] = i[r] /\ parent'[r] = parent[r]

(* The steps that are not quiet. *)
Loud(c, p) ==
    \/ Sleep(c, p) \/ WaitLock(c, p) \/ WaitSkip(c, p) \/ WaitSleep(c, p)
    \/ ReparentDone(c, p) \/ ReparentChild(c, p)
    \/ WakeInit(c, p) \/ WakeParent(c, p) \/ ExitZombie(c, p)

----------------------------------------------------------------------------
(* Slots are numbers. *)
LEMMA Below == \A x, y \in Slots : (x < y + 1 => x < y \/ x = y) /\ ~(0 > x)
BY ProcAssumption, SMTT(60) DEF Slots

(* Where exit() hands over its children and dies. *)
Ending == {"reparent", "wakeinit", "wakeparent", "zombie"}

(* A step that does not concern the parent pointers. *)
Aside ==
    /\ parent' = parent
    /\ \A q \in Slots : state'[q] = state[q] \/ (state[q] \in Live /\ state'[q] \in Live)
    /\ \A q \in Slots : ret'[q] = ret[q] \/ state'[q] \in Live
    /\ \A q \in Slots : In(q, {"forkrun"})' => In(q, {"forkrun"}) /\ i'[q] = i[q]
    /\ \A q \in Slots : pc'[q] \in Ending => pc'[q] = pc[q] /\ i'[q] = i[q]

(* A step aside from the parent pointers keeps TreeInv. *)
LEMMA AsideStep ==
    ASSUME TypeInv, TreeInv, Aside PROVE TreeInv'
<1>0. LockTypes /\ parent \in [Slots -> Slots \cup {NULL}]
  BY LockTyped, Zenon DEF TypeInv, TypeOK
<1>1. ParentInv'
  <2> SUFFICES ASSUME NEW p \in Slots
               PROVE  /\ state'[p] \in {"UNUSED", "USED", "ZOMBIE"} => ret'[p] = "user"
                      /\ In(p, {"forkrun"})' => parent[i'[p]] = p
                      /\ state'[p] = "UNUSED" => parent[p] = NULL
                      /\ parent[p] # NULL => state'[parent[p]] \in Live
                      /\ p # Init0 /\ state'[p] \in Live \cup {"ZOMBIE"} => parent[p] # NULL
    BY ZenonT(30) DEF ParentInv, Aside
  <2>1. state'[p] \in {"UNUSED", "USED", "ZOMBIE"} => ret'[p] = "user"
    BY SMTT(60) DEF TreeInv, ParentInv, Aside, Live
  <2>2. In(p, {"forkrun"})' => parent[i'[p]] = p
    <3>1. In(p, {"forkrun"})' => In(p, {"forkrun"}) /\ i'[p] = i[p]
      BY Zenon DEF Aside
    <3>2. In(p, {"forkrun"}) => parent[i[p]] = p
      BY Zenon DEF TreeInv, ParentInv
    <3> QED
      BY <3>1, <3>2, Zenon
  <2>3. state'[p] = "UNUSED" => parent[p] = NULL
    BY SMTT(60) DEF TreeInv, ParentInv, Aside, Live
  <2>4. parent[p] # NULL => state'[parent[p]] \in Live
    <3>1. parent[p] # NULL => parent[p] \in Slots /\ state[parent[p]] \in Live
      BY <1>0 DEF TreeInv, ParentInv
    <3>2. \A q \in Slots : state[q] \in Live => state'[q] \in Live
      BY Zenon DEF Aside
    <3> QED
      BY <3>1, <3>2, Zenon
  <2>5. p # Init0 /\ state'[p] \in Live \cup {"ZOMBIE"} => parent[p] # NULL
    BY Zenon DEF TreeInv, ParentInv, Aside, Live
  <2> QED
    BY <2>1, <2>2, <2>3, <2>4, <2>5, Zenon
<1>2. ReparentInv'
  <2> SUFFICES ASSUME NEW p \in Slots, NEW q \in Slots, pc'[p] \in Ending
               PROVE  /\ pc'[p] \in {"reparent", "wakeinit"} /\ q < i'[p] => parent[q] # p
                      /\ pc'[p] = "wakeinit" /\ q = i'[p] => parent[q] # p
                      /\ pc'[p] \in {"wakeparent", "zombie"} => parent[q] # p
    BY ZenonT(30) DEF ReparentInv, Aside, Ending
  <2>1. pc'[p] = pc[p] /\ i'[p] = i[p]
    BY Zenon DEF Aside
  <2> QED
    BY <2>1, ZenonT(30) DEF TreeInv, ReparentInv
<1>3. InitInv'
  BY <1>0, SlotFacts, Zenon DEF TreeInv, InitInv, Aside, Ending, Live
<1> QED
  BY <1>1, <1>2, <1>3, Zenon DEF TreeInv

(* A process in the kernel, not about to leave its CPU, is RUNNING. *)
LEMMA InKernelRunning ==
    ASSUME LockInv
    PROVE  \A c \in CPUS, p \in Slots : run[c] = p /\ pc[p] # "sched" => state[p] = "RUNNING"
BY Zenon DEF LockInv, RunInv

(* The scheduler and the traps leave the tree alone, *)
LEMMA SwitchAside ==
    ASSUME TypeInv, LockInv, NEW c \in CPUS, NEW p \in Slots,
           \/ SchedulerRun(c) \/ SchedulerSkip(c) \/ SchedulerBack(c) \/ TrapSyscall(c, p)
           \/ TrapKilled(c, p) \/ TrapFault(c, p) \/ TrapTimer(c, p) \/ KernelTimer(c, p)
           \/ SyscallReturn(c, p) \/ Yield(c, p) \/ Sched(c, p) \/ Resume(c, p)
    PROVE  Aside
<1>0. LockTypes /\ parent \in [Slots -> Slots \cup {NULL}]
  BY LockTyped, Zenon DEF TypeInv, TypeOK
<1> USE SlotFacts, <1>0, InKernelRunning
<1> USE DEF LockTypes, Switching, In, At, Goto, slotvars, lockvars, cpuvars, localvars
<1> USE DEF Aside, Ending, Live
<1>1. CASE SchedulerRun(c)
  BY <1>1, Zenon DEF SchedulerRun
<1>2. CASE SchedulerSkip(c)
  BY <1>2, Zenon DEF SchedulerSkip
<1>3. CASE SchedulerBack(c)
  BY <1>3, Zenon DEF SchedulerBack
<1>4. CASE TrapSyscall(c, p)
  BY <1>4, SMTT(60) DEF TrapSyscall, Calls
<1>5. CASE TrapKilled(c, p)
  BY <1>5, Zenon DEF TrapKilled, Move
<1>6. CASE TrapFault(c, p)
  BY <1>6, Zenon DEF TrapFault
<1>7. CASE TrapTimer(c, p)
  BY <1>7, Zenon DEF TrapTimer, Move
<1>9. CASE KernelTimer(c, p)
  BY <1>9, Zenon DEF KernelTimer, Preemptible
<1>8. CASE SyscallReturn(c, p)
  BY <1>8, Zenon DEF SyscallReturn, Move
<1>10. CASE Yield(c, p)
  BY <1>10, Zenon DEF Yield
<1>12. CASE Sched(c, p)
  BY <1>12, Zenon DEF Sched
<1>13. CASE Resume(c, p)
  BY <1>13, Zenon DEF Resume, Preemptible
<1> HIDE DEF Aside
<1> QED
  BY <1>1, <1>2, <1>3, <1>4, <1>5, <1>6, <1>7, <1>9, <1>8, <1>10, <1>12, <1>13, Zenon

(* and so do the failing and waiting steps of system calls. *)
LEMMA CallAside ==
    ASSUME TypeInv, LockInv, NEW c \in CPUS, NEW p \in Slots,
           \/ AllocSkip(c, p) \/ AllocFull(c, p) \/ KillHit(c, p) \/ KillSkip(c, p)
           \/ KillMiss(c, p) \/ WaitLock(c, p) \/ WaitSkip(c, p) \/ WaitCopyoutFail(c, p)
           \/ WaitGiveUp(c, p) \/ WaitSleep(c, p) \/ Sleep(c, p)
    PROVE  Aside
<1>0. LockTypes /\ parent \in [Slots -> Slots \cup {NULL}]
  BY LockTyped, Zenon DEF TypeInv, TypeOK
<1> USE SlotFacts, <1>0, InKernelRunning
<1> USE DEF LockTypes, Switching, In, At, Goto, slotvars, lockvars, cpuvars, localvars
<1> USE DEF Aside, Ending, Live
<1>14. CASE AllocSkip(c, p)
  BY <1>14, Zenon DEF AllocSkip, ScanOn
<1>15. CASE AllocFull(c, p)
  BY <1>15, Zenon DEF AllocFull, Fail, Return
<1>33. CASE KillHit(c, p)
  BY <1>33, Zenon DEF KillHit, KillSlot, Return
<1>34. CASE KillSkip(c, p)
  BY <1>34, Zenon DEF KillSkip, ScanOn
<1>35. CASE KillMiss(c, p)
  BY <1>35, Zenon DEF KillMiss, Fail, Return
<1>27. CASE WaitLock(c, p)
  BY <1>27, Zenon DEF WaitLock
<1>28. CASE WaitSkip(c, p)
  BY <1>28, Zenon DEF WaitSkip
<1>30. CASE WaitCopyoutFail(c, p)
  BY <1>30, Zenon DEF WaitCopyoutFail, WaitReturn, Return
<1>31. CASE WaitGiveUp(c, p)
  BY <1>31, ZenonT(30) DEF WaitGiveUp, WaitReturn, Return
<1>32. CASE WaitSleep(c, p)
  BY <1>32, ZenonT(30) DEF WaitSleep, Move
<1>11. CASE Sleep(c, p)
  BY <1>11, SMTT(60) DEF Sleep
<1> HIDE DEF Aside
<1> QED
  BY <1>14, <1>15, <1>33, <1>34, <1>35, <1>27, <1>28, <1>30, <1>31, <1>32, <1>11, Zenon

(* Only the process that holds wait_lock is inside exit() or wait(). *)
LEMMA Holder ==
    ASSUME TypeInv, LockInv, NEW p \in Slots, pc[p] \in Waiting
    PROVE  /\ state[p] = "RUNNING" /\ wait_lock \in CPUS /\ run[wait_lock] = p
           /\ \A q \in Slots : pc[q] \in Waiting => q = p
BY SlotFacts, SMTT(60) DEF TypeInv, TypeOK, LockInv, RunInv, ParkedInv, Waiting, Switching

(* A slot that is free or being filled has no thread running. *)
LEMMA FreeIsParked ==
    ASSUME TypeInv, LockInv, NEW r \in Slots, state[r] \in {"UNUSED", "USED"}
    PROVE  pc[r] = "resume" /\ \A c \in CPUS : run[c] # r
BY SlotFacts, ZenonT(30) DEF TypeInv, TypeOK, LockInv, RunInv, ParkedInv

(* kfork()'s slot is reserved while it is filled. *)
LEMMA ForkSlotUsed ==
    ASSUME TypeInv, LockInv, NEW p \in Slots, pc[p] \in {"forkparent", "forkrun"}
    PROVE  i[p] \in Slots /\ state[i[p]] = "USED"
BY Zenon DEF TypeInv, LockInv, ForkInv, InFork, In

(* kfork() works on a slot of the table. *)
LEMMA ForkSlot == ASSUME TypeInv, NEW p \in Slots, InFork(p) PROVE i[p] \in Slots
BY ZenonT(30) DEF TypeInv, InFork, In

(* Two forks in progress fill two different slots. *)
LEMMA ForkApart ==
    ASSUME TypeInv, LockInv, NEW p \in Slots, NEW q \in Slots, i[p] = i[q],
           InFork(p), InFork(q)
    PROVE  p = q
BY SlotFacts, Zenon DEF TypeInv, TypeOK, LockInv, ForkInv, RunInv, PlockInv

(* The parent pointers: TreeInv is inductive given LockInv. *)
LEMMA TreeStep == ASSUME TypeInv, LockInv, TreeInv, [Next]_vars PROVE TreeInv'
<1>0. LockTypes /\ parent \in [Slots -> Slots \cup {NULL}]
  BY LockTyped, Zenon DEF TypeInv, TypeOK
<1> USE SlotFacts, <1>0, InKernelRunning
<1> USE DEF LockTypes, Switching, In, At, Goto, slotvars, lockvars, cpuvars, localvars
<1>wI. ASSUME NEW c \in CPUS, NEW p \in Slots, WakeInit(c, p), WakeupStep(p, Init0) PROVE TreeInv'
  <2>1. Aside
    BY <1>wI, Zenon DEF WakeInit, WakeupStep, Aside, Ending, Live
  <2> QED
    BY <2>1, AsideStep, Zenon
<1>wP. ASSUME NEW c \in CPUS, NEW p \in Slots, WakeParent(c, p), WakeupStep(p, parent[p]) PROVE TreeInv'
  <2>1. Aside
    BY <1>wP, Zenon DEF WakeParent, WakeupStep, Aside, Ending, Live
  <2> QED
    BY <2>1, AsideStep
<1> USE Holder, FreeIsParked, ForkSlotUsed
<1> USE DEF Live, Waiting, TreeInv, ParentInv, ReparentInv, InitInv
<1>16. ASSUME NEW c \in CPUS, NEW p \in Slots, AllocFound(c, p) PROVE TreeInv'
  BY <1>16, SMTT(60) DEF AllocFound
<1>17. ASSUME NEW c \in CPUS, NEW p \in Slots, AllocFail(c, p) PROVE TreeInv'
  BY <1>17, SMTT(60) DEF AllocFail, Return, freeproc
<1>18. ASSUME NEW c \in CPUS, NEW p \in Slots, ForkParent(c, p) PROVE TreeInv'
  <2>1. \A r \in Slots : pc[r] \notin Waiting
    BY <1>18, Zenon DEF ForkParent
  <2>2. /\ pc[p] = "forkparent" /\ pc'[p] = "forkrun" /\ state[p] = "RUNNING"
        /\ \A r \in Slots \ {p} : pc'[r] = pc[r]
        /\ UNCHANGED <<state, i, ret>>
    BY <1>18, SMTT(60) DEF ForkParent
  <2>3. i[p] \in Slots /\ state[i[p]] = "USED"
    BY <2>2, Zenon
  <2>4. parent'[i[p]] = p /\ \A r \in Slots \ {i[p]} : parent'[r] = parent[r]
    BY <1>18, <2>3, SMTT(60) DEF ForkParent
  <2>5. InFork(p) /\ \A r \in Slots : In(r, {"forkrun"}) => InFork(r)
    BY <2>2, Zenon DEF InFork
  <2> HIDE Holder, FreeIsParked, ForkSlotUsed, InKernelRunning
  <2> HIDE DEF TypeInv, LockInv, LockTypes
  <2>6. \A r \in Slots \ {p} : In(r, {"forkrun"})' => In(r, {"forkrun"})
    BY <2>2, SMTT(60)
  <2> HIDE DEF In
  <2>7. \A r \in Slots \ {p} : In(r, {"forkrun"}) => i[r] # i[p] /\ i[r] \in Slots
    <3> HIDE DEF TreeInv, InFork
    <3> QED
      BY <2>5, ForkApart, ForkSlot, ZenonT(30)
  <2>8. \A r \in Slots : In(r, {"forkrun"})' => parent'[i[r]] = r
    <3> SUFFICES ASSUME NEW r \in Slots, In(r, {"forkrun"})'
                 PROVE  parent'[i[r]] = r
      BY Zenon
    <3>1. CASE r = p
      BY <3>1, <2>4, Zenon
    <3>2. CASE r # p
      <4>1. In(r, {"forkrun"}) /\ parent[i[r]] = r
        BY <3>2, <2>6, Zenon
      <4>2. i[r] \in Slots \ {i[p]}
        BY <3>2, <4>1, <2>7, ZenonT(30)
      <4> QED
        BY <4>1, <4>2, <2>4, ZenonT(30)
    <3> QED
      BY <3>1, <3>2, Zenon
  <2>9. ParentInv'
    BY <2>2, <2>3, <2>4, <2>8, SMTT(60)
  <2> QED
    BY <2>1, <2>2, <2>9, SMTT(60)
<1>19. ASSUME NEW c \in CPUS, NEW p \in Slots, ForkRun(c, p) PROVE TreeInv'
  BY <1>19, SMTT(60) DEF ForkRun, Return
<1>20. ASSUME NEW c \in CPUS, NEW p \in Slots, ExitLock(c, p) PROVE TreeInv'
  BY <1>20, SMTT(60) DEF ExitLock
<1>21. ASSUME NEW c \in CPUS, NEW p \in Slots, ReparentDone(c, p) PROVE TreeInv'
  BY <1>21, SMTT(60) DEF ReparentDone, Move
<1>22. ASSUME NEW c \in CPUS, NEW p \in Slots, ReparentSkip(c, p) PROVE TreeInv'
  <2>1. pc[p] = "reparent" /\ i[p] \in Slots /\ parent[i[p]] # p
    BY <1>22, SMTT(60) DEF ReparentSkip
  <2>2. i'[p] = i[p] + 1 /\ \A r \in Slots \ {p} : i'[r] = i[r]
    BY <1>22, SMTT(60) DEF ReparentSkip, ScanOn
  <2>3. UNCHANGED <<state, pc, ret, parent>>
    BY <1>22, Zenon DEF ReparentSkip, ScanOn
  <2>4. \A q \in Slots : q < i[p] + 1 => q < i[p] \/ q = i[p]
    BY <2>1, Below, Zenon
  <2> HIDE DEF TypeInv, LockInv
  <2>a. \A r \in Slots : In(r, {"forkrun"})' => In(r, {"forkrun"}) /\ r # p
    BY <2>1, <2>3, Zenon
  <2>5. ParentInv' /\ InitInv'
    <3> HIDE Holder, FreeIsParked, ForkSlotUsed, InKernelRunning
    <3> HIDE DEF In, LockTypes
    <3> QED
      BY <2>a, <2>2, <2>3, SMTT(60)
  <2>6. ReparentInv'
    <3> SUFFICES ASSUME NEW r \in Slots, NEW q \in Slots
                 PROVE  /\ pc[r] \in {"reparent", "wakeinit"} /\ q < i'[r] => parent[q] # r
                        /\ pc[r] = "wakeinit" /\ q = i'[r] => parent[q] # r
                        /\ pc[r] \in {"wakeparent", "zombie"} => parent[q] # r
      BY <2>3, SMTT(60)
    <3>1. CASE r = p
      BY <2>1, <2>2, <2>4, <3>1, SMTT(60)
    <3>2. CASE r # p
      BY <2>2, <3>2, SMTT(60)
    <3> QED
      BY <3>1, <3>2, Zenon
  <2> QED
    BY <2>5, <2>6, Zenon
<1>23. ASSUME NEW c \in CPUS, NEW p \in Slots, ReparentChild(c, p) PROVE TreeInv'
  BY <1>23, SMTT(60) DEF ReparentChild
<1>24. ASSUME NEW c \in CPUS, NEW p \in Slots, WakeInit(c, p) PROVE TreeInv'
  <2>1. CASE WakeupStep(p, Init0)
    BY <1>24, <2>1, <1>wI, Zenon
  <2>2. CASE WakeupDone(p, "reparent", i[p] + 1)
    <3>1. ParentInv'
      BY <1>24, <2>2, SMTT(60) DEF WakeInit, WakeupDone
    <3>2. ReparentInv'
      <4>1. \A q \in Slots : q < i[p] + 1 => q < i[p] \/ q = i[p]
        <5>1. i[p] \in Slots
          BY <1>24, Zenon DEF WakeInit
        <5> QED
          BY <5>1, Below, Zenon
      <4>2. /\ pc[p] = "wakeinit" /\ pc'[p] = "reparent" /\ i'[p] = i[p] + 1
            /\ \A r \in Slots \ {p} : pc'[r] = pc[r] /\ i'[r] = i[r]
            /\ parent' = parent
        BY <1>24, <2>2, SMTT(60) DEF WakeInit, WakeupDone
      <4> QED
        BY <4>1, <4>2, SMTT(60)
    <3>3. InitInv'
      BY <1>24, <2>2, Zenon DEF WakeInit, WakeupDone
    <3> QED
      BY <3>1, <3>2, <3>3, Zenon
  <2> HIDE DEF LockTypes, LockInv, TreeInv, At
  <2> QED
    BY <1>24, <2>1, <2>2, Zenon DEF WakeInit
<1>25. ASSUME NEW c \in CPUS, NEW p \in Slots, WakeParent(c, p) PROVE TreeInv'
  <2>1. CASE WakeupStep(p, parent[p])
    BY <1>25, <2>1, <1>wP, Zenon
  <2>2. CASE WakeupDone(p, "zombie", 0)
    <3>1. ParentInv'
      BY <1>25, <2>2, SMTT(60) DEF WakeParent, WakeupDone
    <3>2. ReparentInv'
      BY <1>25, <2>2, SMTT(60) DEF WakeParent, WakeupDone
    <3>3. InitInv'
      BY <1>25, <2>2, Zenon DEF WakeParent, WakeupDone
    <3> QED
      BY <3>1, <3>2, <3>3, SMTT(30)
  <2> HIDE DEF LockTypes, LockInv, TreeInv, At
  <2> QED
    BY <1>25, <2>1, <2>2, Zenon DEF WakeParent
<1>26. ASSUME NEW c \in CPUS, NEW p \in Slots, ExitZombie(c, p) PROVE TreeInv'
  BY <1>26, SMTT(60) DEF ExitZombie
<1>29. ASSUME NEW c \in CPUS, NEW p \in Slots, WaitReap(c, p) PROVE TreeInv'
  BY <1>29, SMTT(60) DEF WaitReap, ZombieChild, freeproc, WaitReturn, Return
<1>36. CASE UNCHANGED vars
  <2>1. Aside
    BY <1>36, Zenon DEF vars, Aside, Ending
  <2> QED
    BY <2>1, AsideStep, Zenon
<1> HIDE DEF LockTypes, LockInv, TreeInv, At
<1>37. ASSUME Aside PROVE TreeInv'
  BY <1>37, AsideStep, Zenon
<1> QED
  BY <1>16, <1>17, <1>18, <1>19, <1>20, <1>21, <1>22, <1>23, <1>24, <1>25, <1>26, <1>29, <1>36, <1>37, SwitchAside, CallAside
  DEF Next, SchedulerStep, CallStep, WaitLockStep, SwitchStep, TimerStep, UserStep

----------------------------------------------------------------------------
(* A process that exits has a parent, which is not itself. *)
LEMMA ExitingHasParent ==
    ASSUME TypeInv, LockInv, TreeInv, NEW p \in Slots,
           pc[p] \in {"reparent", "wakeinit", "wakeparent", "zombie"}
    PROVE  /\ parent[p] \in Slots
           /\ pc[p] \in {"wakeparent", "zombie"} => parent[p] # p
BY SlotFacts, Holder, SMTT(60) DEF TypeInv, TypeOK, TreeInv, ParentInv, ReparentInv, InitInv, Waiting, Live

(* SleepInv survives a quiet step. *)
LEMMA QuietStep ==
    ASSUME TypeInv, LockInv, TreeInv, SleepInv, Quiet PROVE SleepInv'
<1> USE DEF SleepInv, Quiet, Sensitive
<1>1. ChanInv'
  BY ZenonT(30) DEF ChanInv
<1>2. WaitScanInv'
  BY DEF WaitScanInv, ZombieOf
<1>3. WakeScanInv'
  BY ExitingHasParent, SMTT(60) DEF WakeScanInv
<1>4. WakeInv'
  BY DEF WakeInv, ZombieOf
<1> QED
  BY <1>1, <1>2, <1>3, <1>4, Zenon

(* Every other step is quiet. *)
LEMMA QuietOrLoud ==
    ASSUME TypeInv, LockInv, [Next]_vars
    PROVE  Quiet \/ \E c \in CPUS, p \in Slots : Loud(c, p)
<1> USE SlotFacts
<1> USE DEF TypeInv, TypeOK, States, Live, PcLabels, Preemptible, Switching, In, At, Goto, Free,
            slotvars, lockvars, cpuvars, localvars, Quiet, Sensitive, Waiting
<1>1. ASSUME NEW c \in CPUS, SchedulerRun(c) PROVE Quiet
  BY <1>1, Zenon DEF SchedulerRun
<1>2. ASSUME NEW c \in CPUS, SchedulerSkip(c) PROVE Quiet
  BY <1>2, Zenon DEF SchedulerSkip, Advance
<1>3. ASSUME NEW c \in CPUS, SchedulerBack(c) PROVE Quiet
  BY <1>3, Zenon DEF SchedulerBack, Advance
<1>4. ASSUME NEW c \in CPUS, NEW p \in Slots, TrapSyscall(c, p) PROVE Quiet
  BY <1>4, SMTT(60) DEF TrapSyscall, Calls
<1>5. ASSUME NEW c \in CPUS, NEW p \in Slots, TrapKilled(c, p) PROVE Quiet
  BY <1>5, SMTT(60) DEF TrapKilled, Move
<1>6. ASSUME NEW c \in CPUS, NEW p \in Slots, TrapFault(c, p) PROVE Quiet
  BY <1>6, SMTT(60) DEF TrapFault
<1>7. ASSUME NEW c \in CPUS, NEW p \in Slots, TrapTimer(c, p) PROVE Quiet
  BY <1>7, SMTT(60) DEF TrapTimer, Move
<1>8. ASSUME NEW c \in CPUS, NEW p \in Slots, SyscallReturn(c, p) PROVE Quiet
  BY <1>8, SMTT(60) DEF SyscallReturn, Move
<1>9. ASSUME NEW c \in CPUS, NEW p \in Slots, KernelTimer(c, p) PROVE Quiet
  BY <1>9, Zenon DEF KernelTimer
<1>10. ASSUME NEW c \in CPUS, NEW p \in Slots, Yield(c, p) PROVE Quiet
  BY <1>10, SMTT(60) DEF Yield
<1>11. ASSUME NEW c \in CPUS, NEW p \in Slots, Sched(c, p) PROVE Quiet
  BY <1>11, Zenon DEF Sched
<1>12. ASSUME NEW c \in CPUS, NEW p \in Slots, Resume(c, p) PROVE Quiet
  <2>1. state[p] = "RUNNING" /\ \A r \in Slots \ {p} : chan'[r] = chan[r]
    BY <1>12, InKernelRunning, SMTT(60) DEF Resume
  <2>2. /\ pc[p] = "resume" /\ pc'[p] \in Preemptible \cup {"user"}
        /\ \A r \in Slots \ {p} : pc'[r] = pc[r]
    BY <1>12, Zenon DEF Resume
  <2>3. UNCHANGED <<state, parent, i, j>>
    BY <1>12, Zenon DEF Resume
  <2> QED
    BY <2>1, <2>2, <2>3, Zenon
<1>13. ASSUME NEW c \in CPUS, NEW p \in Slots, AllocSkip(c, p) PROVE Quiet
  BY <1>13, Zenon DEF AllocSkip, ScanOn
<1>14. ASSUME NEW c \in CPUS, NEW p \in Slots, AllocFull(c, p) PROVE Quiet
  BY <1>14, SMTT(60) DEF AllocFull, Fail, Return
<1>15. ASSUME NEW c \in CPUS, NEW p \in Slots, AllocFound(c, p) PROVE Quiet
  BY <1>15, FreeIsParked, ZenonT(30) DEF AllocFound
<1>16. ASSUME NEW c \in CPUS, NEW p \in Slots, AllocFail(c, p) PROVE Quiet
  BY <1>16, FreeIsParked, SMTT(60) DEF AllocFail, Return, freeproc
<1>17. ASSUME NEW c \in CPUS, NEW p \in Slots, ForkParent(c, p) PROVE Quiet
  BY <1>17, ForkSlotUsed, FreeIsParked, SMTT(60) DEF ForkParent
<1>18. ASSUME NEW c \in CPUS, NEW p \in Slots, ForkRun(c, p) PROVE Quiet
  <2>1. i[p] \in Slots /\ state[i[p]] = "USED"
    BY <1>18, ForkSlotUsed, Zenon DEF ForkRun
  <2>2. state'[i[p]] = "RUNNABLE" /\ \A r \in Slots \ {i[p]} : state'[r] = state[r]
    BY <1>18, <2>1, Zenon DEF ForkRun
  <2>3. pc'[p] = "sysret" /\ pc[p] = "forkrun" /\ \A r \in Slots \ {p} : pc'[r] = pc[r] /\ i'[r] = i[r]
    BY <1>18, SMTT(60) DEF ForkRun, Return
  <2> QED
    BY <1>18, <2>1, <2>2, <2>3, ZenonT(30) DEF ForkRun
<1>19. ASSUME NEW c \in CPUS, NEW p \in Slots, ExitLock(c, p) PROVE Quiet
  BY <1>19, ZenonT(30) DEF ExitLock
<1>20. ASSUME NEW c \in CPUS, NEW p \in Slots, ReparentSkip(c, p) PROVE Quiet
  BY <1>20, Zenon DEF ReparentSkip, ScanOn
<1>21. ASSUME NEW c \in CPUS, NEW p \in Slots, WaitReap(c, p) PROVE Quiet
  BY <1>21, Holder, SMTT(60) DEF WaitReap, ZombieChild, freeproc, WaitReturn, Return
<1>22. ASSUME NEW c \in CPUS, NEW p \in Slots, WaitCopyoutFail(c, p) PROVE Quiet
  BY <1>22, Zenon DEF WaitCopyoutFail, ZombieChild, WaitReturn, Return
<1>23. ASSUME NEW c \in CPUS, NEW p \in Slots, WaitGiveUp(c, p) PROVE Quiet
  BY <1>23, ZenonT(30) DEF WaitGiveUp, WaitReturn, Return
<1>24. ASSUME NEW c \in CPUS, NEW p \in Slots, KillHit(c, p) PROVE Quiet
  BY <1>24, ZenonT(30) DEF KillHit, KillSlot, Return
<1>25. ASSUME NEW c \in CPUS, NEW p \in Slots, KillSkip(c, p) PROVE Quiet
  BY <1>25, Zenon DEF KillSkip, ScanOn
<1>26. ASSUME NEW c \in CPUS, NEW p \in Slots, KillMiss(c, p) PROVE Quiet
  BY <1>26, ZenonT(30) DEF KillMiss, Fail, Return
<1>27. CASE UNCHANGED vars
  BY <1>27, Zenon DEF vars
<1> HIDE DEF Quiet, TypeInv
<1>28. ASSUME NEW c \in CPUS, SchedulerStep(c) PROVE Quiet
  BY <1>28, <1>1, <1>2, <1>3, Zenon DEF SchedulerStep
<1>29. ASSUME NEW c \in CPUS, NEW p \in Slots,
             \/ CallStep(c, p) \/ WaitLockStep(c, p) \/ SwitchStep(c, p)
             \/ TimerStep(c, p) \/ UserStep(c, p)
      PROVE  Quiet \/ Loud(c, p)
  BY <1>29, <1>4, <1>5, <1>6, <1>7, <1>8, <1>9, <1>10, <1>11, <1>12, <1>13, <1>14, <1>15, <1>16, <1>17, <1>18, <1>19, <1>20, <1>21, <1>22, <1>23, <1>24, <1>25, <1>26, Zenon
  DEF CallStep, WaitLockStep, SwitchStep, TimerStep, UserStep, Loud
<1> QED
  BY <1>27, <1>28, <1>29, Zenon DEF Next

(* The wakeups of wait() are not lost: SleepInv is inductive. *)
LEMMA SleepStep ==
    ASSUME TypeInv, LockInv, TreeInv, SleepInv, [Next]_vars PROVE SleepInv'
<1> USE SlotFacts DEF At, Goto, Free, slotvars, lockvars, cpuvars, localvars
<1>t. TypeOK
  BY Zenon DEF TypeInv
<1>1. ASSUME NEW c \in CPUS, NEW p \in Slots, Sleep(c, p) PROVE SleepInv'
  <2>1. \A q \in Slots \ {p} : pc[q] \notin Waiting
    BY <1>1, Holder, Zenon DEF Sleep, Waiting
  <2>2. pc[p] = "sleep" /\ pc'[p] = "sched" /\ \A r \in Slots \ {p} : pc'[r] = pc[r]
    BY <1>1, <1>t, Zenon DEF Sleep, TypeOK
  <2>3. /\ state'[p] = "SLEEPING" /\ \A r \in Slots \ {p} : state'[r] = state[r]
        /\ chan'[p] = p /\ \A r \in Slots \ {p} : chan'[r] = chan[r]
    BY <1>1, <1>t, Zenon DEF Sleep, TypeOK
  <2>4. UNCHANGED <<parent, i, j>>
    BY <1>1, Zenon DEF Sleep
  <2>5. ChanInv'
    BY <2>1, <2>2, <2>3, <2>4, Zenon DEF SleepInv, ChanInv, Waiting
  <2>6. WaitScanInv'
    BY <2>1, <2>2, <2>3, <2>4, SMTT(60) DEF SleepInv, WaitScanInv, ZombieOf, Waiting
  <2>7. WakeScanInv'
    BY <2>1, <2>2, <2>3, <2>4 DEF SleepInv, WakeScanInv, Waiting
  <2>8. WakeInv'
    <3> SUFFICES ASSUME NEW r \in Slots, NEW q \in Slots,
                        state'[r] = "SLEEPING", parent[q] = r, state'[q] = "ZOMBIE"
                 PROVE  FALSE
      BY <2>4, Zenon DEF WakeInv, ZombieOf
    <3>1. state[q] = "ZOMBIE"
      BY <2>3, Zenon
    <3>2. CASE r = p
      BY <2>2, <3>1, <3>2, Zenon DEF SleepInv, WaitScanInv, ZombieOf
    <3>3. CASE r # p
      BY <2>1, <2>2, <2>3, <3>1, <3>3, Zenon DEF SleepInv, WakeInv, ZombieOf, Waiting
    <3> QED
      BY <3>2, <3>3, Zenon
  <2> QED
    BY <2>5, <2>6, <2>7, <2>8, Zenon DEF SleepInv
<1>2. ASSUME NEW c \in CPUS, NEW p \in Slots, WaitLock(c, p) PROVE SleepInv'
  <2>1. \A q \in Slots : pc[q] \notin Waiting
    BY <1>2, Holder, Zenon DEF WaitLock, Waiting
  <2>2. pc'[p] = "waitscan" /\ pc[p] = "wait" /\ \A r \in Slots \ {p} : pc'[r] = pc[r]
    BY <1>2, <1>t, Zenon DEF WaitLock, TypeOK
  <2>3. i'[p] = 0 /\ \A q \in Slots : ~(q < 0)
    BY <1>2, <1>t, SMTT(60) DEF WaitLock, TypeOK
  <2>4. UNCHANGED <<state, chan, parent, j>>
    BY <1>2, Zenon DEF WaitLock
  <2>5. ChanInv'
    BY <2>1, <2>2, <2>3, <2>4, Zenon DEF SleepInv, ChanInv, Waiting
  <2>6. WaitScanInv'
    BY <2>1, <2>2, <2>3, <2>4, Zenon DEF SleepInv, WaitScanInv, ZombieOf, Waiting
  <2>7. WakeScanInv'
    BY <2>1, <2>2, <2>3, <2>4, Zenon DEF SleepInv, WakeScanInv, Waiting
  <2>8. WakeInv'
    BY <2>1, <2>2, <2>3, <2>4, Zenon DEF SleepInv, WakeInv, ZombieOf, Waiting
  <2> QED
    BY <2>5, <2>6, <2>7, <2>8 DEF SleepInv
<1>3. ASSUME NEW c \in CPUS, NEW p \in Slots, WaitSkip(c, p) PROVE SleepInv'
  <2>1. i[p] \in Slots /\ ~ZombieOf(i[p], p) /\ pc[p] = "waitscan"
    BY <1>3, <1>t, Zenon DEF WaitSkip, TypeOK, ZombieOf
  <2>2. i'[p] = i[p] + 1 /\ \A r \in Slots \ {p} : i'[r] = i[r]
    BY <1>3, <1>t, Zenon DEF WaitSkip, TypeOK
  <2>3. UNCHANGED <<state, chan, parent, pc, j>>
    BY <1>3, Zenon DEF WaitSkip
  <2>4. \A q \in Slots : q < i[p] + 1 => q < i[p] \/ q = i[p]
    BY <2>1, Below, ZenonT(30)
  <2>5. ChanInv'
    BY <2>3, Zenon DEF SleepInv, ChanInv
  <2>6. WaitScanInv'
    <3> SUFFICES ASSUME NEW r \in Slots, NEW q \in Slots
                 PROVE  /\ pc[r] = "waitscan" /\ q < i'[r] => ~ZombieOf(q, r)
                        /\ pc[r] = "sleep" => ~ZombieOf(q, r)
      BY <2>3, Zenon DEF WaitScanInv, ZombieOf
    <3>1. CASE r = p
      BY <2>1, <2>2, <2>4, <3>1, Zenon DEF SleepInv, WaitScanInv
    <3>2. CASE r # p
      BY <2>2, <3>2, Zenon DEF SleepInv, WaitScanInv
    <3> QED
      BY <3>1, <3>2, Zenon
  <2>7. WakeScanInv'
    BY <2>3, Zenon DEF SleepInv, WakeScanInv
  <2>8. WakeInv'
    BY <2>3, Zenon DEF SleepInv, WakeInv, ZombieOf
  <2> QED
    BY <2>5, <2>6, <2>7, <2>8 DEF SleepInv
<1>4. ASSUME NEW c \in CPUS, NEW p \in Slots, WaitSleep(c, p) PROVE SleepInv'
  <2>1. pc[p] = "waitscan" /\ \A q \in Slots : q < i[p]
    BY <1>4, Zenon DEF WaitSleep
  <2>2. pc'[p] = "sleep" /\ \A r \in Slots \ {p} : pc'[r] = pc[r]
    BY <1>4, <1>t, Zenon DEF WaitSleep, Move, TypeOK
  <2>3. UNCHANGED <<state, chan, parent, i, j>>
    BY <1>4, Zenon DEF WaitSleep, Move
  <2>4. ChanInv'
    BY <2>1, <2>2, <2>3, Zenon DEF SleepInv, ChanInv
  <2>5. WaitScanInv'
    BY <2>1, <2>2, <2>3, Zenon DEF SleepInv, WaitScanInv, ZombieOf
  <2>6. WakeScanInv'
    BY <2>1, <2>2, <2>3, Zenon DEF SleepInv, WakeScanInv
  <2>7. WakeInv'
    BY <2>1, <2>2, <2>3, Zenon DEF SleepInv, WakeInv, ZombieOf
  <2> QED
    BY <2>4, <2>5, <2>6, <2>7 DEF SleepInv
<1>5. ASSUME NEW c \in CPUS, NEW p \in Slots, ReparentDone(c, p) PROVE SleepInv'
  <2>1. pc[p] = "reparent" /\ parent[p] \in Slots
    BY <1>5, ExitingHasParent, Zenon DEF ReparentDone
  <2>2. j[p] = 0 /\ ~(j[p] > parent[p])
    BY <2>1, Below, ZenonT(30) DEF SleepInv, ChanInv
  <2>3. pc'[p] = "wakeparent" /\ \A r \in Slots \ {p} : pc'[r] = pc[r]
    BY <1>5, <1>t, Zenon DEF ReparentDone, Move, TypeOK
  <2>4. UNCHANGED <<state, chan, parent, i, j>>
    BY <1>5, Zenon DEF ReparentDone, Move
  <2>5. ChanInv'
    BY <2>1, <2>2, <2>3, <2>4, Zenon DEF SleepInv, ChanInv
  <2>6. WaitScanInv'
    BY <2>1, <2>2, <2>3, <2>4, Zenon DEF SleepInv, WaitScanInv, ZombieOf
  <2>7. WakeScanInv'
    BY <2>1, <2>2, <2>3, <2>4, Zenon DEF SleepInv, WakeScanInv
  <2>8. WakeInv'
    BY <2>1, <2>2, <2>3, <2>4, Zenon DEF SleepInv, WakeInv, ZombieOf
  <2> QED
    BY <2>5, <2>6, <2>7, <2>8 DEF SleepInv
<1>6. ASSUME NEW c \in CPUS, NEW p \in Slots, ReparentChild(c, p) PROVE SleepInv'
  <2>1. \A q \in Slots \ {p} : pc[q] \notin Waiting
    BY <1>6, Holder, Zenon DEF ReparentChild, Waiting
  <2>2. pc[p] = "reparent" /\ pc'[p] = "wakeinit" /\ \A r \in Slots \ {p} : pc'[r] = pc[r]
    BY <1>6, <1>t, Zenon DEF ReparentChild, TypeOK
  <2>3. j[p] = 0
    BY <2>2, Zenon DEF SleepInv, ChanInv
  <2>4. UNCHANGED <<state, chan, i, j>>
    BY <1>6, Zenon DEF ReparentChild
  <2>5. \A q \in Slots : parent'[q] = parent[q] \/ parent'[q] = Init0
    BY <1>6, <1>t, Zenon DEF ReparentChild, TypeOK
  <2>6. ChanInv'
    BY <2>1, <2>2, <2>3, <2>4, Zenon DEF SleepInv, ChanInv, Waiting
  <2>7. WaitScanInv'
    BY <2>1, <2>2, <2>3, <2>4, Zenon DEF SleepInv, WaitScanInv, ZombieOf, Waiting
  <2>8. WakeScanInv'
    BY <2>1, <2>2, <2>3, <2>4, SMTT(60) DEF SleepInv, WakeScanInv, Waiting
  <2>9. WakeInv'
    <3> SUFFICES ASSUME NEW r \in Slots, NEW q \in Slots,
                        state[r] = "SLEEPING", parent'[q] = r, state[q] = "ZOMBIE"
                 PROVE  r = Init0
      BY <2>2, <2>3, <2>4, Zenon DEF WakeInv, ZombieOf
    <3> QED
      BY <2>1, <2>2, <2>5, Zenon DEF SleepInv, WakeInv, ZombieOf, Waiting
  <2> QED
    BY <2>6, <2>7, <2>8, <2>9 DEF SleepInv
<1>7. ASSUME NEW c \in CPUS, NEW p \in Slots, WakeInit(c, p) PROVE SleepInv'
  <2>1. pc[p] = "wakeinit" /\ p # Init0 /\ \A q \in Slots \ {p} : pc[q] \notin Waiting
    BY <1>7, Holder, Zenon DEF WakeInit, TreeInv, InitInv, Waiting
  <2>2. CASE WakeupStep(p, Init0)
    <3>1. j[p] \in Slots /\ j'[p] = j[p] + 1 /\ \A r \in Slots \ {p} : j'[r] = j[r]
      BY <2>2, <1>t, Zenon DEF WakeupStep, TypeOK
    <3>2. \A r \in Slots : state'[r] = state[r] \/ (state[r] = "SLEEPING" /\ state'[r] = "RUNNABLE")
      BY <2>2, <1>t, Zenon DEF WakeupStep, TypeOK
    <3>3. j[p] = Init0 => state'[Init0] # "SLEEPING"
      BY <2>1, <2>2, <1>t, Zenon DEF WakeupStep, TypeOK, SleepInv, ChanInv
    <3>4. UNCHANGED <<chan, parent, pc, i>>
      BY <2>2, Zenon DEF WakeupStep
    <3>5. ChanInv'
      BY <2>1, <3>1, <3>2, <3>4, SMTT(60) DEF SleepInv, ChanInv, Waiting
    <3>6. WaitScanInv'
      BY <2>1, <3>1, <3>2, <3>4, Zenon DEF SleepInv, WaitScanInv, ZombieOf, Waiting
    <3>7. WakeScanInv'
      BY <2>1, <3>1, <3>2, <3>4, Zenon DEF SleepInv, WakeScanInv, Waiting
    <3>8. WakeInv'
      <4> SUFFICES ASSUME NEW r \in Slots, NEW q \in Slots,
                          state'[r] = "SLEEPING", parent[q] = r, state'[q] = "ZOMBIE"
                   PROVE  FALSE
        BY <3>4, Zenon DEF WakeInv, ZombieOf
      <4>1. state[r] = "SLEEPING" /\ state[q] = "ZOMBIE"
        BY <3>2, Zenon
      <4>2. r = Init0 /\ j[p] = 0
        BY <2>1, <4>1, Zenon DEF SleepInv, WakeInv, ZombieOf, Waiting
      <4> QED
        BY <3>3, <4>2, Zenon
    <3> QED
      BY <3>5, <3>6, <3>7, <3>8 DEF SleepInv
  <2>3. CASE WakeupDone(p, "reparent", i[p] + 1)
    <3>1. j[p] # 0 /\ j'[p] = 0 /\ \A r \in Slots \ {p} : j'[r] = j[r]
      BY <2>3, <1>t, SMTT(60) DEF WakeupDone, TypeOK
    <3>2. pc'[p] = "reparent" /\ \A r \in Slots \ {p} : pc'[r] = pc[r]
      BY <2>3, <1>t, Zenon DEF WakeupDone, TypeOK
    <3>3. UNCHANGED <<state, chan, parent>>
      BY <2>3, Zenon DEF WakeupDone
    <3>4. ChanInv'
      BY <2>1, <3>1, <3>2, <3>3, Zenon DEF SleepInv, ChanInv, Waiting
    <3>5. WaitScanInv'
      BY <2>1, <3>1, <3>2, <3>3, SMTT(60) DEF SleepInv, WaitScanInv, ZombieOf, Waiting
    <3>6. WakeScanInv'
      BY <2>1, <3>1, <3>2, <3>3, Zenon DEF SleepInv, WakeScanInv, Waiting
    <3>7. WakeInv'
      BY <2>1, <3>1, <3>2, <3>3, Zenon DEF SleepInv, WakeInv, ZombieOf, Waiting
    <3> QED
      BY <3>4, <3>5, <3>6, <3>7 DEF SleepInv
  <2> QED
    BY <1>7, <2>2, <2>3, Zenon DEF WakeInit
<1>8. ASSUME NEW c \in CPUS, NEW p \in Slots, WakeParent(c, p) PROVE SleepInv'
  <2>1. /\ pc[p] = "wakeparent" /\ parent[p] \in Slots /\ parent[p] # p
        /\ \A q \in Slots \ {p} : pc[q] \notin Waiting
    BY <1>8, Holder, ExitingHasParent, Zenon DEF WakeParent, Waiting
  <2>2. CASE WakeupStep(p, parent[p])
    <3>1. j[p] \in Slots /\ j'[p] = j[p] + 1 /\ \A r \in Slots \ {p} : j'[r] = j[r]
      BY <2>2, <1>t, Zenon DEF WakeupStep, TypeOK
    <3>2. \A r \in Slots : state'[r] = state[r] \/ (state[r] = "SLEEPING" /\ state'[r] = "RUNNABLE")
      BY <2>2, <1>t, Zenon DEF WakeupStep, TypeOK
    <3>3. j[p] = parent[p] => state'[parent[p]] # "SLEEPING"
      BY <2>1, <2>2, <1>t, Zenon DEF WakeupStep, TypeOK, SleepInv, ChanInv
    <3>4. UNCHANGED <<chan, parent, pc, i>>
      BY <2>2, ZenonT(30) DEF WakeupStep
    <3>5. parent[p] < j[p] + 1 => parent[p] < j[p] \/ parent[p] = j[p]
      BY <2>1, <3>1, Below, ZenonT(30)
    <3>6. parent[p] < j[p] => state[parent[p]] # "SLEEPING"
      BY <2>1, <3>1, Zenon DEF SleepInv, WakeScanInv
    <3>7. parent[p] < j[p] => state'[parent[p]] # "SLEEPING"
      BY <2>1, <3>2, <3>6, ZenonT(30)
    <3>8. j'[p] > parent[p] => state'[parent[p]] # "SLEEPING"
      BY <2>1, <3>1, <3>3, <3>5, <3>7, Zenon
    <3>9. ChanInv'
      BY <2>1, <3>1, <3>2, <3>4, <3>8 DEF SleepInv, ChanInv, Waiting
    <3>10. WaitScanInv'
      BY <2>1, <3>1, <3>2, <3>4, <3>8, Zenon DEF SleepInv, WaitScanInv, ZombieOf, Waiting
    <3>11. WakeScanInv'
      BY <2>1, <3>1, <3>2, <3>4, <3>8, Zenon DEF SleepInv, WakeScanInv, Waiting
    <3>12. WakeInv'
      <4> SUFFICES ASSUME NEW r \in Slots, NEW q \in Slots,
                          state'[r] = "SLEEPING", parent[q] = r, state'[q] = "ZOMBIE"
                   PROVE  FALSE
        BY <3>4 DEF WakeInv, ZombieOf
      <4>1. state[r] = "SLEEPING" /\ state[q] = "ZOMBIE"
        BY <3>2
      <4> QED
        BY <2>1, <4>1, Zenon DEF SleepInv, WakeInv, ZombieOf, Waiting
    <3> QED
      BY <3>9, <3>10, <3>11, <3>12 DEF SleepInv
  <2>3. CASE WakeupDone(p, "zombie", 0)
    <3>1. j[p] > parent[p] /\ j'[p] = 0 /\ \A r \in Slots \ {p} : j'[r] = j[r]
      BY <2>1, <2>3, <1>t, ZenonT(30) DEF WakeupDone, TypeOK
    <3>2. pc'[p] = "zombie" /\ \A r \in Slots \ {p} : pc'[r] = pc[r]
      BY <2>3, <1>t, Zenon DEF WakeupDone, TypeOK
    <3>3. UNCHANGED <<state, chan, parent>>
      BY <2>3, Zenon DEF WakeupDone
    <3>4. ChanInv'
      BY <2>1, <3>1, <3>2, <3>3, Zenon DEF SleepInv, ChanInv, Waiting
    <3>5. WaitScanInv'
      BY <2>1, <3>1, <3>2, <3>3, SMTT(60) DEF SleepInv, WaitScanInv, ZombieOf, Waiting
    <3>6. WakeScanInv'
      BY <2>1, <3>1, <3>2, <3>3, Zenon DEF SleepInv, WakeScanInv, Waiting
    <3>7. WakeInv'
      BY <2>1, <3>1, <3>2, <3>3, Zenon DEF SleepInv, WakeInv, ZombieOf, Waiting
    <3> QED
      BY <3>4, <3>5, <3>6, <3>7 DEF SleepInv
  <2> QED
    BY <1>8, <2>2, <2>3, Zenon DEF WakeParent
<1>9. ASSUME NEW c \in CPUS, NEW p \in Slots, ExitZombie(c, p) PROVE SleepInv'
  <2>1. /\ pc[p] = "zombie" /\ state[p] = "RUNNING" /\ parent[p] \in Slots
        /\ \A q \in Slots \ {p} : pc[q] \notin Waiting
    BY <1>9, Holder, ExitingHasParent, Zenon DEF ExitZombie, Waiting
  <2>2. pc'[p] = "sched" /\ \A r \in Slots \ {p} : pc'[r] = pc[r]
    BY <1>9, <1>t, Zenon DEF ExitZombie, TypeOK
  <2>3. state'[p] = "ZOMBIE" /\ \A r \in Slots \ {p} : state'[r] = state[r]
    BY <1>9, <1>t, Zenon DEF ExitZombie, TypeOK
  <2>4. UNCHANGED <<chan, parent, i, j>>
    BY <1>9, Zenon DEF ExitZombie
  <2>5. ChanInv'
    BY <2>1, <2>2, <2>3, <2>4, Zenon DEF SleepInv, ChanInv, Waiting
  <2>6. WaitScanInv'
    BY <2>1, <2>2, <2>3, <2>4, Zenon DEF SleepInv, WaitScanInv, ZombieOf, Waiting
  <2>7. WakeScanInv'
    BY <2>1, <2>2, <2>3, <2>4, Zenon DEF SleepInv, WakeScanInv, Waiting
  <2>8. WakeInv'
    <3> SUFFICES ASSUME NEW r \in Slots, NEW q \in Slots,
                        state'[r] = "SLEEPING", parent[q] = r, state'[q] = "ZOMBIE"
                 PROVE  FALSE
      BY <2>4, Zenon DEF WakeInv, ZombieOf
    <3>1. state[r] = "SLEEPING"
      BY <2>3, Zenon
    <3>2. q # p
      BY <2>1, <3>1, Zenon DEF SleepInv, WakeScanInv
    <3> QED
      BY <2>1, <2>3, <3>1, <3>2, Zenon DEF SleepInv, WakeInv, ZombieOf, Waiting
  <2> QED
    BY <2>5, <2>6, <2>7, <2>8 DEF SleepInv
<1>10. CASE Quiet
  BY <1>10, QuietStep, Zenon
<1> QED
  BY QuietOrLoud, <1>1, <1>2, <1>3, <1>4, <1>5, <1>6, <1>7, <1>8, <1>9, <1>10, Zenon DEF Loud

----------------------------------------------------------------------------
(* What userinit() establishes. *)
LEMMA TreeInit == Init => TreeInv /\ SleepInv
<1> SUFFICES ASSUME Init PROVE TreeInv /\ SleepInv
  BY Zenon
<1> USE SlotFacts DEF Init
<1>1. TreeInv
  BY Zenon DEF TreeInv, ParentInv, ReparentInv, InitInv, In, Live
<1>2. SleepInv
  BY Zenon DEF SleepInv, ChanInv, WaitScanInv, WakeScanInv, WakeInv
<1> QED
  BY <1>1, <1>2, Zenon

(* TreeInv and SleepInv are invariants of the process table. *)
THEOREM TreeInductive == Spec => [](TreeInv /\ SleepInv)
<1>1. TypeInv /\ LockInv /\ TreeInv /\ SleepInv /\ [Next]_vars => (TreeInv /\ SleepInv)'
  BY TreeStep, SleepStep, Zenon
<1> QED
  BY LockInductive, TreeInit, <1>1, PTL DEF Spec

(* reparent() is complete: no process is ever left without a live parent,  *)
(* however its exit interleaves with the forks and waits of others.        *)
THEOREM ParentSafety == Spec => []ParentAlive
<1>1. TypeInv /\ LockInv /\ TreeInv /\ SleepInv => ParentAlive
  BY Zenon DEF TreeInv, ParentInv, ParentAlive
<1> QED
  BY LockInductive, TreeInductive, <1>1, PTL

(* wait() loses no wakeup: sleep() takes p->lock before it drops wait_lock *)
(* and exit() becomes a zombie before it drops wait_lock.                  *)
THEOREM NoLostWakeup == Spec => []SleeperHasNoZombie
<1>1. TypeInv /\ LockInv /\ TreeInv /\ SleepInv => SleeperHasNoZombie
  <2> SUFFICES ASSUME TypeInv, LockInv, SleepInv, wait_lock = NULL, NEW p \in Slots, NEW q \in Slots,
                      state[p] = "SLEEPING", parent[q] = p, state[q] = "ZOMBIE"
               PROVE  FALSE
    BY Zenon DEF SleeperHasNoZombie
  <2>1. PICK e \in Slots : pc[e] = "wakeinit"
    BY Zenon DEF SleepInv, WakeInv, ZombieOf
  <2> QED
    BY <2>1, Holder, SlotFacts, Zenon DEF Waiting
<1> QED
  BY LockInductive, TreeInductive, <1>1, PTL

----------------------------------------------------------------------------
(* Proc implements ProcTree. *)

Unborn == {"UNUSED", "USED"}

(* The status of a slot in state s whose thread is at l, *)
StatusAt(s, l) ==
    IF s \in Unborn THEN "free"
    ELSE IF s = "ZOMBIE" THEN "zombie"
    ELSE IF l \in Ending THEN "exiting" ELSE "live"

(* and the parent it has in the tree if the table says x. *)
ParentAt(s, x) == IF s \in Unborn THEN NULL ELSE x

(* A step that cannot be seen in the tree. *)
Unseen ==
    \A q \in Slots :
        /\ StatusAt(state'[q], pc'[q]) = StatusAt(state[q], pc[q])
        /\ ParentAt(state'[q], parent'[q]) = ParentAt(state[q], parent[q])

----------------------------------------------------------------------------
LEMMA Mapped ==
    ASSUME state \in [Slots -> States]
    PROVE  /\ TreeStatus = [q \in Slots |-> StatusAt(state[q], pc[q])]
           /\ TreeParent = [q \in Slots |-> ParentAt(state[q], parent[q])]
<1>1. ASSUME NEW q \in Slots PROVE TreeStatus[q] = StatusAt(state[q], pc[q])
  BY Zenon DEF TreeStatus, StatusAt, Exiting, Ending, Unborn, States, Live
<1> QED
  BY <1>1, Zenon DEF TreeStatus, TreeParent, ParentAt, Unborn

LEMMA MappedNext ==
    ASSUME state' \in [Slots -> States]
    PROVE  /\ TreeStatus' = [q \in Slots |-> StatusAt(state'[q], pc'[q])]
           /\ TreeParent' = [q \in Slots |-> ParentAt(state'[q], parent'[q])]
<1>1. ASSUME NEW q \in Slots PROVE TreeStatus'[q] = StatusAt(state'[q], pc'[q])
  BY Zenon DEF TreeStatus, StatusAt, Exiting, Ending, Unborn, States, Live
<1> QED
  BY <1>1, Zenon DEF TreeStatus, TreeParent, ParentAt, Unborn

LEMMA UnseenStutters ==
    ASSUME TypeInv, TypeInv', Unseen PROVE UNCHANGED <<TreeStatus, TreeParent>>
<1>1. state \in [Slots -> States] /\ state' \in [Slots -> States]
  BY Zenon DEF TypeInv, TypeOK
<1> QED
  BY <1>1, Mapped, MappedNext, Zenon DEF Unseen

----------------------------------------------------------------------------
(* Steps aside from the parent pointers are not seen, unless a process     *)
(* stops to exit, which none of them does.                                 *)
LEMMA AsideUnseen ==
    ASSUME TypeInv, Aside, \A q \in Slots : pc[q] \in Ending => pc'[q] \in Ending \/ state[q] \notin Live
    PROVE  Unseen
BY DEF TypeInv, TypeOK, States, Aside, Unseen, StatusAt, ParentAt, Unborn, Live

(* The steps that SwitchAside and CallAside are about. *)
LEMMA OthersUnseen ==
    ASSUME TypeInv, LockInv, NEW c \in CPUS, NEW p \in Slots,
           \/ SchedulerStep(c) \/ SwitchStep(c, p) \/ TimerStep(c, p) \/ UserStep(c, p)
           \/ AllocSkip(c, p) \/ AllocFull(c, p) \/ KillHit(c, p) \/ KillSkip(c, p)
           \/ KillMiss(c, p) \/ WaitLock(c, p) \/ WaitSkip(c, p) \/ WaitCopyoutFail(c, p)
           \/ WaitGiveUp(c, p) \/ WaitSleep(c, p) \/ Sleep(c, p)
    PROVE  Unseen
<1>1. Aside
  BY SwitchAside, CallAside, Zenon DEF SchedulerStep, SwitchStep, TimerStep, UserStep
<1>2. \A q \in Slots : pc[q] \in Ending => pc'[q] = pc[q]
  <2> USE DEF TypeInv, TypeOK, Ending, At, Goto, slotvars, lockvars, cpuvars, localvars
  <2>1. CASE SchedulerStep(c)
    BY <2>1, ZenonT(30) DEF SchedulerStep, SchedulerRun, SchedulerSkip, SchedulerBack
  <2>2. CASE SwitchStep(c, p)
    BY <2>2, ZenonT(30) DEF SwitchStep, SyscallReturn, Yield, Sched, Resume, Move
  <2>3. CASE TimerStep(c, p) \/ UserStep(c, p)
    BY <2>3, Zenon DEF TimerStep, UserStep, TrapTimer, KernelTimer, TrapSyscall, TrapKilled, TrapFault, Move,
                Preemptible
  <2>4. CASE AllocSkip(c, p) \/ AllocFull(c, p) \/ KillHit(c, p) \/ KillSkip(c, p) \/ KillMiss(c, p)
    BY <2>4, Zenon DEF AllocSkip, AllocFull, KillHit, KillSkip, KillMiss, ScanOn, Fail, Return
  <2>5. CASE WaitLock(c, p) \/ WaitSkip(c, p) \/ WaitCopyoutFail(c, p) \/ WaitGiveUp(c, p)
    BY <2>5, ZenonT(30) DEF WaitLock, WaitSkip, WaitCopyoutFail, WaitGiveUp, WaitReturn, Return
  <2>6. CASE WaitSleep(c, p) \/ Sleep(c, p)
    BY <2>6 DEF WaitSleep, Sleep, Move
  <2> QED
    BY <2>1, <2>2, <2>3, <2>4, <2>5, <2>6, Zenon
<1> QED
  BY <1>1, <1>2, AsideUnseen, Zenon

(* One slot of a wakeup() scan: at most a sleeper becomes runnable. *)
LEMMA WakeupUnseen ==
    ASSUME TypeInv, NEW p \in Slots, NEW ch, WakeupStep(p, ch)
    PROVE  Unseen
<1>1. pc' = pc /\ parent' = parent
  BY Zenon DEF WakeupStep
<1>2. \A q \in Slots : state'[q] = state[q] \/ (state[q] = "SLEEPING" /\ state'[q] = "RUNNABLE")
  BY Zenon DEF WakeupStep, TypeInv, TypeOK
<1> QED
  BY <1>1, <1>2, Zenon DEF Unseen, StatusAt, ParentAt, Unborn

(* fork() before the child runs, and the scans of exit(). *)
LEMMA ScansUnseen ==
    ASSUME TypeInv, LockInv, NEW c \in CPUS, NEW p \in Slots,
           \/ AllocFound(c, p) \/ AllocFail(c, p) \/ ForkParent(c, p)
           \/ ReparentDone(c, p) \/ ReparentSkip(c, p) \/ WakeInit(c, p) \/ WakeParent(c, p)
    PROVE  Unseen
<1> USE DEF TypeInv, TypeOK, At, Goto, slotvars, lockvars, cpuvars, localvars
<1> USE DEF Unseen, StatusAt, ParentAt, Unborn, Ending
<1>1. CASE AllocFound(c, p)
  <2>1. i[p] \in Slots /\ state[i[p]] = "UNUSED" /\ i[p] # p /\ state[p] = "RUNNING"
    BY <1>1, InKernelRunning, Zenon DEF AllocFound, In
  <2> QED
    BY <1>1, <2>1, Zenon DEF AllocFound
<1>2. CASE AllocFail(c, p)
  BY <1>2, Zenon DEF AllocFail, freeproc, Return, In
<1>3. CASE ForkParent(c, p)
  BY <1>3, ForkSlotUsed DEF ForkParent
<1>4. CASE ReparentDone(c, p) \/ ReparentSkip(c, p)
  BY <1>4, Zenon DEF ReparentDone, ReparentSkip, Move, ScanOn
<1>5. CASE WakeInit(c, p)
  <2>1. CASE WakeupStep(p, Init0)
    BY <2>1, WakeupUnseen, Zenon
  <2>2. CASE WakeupDone(p, "reparent", i[p] + 1)
    BY <1>5, <2>2, Zenon DEF WakeInit, WakeupDone
  <2> QED
    BY <1>5, <2>1, <2>2, Zenon DEF WakeInit
<1>6. CASE WakeParent(c, p)
  <2>1. CASE WakeupStep(p, parent[p])
    BY <2>1, WakeupUnseen, Zenon
  <2>2. CASE WakeupDone(p, "zombie", 0)
    BY <1>6, <2>2, Zenon DEF WakeParent, WakeupDone
  <2> QED
    BY <1>6, <2>1, <2>2, Zenon DEF WakeParent
<1> HIDE DEF Unseen
<1> QED
  BY <1>1, <1>2, <1>3, <1>4, <1>5, <1>6, Zenon

----------------------------------------------------------------------------
(* The steps of the tree *)

(* fork() is complete when the child becomes runnable. *)
LEMMA ForkStep ==
    ASSUME TypeInv, TypeInv', LockInv, TreeInv, NEW c \in CPUS, NEW p \in Slots, ForkRun(c, p)
    PROVE  \E q \in Slots : Tree!Fork(p, q)
<1> DEFINE q == i[p]
<1>1. /\ state \in [Slots -> States] /\ state' \in [Slots -> States]
      /\ parent \in [Slots -> Slots \cup {NULL}] /\ pc \in [Slots -> PcLabels]
  BY Zenon DEF TypeInv, TypeOK
<1>2. q \in Slots /\ state[q] = "USED" /\ pc[q] = "resume"
  BY ForkSlotUsed, FreeIsParked, Zenon DEF ForkRun, At
<1>3. state[p] = "RUNNING" /\ pc[p] = "forkrun" /\ p # q
  BY <1>2, InKernelRunning, Zenon DEF ForkRun, At
<1>4. parent[q] = p
  BY <1>3, Zenon DEF TreeInv, ParentInv, In
<1>5. /\ state' = [state EXCEPT ![q] = "RUNNABLE"] /\ pc' = [pc EXCEPT ![p] = "sysret"]
      /\ parent' = parent
  BY Zenon DEF ForkRun, Return, Goto
<1> HIDE DEF q
<1> USE DEF StatusAt, ParentAt, Unborn, Ending
<1>6. TreeStatus[p] = "live" /\ TreeStatus[q] = "free"
  BY <1>1, <1>2, <1>3, Mapped, ZenonT(30)
<1>7. TreeStatus' = [TreeStatus EXCEPT ![q] = "live"]
  BY <1>1, <1>2, <1>3, <1>5, Mapped, MappedNext, SMTT(30)
<1>8. TreeParent' = [TreeParent EXCEPT ![q] = p]
  BY <1>1, <1>2, <1>3, <1>4, <1>5, Mapped, MappedNext
<1> QED
  BY <1>2, <1>6, <1>7, <1>8, Zenon DEF Tree!Fork

(* exit() is committed once it has wait_lock. *)
LEMMA BeginExitStep ==
    ASSUME TypeInv, TypeInv', LockInv, NEW c \in CPUS, NEW p \in Slots, ExitLock(c, p)
    PROVE  Tree!BeginExit(p)
<1>1. /\ state \in [Slots -> States] /\ state' \in [Slots -> States] /\ pc \in [Slots -> PcLabels]
  BY Zenon DEF TypeInv, TypeOK
<1>2. /\ state[p] = "RUNNING" /\ pc[p] = "exit" /\ p # Init0
      /\ pc' = [pc EXCEPT ![p] = "reparent"] /\ UNCHANGED <<state, parent>>
  BY InKernelRunning, Zenon DEF ExitLock, At, Goto, slotvars
<1> USE DEF StatusAt, ParentAt, Unborn, Ending
<1>3. TreeStatus[p] = "live" /\ TreeStatus' = [TreeStatus EXCEPT ![p] = "exiting"]
  BY <1>1, <1>2, Mapped, MappedNext
<1>4. TreeParent' = TreeParent
  BY <1>1, <1>2, Mapped, MappedNext, Zenon
<1> QED
  BY <1>2, <1>3, <1>4, Zenon DEF Tree!BeginExit

(* reparent() hands over a child, or a slot that is not yet in the tree. *)
LEMMA AdoptStep ==
    ASSUME TypeInv, TypeInv', LockInv, NEW c \in CPUS, NEW p \in Slots, ReparentChild(c, p)
    PROVE  (\E q \in Slots : Tree!Adopt(q)) \/ Unseen
<1> DEFINE q == i[p]
<1>1. /\ state \in [Slots -> States] /\ state' \in [Slots -> States]
      /\ parent \in [Slots -> Slots \cup {NULL}] /\ pc \in [Slots -> PcLabels] /\ i \in [Slots -> 0 .. NPROC]
  BY Zenon DEF TypeInv, TypeOK
<1>2. /\ state[p] = "RUNNING" /\ pc[p] = "reparent" /\ q \in Slots /\ parent[q] = p /\ p # NULL
      /\ pc' = [pc EXCEPT ![p] = "wakeinit"] /\ parent' = [parent EXCEPT ![q] = Init0]
      /\ UNCHANGED state
  BY <1>1, SlotFacts, InKernelRunning, Zenon DEF ReparentChild, At, Goto
<1> HIDE DEF q
<1> USE DEF StatusAt, ParentAt, Unborn, Ending
<1>3. CASE state[q] \in Unborn
  BY <1>1, <1>2, <1>3, Zenon DEF Unseen
<1>4. CASE state[q] \notin Unborn
  <2>1. TreeStatus[q] # "free" /\ TreeParent[q] = p /\ TreeStatus[p] = "exiting"
    BY <1>1, <1>2, <1>4, Mapped, Zenon
  <2>2. TreeParent' = [TreeParent EXCEPT ![q] = Init0]
    BY <1>1, <1>2, <1>4, Mapped, MappedNext, SMTT(30)
  <2>3. TreeStatus' = TreeStatus
    BY <1>1, <1>2, Mapped, MappedNext
  <2>4. Tree!Adopt(q)
    BY <1>2, <2>1, <2>2, <2>3, Zenon DEF Tree!Adopt
  <2> QED
    BY <1>2, <2>4, Zenon
<1> QED
  BY <1>3, <1>4, Zenon

(* A process exits when all its children are handed over. *)
LEMMA ExitStep ==
    ASSUME TypeInv, TypeInv', LockInv, TreeInv, NEW c \in CPUS, NEW p \in Slots, ExitZombie(c, p)
    PROVE  Tree!Exit(p)
<1>1. /\ state \in [Slots -> States] /\ state' \in [Slots -> States]
      /\ parent \in [Slots -> Slots \cup {NULL}] /\ pc \in [Slots -> PcLabels]
  BY DEF TypeInv, TypeOK
<1>2. /\ state[p] = "RUNNING" /\ pc[p] = "zombie"
      /\ state' = [state EXCEPT ![p] = "ZOMBIE"] /\ pc' = [pc EXCEPT ![p] = "sched"]
      /\ UNCHANGED parent
  BY InKernelRunning, Zenon DEF ExitZombie, At, Goto
<1>3. \A q \in Slots : parent[q] # p
  BY <1>2, Zenon DEF TreeInv, ReparentInv
<1> USE DEF StatusAt, ParentAt, Unborn, Ending
<1>4. TreeStatus[p] = "exiting" /\ TreeStatus' = [TreeStatus EXCEPT ![p] = "zombie"]
  BY <1>1, <1>2, Mapped, MappedNext
<1>5. TreeParent' = TreeParent
  BY <1>1, <1>2, Mapped, MappedNext, Zenon
<1>6. Tree!Children(p) = {}
  BY <1>1, <1>3, SlotFacts, Mapped, ZenonT(30) DEF Tree!Children
<1> QED
  BY <1>4, <1>5, <1>6, Zenon DEF Tree!Exit

(* wait() frees the slot of an exited child. *)
LEMMA ReapStep ==
    ASSUME TypeInv, TypeInv', LockInv, NEW c \in CPUS, NEW p \in Slots, WaitReap(c, p)
    PROVE  \E q \in Slots : Tree!Reap(p, q)
<1> DEFINE q == i[p]
<1>1. /\ state \in [Slots -> States] /\ state' \in [Slots -> States]
      /\ parent \in [Slots -> Slots \cup {NULL}] /\ pc \in [Slots -> PcLabels] /\ i \in [Slots -> 0 .. NPROC]
  BY DEF TypeInv, TypeOK
<1>2. /\ state[p] = "RUNNING" /\ pc[p] = "waitscan" /\ q \in Slots
      /\ parent[q] = p /\ state[q] = "ZOMBIE" /\ p # q
      /\ state' = [state EXCEPT ![q] = "UNUSED"] /\ parent' = [parent EXCEPT ![q] = NULL]
      /\ pc' = [pc EXCEPT ![p] = "sysret"]
  BY <1>1, SlotFacts, InKernelRunning, Zenon DEF WaitReap, ZombieChild, freeproc, WaitReturn, Return, At, Goto
<1> HIDE DEF q
<1> USE DEF StatusAt, ParentAt, Unborn, Ending
<1>3. TreeStatus[p] = "live" /\ TreeStatus[q] = "zombie" /\ TreeParent[q] = p
  BY <1>1, <1>2, Mapped, Zenon
<1>4. TreeStatus' = [TreeStatus EXCEPT ![q] = "free"]
  BY <1>1, <1>2, Mapped, MappedNext
<1>5. TreeParent' = [TreeParent EXCEPT ![q] = NULL]
  BY <1>1, <1>2, Mapped, MappedNext
<1> QED
  BY <1>2, <1>3, <1>4, <1>5, Zenon DEF Tree!Reap, Tree!Children

----------------------------------------------------------------------------
(* Every step of the table is a step of the tree or changes nothing in it. *)
LEMMA RefinementStep ==
    ASSUME TypeInv, TypeInv', LockInv, TreeInv, [Next]_vars
    PROVE  [Tree!Next]_<<TreeStatus, TreeParent>>
<1>1. ASSUME Unseen PROVE UNCHANGED <<TreeStatus, TreeParent>>
  BY <1>1, UnseenStutters, Zenon
<1>2. CASE UNCHANGED vars
  <2>1. Unseen
    BY <1>2, Zenon DEF vars, slotvars, Unseen
  <2> QED
    BY <1>1, <2>1, Zenon
<1>3. ASSUME NEW c \in CPUS, SchedulerStep(c) PROVE UNCHANGED <<TreeStatus, TreeParent>>
  BY <1>1, <1>3, OthersUnseen, SlotFacts, Zenon
<1>4. ASSUME NEW c \in CPUS, NEW p \in Slots, SwitchStep(c, p) \/ TimerStep(c, p) \/ UserStep(c, p)
      PROVE  UNCHANGED <<TreeStatus, TreeParent>>
  BY <1>1, <1>4, OthersUnseen, Zenon
<1>5. ASSUME NEW c \in CPUS, NEW p \in Slots, CallStep(c, p)
      PROVE  Tree!Next \/ UNCHANGED <<TreeStatus, TreeParent>>
  BY <1>1, <1>5, OthersUnseen, ScansUnseen, ForkStep, BeginExitStep, Zenon DEF CallStep, Tree!Next
<1>6. ASSUME NEW c \in CPUS, NEW p \in Slots, WaitLockStep(c, p)
      PROVE  Tree!Next \/ UNCHANGED <<TreeStatus, TreeParent>>
  BY <1>1, <1>6, OthersUnseen, ScansUnseen, AdoptStep, ExitStep, ReapStep, Zenon DEF WaitLockStep, Tree!Next
<1> QED
  BY <1>2, <1>3, <1>4, <1>5, <1>6, Zenon DEF Next

LEMMA RefinementInit == Init => Tree!Init
<1> SUFFICES ASSUME Init PROVE Tree!Init
  BY Zenon
<1>1. state \in [Slots -> States]
  BY Zenon DEF Init, States, Live
<1> QED
  BY <1>1, SlotFacts, Mapped, Zenon DEF Init, Tree!Init, StatusAt, ParentAt, Unborn, Ending

(* The lock protocol of proc.c implements the process tree. *)
THEOREM TreeRefined == Spec => ImplementsTree
<1>1. TypeInv /\ TypeInv' /\ LockInv /\ TreeInv /\ [Next]_vars => [Tree!Next]_<<TreeStatus, TreeParent>>
  BY RefinementStep, Zenon
<1> QED
  BY LockInductive, TreeInductive, RefinementInit, <1>1, PTL
  DEF Spec, ImplementsTree, Tree!Spec, Tree!vars
=============================================================================
