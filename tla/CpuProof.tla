------------------------------ MODULE CpuProof ------------------------------
(***************************************************************************)
(* Proofs about Cpu for any number of CPUs, processes and nested locks.    *)
(*                                                                         *)
(* The properties speak of a process that runs.  They are not inductive:   *)
(* what it finds was left by sched() on another CPU, and is kept for it    *)
(* while it waits.  The invariant says what is kept.                       *)
(***************************************************************************)
EXTENDS Cpu, TLAPS

(* A process is on one CPU at most, and a CPU with a process was found it. *)
OnOneCpu ==
    /\ \A c, d \in Cpus : proc[c] # NULL /\ proc[c] = proc[d] => c = d
    /\ \A c \in Cpus :
           proc[c] # NULL => /\ state[proc[c]] = "RUNNING"
                             /\ mode[proc[c]] \in {"user", "syscall"}
                             /\ sc[c] = "scan"
                             /\ found[c] = TRUE

(* The registers are in the hardware of the CPU the process runs on, or    *)
(* in its struct proc, where they stay while it does not run.              *)
KeptFor(p) ==
    /\ fpu_active[p] = TRUE => state[p] = "RUNNING" /\ fpu_used[p] = TRUE
    /\ fpu_active[p] = FALSE => Saved(p) = regs[p]

KeptOn(c) ==
    proc[c] # NULL =>
        /\ fpu_active[proc[c]] = TRUE => hw[c] = regs[proc[c]]
        /\ mode[proc[c]] = "user" => fs[c] = fpu_active[proc[c]]

RegistersKept == (\A p \in Procs : KeptFor(p)) /\ (\A c \in Cpus : KeptOn(c))

(* A process holds locks only while it runs, in a system call; noff is     *)
(* their number, and the state to return to is kept in intena or, across   *)
(* sleep(), in sched()'s copy of it.                                       *)
NoLocks(p) ==
    /\ state[p] # "RUNNING" => depth[p] = 0
    /\ mode[p] = "user" => depth[p] = 0
    /\ mode[p] = "sleep" => saved[p] = TRUE

Counted(c) ==
    /\ proc[c] = NULL => noff[c] = 0
    /\ proc[c] # NULL => noff[c] = depth[proc[c]]
    /\ At(c, "syscall") => /\ intr[c] = TRUE <=> depth[proc[c]] = 0
                           /\ depth[proc[c]] > 0 => intena[c] = TRUE

LocksCounted == (\A p \in Procs : NoLocks(p)) /\ (\A c \in Cpus : Counted(c))

CpuInv == OnOneCpu /\ RegistersKept /\ LocksCounted /\ WaitsMasked

----------------------------------------------------------------------------
(* Every step keeps the types: pop_off() finds noff above 0. *)
LEMMA TypeStep == ASSUME TypeOK, CpuInv, [Next]_vars PROVE TypeOK'
<1>1. ASSUME NEW c \in Cpus, Loop(c) PROVE TypeOK'
    BY <1>1, CpuAssumption DEF TypeOK, Modes, cpuvars, fpuvars, Loop
<1>2. ASSUME NEW c \in Cpus, Scanned(c) PROVE TypeOK'
    BY <1>2, CpuAssumption DEF TypeOK, Modes, cpuvars, fpuvars, Scanned
<1>3. ASSUME NEW c \in Cpus, NEW p \in Procs, Run(c, p) PROVE TypeOK'
    BY <1>3, CpuAssumption DEF TypeOK, Modes, cpuvars, fpuvars, Run, Restored, Popped, Found
<1>4. ASSUME NEW c \in Cpus, Acquire(c) PROVE TypeOK'
    BY <1>4, CpuAssumption DEF TypeOK, Modes, At, cpuvars, fpuvars, Acquire, push_off
<1>5. ASSUME NEW c \in Cpus, Release(c) PROVE TypeOK'
    BY <1>5, CpuAssumption
    DEF TypeOK, Modes, CpuInv, LocksCounted, Counted, At, cpuvars, fpuvars, Release, pop_off
<1>6. ASSUME NEW c \in Cpus, Sleep(c) PROVE TypeOK'
    BY <1>6, CpuAssumption
    DEF TypeOK, Modes, At, cpuvars, fpuvars, Sleep, sched, fpu_save_proc, Popped
<1>7. ASSUME NEW c \in Cpus, kexit(c) PROVE TypeOK'
    BY <1>7, CpuAssumption
    DEF TypeOK, Modes, At, cpuvars, fpuvars, kexit, sched, fpu_save_proc, Popped
<1>8. ASSUME NEW c \in Cpus, prepare_return(c) PROVE TypeOK'
    BY <1>8, CpuAssumption DEF TypeOK, Modes, At, cpuvars, fpuvars, prepare_return
<1>9. ASSUME NEW c \in Cpus, KernelTimer(c) PROVE TypeOK'
    BY <1>9, CpuAssumption
    DEF TypeOK, Modes, At, cpuvars, fpuvars, KernelTimer, sched, fpu_save_proc, Popped
<1>10. ASSUME NEW c \in Cpus, NEW p \in Procs, kfork(c, p) PROVE TypeOK'
    BY <1>10, CpuAssumption DEF TypeOK, Modes, At, cpuvars, fpuvars, kfork
<1>11. ASSUME NEW c \in Cpus, fpu_handle_trap(c) PROVE TypeOK'
    BY <1>11, CpuAssumption DEF TypeOK, Modes, At, cpuvars, fpuvars, fpu_handle_trap
<1>12. ASSUME NEW c \in Cpus, UserFp(c) PROVE TypeOK'
    BY <1>12, CpuAssumption DEF TypeOK, Modes, At, cpuvars, fpuvars, UserFp
<1>13. ASSUME NEW c \in Cpus, UserTimer(c) PROVE TypeOK'
    BY <1>13, CpuAssumption
    DEF TypeOK, Modes, At, cpuvars, fpuvars, UserTimer, sched, fpu_save_proc, Popped
<1>14. ASSUME NEW c \in Cpus, Syscall(c) PROVE TypeOK'
    BY <1>14, CpuAssumption DEF TypeOK, Modes, At, cpuvars, fpuvars, Syscall
<1>15. ASSUME NEW p \in Procs, Wakeup(p) PROVE TypeOK'
    BY <1>15, CpuAssumption DEF TypeOK, Modes, cpuvars, fpuvars, Wakeup
<1>16. ASSUME NEW p \in Procs, freeproc(p) PROVE TypeOK'
    BY <1>16, CpuAssumption DEF TypeOK, Modes, cpuvars, fpuvars, freeproc
<1>17. CASE UNCHANGED vars
    BY <1>17, CpuAssumption DEF TypeOK, Modes, vars, cpuvars, fpuvars
<1> QED
    BY <1>1, <1>2, <1>3, <1>4, <1>5, <1>6, <1>7, <1>8, <1>9, <1>10, <1>11, <1>12, <1>13, <1>14, <1>15, <1>16, <1>17
    DEF Next, SchedulerStep, SyscallStep, UserStep

(* scheduler() runs a process that is on no CPU. *)
LEMMA OnOneCpuStep == ASSUME TypeOK, CpuInv, [Next]_vars PROVE OnOneCpu'
<1>1. ASSUME NEW c \in Cpus, Loop(c) PROVE OnOneCpu'
    BY <1>1, CpuAssumption DEF TypeOK, cpuvars, fpuvars, CpuInv, OnOneCpu, Loop
<1>2. ASSUME NEW c \in Cpus, Scanned(c) PROVE OnOneCpu'
    BY <1>2, CpuAssumption DEF TypeOK, cpuvars, fpuvars, CpuInv, OnOneCpu, Scanned
<1>3. ASSUME NEW c \in Cpus, NEW p \in Procs, Run(c, p) PROVE OnOneCpu'
    BY <1>3, CpuAssumption
    DEF TypeOK, cpuvars, fpuvars, CpuInv, OnOneCpu, Run, Restored, Popped, Found
<1>4. ASSUME NEW c \in Cpus, Acquire(c) PROVE OnOneCpu'
    BY <1>4, CpuAssumption
    DEF TypeOK, At, cpuvars, fpuvars, CpuInv, OnOneCpu, Acquire, push_off
<1>5. ASSUME NEW c \in Cpus, Release(c) PROVE OnOneCpu'
    BY <1>5, CpuAssumption
    DEF TypeOK, At, cpuvars, fpuvars, CpuInv, OnOneCpu, Release, pop_off
<1>6. ASSUME NEW c \in Cpus, Sleep(c) PROVE OnOneCpu'
    BY <1>6, CpuAssumption
    DEF TypeOK, At, cpuvars, fpuvars, CpuInv, OnOneCpu, Sleep, sched, fpu_save_proc, Popped
<1>7. ASSUME NEW c \in Cpus, kexit(c) PROVE OnOneCpu'
    BY <1>7, CpuAssumption
    DEF TypeOK, At, cpuvars, fpuvars, CpuInv, OnOneCpu, kexit, sched, fpu_save_proc, Popped
<1>8. ASSUME NEW c \in Cpus, prepare_return(c) PROVE OnOneCpu'
    BY <1>8, CpuAssumption DEF TypeOK, At, cpuvars, fpuvars, CpuInv, OnOneCpu, prepare_return
<1>9. ASSUME NEW c \in Cpus, KernelTimer(c) PROVE OnOneCpu'
    BY <1>9, CpuAssumption
    DEF TypeOK, At, cpuvars, fpuvars, CpuInv, OnOneCpu, KernelTimer, sched, fpu_save_proc,
        Popped
<1>10. ASSUME NEW c \in Cpus, NEW p \in Procs, kfork(c, p) PROVE OnOneCpu'
    BY <1>10, CpuAssumption DEF TypeOK, At, cpuvars, fpuvars, CpuInv, OnOneCpu, kfork
<1>11. ASSUME NEW c \in Cpus, fpu_handle_trap(c) PROVE OnOneCpu'
    BY <1>11, CpuAssumption
    DEF TypeOK, At, cpuvars, fpuvars, CpuInv, OnOneCpu, fpu_handle_trap
<1>12. ASSUME NEW c \in Cpus, UserFp(c) PROVE OnOneCpu'
    BY <1>12, CpuAssumption DEF TypeOK, At, cpuvars, fpuvars, CpuInv, OnOneCpu, UserFp
<1>13. ASSUME NEW c \in Cpus, UserTimer(c) PROVE OnOneCpu'
    BY <1>13, CpuAssumption
    DEF TypeOK, At, cpuvars, fpuvars, CpuInv, OnOneCpu, UserTimer, sched, fpu_save_proc, Popped
<1>14. ASSUME NEW c \in Cpus, Syscall(c) PROVE OnOneCpu'
    BY <1>14, CpuAssumption DEF TypeOK, At, cpuvars, fpuvars, CpuInv, OnOneCpu, Syscall
<1>15. ASSUME NEW p \in Procs, Wakeup(p) PROVE OnOneCpu'
    BY <1>15, CpuAssumption DEF TypeOK, cpuvars, fpuvars, CpuInv, OnOneCpu, Wakeup
<1>16. ASSUME NEW p \in Procs, freeproc(p) PROVE OnOneCpu'
    BY <1>16, CpuAssumption DEF TypeOK, cpuvars, fpuvars, CpuInv, OnOneCpu, freeproc
<1>17. CASE UNCHANGED vars
    BY <1>17, CpuAssumption DEF TypeOK, CpuInv, OnOneCpu, vars, cpuvars, fpuvars
<1> QED
    BY <1>1, <1>2, <1>3, <1>4, <1>5, <1>6, <1>7, <1>8, <1>9, <1>10, <1>11, <1>12, <1>13, <1>14, <1>15, <1>16, <1>17
    DEF Next, SchedulerStep, SyscallStep, UserStep

(* A switch saves the registers, a trap loads them, fork() copies them. *)
LEMMA RegistersStep == ASSUME TypeOK, CpuInv, [Next]_vars PROVE RegistersKept'
<1>1. ASSUME NEW c \in Cpus, Loop(c) PROVE RegistersKept'
    BY <1>1, CpuAssumption
    DEF TypeOK, CpuInv, OnOneCpu, RegistersKept, KeptFor, KeptOn, Saved, cpuvars, fpuvars, Loop
<1>2. ASSUME NEW c \in Cpus, Scanned(c) PROVE RegistersKept'
    BY <1>2, CpuAssumption
    DEF TypeOK, CpuInv, OnOneCpu, RegistersKept, KeptFor, KeptOn, Saved, cpuvars, fpuvars,
        Scanned
<1>3. ASSUME NEW c \in Cpus, NEW p \in Procs, Run(c, p) PROVE RegistersKept'
    BY <1>3, CpuAssumption
    DEF TypeOK, CpuInv, OnOneCpu, RegistersKept, KeptFor, KeptOn, Saved, cpuvars, fpuvars, Run,
        Restored, Popped, Found
<1>4. ASSUME NEW c \in Cpus, Acquire(c) PROVE RegistersKept'
    BY <1>4, CpuAssumption
    DEF TypeOK, CpuInv, OnOneCpu, RegistersKept, KeptFor, KeptOn, Saved, At, cpuvars, fpuvars,
        Acquire, push_off
<1>5. ASSUME NEW c \in Cpus, Release(c) PROVE RegistersKept'
    BY <1>5, CpuAssumption
    DEF TypeOK, CpuInv, OnOneCpu, RegistersKept, KeptFor, KeptOn, Saved, At, cpuvars, fpuvars,
        Release, pop_off
<1>6. ASSUME NEW c \in Cpus, Sleep(c) PROVE RegistersKept'
  <2>1. ASSUME NEW q \in Procs PROVE KeptFor(q)'
      BY <1>6, <2>1, CpuAssumption
      DEF TypeOK, CpuInv, OnOneCpu, RegistersKept, KeptFor, KeptOn, Saved, At, cpuvars, fpuvars,
          Sleep, sched, fpu_save_proc, Popped
  <2>2. ASSUME NEW d \in Cpus PROVE KeptOn(d)'
    <3>1. proc[d] \in Procs \cup {NULL} /\ (proc[d] # NULL /\ d # c => proc[d] # proc[c])
        BY <2>2 DEF TypeOK, CpuInv, OnOneCpu
    <3>3. CASE d = c
        BY <1>6, <2>2, <3>3, <3>1, CpuAssumption
        DEF TypeOK, CpuInv, RegistersKept, KeptOn, KeptFor, Saved, At, cpuvars, fpuvars, Sleep,
            sched, fpu_save_proc, Popped
    <3>4. CASE d # c
        BY <1>6, <2>2, <3>4, <3>1, CpuAssumption
        DEF TypeOK, CpuInv, RegistersKept, KeptOn, KeptFor, Saved, At, cpuvars, fpuvars, Sleep,
            sched, fpu_save_proc, Popped
    <3> QED
        BY <3>3, <3>4
  <2> QED
      BY <2>1, <2>2 DEF RegistersKept
<1>7. ASSUME NEW c \in Cpus, kexit(c) PROVE RegistersKept'
  <2>1. ASSUME NEW q \in Procs PROVE KeptFor(q)'
      BY <1>7, <2>1, CpuAssumption
      DEF TypeOK, CpuInv, OnOneCpu, RegistersKept, KeptFor, KeptOn, Saved, At, cpuvars, fpuvars,
          kexit, sched, fpu_save_proc, Popped
  <2>2. ASSUME NEW d \in Cpus PROVE KeptOn(d)'
    <3>1. proc[d] \in Procs \cup {NULL} /\ (proc[d] # NULL /\ d # c => proc[d] # proc[c])
        BY <2>2 DEF TypeOK, CpuInv, OnOneCpu
    <3>3. CASE d = c
        BY <1>7, <2>2, <3>3, <3>1, CpuAssumption
        DEF TypeOK, CpuInv, RegistersKept, KeptOn, KeptFor, Saved, At, cpuvars, fpuvars, kexit,
            sched, fpu_save_proc, Popped
    <3>4. CASE d # c
        BY <1>7, <2>2, <3>4, <3>1, CpuAssumption
        DEF TypeOK, CpuInv, RegistersKept, KeptOn, KeptFor, Saved, At, cpuvars, fpuvars, kexit,
            sched, fpu_save_proc, Popped
    <3> QED
        BY <3>3, <3>4
  <2> QED
      BY <2>1, <2>2 DEF RegistersKept
<1>8. ASSUME NEW c \in Cpus, prepare_return(c) PROVE RegistersKept'
    BY <1>8, CpuAssumption
    DEF TypeOK, CpuInv, OnOneCpu, RegistersKept, KeptFor, KeptOn, Saved, At, cpuvars, fpuvars,
        prepare_return
<1>9. ASSUME NEW c \in Cpus, KernelTimer(c) PROVE RegistersKept'
  <2>1. ASSUME NEW q \in Procs PROVE KeptFor(q)'
      BY <1>9, <2>1, CpuAssumption
      DEF TypeOK, CpuInv, OnOneCpu, RegistersKept, KeptFor, KeptOn, Saved, At, cpuvars, fpuvars,
          KernelTimer, sched, fpu_save_proc, Popped
  <2>2. ASSUME NEW d \in Cpus PROVE KeptOn(d)'
    <3>1. proc[d] \in Procs \cup {NULL} /\ (proc[d] # NULL /\ d # c => proc[d] # proc[c])
        BY <2>2 DEF TypeOK, CpuInv, OnOneCpu
    <3>3. CASE d = c
        BY <1>9, <2>2, <3>3, <3>1, CpuAssumption
        DEF TypeOK, CpuInv, RegistersKept, KeptOn, KeptFor, Saved, At, cpuvars, fpuvars,
            KernelTimer, sched, fpu_save_proc, Popped
    <3>4. CASE d # c
        BY <1>9, <2>2, <3>4, <3>1, CpuAssumption
        DEF TypeOK, CpuInv, RegistersKept, KeptOn, KeptFor, Saved, At, cpuvars, fpuvars,
            KernelTimer, sched, fpu_save_proc, Popped
    <3> QED
        BY <3>3, <3>4
  <2> QED
      BY <2>1, <2>2 DEF RegistersKept
<1>10. ASSUME NEW c \in Cpus, NEW p \in Procs, kfork(c, p) PROVE RegistersKept'
  <2>1. ASSUME NEW q \in Procs PROVE KeptFor(q)'
      BY <1>10, <2>1, CpuAssumption
      DEF TypeOK, CpuInv, OnOneCpu, RegistersKept, KeptFor, KeptOn, Saved, At, cpuvars, fpuvars,
          kfork
  <2>2. ASSUME NEW d \in Cpus PROVE KeptOn(d)'
    <3>1. proc[d] \in Procs \cup {NULL} /\ (proc[d] # NULL /\ d # c => proc[d] # proc[c])
        BY <2>2 DEF TypeOK, CpuInv, OnOneCpu
    <3>2. proc[d] # NULL => proc[d] # p
        BY <1>10, <2>2, <3>1 DEF CpuInv, OnOneCpu, kfork
    <3>3. CASE d = c
        BY <1>10, <2>2, <3>3, <3>1, <3>2, CpuAssumption
        DEF TypeOK, CpuInv, RegistersKept, KeptOn, KeptFor, Saved, At, cpuvars, fpuvars, kfork
    <3>4. CASE d # c
        BY <1>10, <2>2, <3>4, <3>1, <3>2, CpuAssumption
        DEF TypeOK, CpuInv, RegistersKept, KeptOn, KeptFor, Saved, At, cpuvars, fpuvars, kfork
    <3> QED
        BY <3>3, <3>4
  <2> QED
      BY <2>1, <2>2 DEF RegistersKept
<1>11. ASSUME NEW c \in Cpus, fpu_handle_trap(c) PROVE RegistersKept'
  <2>1. ASSUME NEW q \in Procs PROVE KeptFor(q)'
      BY <1>11, <2>1, CpuAssumption
      DEF TypeOK, CpuInv, OnOneCpu, RegistersKept, KeptFor, KeptOn, Saved, At, cpuvars, fpuvars,
          fpu_handle_trap
  <2>2. ASSUME NEW d \in Cpus PROVE KeptOn(d)'
    <3>1. proc[d] \in Procs \cup {NULL} /\ (proc[d] # NULL /\ d # c => proc[d] # proc[c])
        BY <2>2 DEF TypeOK, CpuInv, OnOneCpu
    <3>3. CASE d = c
      <4>1. proc[c] \in Procs /\ fpu_active[proc[c]] = FALSE
          BY <1>11, <3>1, <3>3 DEF fpu_handle_trap, At, TypeOK, CpuInv, RegistersKept, KeptOn
      <4>2. Saved(proc[c]) = regs[proc[c]]
          BY <4>1 DEF CpuInv, RegistersKept, KeptFor
      <4>3. /\ hw'[c] = Saved(proc[c]) /\ proc' = proc /\ regs' = regs
            /\ fpu_active'[proc[c]] = TRUE /\ fs'[c] = TRUE
          BY <1>11, <4>1 DEF fpu_handle_trap, Saved, TypeOK
      <4> QED
          BY <3>3, <4>2, <4>3 DEF KeptOn
    <3>4. CASE d # c
        BY <1>11, <2>2, <3>4, <3>1, CpuAssumption
        DEF TypeOK, CpuInv, RegistersKept, KeptOn, KeptFor, Saved, At, cpuvars, fpuvars,
            fpu_handle_trap
    <3> QED
        BY <3>3, <3>4
  <2> QED
      BY <2>1, <2>2 DEF RegistersKept
<1>12. ASSUME NEW c \in Cpus, UserFp(c) PROVE RegistersKept'
    BY <1>12, CpuAssumption
    DEF TypeOK, CpuInv, OnOneCpu, RegistersKept, KeptFor, KeptOn, Saved, At, cpuvars, fpuvars,
        UserFp
<1>13. ASSUME NEW c \in Cpus, UserTimer(c) PROVE RegistersKept'
  <2>1. ASSUME NEW q \in Procs PROVE KeptFor(q)'
      BY <1>13, <2>1, CpuAssumption
      DEF TypeOK, CpuInv, OnOneCpu, RegistersKept, KeptFor, KeptOn, Saved, At, cpuvars, fpuvars,
          UserTimer, sched, fpu_save_proc, Popped
  <2>2. ASSUME NEW d \in Cpus PROVE KeptOn(d)'
    <3>1. proc[d] \in Procs \cup {NULL} /\ (proc[d] # NULL /\ d # c => proc[d] # proc[c])
        BY <2>2 DEF TypeOK, CpuInv, OnOneCpu
    <3>3. CASE d = c
        BY <1>13, <2>2, <3>3, <3>1, CpuAssumption
        DEF TypeOK, CpuInv, RegistersKept, KeptOn, KeptFor, Saved, At, cpuvars, fpuvars,
            UserTimer, sched, fpu_save_proc, Popped
    <3>4. CASE d # c
        BY <1>13, <2>2, <3>4, <3>1, CpuAssumption
        DEF TypeOK, CpuInv, RegistersKept, KeptOn, KeptFor, Saved, At, cpuvars, fpuvars,
            UserTimer, sched, fpu_save_proc, Popped
    <3> QED
        BY <3>3, <3>4
  <2> QED
      BY <2>1, <2>2 DEF RegistersKept
<1>14. ASSUME NEW c \in Cpus, Syscall(c) PROVE RegistersKept'
    BY <1>14, CpuAssumption
    DEF TypeOK, CpuInv, OnOneCpu, RegistersKept, KeptFor, KeptOn, Saved, At, cpuvars, fpuvars,
        Syscall
<1>15. ASSUME NEW p \in Procs, Wakeup(p) PROVE RegistersKept'
    BY <1>15, CpuAssumption
    DEF TypeOK, CpuInv, OnOneCpu, RegistersKept, KeptFor, KeptOn, Saved, cpuvars, fpuvars,
        Wakeup
<1>16. ASSUME NEW p \in Procs, freeproc(p) PROVE RegistersKept'
  <2>1. ASSUME NEW q \in Procs PROVE KeptFor(q)'
      BY <1>16, <2>1, CpuAssumption
      DEF TypeOK, CpuInv, OnOneCpu, RegistersKept, KeptFor, KeptOn, Saved, cpuvars, fpuvars,
          freeproc
  <2>2. ASSUME NEW d \in Cpus PROVE KeptOn(d)'
    <3>1. proc[d] \in Procs \cup {NULL} /\ (proc[d] # NULL => proc[d] # p)
        BY <1>16, <2>2 DEF TypeOK, CpuInv, OnOneCpu, freeproc
    <3> QED
        BY <1>16, <2>2, <3>1, CpuAssumption
        DEF TypeOK, CpuInv, RegistersKept, KeptOn, cpuvars, fpuvars, freeproc
  <2> QED
      BY <2>1, <2>2 DEF RegistersKept
<1>17. CASE UNCHANGED vars
    BY <1>17, CpuAssumption
    DEF TypeOK, CpuInv, OnOneCpu, RegistersKept, KeptFor, KeptOn, Saved, vars, cpuvars, fpuvars
<1> QED
    BY <1>1, <1>2, <1>3, <1>4, <1>5, <1>6, <1>7, <1>8, <1>9, <1>10, <1>11, <1>12, <1>13, <1>14, <1>15, <1>16, <1>17
    DEF Next, SchedulerStep, SyscallStep, UserStep

(* push_off(), pop_off() and sched() keep count, and the state to return to. *)
LEMMA LocksStep == ASSUME TypeOK, CpuInv, [Next]_vars PROVE LocksCounted'
<1>1. ASSUME NEW c \in Cpus, Loop(c) PROVE LocksCounted'
    BY <1>1, CpuAssumption
    DEF TypeOK, CpuInv, OnOneCpu, LocksCounted, NoLocks, Counted, At, cpuvars, fpuvars, Loop
<1>2. ASSUME NEW c \in Cpus, Scanned(c) PROVE LocksCounted'
    BY <1>2, CpuAssumption
    DEF TypeOK, CpuInv, OnOneCpu, LocksCounted, NoLocks, Counted, At, cpuvars, fpuvars, Scanned
<1>3. ASSUME NEW c \in Cpus, NEW p \in Procs, Run(c, p) PROVE LocksCounted'
  <2>1. ASSUME NEW q \in Procs PROVE NoLocks(q)'
      BY <1>3, <2>1, CpuAssumption
      DEF TypeOK, CpuInv, OnOneCpu, LocksCounted, NoLocks, Counted, At, cpuvars, fpuvars, Run,
          Restored, Popped, Found
  <2>2. ASSUME NEW d \in Cpus PROVE Counted(d)'
    <3>1. proc[d] \in Procs \cup {NULL} /\ (proc[d] # NULL => proc[d] # p)
        BY <1>3, <2>2 DEF Run, TypeOK, CpuInv, OnOneCpu
    <3>2. noff[c] = 0 /\ depth[p] = 0 /\ (mode[p] = "sleep" => saved[p] = TRUE) /\ p # NULL
        BY <1>3, CpuAssumption DEF Run, CpuInv, LocksCounted, NoLocks, Counted
    <3>3. noff' = noff /\ depth' = depth
        BY <1>3 DEF Run
    <3>4. CASE d = c
      <4>1. proc'[c] = p /\ intr'[c] = TRUE
          BY <1>3, <3>2 DEF Run, Restored, Popped, TypeOK
      <4> QED
          BY <3>2, <3>3, <3>4, <4>1 DEF Counted, At
    <3>5. CASE d # c
      <4>1. proc'[d] = proc[d] /\ intr'[d] = intr[d] /\ intena'[d] = intena[d]
          BY <1>3, <2>2, <3>5 DEF Run, TypeOK
      <4>2. proc[d] # NULL => mode'[proc[d]] = mode[proc[d]]
          BY <1>3, <3>1 DEF Run, TypeOK
      <4> QED
          BY <2>2, <3>3, <4>1, <4>2 DEF CpuInv, LocksCounted, Counted, At
    <3> QED
        BY <3>4, <3>5
  <2> QED
      BY <2>1, <2>2 DEF LocksCounted
<1>4. ASSUME NEW c \in Cpus, Acquire(c) PROVE LocksCounted'
  <2>1. ASSUME NEW q \in Procs PROVE NoLocks(q)'
      BY <1>4, <2>1, CpuAssumption
      DEF TypeOK, CpuInv, OnOneCpu, LocksCounted, NoLocks, Counted, At, cpuvars, fpuvars,
          Acquire, push_off
  <2>2. ASSUME NEW d \in Cpus PROVE Counted(d)'
    <3>1. proc[d] \in Procs \cup {NULL} /\ (proc[d] # NULL /\ d # c => proc[d] # proc[c])
        BY <2>2 DEF TypeOK, CpuInv, OnOneCpu
    <3>3. CASE d = c
        BY <1>4, <2>2, <3>3, <3>1, CpuAssumption
        DEF TypeOK, CpuInv, LocksCounted, Counted, NoLocks, At, cpuvars, fpuvars, Acquire,
            push_off
    <3>4. CASE d # c
        BY <1>4, <2>2, <3>4, <3>1, CpuAssumption
        DEF TypeOK, CpuInv, LocksCounted, Counted, NoLocks, At, cpuvars, fpuvars, Acquire,
            push_off
    <3> QED
        BY <3>3, <3>4
  <2> QED
      BY <2>1, <2>2 DEF LocksCounted
<1>5. ASSUME NEW c \in Cpus, Release(c) PROVE LocksCounted'
    BY <1>5, CpuAssumption
    DEF TypeOK, CpuInv, OnOneCpu, LocksCounted, NoLocks, Counted, At, cpuvars, fpuvars, Release,
        pop_off
<1>6. ASSUME NEW c \in Cpus, Sleep(c) PROVE LocksCounted'
    BY <1>6, CpuAssumption
    DEF TypeOK, CpuInv, OnOneCpu, LocksCounted, NoLocks, Counted, At, cpuvars, fpuvars, Sleep,
        sched, fpu_save_proc, Popped
<1>7. ASSUME NEW c \in Cpus, kexit(c) PROVE LocksCounted'
    BY <1>7, CpuAssumption
    DEF TypeOK, CpuInv, OnOneCpu, LocksCounted, NoLocks, Counted, At, cpuvars, fpuvars, kexit,
        sched, fpu_save_proc, Popped
<1>8. ASSUME NEW c \in Cpus, prepare_return(c) PROVE LocksCounted'
  <2>1. ASSUME NEW q \in Procs PROVE NoLocks(q)'
      BY <1>8, <2>1, CpuAssumption
      DEF TypeOK, CpuInv, OnOneCpu, LocksCounted, NoLocks, Counted, At, cpuvars, fpuvars,
          prepare_return
  <2>2. ASSUME NEW d \in Cpus PROVE Counted(d)'
    <3>1. proc[d] \in Procs \cup {NULL} /\ (proc[d] # NULL /\ d # c => proc[d] # proc[c])
        BY <2>2 DEF TypeOK, CpuInv, OnOneCpu
    <3>3. CASE d = c
        BY <1>8, <2>2, <3>3, <3>1, CpuAssumption
        DEF TypeOK, CpuInv, LocksCounted, Counted, NoLocks, At, cpuvars, fpuvars, prepare_return
    <3>4. CASE d # c
        BY <1>8, <2>2, <3>4, <3>1, CpuAssumption
        DEF TypeOK, CpuInv, LocksCounted, Counted, NoLocks, At, cpuvars, fpuvars, prepare_return
    <3> QED
        BY <3>3, <3>4
  <2> QED
      BY <2>1, <2>2 DEF LocksCounted
<1>9. ASSUME NEW c \in Cpus, KernelTimer(c) PROVE LocksCounted'
    BY <1>9, CpuAssumption
    DEF TypeOK, CpuInv, OnOneCpu, LocksCounted, NoLocks, Counted, At, cpuvars, fpuvars,
        KernelTimer, sched, fpu_save_proc, Popped
<1>10. ASSUME NEW c \in Cpus, NEW p \in Procs, kfork(c, p) PROVE LocksCounted'
    BY <1>10, CpuAssumption
    DEF TypeOK, CpuInv, OnOneCpu, LocksCounted, NoLocks, Counted, At, cpuvars, fpuvars, kfork
<1>11. ASSUME NEW c \in Cpus, fpu_handle_trap(c) PROVE LocksCounted'
    BY <1>11, CpuAssumption
    DEF TypeOK, CpuInv, OnOneCpu, LocksCounted, NoLocks, Counted, At, cpuvars, fpuvars,
        fpu_handle_trap
<1>12. ASSUME NEW c \in Cpus, UserFp(c) PROVE LocksCounted'
    BY <1>12, CpuAssumption
    DEF TypeOK, CpuInv, OnOneCpu, LocksCounted, NoLocks, Counted, At, cpuvars, fpuvars, UserFp
<1>13. ASSUME NEW c \in Cpus, UserTimer(c) PROVE LocksCounted'
    BY <1>13, CpuAssumption
    DEF TypeOK, CpuInv, OnOneCpu, LocksCounted, NoLocks, Counted, At, cpuvars, fpuvars,
        UserTimer, sched, fpu_save_proc, Popped
<1>14. ASSUME NEW c \in Cpus, Syscall(c) PROVE LocksCounted'
  <2>1. ASSUME NEW q \in Procs PROVE NoLocks(q)'
      BY <1>14, <2>1, CpuAssumption
      DEF TypeOK, CpuInv, OnOneCpu, LocksCounted, NoLocks, Counted, At, cpuvars, fpuvars,
          Syscall
  <2>2. ASSUME NEW d \in Cpus PROVE Counted(d)'
    <3>1. proc[d] \in Procs \cup {NULL} /\ (proc[d] # NULL /\ d # c => proc[d] # proc[c])
        BY <2>2 DEF TypeOK, CpuInv, OnOneCpu
    <3>3. CASE d = c
        BY <1>14, <2>2, <3>3, <3>1, CpuAssumption
        DEF TypeOK, CpuInv, LocksCounted, Counted, NoLocks, At, cpuvars, fpuvars, Syscall
    <3>4. CASE d # c
        BY <1>14, <2>2, <3>4, <3>1, CpuAssumption
        DEF TypeOK, CpuInv, LocksCounted, Counted, NoLocks, At, cpuvars, fpuvars, Syscall
    <3> QED
        BY <3>3, <3>4
  <2> QED
      BY <2>1, <2>2 DEF LocksCounted
<1>15. ASSUME NEW p \in Procs, Wakeup(p) PROVE LocksCounted'
    BY <1>15, CpuAssumption
    DEF TypeOK, CpuInv, OnOneCpu, LocksCounted, NoLocks, Counted, At, cpuvars, fpuvars, Wakeup
<1>16. ASSUME NEW p \in Procs, freeproc(p) PROVE LocksCounted'
    BY <1>16, CpuAssumption
    DEF TypeOK, CpuInv, OnOneCpu, LocksCounted, NoLocks, Counted, At, cpuvars, fpuvars, freeproc
<1>17. CASE UNCHANGED vars
    BY <1>17, CpuAssumption
    DEF TypeOK, CpuInv, OnOneCpu, LocksCounted, NoLocks, Counted, At, vars, cpuvars, fpuvars
<1> QED
    BY <1>1, <1>2, <1>3, <1>4, <1>5, <1>6, <1>7, <1>8, <1>9, <1>10, <1>11, <1>12, <1>13, <1>14, <1>15, <1>16, <1>17
    DEF Next, SchedulerStep, SyscallStep, UserStep

(* Only the top of the scheduler's loop lets it go on with nothing found. *)
LEMMA WaitsStep == ASSUME TypeOK, CpuInv, [Next]_vars PROVE WaitsMasked'
<1>1. ASSUME NEW c \in Cpus, Loop(c) PROVE WaitsMasked'
    BY <1>1, CpuAssumption DEF TypeOK, cpuvars, fpuvars, CpuInv, OnOneCpu, WaitsMasked, Loop
<1>2. ASSUME NEW c \in Cpus, Scanned(c) PROVE WaitsMasked'
    BY <1>2, CpuAssumption
    DEF TypeOK, cpuvars, fpuvars, CpuInv, OnOneCpu, WaitsMasked, Scanned
<1>3. ASSUME NEW c \in Cpus, NEW p \in Procs, Run(c, p) PROVE WaitsMasked'
    BY <1>3, CpuAssumption
    DEF TypeOK, cpuvars, fpuvars, CpuInv, OnOneCpu, WaitsMasked, Run, Restored, Popped, Found
<1>4. ASSUME NEW c \in Cpus, Acquire(c) PROVE WaitsMasked'
    BY <1>4, CpuAssumption
    DEF TypeOK, At, cpuvars, fpuvars, CpuInv, OnOneCpu, WaitsMasked, Acquire, push_off
<1>5. ASSUME NEW c \in Cpus, Release(c) PROVE WaitsMasked'
    BY <1>5, CpuAssumption
    DEF TypeOK, At, cpuvars, fpuvars, CpuInv, OnOneCpu, WaitsMasked, Release, pop_off
<1>6. ASSUME NEW c \in Cpus, Sleep(c) PROVE WaitsMasked'
    BY <1>6, CpuAssumption
    DEF TypeOK, At, cpuvars, fpuvars, CpuInv, OnOneCpu, WaitsMasked, Sleep, sched,
        fpu_save_proc, Popped
<1>7. ASSUME NEW c \in Cpus, kexit(c) PROVE WaitsMasked'
    BY <1>7, CpuAssumption
    DEF TypeOK, At, cpuvars, fpuvars, CpuInv, OnOneCpu, WaitsMasked, kexit, sched,
        fpu_save_proc, Popped
<1>8. ASSUME NEW c \in Cpus, prepare_return(c) PROVE WaitsMasked'
    BY <1>8, CpuAssumption
    DEF TypeOK, At, cpuvars, fpuvars, CpuInv, OnOneCpu, WaitsMasked, prepare_return
<1>9. ASSUME NEW c \in Cpus, KernelTimer(c) PROVE WaitsMasked'
    BY <1>9, CpuAssumption
    DEF TypeOK, At, cpuvars, fpuvars, CpuInv, OnOneCpu, WaitsMasked, KernelTimer, sched,
        fpu_save_proc, Popped
<1>10. ASSUME NEW c \in Cpus, NEW p \in Procs, kfork(c, p) PROVE WaitsMasked'
    BY <1>10, CpuAssumption
    DEF TypeOK, At, cpuvars, fpuvars, CpuInv, OnOneCpu, WaitsMasked, kfork
<1>11. ASSUME NEW c \in Cpus, fpu_handle_trap(c) PROVE WaitsMasked'
    BY <1>11, CpuAssumption
    DEF TypeOK, At, cpuvars, fpuvars, CpuInv, OnOneCpu, WaitsMasked, fpu_handle_trap
<1>12. ASSUME NEW c \in Cpus, UserFp(c) PROVE WaitsMasked'
    BY <1>12, CpuAssumption
    DEF TypeOK, At, cpuvars, fpuvars, CpuInv, OnOneCpu, WaitsMasked, UserFp
<1>13. ASSUME NEW c \in Cpus, UserTimer(c) PROVE WaitsMasked'
    BY <1>13, CpuAssumption
    DEF TypeOK, At, cpuvars, fpuvars, CpuInv, OnOneCpu, WaitsMasked, UserTimer, sched,
        fpu_save_proc, Popped
<1>14. ASSUME NEW c \in Cpus, Syscall(c) PROVE WaitsMasked'
    BY <1>14, CpuAssumption
    DEF TypeOK, At, cpuvars, fpuvars, CpuInv, OnOneCpu, WaitsMasked, Syscall
<1>15. ASSUME NEW p \in Procs, Wakeup(p) PROVE WaitsMasked'
    BY <1>15, CpuAssumption
    DEF TypeOK, cpuvars, fpuvars, CpuInv, OnOneCpu, WaitsMasked, Wakeup
<1>16. ASSUME NEW p \in Procs, freeproc(p) PROVE WaitsMasked'
    BY <1>16, CpuAssumption
    DEF TypeOK, cpuvars, fpuvars, CpuInv, OnOneCpu, WaitsMasked, freeproc
<1>17. CASE UNCHANGED vars
    BY <1>17, CpuAssumption DEF TypeOK, CpuInv, OnOneCpu, WaitsMasked, vars, cpuvars, fpuvars
<1> QED
    BY <1>1, <1>2, <1>3, <1>4, <1>5, <1>6, <1>7, <1>8, <1>9, <1>10, <1>11, <1>12, <1>13, <1>14, <1>15, <1>16, <1>17
    DEF Next, SchedulerStep, SyscallStep, UserStep

LEMMA CpuInit == Init => TypeOK /\ CpuInv
<1> SUFFICES ASSUME Init PROVE TypeOK /\ CpuInv
    OBVIOUS
<1>1. TypeOK
    BY CpuAssumption DEF Init, TypeOK, Modes
<1>2. OnOneCpu /\ RegistersKept
    BY CpuAssumption DEF Init, OnOneCpu, RegistersKept, KeptFor, KeptOn, Saved
<1>3. LocksCounted /\ WaitsMasked
    BY CpuAssumption DEF Init, LocksCounted, NoLocks, Counted, WaitsMasked, At
<1> QED
    BY <1>1, <1>2, <1>3 DEF CpuInv

(* The invariant holds in every reachable state. *)
THEOREM CpuInductive == Spec => [](TypeOK /\ CpuInv)
<1>1. TypeOK /\ CpuInv /\ [Next]_vars => (TypeOK /\ CpuInv)'
    BY TypeStep, OnOneCpuStep, RegistersStep, LocksStep, WaitsStep DEF CpuInv
<1> QED
    BY CpuInit, <1>1, PTL DEF Spec

(* A program finds its own floating-point registers, however often it      *)
(* moves between CPUs and whoever used them before.                        *)
THEOREM RegistersSafety == Spec => []OwnRegisters
<1>1. TypeOK /\ CpuInv => OwnRegisters
    BY CpuAssumption DEF TypeOK, CpuInv, OnOneCpu, RegistersKept, KeptFor, KeptOn, OwnRegisters, At
<1> QED
    BY CpuInductive, <1>1, PTL

(* A system call has interrupts enabled exactly when it holds no lock, on  *)
(* whichever CPU it goes on.                                               *)
THEOREM InterruptSafety == Spec => []InterruptsMatch
<1>1. TypeOK /\ CpuInv => InterruptsMatch
    BY CpuAssumption DEF TypeOK, CpuInv, LocksCounted, Counted, InterruptsMatch, At
<1> QED
    BY CpuInductive, <1>1, PTL

(* The scheduler waits with interrupts disabled. *)
THEOREM WaitSafety == Spec => []WaitsMasked
<1>1. CpuInv => WaitsMasked
    BY DEF CpuInv
<1> QED
    BY CpuInductive, <1>1, PTL

(* The types hold: noff never falls below 0. *)
THEOREM CpuTypes == Spec => []TypeOK
    BY CpuInductive, PTL
=============================================================================
