-------------------------------- MODULE Cpu ---------------------------------
(***************************************************************************)
(* What a kernel thread takes along when it moves from one CPU to another: *)
(* the floating-point registers, which are switched lazily                 *)
(* (kernel/proc/fpu.c), and the interrupt state behind push_off() and      *)
(* pop_off() (kernel/sync/spinlock.c), through traps, system calls,        *)
(* sched() and scheduler().                                                *)
(*                                                                         *)
(* A critical section of p->lock is one action.  Two of them span a        *)
(* switch: yield(), sleep() or kexit() takes the lock and scheduler()      *)
(* releases it; scheduler() takes it and the thread releases it.  Proc     *)
(* has them in full.                                                       *)
(***************************************************************************)
EXTENDS Integers, FiniteSets

CONSTANTS
    Cpus, Procs, First,   \* the first process
    Values, ZERO,         \* contents of the register file; all zeroes
    MaxNest,              \* most locks a system call nests
    NULL

ASSUME CpuAssumption ==
    /\ First \in Procs /\ ZERO \in Values
    /\ MaxNest \in Nat
    /\ NULL \notin Procs /\ NULL \notin Cpus

VARIABLES
    proc,                 \* c->proc
    noff, intena,
    intr,                 \* sstatus.SIE: interrupts are enabled
    fs, hw,               \* sstatus.FS is not OFF; the register file
    sc,                   \* where scheduler() is, if proc is NULL
    found,                \* scheduler()'s found
    state,                \* of a process
    mode,                 \* where the thread is: in user space, in a system
                          \* call, or in sched() as called from there
    depth,                \* locks the system call holds
    saved,                \* sched()'s intena
    frame,                \* kerneltrap()'s sstatus.FS
    fpu, fpu_used, fpu_active,
    regs                  \* what the program has put in its registers

cpuvars == <<proc, noff, intena, intr, fs, hw, sc, found>>
fpuvars == <<fpu, fpu_used, fpu_active, regs>>
vars == <<cpuvars, state, mode, depth, saved, frame, fpuvars>>

Init ==
    /\ proc = [c \in Cpus |-> NULL]
    /\ noff = [c \in Cpus |-> 0]
    /\ intena = [c \in Cpus |-> FALSE]
    /\ intr = [c \in Cpus |-> FALSE]
    /\ fs = [c \in Cpus |-> FALSE]
    /\ hw \in [Cpus -> Values]
    /\ sc = [c \in Cpus |-> "loop"]
    /\ found = [c \in Cpus |-> FALSE]
    /\ state = [p \in Procs |-> IF p = First THEN "RUNNABLE" ELSE "UNUSED"]
    /\ mode = [p \in Procs |-> "forkret"]
    /\ depth = [p \in Procs |-> 0]
    /\ saved = [p \in Procs |-> FALSE]
    /\ frame = [p \in Procs |-> FALSE]
    /\ fpu = [p \in Procs |-> ZERO]
    /\ fpu_used = [p \in Procs |-> FALSE]
    /\ fpu_active = [p \in Procs |-> FALSE]
    /\ regs = [p \in Procs |-> ZERO]

At(c, m) == proc[c] # NULL /\ mode[proc[c]] = m

----------------------------------------------------------------------------
(* spinlock.c *)

(* old: whether interrupts were enabled. *)
push_off(c, old) ==
    /\ intr' = [intr EXCEPT ![c] = FALSE]
    /\ intena' = [intena EXCEPT ![c] = IF noff[c] = 0 THEN old ELSE @]
    /\ noff' = [noff EXCEPT ![c] = @ + 1]

(* pop_off() with ie in intena; it panics if interrupts are enabled or     *)
(* noff is 0.                                                              *)
pop_off(c, ie) ==
    /\ noff' = [noff EXCEPT ![c] = @ - 1]
    /\ intena' = [intena EXCEPT ![c] = ie]
    /\ intr' = [intr EXCEPT ![c] = noff[c] = 1 /\ ie]

----------------------------------------------------------------------------
(* fpu.c *)

(* Wrong variant: the process goes on being active. *)
fpu_save_kept(c, p) ==
    /\ fpu' = [fpu EXCEPT ![p] = IF fpu_active[p] THEN hw[c] ELSE @]
    /\ fs' = [fs EXCEPT ![c] = FALSE]
    /\ UNCHANGED fpu_active

fpu_save_proc(c, p) ==
    /\ fpu' = [fpu EXCEPT ![p] = IF fpu_active[p] THEN hw[c] ELSE @]
    /\ fs' = [fs EXCEPT ![c] = FALSE]
    /\ fpu_active' = [fpu_active EXCEPT ![p] = FALSE]

(* A floating-point instruction with FS off, and prepare_return().         *)
(* user_fpu_instruction() knows the instruction.                           *)
fpu_handle_trap(c) ==
    LET p == proc[c]
        f == IF fpu_used[p] THEN fpu[p] ELSE ZERO
    IN  /\ At(c, "user")
        /\ ~fs[c]
        /\ fpu' = [fpu EXCEPT ![p] = f]
        /\ fpu_used' = [fpu_used EXCEPT ![p] = TRUE]
        /\ hw' = [hw EXCEPT ![c] = f]
        /\ fpu_active' = [fpu_active EXCEPT ![p] = TRUE]
        /\ fs' = [fs EXCEPT ![c] = TRUE]
        /\ UNCHANGED <<proc, noff, intena, intr, sc, found, state, mode, depth, saved, frame, regs>>

(* The program computes, with FS on. *)
UserFp(c) ==
    LET p == proc[c]
    IN  /\ At(c, "user")
        /\ fs[c]
        /\ \E v \in Values : /\ hw' = [hw EXCEPT ![c] = v]
                             /\ regs' = [regs EXCEPT ![p] = v]
        /\ UNCHANGED <<proc, noff, intena, intr, fs, sc, found, state, mode, depth, saved, frame,
                       fpu, fpu_used, fpu_active>>

----------------------------------------------------------------------------
(* proc.c *)

(* Interrupts are enabled after an outermost push_off() and pop_off(),     *)
(* with ie in intena.                                                      *)
Popped(c, ie) == noff[c] = 0 /\ ie

(* yield(), sleep() and kexit() call sched(), and scheduler() releases     *)
(* p->lock with the intena the process left.  old: whether interrupts were *)
(* enabled; m: where the thread goes on.                                   *)
sched(c, new, m, old) ==
    LET p == proc[c]
        ie == IF noff[c] = 0 THEN old ELSE intena[c]
    IN  /\ state' = [state EXCEPT ![p] = new]
        /\ mode' = [mode EXCEPT ![p] = m]
        /\ saved' = [saved EXCEPT ![p] = ie]
        /\ intena' = [intena EXCEPT ![c] = ie]
        /\ intr' = [intr EXCEPT ![c] = Popped(c, ie)]
        /\ fpu_save_proc(c, p)
        /\ proc' = [proc EXCEPT ![c] = NULL]
        /\ UNCHANGED <<noff, hw, sc, found, depth, fpu_used, regs>>

(* Wrong variant: interrupts stay as they are. *)
LoopMasked(c) ==
    /\ proc[c] = NULL
    /\ sc[c] = "loop"
    /\ sc' = [sc EXCEPT ![c] = "scan"]
    /\ UNCHANGED <<proc, noff, intena, intr, fs, hw, found, state, mode, depth, saved, frame, fpuvars>>

(* intr_on() and intr_off() at the top of the loop. *)
Loop(c) ==
    /\ proc[c] = NULL
    /\ sc[c] \in {"loop", "on"}
    /\ intr' = [intr EXCEPT ![c] = sc[c] = "loop"]
    /\ sc' = [sc EXCEPT ![c] = IF @ = "loop" THEN "on" ELSE "scan"]
    /\ found' = [found EXCEPT ![c] = FALSE]
    /\ UNCHANGED <<proc, noff, intena, fs, hw, state, mode, depth, saved, frame, fpuvars>>

(* The process table is through; wfi, if nothing was found. *)
Scanned(c) ==
    /\ proc[c] = NULL
    /\ sc[c] = "scan"
    /\ sc' = [sc EXCEPT ![c] = "loop"]
    /\ UNCHANGED <<proc, noff, intena, intr, fs, hw, found, state, mode, depth, saved, frame, fpuvars>>

(* Wrong variant: what the CPU has. *)
RestoredCpu(c, p) == intr[c]

(* intena, when the thread goes on: forkret() has none to restore and sees *)
(* what acquire() in scheduler() put there.                                *)
Restored(c, p) == IF mode[p] = "forkret" THEN intr[c] ELSE saved[p]

Found(c) == found' = [found EXCEPT ![c] = TRUE]

(* scheduler() takes p's lock and switches to the thread, which releases   *)
(* it.  forkret() and usertrap() return to user space by way of            *)
(* prepare_return(), and sret enables interrupts; kerneltrap() restores    *)
(* sstatus.  found is set when scheduler() is back: nobody looks before.   *)
Run(c, p) ==
    /\ proc[c] = NULL
    /\ sc[c] = "scan"
    /\ state[p] = "RUNNABLE"
    /\ state' = [state EXCEPT ![p] = "RUNNING"]
    /\ proc' = [proc EXCEPT ![c] = p]
    /\ intena' = [intena EXCEPT ![c] = Restored(c, p)]
    /\ intr' = [intr EXCEPT ![c] = mode[p] # "sleep" \/ Popped(c, Restored(c, p))]
    /\ fs' = [fs EXCEPT ![c] = CASE mode[p] \in {"forkret", "usertrap"} -> fpu_active[p]
                                 [] mode[p] = "kerneltrap" -> frame[p]
                                 [] OTHER -> @]
    /\ mode' = [mode EXCEPT ![p] = IF @ \in {"forkret", "usertrap"} THEN "user" ELSE "syscall"]
    /\ saved' = [saved EXCEPT ![p] = FALSE]      \* the locals are gone
    /\ frame' = [frame EXCEPT ![p] = FALSE]
    /\ Found(c)
    /\ UNCHANGED <<noff, hw, sc, depth, fpuvars>>

----------------------------------------------------------------------------
(* trap.c and the system calls *)

(* A timer interrupt, in user space and in a system call: the hardware     *)
(* disables interrupts before yield() is called.                           *)
UserTimer(c) ==
    /\ At(c, "user")
    /\ sched(c, "RUNNABLE", "usertrap", FALSE)
    /\ UNCHANGED frame

KernelTimer(c) ==
    /\ At(c, "syscall")
    /\ intr[c]
    /\ sched(c, "RUNNABLE", "kerneltrap", FALSE)
    /\ frame' = [frame EXCEPT ![proc[c]] = fs[c]]

Syscall(c) ==
    /\ At(c, "user")
    /\ mode' = [mode EXCEPT ![proc[c]] = "syscall"]
    /\ intr' = [intr EXCEPT ![c] = TRUE]
    /\ UNCHANGED <<proc, noff, intena, fs, hw, sc, found, state, depth, saved, frame, fpuvars>>

Acquire(c) ==
    /\ At(c, "syscall")
    /\ depth[proc[c]] < MaxNest
    /\ push_off(c, intr[c])
    /\ depth' = [depth EXCEPT ![proc[c]] = @ + 1]
    /\ UNCHANGED <<proc, fs, hw, sc, found, state, mode, saved, frame, fpuvars>>

Release(c) ==
    /\ At(c, "syscall")
    /\ depth[proc[c]] > 0
    /\ pop_off(c, intena[c])
    /\ depth' = [depth EXCEPT ![proc[c]] = @ - 1]
    /\ UNCHANGED <<proc, fs, hw, sc, found, state, mode, saved, frame, fpuvars>>

(* sleep() drops the lock it is called with, if any, before sched(). *)
Sleep(c) ==
    /\ At(c, "syscall")
    /\ depth[proc[c]] = 0
    /\ sched(c, "SLEEPING", "sleep", intr[c])
    /\ UNCHANGED frame

kexit(c) ==
    /\ At(c, "syscall")
    /\ depth[proc[c]] = 0
    /\ sched(c, "ZOMBIE", "exit", intr[c])
    /\ UNCHANGED frame

(* The child gets the parent's registers. *)
kfork(c, np) ==
    LET p == proc[c]
        f == IF fpu_active[p] THEN hw[c] ELSE fpu[p]
    IN  /\ At(c, "syscall")
        /\ depth[p] = 0
        /\ state[np] = "UNUSED"
        /\ fpu' = [fpu EXCEPT ![p] = f, ![np] = f]
        /\ fs' = [fs EXCEPT ![c] = FALSE]
        /\ fpu_active' = [fpu_active EXCEPT ![p] = FALSE, ![np] = FALSE]
        /\ fpu_used' = [fpu_used EXCEPT ![np] = fpu_used[p]]
        /\ regs' = [regs EXCEPT ![np] = regs[p]]
        /\ state' = [state EXCEPT ![np] = "RUNNABLE"]
        /\ mode' = [mode EXCEPT ![np] = "forkret"]
        /\ UNCHANGED <<proc, noff, intena, intr, hw, sc, found, depth, saved, frame>>

prepare_return(c) ==
    /\ At(c, "syscall")
    /\ depth[proc[c]] = 0
    /\ mode' = [mode EXCEPT ![proc[c]] = "user"]
    /\ intr' = [intr EXCEPT ![c] = TRUE]
    /\ fs' = [fs EXCEPT ![c] = fpu_active[proc[c]]]
    /\ UNCHANGED <<proc, noff, intena, hw, sc, found, state, depth, saved, frame, fpuvars>>

(* Another process wakes p, or waits for it and frees it. *)
Wakeup(p) ==
    /\ state[p] = "SLEEPING"
    /\ state' = [state EXCEPT ![p] = "RUNNABLE"]
    /\ UNCHANGED <<cpuvars, mode, depth, saved, frame, fpuvars>>

freeproc(p) ==
    /\ state[p] = "ZOMBIE"
    /\ state' = [state EXCEPT ![p] = "UNUSED"]
    /\ fpu' = [fpu EXCEPT ![p] = ZERO]
    /\ fpu_used' = [fpu_used EXCEPT ![p] = FALSE]
    /\ fpu_active' = [fpu_active EXCEPT ![p] = FALSE]
    /\ regs' = [regs EXCEPT ![p] = ZERO]
    /\ UNCHANGED <<cpuvars, mode, depth, saved, frame>>

----------------------------------------------------------------------------
SchedulerStep(c) == Loop(c) \/ Scanned(c) \/ \E p \in Procs : Run(c, p)

SyscallStep(c) ==
    \/ Acquire(c) \/ Release(c) \/ Sleep(c) \/ kexit(c) \/ prepare_return(c) \/ KernelTimer(c)
    \/ \E np \in Procs : kfork(c, np)

UserStep(c) == fpu_handle_trap(c) \/ UserFp(c) \/ UserTimer(c) \/ Syscall(c)

Next ==
    \/ \E c \in Cpus : SchedulerStep(c) \/ SyscallStep(c) \/ UserStep(c)
    \/ \E p \in Procs : Wakeup(p) \/ freeproc(p)

Spec == Init /\ [][Next]_vars

(* A CPU does not stop in the scheduler. *)
FairSpec == Spec /\ \A c \in Cpus : WF_vars(SchedulerStep(c))

----------------------------------------------------------------------------
Modes == {"forkret", "usertrap", "kerneltrap", "sleep", "exit", "user", "syscall"}

(* The types of all variables. *)
TypeOK ==
    /\ proc \in [Cpus -> Procs \cup {NULL}]
    /\ noff \in [Cpus -> Nat]
    /\ intena \in [Cpus -> BOOLEAN]
    /\ intr \in [Cpus -> BOOLEAN]
    /\ fs \in [Cpus -> BOOLEAN]
    /\ hw \in [Cpus -> Values]
    /\ sc \in [Cpus -> {"loop", "on", "scan"}]
    /\ found \in [Cpus -> BOOLEAN]
    /\ state \in [Procs -> {"UNUSED", "RUNNABLE", "RUNNING", "SLEEPING", "ZOMBIE"}]
    /\ mode \in [Procs -> Modes]
    /\ depth \in [Procs -> 0 .. MaxNest]
    /\ saved \in [Procs -> BOOLEAN]
    /\ frame \in [Procs -> BOOLEAN]
    /\ fpu \in [Procs -> Values]
    /\ fpu_used \in [Procs -> BOOLEAN]
    /\ fpu_active \in [Procs -> BOOLEAN]
    /\ regs \in [Procs -> Values]

(* What fpu_handle_trap() would load for p. *)
Saved(p) == IF fpu_used[p] THEN fpu[p] ELSE ZERO

(* A program that can use the registers finds in them what it put there,   *)
(* or its parent before the fork(): not what another process, or an        *)
(* earlier one in the same slot, left in this CPU.  If it cannot use them  *)
(* yet, fpu_handle_trap() will load just that.                             *)
OwnRegisters ==
    \A c \in Cpus :
        At(c, "user") =>
            IF fs[c] THEN hw[c] = regs[proc[c]] ELSE Saved(proc[c]) = regs[proc[c]]

(* In a system call interrupts are enabled exactly when it holds no lock,  *)
(* and noff counts its locks, wherever the thread has been since it took   *)
(* the first: intena is "a property of this kernel thread, not this CPU".  *)
(* So sched() and pop_off() do not panic.                                  *)
InterruptsMatch ==
    \A c \in Cpus :
        At(c, "syscall") => /\ noff[c] = depth[proc[c]]
                            /\ intr[c] <=> depth[proc[c]] = 0

(* The scheduler waits for an interrupt with interrupts disabled, so that  *)
(* one that comes just before is not taken but ends the wait: "to avoid a  *)
(* possible race between an interrupt and wfi".  A process that left them  *)
(* enabled was found.                                                      *)
WaitsMasked ==
    \A c \in Cpus : proc[c] = NULL /\ sc[c] = "scan" /\ ~found[c] => ~intr[c]

(* A CPU in the scheduler comes to take interrupts, whatever the state of  *)
(* the process it was left by, and even if no process can run: it enables  *)
(* them "to avoid a deadlock if all processes are waiting".                *)
TakesInterrupts == \A c \in Cpus : proc[c] = NULL ~> intr[c]
=============================================================================
