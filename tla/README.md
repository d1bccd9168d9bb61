# Verification of the kernel, its file system image and its shell

TLA+ models, TLC configurations and TLAPS proofs for the system in `src/`: a RISC-V
teaching kernel derived from xv6 with a flat read-only file system, lazily switched
floating-point registers, a console with raw mode, and a shell that edits lines.

`PROJECT.json` lists components, runs, wrong variants, the source lines of every
definition, hazards and theorems.

## The parts and how they meet

| Part | Source | Modules |
|---|---|---|
| Process table, scheduler, sleep and wakeup, init | `kernel/proc/proc.c`, `kernel/proc/trap.c`, `user/bin/init.c` | `Proc`, abstract: `ProcTree` |
| Floating-point registers and interrupt state of threads | `kernel/proc/fpu.c`, `kernel/sync/spinlock.c`, `kernel/proc/trap.c`, `kernel/proc/proc.c` | `Cpu` |
| Console input | `kernel/dev/console.c` | `Console`, abstract: `LineDiscipline` |
| Console output and kernel printing | `kernel/dev/uart.c`, `kernel/core/printf.c` | `Uart` |
| Buffer cache and sleep-locks | `kernel/fs/bio.c`, `kernel/sync/sleeplock.c` | `BufCache`, abstract: `BlockLocks` |
| Disk driver | `kernel/dev/virtio_disk.c` | `VirtioDisk`, abstract: `DiskService` |
| Physical pages, page tables, exec, sbrk | `kernel/mm/kalloc.c`, `kernel/mm/vm.c`, `kernel/proc/exec.c` | `Vm`, abstract: `AddressSpaces` |
| Open files and in-memory inodes | `kernel/fs/file.c`, `kernel/fs/sysfile.c`, `kernel/fs/fs.c` | `Files` |
| The image: mkfs and the kernel's reader | `tools/mkfs.c`, `kernel/fs/fs.c` | `FsImage` |
| Shell: editor, history, completion, parser | `user/bin/sh.c`, `user/lib/utf8.c` | `Shell` |

Where one part uses another, the user's module takes what the other module shows:

- `sleep(chan, lk)` releases `lk` and sleeps in one step in `Console`, `Uart`, `BufCache`
  and `VirtioDisk`. `Proc` has `sleep()` and `wakeup()` in full, and `ProcProof`
  proves that no wakeup is lost.
- `BufCache` calls `virtio_disk_rw()` as two steps, request and return. `VirtioDisk`
  implements `DiskService`: a call returns after exactly one transfer of its block.
- `Files` takes an inode's sleep-lock in one step: `BufCache` has the sleep-lock in full.
- `Files` has the references and locks of `namex()` and takes what `dirlookup()` finds as
  given; `FsImage` has the search in the directory's blocks.
- `Vm` and `Cpu` take the scheduling of processes as given by `Proc`.
- `Shell` runs on the console's raw mode, whose other side is in `Console`.

## Conventions

One action is the code between two lock operations. A critical section that takes and
drops a lock without waiting is one action; a lock held from one action to the next is
a variable that names its holder. Code without a lock that others can observe
(`uartputc_sync()`, the disk device at work, mkfs's appends) is split at each access.
Variables and definitions keep the names of the source. `pc` or `job` says where a
thread is in the kernel. A `panic()` that must not be reached is a property. Constants
marked as a bound in a module's `CONSTANTS` limit how often the environment acts and
have no counterpart in the code.

A definition introduced by "Wrong variant" is a plausible mistake in the definition
after it. No specification uses it; `PROJECT.json` pairs it with a property that fails
when it takes the place of the right one.

## The modules

**Proc.** `state`, `chan`, `killed`, `pid`, `parent` are fields of `struct proc`;
`plock[p]` and `wait_lock` name the CPU that holds the lock; `run[c]` is the process on
whose kernel stack CPU `c` executes. `allocproc()`, the two parts of `kfork()`,
`reparent()`, `kexit()`, `kwait()`, `kkill()`, `yield()`, `sched()` and `scheduler()` are
one action for each slot scanned or lock taken. Slot 0 runs `init.c`; the other
processes make any system call at any time. `ProcTree` has neither locks nor scans: a
process forks, begins to exit, hands its children to init one by one, exits, is reaped.

**Cpu.** What belongs to a thread and lives in a CPU: `noff`, `intena`, `sstatus.SIE`,
`sstatus.FS` and the register file. Processes trap, nest locks, are preempted in user
space and in system calls, sleep, migrate, fork and are reused. `regs[p]` is what the
program has put in its registers.

**Console.** The ring `buf` with its unsigned indices `r`, `w`, `e`. `consoleintr()` is
one action, its ^U loop one action for each character; `consoleread()` is one action
for each byte. A control key that raw mode stores is a byte like `a`. `LineDiscipline` is
two queues: committed bytes and the line being edited.

**Uart.** The device's FIFO and interrupt, `uartwrite()` under `tx_lock`,
`uartputc_sync()` with its poll and its store apart, the handler from the PLIC's claim
to its completion, and `printf()` and `panic()`. What prints is a thread or the handler.
`masked` has the threads with interrupts off: `acquire(&pr.lock)` puts them there, and
`panic()`, or `printf()` once `panicking` is set, does not. A thread in `masked` keeps its
CPU; any other can be preempted or interrupted between any two steps, and needs only
that one of the `NCPU` CPUs has interrupts on. `kkill()` wakes a writer that sleeps.

**BufCache.** The list of buffers in order of use, `bget()` with its hit, miss and panic,
`bread()`, `brelse()` and the sleep-lock of each buffer, from whose wait `kkill()` wakes a
process that has to wait again. `BlockLocks` is one lock for each
block. The disk is never written, so a block's contents are its number.

**VirtioDisk.** Descriptors, the avail and used rings with 16-bit indices modulo `IDX`, the
driver's call from request to return, the interrupt handler, and the device, which
takes requests in order and answers in any order.

**Vm.** Three-level page tables of `FAN` entries in pages of `PG` units, the free list,
and `growproc()`, `kfork()`, `sys_exec()`, `kexec()`, `freeproc()`. Each loop that
allocates is one action per page, so that memory can run out at each of them and two
processes compete for the last pages. `AddressSpaces` is a private array of pages for
each process.

**Files.** Descriptors, the open-file table and the inode table, and the system calls
that take and drop references. `write()` to a file fails and `filemap()` is a stub.

**FsImage.** `main()` of mkfs as a state machine, one action for each allocation or
append, and `bmap()`, `readi()`, `dirlookup()`, `skipelem()`, `namex()` as operators on the
image it leaves. The unit of data is a directory entry.

**Shell.** Every key of `getcmd()`, `save_history()`, `complete_token()` and `parsecmd()`
on a buffer of bytes, with the prefix of length -1 that completion has when the cursor is
on an opening quote.

## The runs

| Run | Instance | What it shows |
|---|---|---|
| `proc` | 3 slots, 2 CPUs, kills of pid 2, failing `kalloc()` and `copyout()` | One CPU per kernel stack, none freed while in use; no wakeup of `wait()` is lost; processes are born unkilled; `ProcTree` is implemented |
| `proc_live` | 3 slots, 1 CPU, fair | A `wait()` with an exited child returns; a killed process exits |
| `proc_kill_zero` | as `proc`, `kill(0)` | **Violation**: see Findings |
| `console` | ring of 3, indices modulo 6, 2 readers | A full ring can be read, no reader sleeps on input, ^U ends unless the line lies across the wrap, `LineDiscipline` is implemented |
| `uart` | 2 CPUs, 2 threads that print, one of which panics, a writer | The FIFO does not overrun, a sleeping writer is woken, `pr.lock` is held exactly by who is in `printf()` |
| `bufcache` | 2 buffers, 3 processes, 3 blocks | `bread()` returns the right block, counts are exact, sleepers are woken, `BlockLocks` is implemented |
| `disk` | 8 descriptors, 3 processes, indices that wrap | Descriptors are neither leaked nor shared, requests are neither lost nor repeated, waiting ends, `DiskService` is implemented |
| `vm` | 2 processes, 16 pages, tables of 2 entries | Every page has one owner, no panic, sizes match mappings, `AddressSpaces` is implemented |
| `files` | 2 processes, 2 files, 3 inodes | Counts of files and inodes are exact, an inode has one holder, which has its contents, shared offsets are stable, no deadlock |
| `fsimage` | up to 3 files, 25 blocks | No block is used twice, files read back as given, names are found |
| `cpu` | 2 CPUs, 2 processes | A program finds its own registers, interrupts match the locks held, the scheduler takes interrupts |
| `shell` | buffer of 6, history of 2, `argv` of 3, 6 editing keys | Characters stay whole in a buffer that is never overrun, the history is sound, lines are parsed into their words or end the shell, completion gives a name |

These are left to the proofs below, which establish them for all constants: the type
invariants, `SchedPrecondition`, `RunningHasCpu`, `ParentAlive`, `RingBounds`,
`KillEmptiesLine`, `SleeperHasInterrupt`, `OneBufferPerBlock`, `SleeperHasOwner`,
`PanicOnlyWhenFull` and `WaitsMasked`.

### Why the bounds are enough

- `proc`: three slots are the least with a process that is child and parent at once, and
  with a slot that is reused while another process scans. Two CPUs are enough for each
  race, which is between two critical sections. `MaxFull` lets a process fork once more
  when the table is full. Pid 2 is the one that is killed because it can be running,
  asleep in `wait()`, exiting, or gone.
- `console`: a ring of three has a full ring, a two-byte character and a newline in it;
  every position of the ring is reused, and the indices wrap without end, with lines on
  both sides of the wrap. One reader asks for two bytes, so that ^D comes first or second,
  the other for one or none. The run leaves out `lead`, `^P` and `NUL`, which the editor
  treats like `a` or ignores in this model.
- `uart`: a write of one and a half batches, two bytes printed and one typed make every
  pair of `uartwrite()`, `uartputc_sync()` and handler steps meet. Three bytes in the
  FIFO, the bound before a panic, are reached. After the panic two threads get between
  poll and store at once, which is one more than before; the bound of the theorem takes
  one printed byte more. Several writers are left to the proof.
- `bufcache`: with one process and one block more than buffers, all recycling happens and
  the panic is reached.
- `disk`: eight descriptors are the code's number; three processes ask for nine, so one
  starves; `First` is 14 of 16 so that the indices wrap.
- `vm`: 16 pages are fewer than two processes with a program each need. A table of two
  entries gives eight virtual pages, of which the top two are the kernel's. The programs
  have a segment with bss, a gap, and a segment inside one that is already mapped; they
  stay below the kernel's pages (see Findings).
- `files`: two files for two processes with two descriptors each: both tables run out.
- `fsimage`: file sizes are at the boundaries of direct, indirect and doubly indirect
  blocks, and the disk is too small for the largest inputs.
- `cpu`: two values tell registers apart, two CPUs and two processes give every migration.
- `shell`: six keys fill the buffer of six, and Enter is not counted, so that the
  history overflows. A line of three words has too many for `argv`. The directory has two
  commands and three names (see Findings).

`CpuSymmetry` in `proc` is used for safety only: CPUs are interchangeable in the
specification and in every property of the run.

Deadlock is checked in `proc`, `proc_live`, `console` and `files`. The other models stop
when their bounded supply of calls, bytes or keys is used up, when the image is
finished, or in a panic.

### Fairness

- `proc_live`: every CPU keeps scheduling, timer interrupts keep coming, and a process
  that is on a CPU keeps executing. Steps that need a lock are strongly fair for each
  process: a spinlock that becomes free again and again is got in the end. Nothing is
  assumed of user code, which may spin for ever. Init does not exit in this run.
- `console`: the ^U loop goes on, since the handler runs with interrupts off. Nothing is
  assumed of readers.
- `uart`: the device sends what it has, the interrupt is claimed by some CPU in the end
  and its handler runs on, a thread that prints goes on. Claiming is strongly fair because
  a byte stored meanwhile withdraws the interrupt, and the handler because `procdump()`
  prints finitely many lines. Writing and typing are not fair. That what the kernel
  prints is bounded (`MaxSync`) is needed here: output without end, each byte of which
  withdraws the interrupt before a CPU takes it, would keep a writer asleep.
- `bufcache`: a process between `bget()` and `brelse()` goes on; the code never holds a
  buffer across a wait for user input.
- `disk`: the device takes and answers requests and the handler runs. Calls are not fair.
- `cpu`: the scheduler's own steps, which wait for nothing but an interrupt.

The other runs check safety.

## What is proved

Eight modules hold the proofs; each extends the module it is about. The theorems hold
for every value of the constants that satisfies the named `ASSUME` of the module: every
number of processes, CPUs, buffers, descriptors, files, readers and writers.

**ProcProof** (`ProcAssumption`), in three parts. `TypeCorrect`, `StackSafety`, `SchedSafety`,
`RunningSafety`. That no two CPUs share a stack is not inductive: it depends on who holds
`p->lock` when. `LockInv` says that `p->lock` is held only around `swtch()`, by the CPU on
either side of it; that a CPU executing a process is the only one and the process is
RUNNING until it is about to switch; that a process no CPU executes is parked in
`swtch()`; that `wait_lock` is held inside exit or wait; and that the slot `kfork()` fills
is reserved for it.

On top of it, `ParentSafety` and `NoLostWakeup`. `TreeInv` adds that
a parent is alive and what `reparent()` has achieved: no slot below `i` has the exiting
parent any more. `SleepInv` adds what the other scans have established under
`wait_lock`: in `kwait()` no slot below `i` is an exited child, after the wakeup in
`kexit()` the parent does not sleep, and only init can be asleep with an exited child,
while `reparent()` is about to wake it.

On top of both, `TreeRefined`: `Proc` implements `ProcTree`. A step is
either unseen, because no slot changes its status or parent in the tree, or is one of
five: the end of `kfork()`, the start of `kexit()`, a child handed over, the end of
`kexit()`, and `freeproc()` in `kwait()`. That `kexit()` ends without children needs
`TreeInv`.

**CpuProof** (`CpuAssumption`). `RegistersSafety`, `InterruptSafety`, `WaitSafety`,
`CpuTypes`. `CpuInv`: a process is on at most one CPU; its registers are in the CPU it is
active on or else in its `fpu` area; `noff` counts the locks held and `intena` or the
saved copy says whether interrupts were on.

**ConsoleProof** (`ConsoleAssumption`: the ring's size divides the range of the indices,
as 128 divides 2^32). `RingSafety`, `FullSafety`, `ReaderSafety`, `KillSafety`, which hold
past the wrap of the indices. The invariant adds that a
reader holds the lock exactly inside its loop and that `r = w` from its last look to its
sleep; `KillSafety` also needs that the bytes from `w` to `e` contain no newline.

**UartProof** (`UartAssumption`). `FifoSafety`, `WriterSafety`, `PrintfSafety`. The FIFO's
bound follows from counting what may still be stored: bytes in the FIFO, threads and
handler that have seen it idle and not stored yet, and one more while `tx_busy` is clear.
Until a panic only the holder of `pr.lock` and the handler store, which makes three of 16
places, however many CPUs and threads there are. After it every thread may, and all that
holds is one byte for each thread and two more. That pr.lock has one holder, the context
inside `printf()`, is therefore part of the invariant.

**BufCacheProof** (`BufCacheAssumption`). `CachedOnce`, `ReadSafety`, `CountSafety`,
`PanicSafety`, `LocksRefined`. `BufInv`: every process between `bget()` and `brelse()` has
a buffer with the block it wants, `refcnt` counts these processes, so that a buffer is
recycled only if nobody has it, the owner of a sleep-lock is one of them, and a valid
buffer has its block's contents. The refinement follows from it: two processes that
hold one block hold one buffer.

**VirtioDiskProof** (`VirtioAssumption`: the rings' size divides the range of the indices,
as 8 divides 2^16). `DescriptorsAreOwned`, `RequestsAreAccounted`,
`DriverImplementsService`, past any number of wraps and without needing `MaxCalls`.
`DiskInv`: the descriptors of a request make a chain of three that nobody shares and that
describes what its process asked for; each ring holds different requests, at most as many
as it has slots; and a request that is not yet answered is in one place, with status 255
before the device has done it and 0 after. Neither ring overflows because a request that
is about to enter is in no slot of it and there are as many slots as descriptors, which
is a pigeonhole argument. The lemmas about `%` say in which slots the entries between two
indices are and that IDX, a multiple of NUM, does not show in them. A step of the driver
is then a call, a transfer, a return or unseen in `DiskService`.

**FilesLemmas**, **FilesProof** (`FilesAssumption`: the inode table has an entry for each
inode of the image, of which mkfs makes fewer than 50 and nobody makes more; otherwise
`iget()` panics). `FileCountsExact`, `InodeCountsExact`, `HoldersHaveInodes`,
`OffsetsStable`. `FilesInv` says which locals a system call has set at each of its steps
and which references it therefore holds; that a count is the number of descriptors,
current directories, open files and calls of that kind, where only `dup()` has a
descriptor that is not yet counted; that an entry in use is the only one of its inode; and that the owner of an inode's lock is the call that is between `ilock()` and
`iunlock()` of it. `FilesLemmas` has the invariant, how a count changes when one
reference is moved, made or dropped, and the steps of `namex()`, `open()` and `exec()`;
`FilesProof` the other calls and the theorems.

### What is only model-checked

- Liveness (`WaitReturns`, `KilledExits`, `WriterWoken`, `SleeperWoken`, `RequestReturns`,
  `StarvedWoken`, `TakesInterrupts`, `KillEnds`): temporal
  reasoning under fairness, and `ENABLED`, are out of the prover's reach.
- `FsImage` and `Shell`: what their algorithms compute for every input would need
  induction over data, which the installed provers cannot do; nor can they use modules
  with `RECURSIVE` operators. TLC compares the algorithms with reference definitions on
  all bounded inputs.
- `Vm` with its refinement, `BornUnkilled` and `ImplementsLine`: within reach, not proved.

## Findings

- **kill(0)** (`proc_kill_zero`). `kkill()` compares pids without looking at `state`, and a
  free slot has pid 0: `kill(0)` marks a free slot killed, and the next process in it
  exits at its first trap. In `proc`, where only pids of processes are killed,
  `BornUnkilled` holds.

Behaviour met while modelling that contradicts no run's property:

- **init can exit** (`init.c:24`). `wait()` frees the shell's slot, another process takes
  it, the next `fork()` fails, init exits and `kexit()` panics. `Proc` has init's call of
  `exit()`; its thread stays there and is preempted like any other, since `panic()` leaves
  interrupts on, and the other processes go on.
- **A kill just before `sleep()`** (`proc.c:387`, `console.c:151`) is noticed only at the
  next wakeup.
- **^U after the wrap** (`console.c:58`). `utf8_char_len()` compares indices as numbers.
  When `e` has wrapped and `w` has not, it returns 0, and the ^U loop erases nothing and
  keeps `cons.lock` for ever. It takes 2^32 typed bytes. `KillEnds` has the condition,
  `w <= e`; the other properties of the ring hold across the wrap as well.
- **Lost characters in a panic** (`uart.c:101`, `printf.c:64`). `panicking` lifts `pr.lock`
  and `push_off()` at once, and threads that print are preempted between poll and store.
  With up to 64 processes the bound of `NoOverrun` is then above the FIFO's 16 places.
- **Completion on an opening quote** (`sh.c:177`). The prefix has length -1 and matches
  every name. If the directory has exactly one, `match[-1]` is read, and the byte there
  and the name go into the line: with a single command in the instance `CompletesToName`
  and `LineSound` fail. The image holds at least init and sh and nothing is removed from
  it, so this needs another image.
- **Executables that reach the trapframe** (`exec.c:64`, `exec.c:83`). `growproc()` refuses a
  size above `TRAPFRAME`, `kexec()` does not, and `mappages()` or `walk()` would panic. Every
  page up to there is allocated first, and physical memory is far smaller than the 2^38
  bytes of the address space, so `exec()` fails for want of memory. The instance's memory
  is not that small, and its programs end below the trapframe instead.
- **Writes after a panic** (`uart.c:88`). `uartwrite()` does not look at `panicked`, so that
  output of other CPUs goes on, which the comment at `printf.c:135` means to freeze.
- **A directory that fills its blocks** (`mkfs.c:163`). mkfs rounds the directory's size up
  to the next block and adds a whole one if it is full; the last block has no address,
  and `dirlookup()` of a missing name panics. `NamexFinds` says so.
- **Floating-point instructions the trap does not know** (`trap.c:26`, `trap.c:80`):
  compressed loads and stores and reads of `fcsr` get a process killed, an illegal
  instruction with a floating-point opcode makes it trap for ever.

## Not modelled

- Boot (`entry.S`, `start.c`, `main.c`, `fdt.c`): straight-line code whose result is the
  initial states.
- System call dispatch (`syscall.c`): a table; each call is an action of its component.
- The assembly (`swtch.S`, `trampoline.S`, `kernelvec.S`, `fpu.S`): a switch or a trap is
  one step that keeps the thread's registers.
- Device set-up (`virtio_disk_init()`, `plicinit()`, `uartinit()`) and device errors, to
  which the driver's answer is a panic.
- Data movement and formatting: `copyin()`, `copyout()` (their failures are modelled),
  `string.c`, both `printf.c` formatters, what the shell draws.
- The labs' extension points `vmfault()`, `filemap()`, `sys_vmstat()`: stubs that fail, and
  the programs that test them.
- `umalloc.c`: sequential code on the heap of one process; nothing in the kernel depends
  on it.
- The language model runner (`llm.c`, `math.c`, `next.c`): floating-point arithmetic on
  arrays.
- The other user programs, the build files and scripts.

## Running

    tlc -config MCProc.cfg MCProc        # likewise for the other runs
    tlapm ProcProof.tla                  # likewise for the other proof modules
