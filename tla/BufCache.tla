------------------------------ MODULE BufCache ------------------------------
(***************************************************************************)
(* The buffer cache, kernel/fs/bio.c, with the sleep-locks of              *)
(* kernel/sync/sleeplock.c that its buffers carry.                         *)
(*                                                                         *)
(* A critical section of bcache.lock or of a sleep-lock's spinlock is one  *)
(* action.  sleep() gives up the spinlock in the same action: Proc shows   *)
(* that it loses no wakeup.  virtio_disk_rw() is two actions, see          *)
(* VirtioDisk.  The disk is never written, so the contents of a block are  *)
(* represented by its number.                                              *)
(***************************************************************************)
EXTENDS Integers, FiniteSets

CONSTANTS
    NBUF,     \* number of buffers
    Procs,    \* processes in the file system, one buffer at a time each
    Blocks,   \* block numbers
    NULL      \* no process, no buffer, a block of no device

ASSUME BufCacheAssumption ==
    /\ NBUF \in Nat \ {0}
    /\ IsFiniteSet(Procs)
    /\ NULL \notin Blocks /\ NULL \notin Procs /\ NULL \notin Nat

Bufs == 1 .. NBUF

VARIABLES
    list,                   \* the list from head.next on, most recent first
    blockno, valid, refcnt, data,   \* fields of each buffer
    owner,                  \* its sleep-lock: locked by whom, or NULL
    pc,                     \* where each process is
    b, want, sector         \* its buffer, the block it asked for, and the
                            \* block virtio_disk_rw() was told to read

bufvars == <<list, blockno, valid, refcnt, data>>
vars == <<bufvars, owner, pc, b, want, sector>>

(* binit() puts each buffer in front of the ones before it. *)
Init ==
    /\ list = [x \in Bufs |-> NBUF + 1 - x]
    /\ blockno = [x \in Bufs |-> NULL]
    /\ valid = [x \in Bufs |-> FALSE]
    /\ refcnt = [x \in Bufs |-> 0]
    /\ data = [x \in Bufs |-> NULL]
    /\ owner = [x \in Bufs |-> NULL]
    /\ pc = [p \in Procs |-> "idle"]
    /\ b = [p \in Procs |-> NULL]
    /\ want = [p \in Procs |-> NULL]
    /\ sector = [p \in Procs |-> NULL]

Goto(p, l) == pc' = [pc EXCEPT ![p] = l]

----------------------------------------------------------------------------
(* bget() *)

(* A process that panics in bget() keeps bcache.lock. *)
LockFree == \A q \in Procs : pc[q] # "panic"

Cached(k) == \E x \in Bufs : blockno[x] = k

(* The first buffer of the list that holds block k. *)
FirstWith(k, x) ==
    \E m \in Bufs : /\ x = list[m]
                    /\ blockno[x] = k
                    /\ \A l \in 1 .. m - 1 : blockno[list[l]] # k

(* Wrong variant: the last buffer of the list, in use or not. *)
LastAny(x) == x = list[NBUF]

(* The last buffer of the list that is not in use. *)
LastUnused(x) ==
    \E m \in Bufs : /\ x = list[m]
                    /\ refcnt[x] = 0
                    /\ \A l \in m + 1 .. NBUF : refcnt[list[l]] # 0

(* Wrong variant: the hit is not counted. *)
bget_hit_uncounted(p, k) ==
    /\ pc[p] = "idle"
    /\ LockFree
    /\ \E x \in Bufs : FirstWith(k, x) /\ b' = [b EXCEPT ![p] = x]
    /\ want' = [want EXCEPT ![p] = k]
    /\ Goto(p, "lock")
    /\ UNCHANGED <<bufvars, owner, sector>>

(* The block is cached. *)
bget_hit(p, k) ==
    /\ pc[p] = "idle"
    /\ LockFree
    /\ \E x \in Bufs :
           /\ FirstWith(k, x)
           /\ refcnt' = [refcnt EXCEPT ![x] = @ + 1]
           /\ b' = [b EXCEPT ![p] = x]
    /\ want' = [want EXCEPT ![p] = k]
    /\ Goto(p, "lock")
    /\ UNCHANGED <<list, blockno, valid, data, owner, sector>>

(* Wrong variant: valid is left as it was. *)
RecycleValid(x, k) ==
    /\ blockno' = [blockno EXCEPT ![x] = k]
    /\ refcnt' = [refcnt EXCEPT ![x] = 1]
    /\ UNCHANGED valid

Recycle(x, k) ==
    /\ blockno' = [blockno EXCEPT ![x] = k]
    /\ valid' = [valid EXCEPT ![x] = FALSE]
    /\ refcnt' = [refcnt EXCEPT ![x] = 1]

(* It is not: the least recently used buffer is recycled. *)
bget_miss(p, k) ==
    /\ pc[p] = "idle"
    /\ LockFree
    /\ ~Cached(k)
    /\ \E x \in Bufs :
           /\ LastUnused(x)
           /\ Recycle(x, k)
           /\ b' = [b EXCEPT ![p] = x]
    /\ want' = [want EXCEPT ![p] = k]
    /\ Goto(p, "lock")
    /\ UNCHANGED <<list, data, owner, sector>>

(* panic("bget: no buffers") *)
bget_panic(p, k) ==
    /\ pc[p] = "idle"
    /\ LockFree
    /\ ~Cached(k)
    /\ \A x \in Bufs : refcnt[x] # 0
    /\ Goto(p, "panic")
    /\ UNCHANGED <<bufvars, owner, b, want, sector>>

----------------------------------------------------------------------------
(* The sleep-lock of the process's buffer. *)

(* acquiresleep(): a process that finds the lock held sleeps, and looks    *)
(* again when woken.                                                       *)
AcquireFree(p) ==
    /\ pc[p] \in {"lock", "wake"}
    /\ owner[b[p]] = NULL
    /\ owner' = [owner EXCEPT ![b[p]] = p]
    /\ Goto(p, "locked")
    /\ UNCHANGED <<bufvars, b, want, sector>>

AcquireHeld(p) ==
    /\ pc[p] \in {"lock", "wake"}
    /\ owner[b[p]] # NULL
    /\ Goto(p, "asleep")
    /\ UNCHANGED <<bufvars, owner, b, want, sector>>

(* kkill() of a process that sleeps here wakes it. *)
Kill(p) ==
    /\ pc[p] = "asleep"
    /\ Goto(p, "wake")
    /\ UNCHANGED <<bufvars, owner, b, want, sector>>

(* Wrong variant: nobody is woken. *)
WakeupNone(p) == Goto(p, "release")

(* wakeup(lk), and p goes on to give up its reference. *)
Wakeup(p) ==
    pc' = [q \in Procs |-> IF q = p THEN "release"
                           ELSE IF pc[q] = "asleep" /\ b[q] = b[p] THEN "wake"
                           ELSE pc[q]]

(* releasesleep() at the beginning of brelse(), which panics unless the    *)
(* lock is the caller's: HolderHasBlock says it is.                        *)
releasesleep(p) ==
    /\ pc[p] = "have"
    /\ owner' = [owner EXCEPT ![b[p]] = NULL]
    /\ Wakeup(p)
    /\ UNCHANGED <<bufvars, b, want, sector>>

----------------------------------------------------------------------------
(* bread() and brelse() *)

bread_cached(p) ==
    /\ pc[p] = "locked"
    /\ valid[b[p]]
    /\ Goto(p, "have")
    /\ UNCHANGED <<bufvars, owner, b, want, sector>>

(* virtio_disk_rw(b, 0) computes the sector and waits *)
bread_start(p) ==
    /\ pc[p] = "locked"
    /\ ~valid[b[p]]
    /\ sector' = [sector EXCEPT ![p] = blockno[b[p]]]
    /\ Goto(p, "io")
    /\ UNCHANGED <<bufvars, owner, b, want>>

(* until the device has filled the buffer. *)
bread_done(p) ==
    /\ pc[p] = "io"
    /\ data' = [data EXCEPT ![b[p]] = sector[p]]
    /\ valid' = [valid EXCEPT ![b[p]] = TRUE]
    /\ Goto(p, "have")
    /\ UNCHANGED <<list, blockno, refcnt, owner, b, want, sector>>

(* The buffer moves to the front of the list. *)
MoveToFront(x) ==
    \E m \in Bufs :
        /\ list[m] = x
        /\ list' = [l \in Bufs |-> IF l = 1 THEN x
                                   ELSE IF l <= m THEN list[l - 1]
                                   ELSE list[l]]

(* brelse() drops the reference. *)
brelse(p) ==
    /\ pc[p] = "release"
    /\ LockFree
    /\ refcnt' = [refcnt EXCEPT ![b[p]] = @ - 1]
    /\ \/ refcnt[b[p]] = 1 /\ MoveToFront(b[p])
       \/ refcnt[b[p]] # 1 /\ UNCHANGED list
    /\ b' = [b EXCEPT ![p] = NULL]
    /\ want' = [want EXCEPT ![p] = NULL]
    /\ sector' = [sector EXCEPT ![p] = NULL]
    /\ Goto(p, "idle")
    /\ UNCHANGED <<blockno, valid, data, owner>>

bget(p, k) == bget_hit(p, k) \/ bget_miss(p, k) \/ bget_panic(p, k)

Step(p) ==
    \/ AcquireFree(p) \/ AcquireHeld(p)
    \/ bread_cached(p) \/ bread_start(p) \/ bread_done(p)
    \/ releasesleep(p) \/ brelse(p)

Next == \E p \in Procs : Step(p) \/ Kill(p) \/ \E k \in Blocks : bget(p, k)

Spec == Init /\ [][Next]_vars

(* A process in the file system goes on when it can: its callers release   *)
(* what they read, the disk answers, and a spinlock is obtained.           *)
FairSpec == Spec /\ \A p \in Procs : WF_vars(Step(p))

----------------------------------------------------------------------------
Holding == {"lock", "asleep", "wake", "locked", "io", "have", "release"}
Locked == {"locked", "io", "have"}

(* The types of all variables; the list is a permutation of the buffers. *)
TypeOK ==
    /\ list \in [Bufs -> Bufs]
    /\ \A l, m \in Bufs : list[l] = list[m] => l = m
    /\ blockno \in [Bufs -> Blocks \cup {NULL}]
    /\ valid \in [Bufs -> BOOLEAN]
    /\ refcnt \in [Bufs -> Nat]
    /\ data \in [Bufs -> Blocks \cup {NULL}]
    /\ owner \in [Bufs -> Procs \cup {NULL}]
    /\ pc \in [Procs -> Holding \cup {"idle", "panic"}]
    /\ b \in [Procs -> Bufs \cup {NULL}]
    /\ want \in [Procs -> Blocks \cup {NULL}]
    /\ sector \in [Procs -> Blocks \cup {NULL}]

(* A block is never cached twice: bget() looks and recycles under one lock *)
(* and a buffer in use is not recycled.                                    *)
OneBufferPerBlock ==
    \A x, y \in Bufs : blockno[x] # NULL /\ blockno[x] = blockno[y] => x = y

(* bread() returns the contents of the block that was asked for, however   *)
(* the buffer was recycled while others waited for its lock.               *)
HolderHasBlock ==
    \A p \in Procs :
        pc[p] = "have" => /\ owner[b[p]] = p
                          /\ blockno[b[p]] = want[p]
                          /\ valid[b[p]] /\ data[b[p]] = want[p]

(* The count of a buffer is the number of processes between bget() and the *)
(* end of brelse(), sleepers included.                                     *)
RefcntExact ==
    \A x \in Bufs : refcnt[x] = Cardinality({p \in Procs : b[p] = x})

(* A process sleeps for a buffer only while another one has it locked. *)
SleeperHasOwner ==
    \A p \in Procs : pc[p] = "asleep" => owner[b[p]] \in Procs \ {p}

(* bget() panics only when NBUF other processes are between bget() and the *)
(* end of brelse(): no buffer is lost to a leaked count.                   *)
PanicOnlyWhenFull ==
    \A p \in Procs :
        pc[p] = "panic" => Cardinality({q \in Procs : b[q] # NULL}) >= NBUF

(* A process that waits for a buffer is woken in the end. *)
SleeperWoken == \A p \in Procs : pc[p] = "asleep" ~> pc[p] # "asleep"

(* A buffer that is locked, as the holder of its block. *)
HolderOf(k) ==
    IF \E x \in Bufs : blockno[x] = k /\ owner[x] # NULL
    THEN owner[CHOOSE x \in Bufs : blockno[x] = k /\ owner[x] # NULL]
    ELSE NULL

Holders == [k \in Blocks |-> HolderOf(k)]

BL == INSTANCE BlockLocks WITH holder <- Holders

(* The cache implements one lock per block, with NBUF buffers recycled     *)
(* among them.                                                             *)
ImplementsBlockLocks == BL!Spec
=============================================================================
