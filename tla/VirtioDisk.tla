----------------------------- MODULE VirtioDisk -----------------------------
(***************************************************************************)
(* The disk driver, kernel/dev/virtio_disk.c: requests are chains of three *)
(* descriptors, handed to the device through the avail ring and back       *)
(* through the used ring, whose indices wrap (IDX is 2^16 in the code).    *)
(*                                                                         *)
(* What virtio_disk_rw() does between two sleeps is one action guarded by  *)
(* vdisk_lock being free; the interrupt handler keeps the lock while it    *)
(* goes through the used ring, which the device fills at the same time.    *)
(* The device answers in any order and does not fail.                      *)
(***************************************************************************)
EXTENDS Integers, FiniteSets

CONSTANTS
    NUM,      \* descriptors, and entries of each ring
    IDX,      \* ring indices count modulo IDX
    Procs,    \* processes, each with a buffer of its own
    Blocks,
    Writes,   \* values of the argument write: the file system only reads
    NULL,
    First,    \* the ring indices when the model starts: 0 at boot
    MaxCalls  \* bound: calls of virtio_disk_rw()

ASSUME VirtioAssumption ==
    /\ NUM \in Nat /\ NUM >= 3
    /\ IDX \in Nat /\ IDX > NUM /\ IDX % NUM = 0
    /\ Writes \subseteq BOOLEAN
    /\ First \in 0 .. IDX - 1 /\ MaxCalls \in Nat
    /\ NULL \notin Procs /\ NULL \notin Blocks /\ NULL \notin Nat

Desc == 0 .. NUM - 1
Slots == 0 .. NUM - 1

VARIABLES
    free,             \* disk.free
    addr, next,       \* disk.desc: what a descriptor points at; next is NULL
                      \* without VRING_DESC_F_NEXT
    ops, info, status,    \* disk.ops, disk.info, indexed by head
    avail, avail_idx,     \* the avail ring
    used, used_end,       \* the used ring and its idx, written by the device
    used_idx,             \* disk.used_idx
    lock,             \* vdisk_lock is held by the interrupt handler
    disk,             \* b->disk of each process's buffer
    pc, head, blk, write, \* virtio_disk_rw(): position, idx[0], arguments
    taken, active,    \* device: how far it has read the avail ring, and the
                      \* chains it works on
    isr,              \* device: interrupt raised
    media, data,      \* contents of the disk and of the buffers
    calls             \* against the bound

descvars == <<free, addr, next, ops, info>>
devvars == <<taken, active, media, calls>>
procvars == <<disk, pc, head, blk, write>>
vars == <<descvars, status, avail, avail_idx, used, used_end, used_idx, lock,
          procvars, devvars, isr, data>>

(* virtio_disk_init() *)
Init ==
    /\ free = Desc
    /\ addr = [d \in Desc |-> NULL] /\ next = [d \in Desc |-> NULL]
    /\ ops = [d \in Desc |-> NULL] /\ info = [d \in Desc |-> NULL]
    /\ status = [d \in Desc |-> 0]
    /\ avail = [s \in Slots |-> 0] /\ avail_idx = First
    /\ used = [s \in Slots |-> 0] /\ used_end = First /\ used_idx = First
    /\ lock = FALSE
    /\ disk = [p \in Procs |-> FALSE]
    /\ pc = [p \in Procs |-> "idle"]
    /\ head = [p \in Procs |-> NULL]
    /\ blk = [p \in Procs |-> NULL]
    /\ write = [p \in Procs |-> FALSE]
    /\ taken = First /\ active = {} /\ isr = FALSE
    /\ media = [k \in Blocks |-> k]
    /\ data = [p \in Procs |-> NULL]
    /\ calls = 0

(* Wrong variant: the index counts modulo the ring. *)
IncRing(x) == (x + 1) % NUM

(* uint16 arithmetic. *)
Inc(x) == (x + 1) % IDX

----------------------------------------------------------------------------
(* Descriptors *)

(* Wrong variant: nobody is woken. *)
WakeDescNone(p, l) == pc' = [pc EXCEPT ![p] = l]

(* wakeup(&disk.free[0]), and p goes to l. *)
WakeDesc(p, l) ==
    pc' = [q \in Procs |-> IF q = p THEN l
                           ELSE IF pc[q] = "desc" THEN "descwake" ELSE pc[q]]

Lowest(S) == CHOOSE d \in S : \A x \in S : d <= x

(* alloc3_desc() takes the three lowest free descriptors. *)
alloc3_desc ==
    LET d0 == Lowest(free)
        d1 == Lowest(free \ {d0})
        d2 == Lowest(free \ {d0, d1})
    IN  <<d0, d1, d2>>

(* The chain that starts at d, of one to three descriptors. *)
Chain(d) ==
    IF next[d] = NULL THEN {d}
    ELSE IF next[next[d]] = NULL THEN {d, next[d]}
    ELSE {d, next[d], next[next[d]]}

(* Wrong variant: the last descriptor is forgotten. *)
FreeTwo(d) ==
    LET c == {d, next[d]}
    IN  /\ free' = free \cup c
        /\ addr' = [x \in Desc |-> IF x \in c THEN NULL ELSE addr[x]]
        /\ next' = [x \in Desc |-> IF x \in c THEN NULL ELSE next[x]]

(* free_chain(); free_desc() panics if one of them is free already. *)
free_chain(d) ==
    /\ free' = free \cup Chain(d)
    /\ addr' = [x \in Desc |-> IF x \in Chain(d) THEN NULL ELSE addr[x]]
    /\ next' = [x \in Desc |-> IF x \in Chain(d) THEN NULL ELSE next[x]]

----------------------------------------------------------------------------
(* virtio_disk_rw() *)

(* The request is formatted, recorded and made visible to the device; the  *)
(* process sleeps on its buffer.                                           *)
Issue(p, k, wr) ==
    LET idx == alloc3_desc
    IN  /\ free' = free \ {idx[1], idx[2], idx[3]}
        /\ ops' = [ops EXCEPT ![idx[1]] = [write |-> wr, sector |-> k]]
        /\ addr' = [addr EXCEPT ![idx[1]] = <<"ops", idx[1]>>,
                                ![idx[2]] = <<"data", p>>,
                                ![idx[3]] = <<"status", idx[1]>>]
        /\ next' = [next EXCEPT ![idx[1]] = idx[2], ![idx[2]] = idx[3], ![idx[3]] = NULL]
        /\ status' = [status EXCEPT ![idx[1]] = 255]
        /\ disk' = [disk EXCEPT ![p] = TRUE]
        /\ info' = [info EXCEPT ![idx[1]] = p]
        /\ head' = [head EXCEPT ![p] = idx[1]]
        /\ avail' = [avail EXCEPT ![avail_idx % NUM] = idx[1]]
        /\ avail_idx' = Inc(avail_idx)
        /\ pc' = [pc EXCEPT ![p] = "wait"]

(* Too few descriptors: the ones taken are given back, with a wakeup for   *)
(* the other processes that wait for some, and the process sleeps.         *)
Starve(p) ==
    /\ IF free # {} THEN WakeDesc(p, "desc") ELSE pc' = [pc EXCEPT ![p] = "desc"]
    /\ UNCHANGED <<descvars, status, avail, avail_idx, disk, head>>

Alloc(p, k, wr) ==
    /\ IF Cardinality(free) >= 3 THEN Issue(p, k, wr) ELSE Starve(p)
    /\ UNCHANGED <<used, used_end, used_idx, lock, taken, active, media, isr>>

(* The caller holds the lock of its buffer, so nobody else asks for the    *)
(* same block.                                                             *)
virtio_disk_rw(p, k, wr) ==
    /\ calls < MaxCalls
    /\ calls' = calls + 1
    /\ pc[p] = "idle"
    /\ ~lock
    /\ \A q \in Procs : pc[q] # "idle" => blk[q] # k
    /\ blk' = [blk EXCEPT ![p] = k]
    /\ write' = [write EXCEPT ![p] = wr]
    /\ data' = [data EXCEPT ![p] = IF wr THEN p ELSE NULL]
    /\ Alloc(p, k, wr)

Retry(p) ==
    /\ pc[p] = "descwake"
    /\ ~lock
    /\ Alloc(p, blk[p], write[p])
    /\ UNCHANGED <<blk, write, data, calls>>

(* Woken, but b->disk is still 1: kill() does that. *)
Resleep(p) ==
    /\ pc[p] = "wake"
    /\ ~lock
    /\ disk[p]
    /\ pc' = [pc EXCEPT ![p] = "wait"]
    /\ UNCHANGED <<descvars, status, avail, avail_idx, used, used_end, used_idx, lock,
                   disk, head, blk, write, devvars, isr, data>>

(* Wrong variant: a wakeup is taken for completion. *)
Woken(p) == TRUE

Completed(p) == ~disk[p]

(* The request is done; its descriptors are freed. *)
Finish(p) ==
    /\ pc[p] = "wake"
    /\ ~lock
    /\ Completed(p)
    /\ info' = [info EXCEPT ![head[p]] = NULL]
    /\ free_chain(head[p])
    /\ WakeDesc(p, "idle")
    /\ head' = [head EXCEPT ![p] = NULL]
    /\ UNCHANGED <<ops, status, avail, avail_idx, used, used_end, used_idx, lock,
                   disk, blk, write, devvars, isr, data>>

(* kkill() of a process that sleeps here. *)
Kill(p) ==
    /\ pc[p] \in {"wait", "desc"}
    /\ pc' = [pc EXCEPT ![p] = IF @ = "wait" THEN "wake" ELSE "descwake"]
    /\ UNCHANGED <<descvars, status, avail, avail_idx, used, used_end, used_idx, lock,
                   disk, head, blk, write, devvars, isr, data>>

----------------------------------------------------------------------------
(* virtio_disk_intr() *)

IntrBegin ==
    /\ isr
    /\ ~lock
    /\ lock' = TRUE
    /\ isr' = FALSE
    /\ UNCHANGED <<descvars, status, avail, avail_idx, used, used_end, used_idx,
                   procvars, devvars, data>>

(* One entry of the used ring: it panics if the status is not 0. *)
IntrNext ==
    LET id == used[used_idx % NUM]
    IN  /\ lock
        /\ used_idx # used_end
        /\ disk' = [disk EXCEPT ![info[id]] = FALSE]
        /\ pc' = [pc EXCEPT ![info[id]] = IF @ = "wait" THEN "wake" ELSE @]
        /\ used_idx' = Inc(used_idx)
        /\ UNCHANGED <<descvars, status, avail, avail_idx, used, used_end, lock,
                       head, blk, write, devvars, isr, data>>

(* Wrong variant: one entry per interrupt. *)
IntrEndEarly ==
    /\ lock
    /\ lock' = FALSE
    /\ UNCHANGED <<descvars, status, avail, avail_idx, used, used_end, used_idx,
                   procvars, devvars, isr, data>>

IntrEnd ==
    /\ lock
    /\ used_idx = used_end
    /\ lock' = FALSE
    /\ UNCHANGED <<descvars, status, avail, avail_idx, used, used_end, used_idx,
                   procvars, devvars, isr, data>>

----------------------------------------------------------------------------
(* The device *)

DeviceTake ==
    /\ taken # avail_idx
    /\ active' = active \cup {avail[taken % NUM]}
    /\ taken' = (taken + 1) % IDX
    /\ UNCHANGED <<descvars, status, avail, avail_idx, used, used_end, used_idx, lock,
                   procvars, isr, media, data, calls>>

(* The device follows the chain of descriptors from d. *)
DeviceDo(d) ==
    LET op == ops[addr[d][2]]
        buffer == addr[next[d]][2]
        stat == addr[next[next[d]]][2]
    IN  /\ d \in active
        /\ active' = active \ {d}
        /\ IF op.write
           THEN media' = [media EXCEPT ![op.sector] = data[buffer]] /\ UNCHANGED data
           ELSE data' = [data EXCEPT ![buffer] = media[op.sector]] /\ UNCHANGED media
        /\ status' = [status EXCEPT ![stat] = 0]
        /\ used' = [used EXCEPT ![used_end % NUM] = d]
        /\ used_end' = (used_end + 1) % IDX
        /\ isr' = TRUE
        /\ UNCHANGED <<descvars, avail, avail_idx, used_idx, lock, procvars, taken, calls>>

IntrStep == IntrBegin \/ IntrNext \/ IntrEnd

Device == DeviceTake \/ \E d \in Desc : DeviceDo(d)

ProcStep(p) == Retry(p) \/ Resleep(p) \/ Finish(p)

Next ==
    \/ \E p \in Procs, k \in Blocks, wr \in Writes : virtio_disk_rw(p, k, wr)
    \/ \E p \in Procs : ProcStep(p) \/ Kill(p)
    \/ IntrStep
    \/ Device

Spec == Init /\ [][Next]_vars

DeviceAnswers(p) == \E d \in Desc : info[d] = p /\ DeviceDo(d)

(* The device answers every request, a raised interrupt is served, and a   *)
(* process that spins for vdisk_lock gets it when it stays free.           *)
FairSpec ==
    /\ Spec
    /\ WF_vars(DeviceTake) /\ WF_vars(IntrStep)
    /\ \A p \in Procs : WF_vars(DeviceAnswers(p)) /\ WF_vars(ProcStep(p))

----------------------------------------------------------------------------
Issued == {p \in Procs : pc[p] \in {"wait", "wake"}}

(* Each request in flight has a chain of three descriptors of its own, and *)
(* all others are free: none leaks, none is freed twice (free_desc()'s     *)
(* panics) and the device never follows a chain that was reused.           *)
DescriptorsOwned ==
    /\ \A p \in Issued : Cardinality(Chain(head[p])) = 3
    /\ \A p, q \in Issued : p # q => Chain(head[p]) \cap Chain(head[q]) = {}
    /\ Desc \ free = UNION {Chain(head[p]) : p \in Issued}

Entries(ring, from, to) == {ring[(from + k) % NUM] : k \in 0 .. ((to - from) % IDX) - 1}

(* Each request not yet answered is in exactly one place, the avail ring,  *)
(* the device or the used ring, also when the indices wrap; and what the   *)
(* interrupt handler finds in the used ring is such a request, with status *)
(* 0, so that it neither panics nor follows a null info[id].b.             *)
RequestsAccounted ==
    LET waiting == Entries(avail, taken, avail_idx)
        done == Entries(used, used_idx, used_end)
    IN  /\ waiting \cap active = {} /\ waiting \cap done = {} /\ active \cap done = {}
        /\ waiting \cup active \cup done = {head[p] : p \in {q \in Issued : disk[q]}}
        /\ \A d \in done : info[d] \in Issued /\ head[info[d]] = d /\ status[d] = 0

(* A request that was issued returns; *)
RequestReturns == \A p \in Procs : pc[p] \in {"wait", "wake"} ~> pc[p] = "idle"

(* one that waits for descriptors is woken. *)
StarvedWoken == \A p \in Procs : pc[p] = "desc" ~> pc[p] # "desc"

Progress(p) ==
    IF pc[p] = "idle" THEN "idle"
    ELSE IF p \in Issued /\ status[head[p]] = 0 THEN "done"
    ELSE "asked"

DS == INSTANCE DiskService WITH op <- [p \in Procs |-> Progress(p)]

(* The driver, the rings and the device together transfer each block once, *)
(* to or from the right buffer, before the call returns.                   *)
ImplementsDiskService == DS!Spec
=============================================================================
