---------------------------- MODULE DiskService ----------------------------
(***************************************************************************)
(* What virtio_disk_rw() promises: it moves one block between the disk and *)
(* the caller's buffer, once, after the call and before it returns.        *)
(***************************************************************************)
CONSTANTS Procs, Blocks, NULL

VARIABLES media, data, op, blk, write

vars == <<media, data, op, blk, write>>

(* A block's first contents and what a process writes are named after them. *)
Init ==
    /\ media = [k \in Blocks |-> k]
    /\ data = [p \in Procs |-> NULL]
    /\ op = [p \in Procs |-> "idle"]
    /\ blk = [p \in Procs |-> NULL]
    /\ write = [p \in Procs |-> FALSE]

Call(p, k, wr) ==
    /\ op[p] = "idle"
    /\ op' = [op EXCEPT ![p] = "asked"]
    /\ blk' = [blk EXCEPT ![p] = k]
    /\ write' = [write EXCEPT ![p] = wr]
    /\ data' = [data EXCEPT ![p] = IF wr THEN p ELSE NULL]
    /\ UNCHANGED media

Transfer(p) ==
    /\ op[p] = "asked"
    /\ op' = [op EXCEPT ![p] = "done"]
    /\ \/ /\ write[p]
          /\ media' = [media EXCEPT ![blk[p]] = data[p]]
          /\ UNCHANGED data
       \/ /\ ~write[p]
          /\ data' = [data EXCEPT ![p] = media[blk[p]]]
          /\ UNCHANGED media
    /\ UNCHANGED <<blk, write>>

Return(p) ==
    /\ op[p] = "done"
    /\ op' = [op EXCEPT ![p] = "idle"]
    /\ UNCHANGED <<media, data, blk, write>>

Next ==
    \E p \in Procs :
        Transfer(p) \/ Return(p) \/ \E k \in Blocks, wr \in BOOLEAN : Call(p, k, wr)

Spec == Init /\ [][Next]_vars
=============================================================================
