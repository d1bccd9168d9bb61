----------------------------- MODULE BlockLocks -----------------------------
(***************************************************************************)
(* What the buffer cache promises: a process has a block to itself from    *)
(* bread() to brelse().                                                    *)
(***************************************************************************)
CONSTANTS Procs, Blocks, NULL

VARIABLE holder   \* who has each block

Init == holder = [k \in Blocks |-> NULL]

Get(p, k) == holder[k] = NULL /\ holder' = [holder EXCEPT ![k] = p]

Put(p, k) == holder[k] = p /\ holder' = [holder EXCEPT ![k] = NULL]

Next == \E p \in Procs, k \in Blocks : Get(p, k) \/ Put(p, k)

Spec == Init /\ [][Next]_holder
=============================================================================
