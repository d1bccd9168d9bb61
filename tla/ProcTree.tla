------------------------------ MODULE ProcTree ------------------------------
(***************************************************************************)
(* What fork, exit and wait promise to user programs, without locks, table *)
(* scans, sleeping or scheduling: the processes form a tree rooted at      *)
(* init, and an exited process is collected by the process it hangs from.  *)
(***************************************************************************)
CONSTANTS Procs, Root, NULL

VARIABLES status, parent

vars == <<status, parent>>

Children(p) == {q \in Procs : status[q] # "free" /\ parent[q] = p}

Init ==
    /\ status = [p \in Procs |-> IF p = Root THEN "live" ELSE "free"]
    /\ parent = [p \in Procs |-> NULL]

(* fork() by p creates its child q. *)
Fork(p, q) ==
    /\ status[p] = "live"
    /\ status[q] = "free"
    /\ status' = [status EXCEPT ![q] = "live"]
    /\ parent' = [parent EXCEPT ![q] = p]

(* p is committed to exit() and forks no more. *)
BeginExit(p) ==
    /\ p # Root
    /\ status[p] = "live"
    /\ status' = [status EXCEPT ![p] = "exiting"]
    /\ UNCHANGED parent

(* A child of an exiting process is handed to init. *)
Adopt(q) ==
    /\ status[q] # "free"
    /\ parent[q] # NULL
    /\ status[parent[q]] = "exiting"
    /\ parent' = [parent EXCEPT ![q] = Root]
    /\ UNCHANGED status

(* exit() is complete once no child is left. *)
Exit(p) ==
    /\ status[p] = "exiting"
    /\ Children(p) = {}
    /\ status' = [status EXCEPT ![p] = "zombie"]
    /\ UNCHANGED parent

(* wait() by p collects its exited child q. *)
Reap(p, q) ==
    /\ status[p] = "live"
    /\ q \in Children(p)
    /\ status[q] = "zombie"
    /\ status' = [status EXCEPT ![q] = "free"]
    /\ parent' = [parent EXCEPT ![q] = NULL]

Next ==
    \E p \in Procs :
        \/ BeginExit(p) \/ Adopt(p) \/ Exit(p)
        \/ \E q \in Procs : Fork(p, q) \/ Reap(p, q)

Spec == Init /\ [][Next]_vars
=============================================================================
