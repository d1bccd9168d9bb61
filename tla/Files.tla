------------------------------- MODULE Files --------------------------------
(***************************************************************************)
(* Open files: the descriptors of each process (kernel/fs/sysfile.c), the  *)
(* table of open files (kernel/fs/file.c) and the table of in-memory       *)
(* inodes (kernel/fs/fs.c), with the system calls that take and drop       *)
(* references: open, close, dup, read, fstat, exec, fork and exit.         *)
(*                                                                         *)
(* A critical section of ftable.lock or itable.lock is one action.  An     *)
(* inode's sleep-lock, see BufCache, is taken in one action and released   *)
(* with the step before the release.  The root is the only directory and   *)
(* the current directory of every process.                                 *)
(***************************************************************************)
EXTENDS Integers, Sequences, FiniteSets

CONSTANTS
    Procs, First,      \* processes; the one that runs first
    NFILE, NOFILE, NINODE,
    Inums, ROOTINO,    \* inode numbers on the disk; the root directory's
    Devices,           \* those that are devices
    Calls,             \* what is called with a path, see namex
    SIZE,              \* length of a file
    NULL

ASSUME FilesAssumption ==
    /\ NFILE \in Nat /\ NOFILE \in Nat /\ NINODE \in Nat /\ SIZE \in Nat
    /\ IsFiniteSet(Procs) /\ First \in Procs /\ ROOTINO \in Inums
    /\ Devices \subseteq Inums \ {ROOTINO}
    /\ Calls \subseteq {"open", "exec"} \X Seq(Inums \cup {NULL})
    /\ IsFiniteSet(Inums) /\ Cardinality(Inums) <= NINODE
    /\ NULL \notin Procs /\ NULL \notin Inums /\ NULL \notin Nat

Fds == 0 .. NOFILE - 1
FileIds == 1 .. NFILE
InodeIds == 1 .. NINODE

VARIABLES
    file,     \* ftable: ref, type, ip and off of each
    inode,    \* itable: ref, inum, lock holder, and whose dinode the entry
              \* has a copy of (NULL: valid is 0)
    ofile, cwd,   \* fields of struct proc
    job       \* what each process does in the kernel, and its locals

vars == <<file, inode, ofile, cwd, job>>

Lowest(S) == CHOOSE x \in S : \A y \in S : x <= y

User == [pc |-> "user", op |-> "none", path |-> <<>>, dp |-> NULL, ip |-> NULL,
         f |-> NULL, at |-> 0, off |-> 0, child |-> NULL]

None == [ref |-> 0, type |-> "NONE", ip |-> NULL, off |-> 0]

(* The first process has the root as its current directory and no file. *)
Init ==
    /\ file = [f \in FileIds |-> None]
    /\ inode = [i \in InodeIds |->
                   [ref |-> IF i = 1 THEN 1 ELSE 0, inum |-> IF i = 1 THEN ROOTINO ELSE NULL,
                    owner |-> NULL, copy |-> NULL]]
    /\ ofile = [p \in Procs |-> [d \in Fds |-> NULL]]
    /\ cwd = [p \in Procs |-> IF p = First THEN 1 ELSE NULL]
    /\ job = [p \in Procs |-> IF p = First THEN User ELSE [User EXCEPT !.pc = "none"]]

At(p, l) == job[p].pc = l

Do(p, j) == job' = [job EXCEPT ![p] = j]

Goto(p, l) == Do(p, [job[p] EXCEPT !.pc = l])

----------------------------------------------------------------------------
(* fs.c: references and locks of in-memory inodes *)

Found(inum) == {i \in InodeIds : inode[i].ref > 0 /\ inode[i].inum = inum}

(* The entry iget() returns.  There is one, because no two entries in use  *)
(* have the same number: otherwise it panics.                              *)
Entry(inum) ==
    Lowest(IF Found(inum) # {} THEN Found(inum)
           ELSE {i \in InodeIds : inode[i].ref = 0})

(* Wrong variant: valid is left as it was. *)
RecycledValid(e, inum) == [e EXCEPT !.inum = inum, !.ref = 1]

Recycled(e, inum) == [e EXCEPT !.inum = inum, !.ref = 1, !.copy = NULL]

iget(inum) ==
    IF Found(inum) # {} THEN [inode EXCEPT ![Entry(inum)].ref = @ + 1]
    ELSE [inode EXCEPT ![Entry(inum)] = Recycled(@, inum)]

(* Wrong variant: nothing is counted. *)
idupNot(i) == inode

idup(i) == [inode EXCEPT ![i].ref = @ + 1]

iput(i) == [inode EXCEPT ![i].ref = @ - 1]

(* Wrong variant: the lock is not waited for. *)
ilockShared(p, i) == inode' = [inode EXCEPT ![i].owner = p, ![i].copy = inode[i].inum]

(* The inode is read from the disk if that was not done before. *)
ilock(p, i) ==
    /\ inode[i].owner = NULL
    /\ inode' = [inode EXCEPT ![i].owner = p,
                              ![i].copy = IF @ = NULL THEN inode[i].inum ELSE @]

Unlocked(t, i) == [t EXCEPT ![i].owner = NULL]

----------------------------------------------------------------------------
(* namei(), on behalf of open() and exec(): a path is the sequence of what *)
(* its elements name, NULL where there is no such entry.                   *)

namex(p, op, path) ==
    /\ At(p, "user")
    /\ inode' = idup(cwd[p])        \* iget(ROOTINO) finds the same entry
    /\ Do(p, IF path = <<>>
             THEN [User EXCEPT !.pc = "ilock", !.op = op, !.ip = cwd[p]]
             ELSE [User EXCEPT !.pc = "lockdir", !.op = op, !.dp = cwd[p], !.path = path])
    /\ UNCHANGED <<file, ofile, cwd>>

LockDir(p) ==
    /\ At(p, "lockdir")
    /\ ilock(p, job[p].dp)
    /\ Goto(p, "dirlookup")
    /\ UNCHANGED <<file, ofile, cwd>>

(* dirlookup() takes a reference on what it finds, with the directory      *)
(* still locked.  What is not a directory is not searched.                 *)
dirlookup(p) ==
    LET j == job[p]
        inum == Head(j.path)
    IN  /\ At(p, "dirlookup")
        /\ IF inum = NULL \/ inode[j.dp].copy # ROOTINO
           THEN inode' = Unlocked(inode, j.dp) /\ Goto(p, "putdir")
           ELSE /\ inode' = Unlocked(iget(inum), j.dp)
                /\ Do(p, [j EXCEPT !.pc = "putdir", !.ip = Entry(inum)])
        /\ UNCHANGED <<file, ofile, cwd>>

(* The directory is put, and the next element looked up in what was found. *)
PutDir(p) ==
    LET j == job[p]
    IN  /\ At(p, "putdir")
        /\ inode' = iput(j.dp)
        /\ Do(p, CASE j.ip = NULL -> User
                   [] j.ip # NULL /\ Len(j.path) = 1 -> [j EXCEPT !.pc = "ilock", !.dp = NULL]
                   [] OTHER -> [j EXCEPT !.pc = "lockdir", !.dp = j.ip, !.ip = NULL,
                                         !.path = Tail(@)])
        /\ UNCHANGED <<file, ofile, cwd>>

LockInode(p) ==
    /\ At(p, "ilock")
    /\ ilock(p, job[p].ip)
    /\ Goto(p, job[p].op)
    /\ UNCHANGED <<file, ofile, cwd>>

(* The second half of iunlockput() and the end of fileclose(). *)
Put(p) ==
    /\ At(p, "iput")
    /\ inode' = iput(job[p].ip)
    /\ Do(p, IF job[p].op = "exit" THEN [User EXCEPT !.pc = "exit"] ELSE User)
    /\ UNCHANGED <<file, ofile, cwd>>

----------------------------------------------------------------------------
(* file.c *)

FreeFiles == {f \in FileIds : file[f].ref = 0}
FreeFds(p) == {d \in Fds : ofile[p][d] = NULL}

(* Wrong variant: nothing is counted. *)
filedupNot(f) == UNCHANGED file

filedup(f) == file' = [file EXCEPT ![f].ref = @ + 1]

(* Nobody looks at ip and off of a file of type FD_NONE. *)
Closed(e) == IF e.ref = 1 THEN None ELSE [e EXCEPT !.ref = @ - 1]

(* fileclose(): the last reference takes the inode's along.  j is where    *)
(* the caller goes on.                                                     *)
fileclose(p, f, j) ==
    /\ file' = [file EXCEPT ![f] = Closed(@)]
    /\ Do(p, IF file[f].ref = 1 /\ file[f].type # "NONE"
             THEN [j EXCEPT !.pc = "iput", !.ip = file[f].ip] ELSE j)

----------------------------------------------------------------------------
(* open() and exec(), once the inode is locked *)

(* A directory for writing, a device whose number is out of range, or no   *)
(* free file: the inode is unlocked and put.                               *)
OpenRefused(p) ==
    /\ At(p, "open")
    /\ FreeFiles = {} \/ inode[job[p].ip].copy \in Devices \cup {ROOTINO}
    /\ inode' = Unlocked(inode, job[p].ip)
    /\ Goto(p, "iput")
    /\ UNCHANGED <<file, ofile, cwd>>

(* filealloc() and fdalloc() succeed. *)
OpenFile(p) ==
    LET f == Lowest(FreeFiles)
        i == job[p].ip
    IN  /\ At(p, "open")
        /\ FreeFiles # {} /\ FreeFds(p) # {}
        /\ ofile' = [ofile EXCEPT ![p][Lowest(FreeFds(p))] = f]
        /\ file' = [file EXCEPT ![f] =
               IF inode[i].copy \in Devices THEN [None EXCEPT !.ref = 1, !.type = "DEVICE", !.ip = i]
               ELSE [None EXCEPT !.ref = 1, !.type = "INODE", !.ip = i]]
        /\ inode' = Unlocked(inode, i)
        /\ Do(p, User)
        /\ UNCHANGED cwd

(* There is a file but no descriptor: *)
OpenNoFd(p) ==
    LET f == Lowest(FreeFiles)
    IN  /\ At(p, "open")
        /\ FreeFiles # {} /\ FreeFds(p) = {}
        /\ file' = [file EXCEPT ![f].ref = 1]
        /\ Do(p, [job[p] EXCEPT !.pc = "openclose", !.f = f])
        /\ UNCHANGED <<inode, ofile, cwd>>

(* it is closed again, which must not put the inode: iunlockput() does. *)
OpenClose(p) ==
    LET j == job[p]
    IN  /\ At(p, "openclose")
        /\ fileclose(p, j.f, [j EXCEPT !.pc = "iput", !.f = NULL])
        /\ inode' = Unlocked(inode, j.ip)
        /\ UNCHANGED <<ofile, cwd>>

(* kexec() is done with the executable, or fails. *)
ExecEnd(p) ==
    /\ At(p, "exec")
    /\ inode' = Unlocked(inode, job[p].ip)
    /\ Goto(p, "iput")
    /\ UNCHANGED <<file, ofile, cwd>>

----------------------------------------------------------------------------
(* dup(), close(), read() and fstat() of descriptor d *)

Open(p, d) == At(p, "user") /\ ofile[p][d] # NULL

(* The descriptor comes first, then the count. *)
sys_dup(p, d) ==
    /\ Open(p, d)
    /\ FreeFds(p) # {}
    /\ ofile' = [ofile EXCEPT ![p][Lowest(FreeFds(p))] = ofile[p][d]]
    /\ Do(p, [User EXCEPT !.pc = "dup", !.f = ofile[p][d], !.at = Lowest(FreeFds(p))])
    /\ UNCHANGED <<file, inode, cwd>>

DupCount(p) ==
    /\ At(p, "dup")
    /\ filedup(job[p].f)
    /\ Do(p, User)
    /\ UNCHANGED <<inode, ofile, cwd>>

sys_close(p, d) ==
    /\ Open(p, d)
    /\ ofile' = [ofile EXCEPT ![p][d] = NULL]
    /\ Do(p, [User EXCEPT !.pc = "close", !.f = ofile[p][d]])
    /\ UNCHANGED <<file, inode, cwd>>

CloseFile(p) ==
    /\ At(p, "close")
    /\ fileclose(p, job[p].f, User)
    /\ UNCHANGED <<inode, ofile, cwd>>

(* fileread() and filestat() lock the inode. *)
FileLock(p, d, op) ==
    LET f == ofile[p][d]
    IN  /\ Open(p, d)
        /\ op = "read" => file[f].type = "INODE"    \* for a device, see Console
        /\ ilock(p, file[f].ip)
        /\ Do(p, [User EXCEPT !.pc = op, !.f = f, !.off = file[f].off])
        /\ UNCHANGED <<file, ofile, cwd>>

(* readi() has read n bytes from job.off on, and off moves past them. *)
ReadEnd(p) ==
    LET f == job[p].f
    IN  /\ At(p, "read")
        /\ \E n \in 0 .. SIZE - job[p].off : file' = [file EXCEPT ![f].off = @ + n]
        /\ inode' = Unlocked(inode, file[f].ip)
        /\ Do(p, User)
        /\ UNCHANGED <<ofile, cwd>>

StatEnd(p) ==
    /\ At(p, "fstat")
    /\ inode' = Unlocked(inode, file[job[p].f].ip)
    /\ Do(p, User)
    /\ UNCHANGED <<file, ofile, cwd>>

----------------------------------------------------------------------------
(* kfork() and kexit() *)

kfork(p, c) ==
    /\ At(p, "user")
    /\ At(c, "none")
    /\ job' = [job EXCEPT ![p] = [User EXCEPT !.pc = "fork", !.child = c],
                          ![c].pc = "USED"]
    /\ UNCHANGED <<file, inode, ofile, cwd>>

(* The child gets descriptor d. *)
ForkFile(p) ==
    LET d == job[p].at
        f == ofile[p][d]
    IN  /\ At(p, "fork")
        /\ d < NOFILE
        /\ IF f = NULL THEN UNCHANGED file ELSE filedup(f)
        /\ ofile' = [ofile EXCEPT ![job[p].child][d] = f]
        /\ Do(p, [job[p] EXCEPT !.at = d + 1])
        /\ UNCHANGED <<inode, cwd>>

ForkEnd(p) ==
    LET c == job[p].child
    IN  /\ At(p, "fork")
        /\ job[p].at = NOFILE
        /\ inode' = idup(cwd[p])
        /\ cwd' = [cwd EXCEPT ![c] = cwd[p]]
        /\ job' = [job EXCEPT ![p] = User, ![c] = User]
        /\ UNCHANGED <<file, ofile>>

kexit(p) ==
    /\ At(p, "user")
    /\ p # First
    /\ Do(p, [User EXCEPT !.pc = "exit"])
    /\ UNCHANGED <<file, inode, ofile, cwd>>

ExitFile(p) ==
    LET d == Lowest({x \in Fds : ofile[p][x] # NULL})
    IN  /\ At(p, "exit")
        /\ \E x \in Fds : ofile[p][x] # NULL
        /\ fileclose(p, ofile[p][d], [User EXCEPT !.pc = "exit", !.op = "exit"])
        /\ ofile' = [ofile EXCEPT ![p][d] = NULL]
        /\ UNCHANGED <<inode, cwd>>

ExitEnd(p) ==
    /\ At(p, "exit")
    /\ \A x \in Fds : ofile[p][x] = NULL
    /\ inode' = iput(cwd[p])
    /\ cwd' = [cwd EXCEPT ![p] = NULL]
    /\ Do(p, [User EXCEPT !.pc = "none"])
    /\ UNCHANGED <<file, ofile>>

----------------------------------------------------------------------------
Lookup(p) == LockDir(p) \/ dirlookup(p) \/ PutDir(p) \/ LockInode(p) \/ Put(p)

OpenStep(p) ==
    \/ OpenRefused(p) \/ OpenFile(p) \/ OpenNoFd(p) \/ OpenClose(p) \/ ExecEnd(p)

FdStep(p) ==
    \/ DupCount(p) \/ CloseFile(p) \/ ReadEnd(p) \/ StatEnd(p)
    \/ \E d \in Fds :
           sys_dup(p, d) \/ sys_close(p, d) \/ \E op \in {"read", "fstat"} : FileLock(p, d, op)

ForkStep(p) ==
    \/ ForkFile(p) \/ ForkEnd(p) \/ \E c \in Procs : kfork(p, c)
    \/ kexit(p) \/ ExitFile(p) \/ ExitEnd(p)

Next ==
    \E p \in Procs :
        \/ \E call \in Calls : namex(p, call[1], call[2])
        \/ Lookup(p) \/ OpenStep(p) \/ FdStep(p) \/ ForkStep(p)

Spec == Init /\ [][Next]_vars

----------------------------------------------------------------------------
Count(S) == Cardinality(S)

(* The count of an open file is the number of descriptors that name it, in *)
(* all processes, give or take the calls that are about to count or to     *)
(* close: a file is never closed under a descriptor, and never leaked, by  *)
(* whatever mixture of dup(), fork(), close(), failing open() and exit().  *)
FileRefExact ==
    \A f \in FileIds :
        file[f].ref = Count({x \in Procs \X Fds : ofile[x[1]][x[2]] = f})
                      + Count({p \in Procs : job[p].pc \in {"close", "openclose"} /\ job[p].f = f})
                      - Count({p \in Procs : At(p, "dup") /\ job[p].f = f})

(* The count of an inode is the number of open files, current directories  *)
(* and running system calls that refer to it, on every path out of open(), *)
(* exec() and namex().                                                     *)
InodeRefExact ==
    \A i \in InodeIds :
        inode[i].ref = Count({f \in FileIds : file[f].type # "NONE" /\ file[f].ip = i})
                       + Count({p \in Procs : cwd[p] = i})
                       + Count({p \in Procs : job[p].dp = i})
                       + Count({p \in Procs : job[p].ip = i})

Locking(p) ==
    CASE job[p].pc = "dirlookup" -> job[p].dp
      [] job[p].pc \in {"open", "openclose", "exec"} -> job[p].ip
      [] job[p].pc \in {"read", "fstat"} -> file[job[p].f].ip
      [] OTHER -> NULL

(* Whoever has locked an inode has one that is referenced and holds what   *)
(* the disk says of it, the inode asked for and not one the entry held     *)
(* before, and nobody else has locked the same one, in this or in another  *)
(* entry: the panics of ilock() and iunlock() are unreachable.             *)
HolderHasInode ==
    \A p \in Procs :
        LET i == Locking(p)
        IN  i # NULL => /\ inode[i].owner = p /\ inode[i].ref > 0
                        /\ inode[i].copy = inode[i].inum
                        /\ \A q \in Procs \ {p} :
                               Locking(q) # NULL => inode[Locking(q)].inum # inode[i].inum
                        /\ job[p].pc \in {"open", "exec"} => 
                               inode[i].inum = IF job[p].path = <<>> THEN ROOTINO
                                               ELSE Head(job[p].path)

(* Processes that share an open file after fork() read disjoint parts of   *)
(* it: the offset a read() began with is still the file's offset when the  *)
(* read() moves it.                                                        *)
OffsetStable == \A p \in Procs : At(p, "read") => file[job[p].f].off = job[p].off
=============================================================================
