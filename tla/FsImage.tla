------------------------------ MODULE FsImage -------------------------------
(***************************************************************************)
(* The file system image: tools/mkfs.c writes it on the host, step by      *)
(* step, and kernel/fs/fs.c finds files in it and reads them.              *)
(*                                                                         *)
(* The unit is a cell, the size of a directory entry: a block of data has  *)
(* BSIZE of them.  A block of inodes has IPB cells and a block of          *)
(* addresses NINDIRECT.  Names are values; Cut[n] is what is left of n     *)
(* after DIRSIZ characters.  The kernel's lookups are operators: the image *)
(* is read-only once it is made, and who looks when is in Files.           *)
(***************************************************************************)
EXTENDS Integers, Sequences, FiniteSets, FiniteSetsExt

CONSTANTS
    BSIZE, NDIRECT, NINDIRECT, IPB, BPB,
    FSSIZE, NINODES, LOGBLOCKS,
    UMOD,       \* number of values of a uint
    Names, Cut,
    DOT, CONSOLE,   \* the names "." and "console"
    Inputs,     \* the command lines: sequences of files with name and size
    ZERO        \* a cell, or an address, of zeroes

NDINDIRECT == NINDIRECT * NINDIRECT
MAXFILE == NDIRECT + NINDIRECT + NDINDIRECT
ROOTINO == 1

nbitmap == FSSIZE \div BPB + 1
ninodeblocks == NINODES \div IPB + 1
nlog == LOGBLOCKS + 1
nmeta == 2 + nlog + ninodeblocks + nbitmap

(* ialloc() does not look at NINODES: there must be room for all files. *)
ASSUME FsImageAssumption ==
    /\ {BSIZE, NDIRECT, NINDIRECT, IPB, BPB, FSSIZE, NINODES, LOGBLOCKS, UMOD} \subseteq Nat \ {0}
    /\ nmeta < FSSIZE /\ MAXFILE * BSIZE < UMOD
    /\ Cut \in [Names -> Names] /\ {DOT, CONSOLE} \subseteq Names
    /\ \A a \in Inputs : Len(a) + 2 < ninodeblocks * IPB

VARIABLES
    args,                  \* the files on the command line
    disk,                  \* the blocks of the image
    freeinode, freeblock,
    todo,                  \* iappend(): inum, din, off, the data left, what follows
    i, at,                 \* file of the command line, how much of it is read
    pc

vars == <<args, disk, freeinode, freeblock, todo, i, at, pc>>

sb == [size |-> FSSIZE, inodestart |-> 2 + nlog, bmapstart |-> 2 + nlog + ninodeblocks]

Cell(d, b, k) == IF b \in DOMAIN d /\ k \in DOMAIN d[b] THEN d[b][k] ELSE ZERO

(* d with cell k of block b changed, if there is a block b. *)
Set(d, b, k, v) ==
    IF b \notin DOMAIN d THEN d
    ELSE [d EXCEPT ![b] = [x \in DOMAIN @ \cup {k} |-> IF x = k THEN v ELSE @[x]]]

Empty == [x \in {} |-> ZERO]

Init ==
    /\ args \in Inputs
    /\ disk = [b \in 0 .. FSSIZE - 1 |-> IF b = 1 THEN [x \in {0} |-> sb] ELSE Empty]
    /\ freeinode = 1
    /\ freeblock = nmeta
    /\ todo = <<>>
    /\ i = 1 /\ at = 0
    /\ pc = "root"

----------------------------------------------------------------------------
(* mkfs: inodes *)

IBLOCK(inum, s) == inum \div IPB + s.inodestart

winode(d, inum, din) == Set(d, IBLOCK(inum, sb), inum % IPB, din)

rinode(d, inum) == Cell(d, IBLOCK(inum, sb), inum % IPB)

NoAddrs == [k \in 0 .. NDIRECT + 1 |-> ZERO]

(* ialloc() and the iappend() of a directory entry for the new inode to    *)
(* the root directory; then goes on at next.                               *)
Enter(type, name, next) ==
    LET d == winode(disk, freeinode, [type |-> type, size |-> 0, addrs |-> NoAddrs])
    IN  /\ disk' = d
        /\ freeinode' = freeinode + 1
        /\ todo' = [inum |-> ROOTINO, din |-> rinode(d, ROOTINO), off |-> rinode(d, ROOTINO).size,
                    data |-> <<[inum |-> freeinode, name |-> name]>>, next |-> next]
        /\ pc' = "iappend"
        /\ UNCHANGED <<args, freeblock>>

----------------------------------------------------------------------------
(* mkfs: iappend() *)

(* allocblock() has run out of blocks, in state s of iappend(). *)
Full(s) == s.free > FSSIZE

AllocAddr(s, k) ==
    IF s.din.addrs[k] # ZERO THEN s
    ELSE [s EXCEPT !.din.addrs[k] = s.free, !.free = @ + 1]

(* Wrong variant: the address there may be is not looked at. *)
AllocInAgain(s, b, k) == [s EXCEPT !.disk = Set(@, b, k, s.free), !.free = @ + 1]

(* The same for address k of a block b of addresses. *)
AllocIn(s, b, k) ==
    IF Cell(s.disk, b, k) # ZERO THEN s
    ELSE [s EXCEPT !.disk = Set(@, b, k, s.free), !.free = @ + 1]

(* The block for the file's block fbn, x, allocated with the blocks of     *)
(* addresses on the way to it.                                             *)
Block(s, fbn) ==
    IF fbn < NDIRECT
    THEN LET s1 == AllocAddr(s, fbn) IN [s1 EXCEPT !.x = s1.din.addrs[fbn]]
    ELSE IF fbn < NDIRECT + NINDIRECT
    THEN LET s1 == AllocAddr(s, NDIRECT)
             b == s1.din.addrs[NDIRECT]
             s2 == AllocIn(s1, b, fbn - NDIRECT)
         IN  [s2 EXCEPT !.x = Cell(s2.disk, b, fbn - NDIRECT)]
    ELSE LET dbn == fbn - NDIRECT - NINDIRECT
             s1 == AllocAddr(s, NDIRECT + 1)
             b == s1.din.addrs[NDIRECT + 1]
             s2 == AllocIn(s1, b, dbn \div NINDIRECT)
             b2 == Cell(s2.disk, b, dbn \div NINDIRECT)
             s3 == AllocIn(s2, b2, dbn % NINDIRECT)
         IN  [s3 EXCEPT !.x = Cell(s3.disk, b2, dbn % NINDIRECT)]

(* Wrong variant: a whole block fits, wherever it begins. *)
RoomBlock(off) == BSIZE

(* What fits in the block that off is in. *)
Room(off) == (off \div BSIZE + 1) * BSIZE - off

(* One turn of the loop. *)
AppendBlock ==
    LET fbn == todo.off \div BSIZE
        s == Block([disk |-> disk, free |-> freeblock, din |-> todo.din, x |-> ZERO], fbn)
        n1 == Min({Len(todo.data), Room(todo.off)})
        base == todo.off - fbn * BSIZE
    IN  /\ pc = "iappend"
        /\ todo.data # <<>>
        /\ IF fbn >= MAXFILE \/ Full(s)
           THEN pc' = "failed" /\ UNCHANGED <<disk, freeblock, todo>>
           ELSE /\ disk' = [s.disk EXCEPT ![s.x] =
                       [k \in DOMAIN @ \cup (base .. base + n1 - 1) |->
                            IF k \in base .. base + n1 - 1 THEN todo.data[k - base + 1] ELSE @[k]]]
                /\ freeblock' = s.free
                /\ todo' = [todo EXCEPT !.din = s.din, !.off = @ + n1,
                                        !.data = SubSeq(@, n1 + 1, Len(@))]
                /\ UNCHANGED pc
        /\ UNCHANGED <<args, freeinode, i, at>>

AppendEnd ==
    /\ pc = "iappend"
    /\ todo.data = <<>>
    /\ disk' = winode(disk, todo.inum, [todo.din EXCEPT !.size = todo.off])
    /\ pc' = todo.next
    /\ todo' = <<>>
    /\ UNCHANGED <<args, freeinode, freeblock, i, at>>

----------------------------------------------------------------------------
(* mkfs: main() *)

Root == pc = "root" /\ Enter("DIR", DOT, "console") /\ UNCHANGED <<i, at>>

Console == pc = "console" /\ Enter("DEVICE", CONSOLE, "open") /\ UNCHANGED <<i, at>>

(* The next file; its name must fit. *)
OpenFile ==
    /\ pc = "open"
    /\ i <= Len(args)
    /\ at' = 0
    /\ UNCHANGED i
    /\ IF Cut[args[i].name] = args[i].name THEN Enter("FILE", args[i].name, "read")
       ELSE pc' = "failed" /\ UNCHANGED <<args, disk, freeinode, freeblock, todo>>

(* The contents of file f, from cell a on to cell b. *)
Contents(f, a, b) == [k \in 1 .. b - a |-> <<f, a + k - 1>>]

(* read() returns a block, or less. *)
ReadFile ==
    LET inum == freeinode - 1
    IN  /\ pc = "read"
        /\ \E cc \in 1 .. Min({BSIZE, args[i].size - at}) :
               /\ todo' = [inum |-> inum, din |-> rinode(disk, inum), off |-> rinode(disk, inum).size,
                           data |-> Contents(i, at, at + cc), next |-> "read"]
               /\ at' = at + cc
        /\ pc' = "iappend"
        /\ UNCHANGED <<args, disk, freeinode, freeblock, i>>

CloseFile ==
    /\ pc = "read"
    /\ at = args[i].size
    /\ i' = i + 1
    /\ pc' = "open"
    /\ UNCHANGED <<args, disk, freeinode, freeblock, todo, at>>

Rounded(size) == (size \div BSIZE + 1) * BSIZE

balloc(d, used) ==
    [b \in DOMAIN d |->
        IF b \in sb.bmapstart .. sb.bmapstart + nbitmap - 1
        THEN [k \in {x \in 0 .. BPB - 1 : (b - sb.bmapstart) * BPB + x < used} |-> 1]
        ELSE d[b]]

Finish ==
    LET din == rinode(disk, ROOTINO)
    IN  /\ pc = "open"
        /\ i > Len(args)
        /\ disk' = balloc(winode(disk, ROOTINO, [din EXCEPT !.size = Rounded(@)]), freeblock)
        /\ pc' = "done"
        /\ UNCHANGED <<args, freeinode, freeblock, todo, i, at>>

Next ==
    \/ Root \/ Console \/ OpenFile \/ ReadFile \/ CloseFile \/ Finish
    \/ AppendBlock \/ AppendEnd

Spec == Init /\ [][Next]_vars

----------------------------------------------------------------------------
(* The kernel *)

PANIC == -1

fsinit == Cell(disk, 1, 0)

(* The contents of an inode, from the disk. *)
ilock(inum) == Cell(disk, IBLOCK(inum, fsinit), inum % IPB)

bmap(ip, bn) ==
    LET n1 == bn - NDIRECT
        n2 == n1 - NINDIRECT
    IN  CASE bn < NDIRECT -> ip.addrs[bn]
          [] bn >= NDIRECT /\ n1 < NINDIRECT -> Cell(disk, ip.addrs[NDIRECT], n1)
          [] bn >= NDIRECT /\ n1 >= NINDIRECT /\ n2 < NDINDIRECT ->
                 LET addr == Cell(disk, ip.addrs[NDIRECT + 1], n2 \div NINDIRECT)
                 IN  Cell(disk, addr, n2 % NINDIRECT)
          [] OTHER -> PANIC

(* The cells readi() copies, up to the first block that is not there. *)
readi(ip, off, n) ==
    LET m == IF off + n > ip.size THEN ip.size - off ELSE n
        There(k) == bmap(ip, (off + k - 1) \div BSIZE) # ZERO
        tot == Max({t \in 0 .. m : \A k \in 1 .. t : There(k)})
    IN  IF off > ip.size \/ (off + n) % UMOD < off THEN <<>>
        ELSE [k \in 1 .. tot |-> Cell(disk, bmap(ip, (off + k - 1) \div BSIZE), (off + k - 1) % BSIZE)]

(* Wrong variant: all of the element is compared. *)
skipelemLong(name) == name

(* What skipelem() makes of an element of a path. *)
skipelem(name) == Cut[name]

(* The inode number in the first entry for name, 0 if there is none. *)
dirlookup(dp, name) ==
    LET de(off) == readi(dp, off, 1)
        Stops(off) == de(off) = <<>> \/ (de(off)[1] # ZERO /\ de(off)[1].name = name)
        offs == {off \in 0 .. dp.size - 1 : Stops(off)}
    IN  CASE offs = {} -> 0
          [] offs # {} /\ de(Min(offs)) = <<>> -> PANIC
          [] OTHER -> de(Min(offs))[1].inum

(* namex() on a path given by its elements. *)
namex(path) ==
    LET ip[k \in 0 .. Len(path)] ==
            IF k = 0 THEN ROOTINO
            ELSE IF ip[k - 1] \in {0, PANIC} THEN ip[k - 1]
            ELSE IF ilock(ip[k - 1]).type # "DIR" THEN 0
            ELSE dirlookup(ilock(ip[k - 1]), skipelem(path[k]))
    IN  ip[Len(path)]

----------------------------------------------------------------------------
Addrs(b) == {<<b, k>> : k \in {x \in 0 .. NINDIRECT - 1 : Cell(disk, b, x) # ZERO}}

(* The places where the addresses of an inode's blocks are: in the inode,  *)
(* and in its blocks of addresses.                                         *)
Places(inum) ==
    LET a == rinode(disk, inum).addrs
        Two == Addrs(a[NDIRECT + 1])
    IN  {<<"inode", inum, k>> : k \in {x \in 0 .. NDIRECT + 1 : a[x] # ZERO}}
        \cup Addrs(a[NDIRECT]) \cup Two \cup UNION {Addrs(Cell(disk, q[1], q[2])) : q \in Two}

AddrAt(q) == IF Len(q) = 3 THEN rinode(disk, q[2]).addrs[q[3]] ELSE Cell(disk, q[1], q[2])

(* Every block that allocblock() gave out is used in exactly one place: no *)
(* two files, and no data and addresses, share a block, none is lost, and  *)
(* all of them are on the disk.                                            *)
BlocksUsedOnce ==
    pc \notin {"iappend", "failed"} =>
        LET all == UNION {Places(n) : n \in 1 .. freeinode - 1}
        IN  /\ freeblock <= FSSIZE
            /\ {AddrAt(q) : q \in all} = nmeta .. freeblock - 1
            /\ Cardinality(all) = freeblock - nmeta

(* Inode of the k-th file of the command line. *)
Inum(k) == k + 2

(* What readi() reads, at any offset and of any length, is that part of    *)
(* what mkfs was given, whatever read() returned and wherever the blocks   *)
(* came to lie; with lengths for which off + n overflows, nothing is read. *)
ReadsBack ==
    pc = "done" =>
        \A k \in 1 .. Len(args) :
            \A off \in 0 .. args[k].size + 1, n \in {0, 1, BSIZE + 1, UMOD - BSIZE, UMOD - 1} :
                readi(ilock(Inum(k)), off, n) =
                    IF off + n >= UMOD \/ off > args[k].size THEN <<>>
                    ELSE Contents(k, off, Min({off + n, args[k].size}))

(* A path is some dots followed by a name; what else follows is not found. *)
Reference(path) ==
    LET k == CHOOSE x \in 1 .. Len(path) + 1 :
                 /\ \A y \in 1 .. x - 1 : path[y] = DOT
                 /\ x <= Len(path) => path[x] # DOT
        hits == {x \in 1 .. Len(args) : k <= Len(path) /\ args[x].name = Cut[path[k]]}
    IN  CASE k = Len(path) + 1 -> ROOTINO
          [] k = Len(path) /\ path[k] = CONSOLE -> 2
          [] k = Len(path) /\ path[k] # CONSOLE /\ hits # {} -> Inum(Min(hits))
          [] OTHER -> 0

(* The directory fills its blocks, and the size mkfs gives it includes one *)
(* more that was not allocated.                                            *)
DirectoryFull == (Len(args) + 2) % BSIZE = 0

Paths == UNION {[1 .. k -> Names] : k \in 0 .. 2}

(* namex() finds what mkfs entered under a name, and finds nothing under   *)
(* other names.  It panics instead of finding nothing only if the entries  *)
(* fill the directory's blocks.                                            *)
NamexFinds ==
    pc = "done" =>
        \A path \in Paths :
            \/ namex(path) = Reference(path)
            \/ namex(path) = PANIC /\ DirectoryFull /\ Reference(path) = 0
=============================================================================
