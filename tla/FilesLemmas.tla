---------------------------- MODULE FilesLemmas ----------------------------
(***************************************************************************)
(* The inductive invariant of Files for any number of processes,           *)
(* descriptors, files and inodes: what each part of it needs to be kept,   *)
(* and that the steps of namex(), open() and exec() keep it.               *)
(***************************************************************************)
EXTENDS Files, FiniteSetTheorems, TLAPS

MaybeInode == InodeIds \cup {NULL}

Files == [ref : Nat, type : {"NONE", "INODE", "DEVICE"}, ip : MaybeInode, off : Nat]

Inodes == [ref : Nat, inum : Inums \cup {NULL}, owner : Procs \cup {NULL},
           copy : Inums \cup {NULL}]

Labels == {"none", "USED", "user", "lockdir", "dirlookup", "putdir", "ilock", "iput", "open",
           "exec", "openclose", "dup", "close", "read", "fstat", "fork", "exit"}

Jobs == [pc : Labels, op : {"none", "open", "exec", "exit"}, path : Seq(Inums \cup {NULL}),
         dp : MaybeInode, ip : MaybeInode, f : FileIds \cup {NULL}, at : Nat,
         off : Nat, child : Procs \cup {NULL}]

TypeOK ==
    /\ file \in [FileIds -> Files]
    /\ inode \in [InodeIds -> Inodes]
    /\ ofile \in [Procs -> [Fds -> FileIds \cup {NULL}]]
    /\ cwd \in [Procs -> MaybeInode]
    /\ job \in [Procs -> Jobs]

Searching == {"lockdir", "dirlookup", "putdir"}
Opening == {"ilock", "open", "exec", "openclose"}

(* Which locals of a system call are set, and where. *)
Local(p) ==
    /\ job[p].dp # NULL <=> job[p].pc \in Searching
    /\ job[p].pc \in Opening \cup {"iput"} => job[p].ip # NULL
    /\ job[p].ip # NULL => job[p].pc \in Opening \cup {"iput", "putdir"}
    /\ job[p].f # NULL <=> job[p].pc \in {"openclose", "dup", "close", "read", "fstat"}
    /\ job[p].pc \in Searching => job[p].path # <<>>
    /\ job[p].pc \in Searching \cup Opening => job[p].op \in {"open", "exec"}
    /\ cwd[p] = NULL <=> job[p].pc \in {"none", "USED"}

(* What a path leads to. *)
Target(p) ==
    /\ cwd[p] # NULL => inode[cwd[p]].inum = ROOTINO
    /\ job[p].pc \in Opening =>
           inode[job[p].ip].inum = IF job[p].path = <<>> THEN ROOTINO ELSE Head(job[p].path)
    /\ At(p, "putdir") /\ job[p].ip # NULL => inode[job[p].ip].inum = Head(job[p].path)

(* A process without a program has no descriptors; the child in fork() has *)
(* one parent and the descriptors below at.                                *)
ForksRight ==
    /\ \A p \in Procs : At(p, "none") => \A d \in Fds : ofile[p][d] = NULL
    /\ \A p \in Procs : At(p, "fork") =>
           /\ job[p].child \in Procs
           /\ At(job[p].child, "USED")
           /\ \A d \in Fds : d >= job[p].at => ofile[job[p].child][d] = NULL
    /\ \A p, q \in Procs : At(p, "fork") /\ At(q, "fork") /\ p # q => job[p].child # job[q].child

(* The file that a system call uses has a descriptor; dup() has two.       *)
Named(p) ==
    /\ job[p].pc \in {"read", "fstat"} => \E d \in Fds : ofile[p][d] = job[p].f
    /\ At(p, "dup") =>
           /\ job[p].at \in Fds /\ ofile[p][job[p].at] = job[p].f
           /\ \E d \in Fds \ {job[p].at} : ofile[p][d] = job[p].f

(* Every file that a descriptor or a system call names has a type, but for *)
(* one that open() gives up.                                               *)
Typed(p) ==
    /\ \A d \in Fds : ofile[p][d] # NULL => file[ofile[p][d]].type # "NONE"
    /\ job[p].f # NULL => (file[job[p].f].type = "NONE" <=> At(p, "openclose"))

(* A file with a type has an inode. *)
FilesRight == \A f \in FileIds : file[f].type # "NONE" => file[f].ip # NULL /\ file[f].ref > 0

Uncounted(p, d) == At(p, "dup") /\ job[p].at = d
Counted(f) == {x \in Procs \X Fds : ofile[x[1]][x[2]] = f /\ ~Uncounted(x[1], x[2])}
Closing(f) == {p \in Procs : job[p].pc \in {"close", "openclose"} /\ job[p].f = f}

FileCount == \A f \in FileIds : file[f].ref = Cardinality(Counted(f)) + Cardinality(Closing(f))

(* An entry in use is of one inode on the disk, and no other entry is. *)
EntriesRight ==
    /\ \A i \in InodeIds : inode[i].ref > 0 => inode[i].inum # NULL
    /\ \A i, k \in InodeIds : inode[i].ref > 0 /\ inode[k].ref > 0 /\ i # k
                              => inode[i].inum # inode[k].inum
    /\ \A i \in InodeIds : inode[i].copy # NULL => inode[i].copy = inode[i].inum

OwnersRight ==
    /\ \A p \in Procs : Locking(p) # NULL => inode[Locking(p)].owner = p
    /\ \A i \in InodeIds, p \in Procs :
           inode[i].owner = p => Locking(p) = i /\ inode[i].copy # NULL

FilesInv ==
    /\ TypeOK
    /\ \A p \in Procs : Local(p) /\ Target(p) /\ Named(p) /\ Typed(p)
    /\ ForksRight /\ FilesRight /\ FileCount
    /\ InodeRefExact /\ EntriesRight /\ OwnersRight /\ OffsetStable

----------------------------------------------------------------------------
(* Types *)

(* A set of numbers has a least one. *)
LEMMA LowestIn ==
    ASSUME NEW T, T \subseteq Nat, T # {}
    PROVE  Lowest(T) \in T
<1> DEFINE R == OpToRel(<, Nat)
<1>1. \E x \in T : \A y \in T : ~(<<y, x>> \in R)
  <2>1. IsWellFoundedOn(R, Nat)
      BY NatLessThanWellFounded, Zenon
  <2> HIDE DEF R
  <2> QED
      BY <2>1, WFMin, Zenon
<1>2. ASSUME NEW x \in Nat, NEW y \in Nat, ~(<<y, x>> \in R) PROVE x <= y
    BY <1>2 DEF OpToRel
<1>3. \E x \in T : \A y \in T : x <= y
    BY <1>1, <1>2, Zenon
<1> QED
    BY <1>3, Zenon DEF Lowest

LEMMA Domains ==
    /\ NULL \notin InodeIds /\ NULL \notin FileIds /\ NULL \notin Fds
    /\ InodeIds \subseteq Nat /\ FileIds \subseteq Nat /\ Fds \subseteq Nat
    /\ User \in Jobs /\ None \in Files
    BY FilesAssumption DEF InodeIds, FileIds, Fds, User, None, Jobs, Files, Labels, MaybeInode

----------------------------------------------------------------------------
(* Counting *)

Ind(b) == IF b THEN 1 ELSE 0

LEMMA UserFields ==
    /\ User \in Jobs /\ User.pc = "user" /\ User.op = "none" /\ User.dp = NULL /\ User.ip = NULL
    /\ User.f = NULL
    BY Domains, Zenon DEF User

(* Sets that differ in x at most. *)
LEMMA CountMoved ==
    ASSUME NEW S, NEW T, NEW x, IsFiniteSet(S), T \ {x} = S \ {x}
    PROVE  /\ IsFiniteSet(T)
           /\ Cardinality(T) \in Nat
           /\ Cardinality(T) = Cardinality(S) + Ind(x \in T) - Ind(x \in S)
<1>1. IsFiniteSet(S \ {x}) /\ Cardinality(S \ {x}) = Cardinality(S) - Ind(x \in S)
      /\ Cardinality(S) \in Nat
    BY FS_RemoveElement, FS_CardinalityType DEF Ind
<1>2. CASE x \in T
  <2>1. T = (S \ {x}) \cup {x}
      BY <1>2, Zenon
  <2>2. IsFiniteSet(T) /\ Cardinality(T) = Cardinality(S \ {x}) + 1
      BY <1>1, <2>1, FS_AddElement, Zenon
  <2> QED
      BY <1>1, <1>2, <2>2, FS_CardinalityType DEF Ind
<1>3. CASE x \notin T
  <2>1. T = S \ {x}
      BY <1>3, Zenon
  <2> QED
      BY <1>1, <1>3, <2>1, FS_CardinalityType DEF Ind
<1> QED
    BY <1>2, <1>3, Zenon

LEMMA FdsFinite == IsFiniteSet(Fds) /\ IsFiniteSet(FileIds) /\ IsFiniteSet(Procs \X Fds)
<1>1. IsFiniteSet(0 .. NOFILE - 1) /\ IsFiniteSet(1 .. NFILE)
    BY FilesAssumption, FS_Interval, SMTT(30)
<1> QED
    BY <1>1, FilesAssumption, FS_Product, Zenon DEF Fds, FileIds

(* The sets that the counts are of. *)
Files_(i) == {f \in FileIds : file[f].type # "NONE" /\ file[f].ip = i}
Cwds(i) == {p \in Procs : cwd[p] = i}
Dps(i) == {p \in Procs : job[p].dp = i}
Ips(i) == {p \in Procs : job[p].ip = i}

LEMMA SetsFinite ==
    /\ \A f : IsFiniteSet(Counted(f)) /\ IsFiniteSet(Closing(f))
    /\ \A i : IsFiniteSet(Files_(i)) /\ IsFiniteSet(Cwds(i))
    /\ \A i : IsFiniteSet(Dps(i)) /\ IsFiniteSet(Ips(i))
<1>1. /\ \A f : Counted(f) \subseteq Procs \X Fds /\ Closing(f) \subseteq Procs
      /\ \A i : Files_(i) \subseteq FileIds /\ Cwds(i) \subseteq Procs
      /\ \A i : Dps(i) \subseteq Procs /\ Ips(i) \subseteq Procs
    BY Zenon DEF Counted, Closing, Files_, Cwds, Dps, Ips
<1> QED
    BY <1>1, FdsFinite, FilesAssumption, FS_Subset, Zenon

LEMMA SetsCounted ==
    /\ \A f : Cardinality(Counted(f)) \in Nat /\ Cardinality(Closing(f)) \in Nat
    /\ \A i : Cardinality(Files_(i)) \in Nat /\ Cardinality(Cwds(i)) \in Nat
    /\ \A i : Cardinality(Dps(i)) \in Nat /\ Cardinality(Ips(i)) \in Nat
    BY SetsFinite, FS_CardinalityType, Zenon

(* An inode that is referred to is counted. *)
LEMMA Referenced ==
    ASSUME TypeOK, InodeRefExact, NEW i \in InodeIds, inode[i].ref = 0
    PROVE  /\ \A f \in FileIds : file[f].type # "NONE" => file[f].ip # i
           /\ \A p \in Procs : cwd[p] # i /\ job[p].dp # i /\ job[p].ip # i
<1>1. 0 = Cardinality(Files_(i)) + Cardinality(Cwds(i)) + Cardinality(Dps(i)) + Cardinality(Ips(i))
    BY Zenon DEF InodeRefExact, Files_, Cwds, Dps, Ips, Count
<1>2. Cardinality(Files_(i)) = 0 /\ Cardinality(Cwds(i)) = 0 /\ Cardinality(Dps(i)) = 0
      /\ Cardinality(Ips(i)) = 0
    BY <1>1, SetsCounted
<1>3. Files_(i) = {} /\ Cwds(i) = {} /\ Dps(i) = {} /\ Ips(i) = {}
    BY <1>2, SetsFinite, FS_EmptySet, Zenon
<1> QED
    BY <1>3, Zenon DEF Files_, Cwds, Dps, Ips

(* Two elements make two references. *)
LEMMA TwoElements ==
    ASSUME NEW S, IsFiniteSet(S)
    PROVE  /\ S # {} => Cardinality(S) >= 1
           /\ \A x, y \in S : x # y => Cardinality(S) >= 2
<1>1. Cardinality(S) \in Nat /\ (Cardinality(S) = 0 <=> S = {})
    BY FS_EmptySet, FS_CardinalityType, Zenon
<1>2. Cardinality(S) = 1 => \E z : S = {z}
    BY FS_Singleton, Zenon
<1> QED
    BY <1>1, <1>2

(* A process with a descriptor of f has one that is counted. *)
LEMMA NamedCounted ==
    ASSUME TypeOK, \A x \in Procs : Named(x), NEW p \in Procs, NEW d \in Fds
    PROVE  \E e \in Fds : /\ <<p, e>> \in Counted(ofile[p][d])
                          /\ ~At(p, "dup") => e = d
<1>1. CASE ~Uncounted(p, d)
    BY <1>1, Zenon DEF Counted
<1>2. CASE Uncounted(p, d)
  <2>1. PICK e \in Fds : e # job[p].at /\ ofile[p][e] = ofile[p][d]
      BY <1>2, Zenon DEF Uncounted, Named
  <2> QED
      BY <1>2, <2>1, Zenon DEF Counted, Uncounted
<1> QED
    BY <1>1, <1>2, Zenon

(* A file that someone names, or is closing, has a count; *)
LEMMA FileUsed ==
    ASSUME TypeOK, \A x \in Procs : Named(x), FileCount, NEW f \in FileIds
    PROVE  /\ Closing(f) # {} => file[f].ref > 0
           /\ \A p \in Procs, d \in Fds : ofile[p][d] = f => file[f].ref > 0
<1>1. file[f].ref = Cardinality(Counted(f)) + Cardinality(Closing(f))
    BY Zenon DEF FileCount
<1>2. Closing(f) # {} => file[f].ref > 0
    BY <1>1, SetsFinite, SetsCounted, TwoElements
<1>3. ASSUME NEW p \in Procs, NEW d \in Fds, ofile[p][d] = f PROVE Counted(f) # {}
    BY <1>3, NamedCounted, Zenon
<1> QED
    BY <1>1, <1>2, <1>3, SetsFinite, SetsCounted, TwoElements

(* and it has two if two do, so that the first to close it leaves it open. *)
LEMMA FileShared ==
    ASSUME TypeOK, \A x \in Procs : Named(x), FileCount, NEW f \in FileIds, NEW p \in Procs
    PROVE  /\ \A q \in Procs : p # q /\ p \in Closing(f) /\ q \in Closing(f) => file[f].ref >= 2
           /\ \A q \in Procs, d \in Fds :
                  p \in Closing(f) /\ ofile[q][d] = f => file[f].ref >= 2
           /\ \A q \in Procs, d, e \in Fds :
                  /\ ofile[p][d] = f /\ ofile[q][e] = f /\ ~At(p, "dup")
                  /\ <<p, d>> # <<q, e>>
                  => file[f].ref >= 2
<1>1. file[f].ref = Cardinality(Counted(f)) + Cardinality(Closing(f))
    BY Zenon DEF FileCount
<1>2. ASSUME NEW q \in Procs, p # q, p \in Closing(f), q \in Closing(f) PROVE file[f].ref >= 2
    BY <1>1, <1>2, SetsFinite, SetsCounted, TwoElements
<1>3. ASSUME NEW q \in Procs, NEW d \in Fds, p \in Closing(f), ofile[q][d] = f
      PROVE  file[f].ref >= 2
  <2>1. Counted(f) # {}
      BY <1>3, NamedCounted, Zenon
  <2> QED
      BY <1>1, <1>3, <2>1, SetsFinite, SetsCounted, TwoElements
<1>4. ASSUME NEW q \in Procs, NEW d \in Fds, NEW e \in Fds, ofile[p][d] = f, ofile[q][e] = f,
             ~At(p, "dup"), <<p, d>> # <<q, e>>
      PROVE  file[f].ref >= 2
  <2>1. <<p, d>> \in Counted(f)
      BY <1>4, NamedCounted, Zenon
  <2>2. PICK x \in Fds : <<q, x>> \in Counted(f) /\ (~At(q, "dup") => x = e)
      BY <1>4, NamedCounted, Zenon
  <2>3. <<q, x>> # <<p, d>>
      BY <1>4, <2>2, Zenon
  <2>4. Cardinality(Counted(f)) >= 2
      BY <2>1, <2>2, <2>3, SetsFinite, TwoElements, Zenon
  <2> QED
      BY <1>1, <2>4, SetsCounted
<1> QED
    BY <1>2, <1>3, <1>4, Zenon

----------------------------------------------------------------------------
(* What steps have in common *)

Others(p) == \A q \in Procs \ {p} : job'[q] = job[q]

Mine(j, i) == Ind(j.dp = i) + Ind(j.ip = i)
Of(e, i) == Ind(e.type # "NONE" /\ e.ip = i)

(* Counts of inode i when only p's locals and c's directory, *)
LEMMA CallCounts ==
    ASSUME NEW i, NEW p \in Procs, NEW c \in Procs,
           \A q \in Procs \ {p} : job'[q].dp = job[q].dp /\ job'[q].ip = job[q].ip,
           \A q \in Procs \ {c} : cwd'[q] = cwd[q]
    PROVE  /\ Cardinality(Dps(i)') = Cardinality(Dps(i)) + Ind(job'[p].dp = i) - Ind(job[p].dp = i)
           /\ Cardinality(Ips(i)') = Cardinality(Ips(i)) + Ind(job'[p].ip = i) - Ind(job[p].ip = i)
           /\ Cardinality(Cwds(i)') = Cardinality(Cwds(i)) + Ind(cwd'[c] = i) - Ind(cwd[c] = i)
<1>1. Dps(i)' \ {p} = Dps(i) \ {p} /\ Ips(i)' \ {p} = Ips(i) \ {p}
    BY Zenon DEF Dps, Ips
<1>2. Cwds(i)' \ {c} = Cwds(i) \ {c}
    BY Zenon DEF Cwds
<1>3. /\ p \in Dps(i)' <=> job'[p].dp = i
      /\ p \in Dps(i) <=> job[p].dp = i
      /\ p \in Ips(i)' <=> job'[p].ip = i
      /\ p \in Ips(i) <=> job[p].ip = i
      /\ c \in Cwds(i)' <=> cwd'[c] = i
      /\ c \in Cwds(i) <=> cwd[c] = i
    BY Zenon DEF Dps, Ips, Cwds
<1>5. Cardinality(Dps(i)') = Cardinality(Dps(i)) + Ind(p \in Dps(i)') - Ind(p \in Dps(i))
    BY <1>1, SetsFinite, CountMoved, Zenon
<1>6. Cardinality(Ips(i)') = Cardinality(Ips(i)) + Ind(p \in Ips(i)') - Ind(p \in Ips(i))
    BY <1>1, SetsFinite, CountMoved, Zenon
<1>7. Cardinality(Cwds(i)') = Cardinality(Cwds(i)) + Ind(c \in Cwds(i)') - Ind(c \in Cwds(i))
    BY <1>2, SetsFinite, CountMoved, Zenon
<1> QED
    BY <1>3, <1>5, <1>6, <1>7, Zenon DEF Ind

(* and when only file f changes. *)
LEMMA FileCounts ==
    ASSUME NEW i, NEW f \in FileIds,
           \A g \in FileIds \ {f} : file'[g].type = file[g].type /\ file'[g].ip = file[g].ip
    PROVE  Cardinality(Files_(i)') = Cardinality(Files_(i)) + Of(file'[f], i) - Of(file[f], i)
<1>1. Files_(i)' \ {f} = Files_(i) \ {f}
    BY Zenon DEF Files_
<1>2. /\ f \in Files_(i)' <=> file'[f].type # "NONE" /\ file'[f].ip = i
      /\ f \in Files_(i) <=> file[f].type # "NONE" /\ file[f].ip = i
    BY Zenon DEF Files_
<1>3. Cardinality(Files_(i)') = Cardinality(Files_(i)) + Ind(f \in Files_(i)') - Ind(f \in Files_(i))
    BY <1>1, SetsFinite, CountMoved, Zenon
<1> QED
    BY <1>2, <1>3, Zenon DEF Ind, Of

Refs(i) == Cardinality(Files_(i)) + Cardinality(Cwds(i)) + Cardinality(Dps(i)) + Cardinality(Ips(i))

LEMMA RefsExact == InodeRefExact <=> \A i \in InodeIds : inode[i].ref = Refs(i)
    BY Zenon DEF InodeRefExact, Refs, Files_, Cwds, Dps, Ips, Count

(* The counts of inodes follow those of the step. *)
LEMMA InodesCounted ==
    ASSUME InodeRefExact, NEW p \in Procs, NEW c \in Procs,
           \A q \in Procs \ {p} : job'[q].dp = job[q].dp /\ job'[q].ip = job[q].ip,
           \A q \in Procs \ {c} : cwd'[q] = cwd[q],
           \A g \in FileIds : file'[g].type = file[g].type /\ file'[g].ip = file[g].ip,
           \A i \in InodeIds : inode'[i].ref = inode[i].ref + Mine(job'[p], i) - Mine(job[p], i)
                                               + Ind(cwd'[c] = i) - Ind(cwd[c] = i)
    PROVE  InodeRefExact'
<1>1. ASSUME NEW i \in InodeIds PROVE inode'[i].ref = Refs(i)'
  <2>1. inode[i].ref = Refs(i)
      BY RefsExact, Zenon
  <2>2. /\ Cardinality(Dps(i)') = Cardinality(Dps(i)) + Ind(job'[p].dp = i) - Ind(job[p].dp = i)
        /\ Cardinality(Ips(i)') = Cardinality(Ips(i)) + Ind(job'[p].ip = i) - Ind(job[p].ip = i)
        /\ Cardinality(Cwds(i)') = Cardinality(Cwds(i)) + Ind(cwd'[c] = i) - Ind(cwd[c] = i)
      BY CallCounts
  <2>3. Files_(i)' = Files_(i)
      BY DEF Files_
  <2> QED
      BY <2>1, <2>2, <2>3, SetsCounted DEF Refs, Mine, Ind
<1> QED
    BY <1>1, Zenon DEF InodeRefExact, Refs, Files_, Cwds, Dps, Ips, Count

LEMMA InodesCountedToo ==
    ASSUME InodeRefExact, NEW p \in Procs, NEW f \in FileIds,
           \A q \in Procs \ {p} : job'[q].dp = job[q].dp /\ job'[q].ip = job[q].ip,
           cwd' = cwd,
           \A g \in FileIds \ {f} : file'[g].type = file[g].type /\ file'[g].ip = file[g].ip,
           \A i \in InodeIds : inode'[i].ref = inode[i].ref + Mine(job'[p], i) - Mine(job[p], i)
                                               + Of(file'[f], i) - Of(file[f], i)
    PROVE  InodeRefExact'
<1>1. ASSUME NEW i \in InodeIds PROVE inode'[i].ref = Refs(i)'
  <2>1. inode[i].ref = Refs(i)
      BY RefsExact, Zenon
  <2>2. /\ Cardinality(Dps(i)') = Cardinality(Dps(i)) + Ind(job'[p].dp = i) - Ind(job[p].dp = i)
        /\ Cardinality(Ips(i)') = Cardinality(Ips(i)) + Ind(job'[p].ip = i) - Ind(job[p].ip = i)
      BY CallCounts
  <2>3. Cardinality(Files_(i)') = Cardinality(Files_(i)) + Of(file'[f], i) - Of(file[f], i)
      BY FileCounts, Zenon
  <2>4. Cwds(i)' = Cwds(i)
      BY Zenon DEF Cwds
  <2> QED
      BY <2>1, <2>2, <2>3, <2>4, SetsCounted DEF Refs, Mine, Of, Ind
<1> QED
    BY <1>1, Zenon DEF InodeRefExact, Refs, Files_, Cwds, Dps, Ips, Count

LEMMA InodesSame ==
    ASSUME InodeRefExact, cwd' = cwd,
           \A q \in Procs : job'[q].dp = job[q].dp /\ job'[q].ip = job[q].ip,
           \A g \in FileIds : file'[g].type = file[g].type /\ file'[g].ip = file[g].ip,
           \A i \in InodeIds : inode'[i].ref = inode[i].ref
    PROVE  InodeRefExact'
<1>1. ASSUME NEW i \in InodeIds PROVE inode'[i].ref = Refs(i)'
  <2>1. inode[i].ref = Refs(i)
      BY RefsExact, Zenon
  <2>2. Files_(i)' = Files_(i) /\ Cwds(i)' = Cwds(i) /\ Dps(i)' = Dps(i) /\ Ips(i)' = Ips(i)
      BY Zenon DEF Files_, Cwds, Dps, Ips
  <2> QED
      BY <2>1, <2>2, Zenon DEF Refs
<1> QED
    BY <1>1, Zenon DEF InodeRefExact, Refs, Files_, Cwds, Dps, Ips, Count

(* What is referred to keeps its number. *)
InumsKept == \A i \in InodeIds : inode[i].ref > 0 => inode'[i].inum = inode[i].inum

LEMMA OthersKept ==
    ASSUME FilesInv, NEW q \in Procs, job'[q] = job[q], InumsKept, cwd'[q] = cwd[q]
    PROVE  Local(q)' /\ Target(q)'
<1>1. job'[q] = job[q] /\ Local(q) /\ Target(q) /\ cwd[q] \in MaybeInode /\ job[q].ip \in MaybeInode
    BY Zenon DEF FilesInv, TypeOK, Jobs
<1>2. Local(q)'
    BY <1>1, Zenon DEF Local
<1>3. \A i \in InodeIds : cwd[q] = i \/ job[q].ip = i => inode'[i].inum = inode[i].inum
    BY Referenced DEF InumsKept, FilesInv, TypeOK, Inodes
<1>4. cwd[q] # NULL => inode'[cwd[q]].inum = inode[cwd[q]].inum
    BY <1>1, <1>3, Zenon DEF MaybeInode
<1>5. job[q].ip # NULL => inode'[job[q].ip].inum = inode[job[q].ip].inum
    BY <1>1, <1>3, Zenon DEF MaybeInode
<1>6. Target(q)'
    BY <1>1, <1>4, <1>5, Zenon DEF Target, Local, At
<1> QED
    BY <1>2, <1>6, Zenon

(* A step of p with no file. *)
LEMMA FilesFrame ==
    ASSUME FilesInv, NEW p \in Procs, Others(p), UNCHANGED <<file, ofile>>,
           job[p].pc \notin {"dup", "close", "openclose"}, job'[p].f = NULL,
           job'[p].pc \notin {"dup", "close", "openclose", "read", "fstat"}
    PROVE  (\A q \in Procs : Named(q)' /\ Typed(q)') /\ FilesRight' /\ FileCount'
<1>1. ASSUME NEW q \in Procs PROVE Named(q)' /\ Typed(q)'
    BY DEF Others, FilesInv, Named, Typed, At
<1>2. FilesRight'
    BY Zenon DEF FilesInv, FilesRight
<1>3. \A f \in FileIds : Counted(f)' = Counted(f) /\ Closing(f)' = Closing(f)
  <2>1. \A q \in Procs, d \in Fds : Uncounted(q, d)' <=> Uncounted(q, d)
      BY Zenon DEF Uncounted, Others, At
  <2>2. \A q \in Procs : \/ job'[q] = job[q]
                         \/ /\ job'[q].pc \notin {"close", "openclose"}
                            /\ job[q].pc \notin {"close", "openclose"}
      BY Zenon DEF Others
  <2> QED
      BY <2>1, <2>2, Zenon DEF Counted, Closing
<1>4. FileCount'
    BY <1>3, Zenon DEF FilesInv, FileCount
<1> QED
    BY <1>1, <1>2, <1>4, Zenon

(* A step of p outside fork(). *)
LEMMA ForksFrame ==
    ASSUME FilesInv, NEW p \in Procs, Others(p), 
           \A q \in Procs \ {p} : ofile'[q] = ofile[q],
           job[p].pc \notin {"none", "USED", "fork"}, job'[p].pc \notin {"none", "USED", "fork"}
    PROVE  ForksRight'
    BY DEF Others, FilesInv, ForksRight, At

LEMMA EntriesFrame ==
    ASSUME FilesInv,
           \A i \in InodeIds : /\ inode'[i].inum = inode[i].inum
                               /\ inode'[i].copy \in {inode[i].copy, inode[i].inum}
                               /\ inode'[i].ref > 0 => inode[i].ref > 0
    PROVE  EntriesRight' /\ InumsKept
    BY DEF FilesInv, EntriesRight, InumsKept

LEMMA LockingType ==
    ASSUME FilesInv, NEW q \in Procs
    PROVE  Locking(q) \in MaybeInode
<1>1. job[q] \in Jobs /\ Local(q) /\ file \in [FileIds -> Files]
    BY Zenon DEF FilesInv, TypeOK
<1>2. job[q].dp \in MaybeInode /\ job[q].ip \in MaybeInode /\ job[q].f \in FileIds \cup {NULL}
    BY <1>1, Zenon DEF Jobs
<1>3. job[q].f # NULL => file[job[q].f].ip \in MaybeInode
    BY <1>1, <1>2, Zenon DEF Files
<1> QED
    BY <1>1, <1>2, <1>3, Zenon DEF Locking, Local, MaybeInode

(* Locks: p gives up the one it has, if it has not it afterwards, and      *)
(* takes the one it has afterwards; the others keep theirs.                *)
LEMMA OwnersFrame ==
    ASSUME FilesInv, NEW p \in Procs, Locking(p)' \in MaybeInode,
           \A q \in Procs \ {p} : Locking(q)' = Locking(q),
           \A i \in InodeIds : i # Locking(p) /\ i # Locking(p)' =>
               /\ inode'[i].owner = inode[i].owner
               /\ inode[i].owner # NULL => inode'[i].copy # NULL,
           Locking(p) # NULL /\ Locking(p) # Locking(p)' => inode'[Locking(p)].owner = NULL,
           Locking(p)' # NULL => /\ inode'[Locking(p)'].owner = p
                                 /\ inode'[Locking(p)'].copy # NULL
                                 /\ inode[Locking(p)'].owner \in {NULL, p}
    PROVE  OwnersRight'
<1>1. ASSUME NEW q \in Procs, Locking(q)' # NULL PROVE inode'[Locking(q)'].owner = q
  <2>1. CASE q = p
      BY <1>1, <2>1, Zenon
  <2>2. CASE q # p
    <3>1. Locking(q)' = Locking(q) /\ Locking(q) \in InodeIds /\ inode[Locking(q)].owner = q
        BY <1>1, <2>2, LockingType, Zenon DEF FilesInv, OwnersRight, MaybeInode
    <3>2. Locking(q) # Locking(p) /\ Locking(q) # Locking(p)'
        BY <1>1, <2>2, <3>1, FilesAssumption, Zenon DEF FilesInv, OwnersRight
    <3> QED
        BY <3>1, <3>2, Zenon
  <2> QED
      BY <2>1, <2>2, Zenon
<1>2. ASSUME NEW i \in InodeIds, NEW q \in Procs, inode'[i].owner = q
      PROVE  Locking(q)' = i /\ inode'[i].copy # NULL
  <2>0. q # NULL /\ i # NULL
      BY FilesAssumption, Domains, Zenon
  <2>1. CASE i = Locking(p)'
      BY <1>2, <2>0, <2>1, Zenon
  <2>2. CASE i # Locking(p)'
    <3>1. i # Locking(p)
        BY <1>2, <2>0, <2>2, Zenon
    <3>2. inode[i].owner = q /\ inode'[i].copy # NULL
        BY <1>2, <2>0, <2>2, <3>1, Zenon
    <3>4. Locking(q) = i /\ q # p
        BY <3>1, <3>2, Zenon DEF FilesInv, OwnersRight
    <3> QED
        BY <3>2, <3>4, Zenon
  <2> QED
      BY <2>1, <2>2, Zenon
<1> QED
    BY <1>1, <1>2, Zenon DEF OwnersRight

LEMMA LockingKept ==
    ASSUME NEW p \in Procs, Others(p), UNCHANGED file
    PROVE  \A q \in Procs \ {p} : Locking(q)' = Locking(q)
    BY Zenon DEF Others, Locking

LEMMA OffsetsFrame ==
    ASSUME FilesInv, NEW p \in Procs, Others(p), UNCHANGED file, job'[p].pc # "read"
    PROVE  OffsetStable'
    BY Zenon DEF FilesInv, OffsetStable, Others, At

(* The steps that lock, unlock or count an inode have this in common. *)
OnlyOf(p) ==
    /\ Others(p)
    /\ \A q \in Procs \ {p} : cwd'[q] = cwd[q] /\ Locking(q)' = Locking(q)

Sound(p) ==
    /\ inode' \in [InodeIds -> Inodes]
    /\ InumsKept /\ EntriesRight' /\ OwnersRight'
    /\ \A q \in Procs \ {p} : Local(q)' /\ Target(q)'

(* p locks inode i, *)
LEMMA LockStep ==
    ASSUME FilesInv, NEW p \in Procs, NEW i \in InodeIds, OnlyOf(p), ilock(p, i),
           Locking(p) = NULL, Locking(p)' = i, inode[i].ref > 0
    PROVE  Sound(p) /\ \A k \in InodeIds : inode'[k].ref = inode[k].ref
<1>1. inode \in [InodeIds -> Inodes] /\ inode[i] \in Inodes
    BY Zenon DEF FilesInv, TypeOK
<1>2. /\ inode'[i] = [inode[i] EXCEPT !.owner = p, !.copy = IF @ = NULL THEN inode[i].inum ELSE @]
      /\ \A k \in InodeIds \ {i} : inode'[k] = inode[k]
      /\ inode[i].owner = NULL
    BY <1>1, Zenon DEF ilock
<1>3. /\ inode'[i].owner = p
      /\ inode'[i].copy = IF inode[i].copy = NULL THEN inode[i].inum ELSE inode[i].copy
      /\ inode'[i].inum = inode[i].inum /\ inode'[i].ref = inode[i].ref
    BY <1>1, <1>2, Zenon DEF Inodes
<1>4. inode'[i] \in Inodes
    BY <1>1, <1>2, Zenon DEF Inodes
<1>5. inode' \in [InodeIds -> Inodes]
    BY <1>1, <1>4, <1>2 DEF ilock
<1>6. \A k \in InodeIds : inode'[k].inum = inode[k].inum /\ inode'[k].ref = inode[k].ref
    BY <1>2, <1>3, Zenon
<1>7. EntriesRight' /\ InumsKept
    BY <1>2, <1>3, <1>6, EntriesFrame, Zenon
<1>8. inode'[i].copy # NULL
    BY <1>3, Zenon DEF FilesInv, EntriesRight
<1>9. OwnersRight'
  <2>1. Locking(p)' \in MaybeInode /\ i # NULL
      BY Domains, Zenon DEF MaybeInode
  <2>2. \A k \in InodeIds \ {i} : inode[k].owner # NULL => inode'[k].copy # NULL
      BY <1>1, <1>2 DEF FilesInv, OwnersRight, Inodes
  <2>3. \A k \in InodeIds : k # Locking(p) /\ k # Locking(p)' =>
            inode'[k].owner = inode[k].owner /\ (inode[k].owner # NULL => inode'[k].copy # NULL)
      BY <1>2, <2>2, Zenon
  <2>4. \A q \in Procs \ {p} : Locking(q)' = Locking(q)
      BY Zenon DEF OnlyOf
  <2> QED
      BY <1>2, <1>3, <1>8, <2>1, <2>3, <2>4, OwnersFrame, Zenon
<1>10. \A q \in Procs \ {p} : Local(q)' /\ Target(q)'
    BY <1>7, OthersKept, Zenon DEF OnlyOf, Others
<1> QED
    BY <1>5, <1>6, <1>7, <1>9, <1>10, Zenon DEF Sound

(* unlocks the one it has, *)
LEMMA UnlockStep ==
    ASSUME FilesInv, NEW p \in Procs, NEW i \in InodeIds, OnlyOf(p),
           inode' = Unlocked(inode, i), Locking(p) = i, Locking(p)' = NULL
    PROVE  Sound(p) /\ \A k \in InodeIds : inode'[k].ref = inode[k].ref
<1>1. inode \in [InodeIds -> Inodes] /\ inode[i] \in Inodes
    BY Zenon DEF FilesInv, TypeOK
<1>2. /\ inode'[i] = [inode[i] EXCEPT !.owner = NULL]
      /\ \A k \in InodeIds \ {i} : inode'[k] = inode[k]
    BY <1>1, Zenon DEF Unlocked
<1>3. /\ inode'[i].owner = NULL /\ inode'[i].copy = inode[i].copy
      /\ inode'[i].inum = inode[i].inum /\ inode'[i].ref = inode[i].ref
    BY <1>1, <1>2, Zenon DEF Inodes
<1>4. inode'[i] \in Inodes
    BY <1>1, <1>2, Zenon DEF Inodes
<1>5. inode' \in [InodeIds -> Inodes]
    BY <1>1, <1>4, <1>2, Zenon DEF Unlocked
<1>6. \A k \in InodeIds : inode'[k].inum = inode[k].inum /\ inode'[k].ref = inode[k].ref
    BY <1>2, <1>3, Zenon
<1>7. EntriesRight' /\ InumsKept
    BY <1>2, <1>3, <1>6, EntriesFrame, Zenon
<1>9. OwnersRight'
  <2>1. Locking(p)' \in MaybeInode /\ i # NULL
      BY Domains, Zenon DEF MaybeInode
  <2>2. \A k \in InodeIds \ {i} : inode[k].owner # NULL => inode'[k].copy # NULL
      BY <1>1, <1>2 DEF FilesInv, OwnersRight, Inodes
  <2>3. \A k \in InodeIds : k # Locking(p) /\ k # Locking(p)' =>
            inode'[k].owner = inode[k].owner /\ (inode[k].owner # NULL => inode'[k].copy # NULL)
      BY <1>2, <2>2, Zenon
  <2>4. \A q \in Procs \ {p} : Locking(q)' = Locking(q)
      BY Zenon DEF OnlyOf
  <2> QED
      BY <1>2, <1>3, <2>1, <2>3, <2>4, OwnersFrame, Zenon
<1>10. \A q \in Procs \ {p} : Local(q)' /\ Target(q)'
    BY <1>7, OthersKept, Zenon DEF OnlyOf, Others
<1> QED
    BY <1>5, <1>6, <1>7, <1>9, <1>10, Zenon DEF Sound

(* or takes or drops a reference, n, on one that has some. *)
LEMMA InodeCounted ==
    ASSUME FilesInv, NEW i \in InodeIds, inode[i].ref > 0, NEW n \in {-1, 1},
           inode' = [inode EXCEPT ![i].ref = @ + n], \A q \in Procs : Locking(q)' = Locking(q)
    PROVE  /\ inode' \in [InodeIds -> Inodes]
           /\ InumsKept /\ EntriesRight' /\ OwnersRight'
           /\ \A k \in InodeIds : inode'[k].ref = inode[k].ref + IF k = i THEN n ELSE 0
<1>1. inode \in [InodeIds -> Inodes] /\ inode[i] \in Inodes
    BY Zenon DEF FilesInv, TypeOK
<1>2. /\ inode'[i] = [inode[i] EXCEPT !.ref = @ + n]
      /\ \A k \in InodeIds \ {i} : inode'[k] = inode[k]
    BY <1>1, Zenon
<1>3. /\ inode'[i].owner = inode[i].owner /\ inode'[i].copy = inode[i].copy
      /\ inode'[i].inum = inode[i].inum /\ inode'[i].ref = inode[i].ref + n
    BY <1>1, <1>2, Zenon DEF Inodes
<1>4. inode'[i] \in Inodes
    BY <1>1, <1>2 DEF Inodes
<1>5. inode' \in [InodeIds -> Inodes]
    BY <1>1, <1>4, <1>2, Zenon
<1>6. \A k \in InodeIds : /\ inode'[k].inum = inode[k].inum /\ inode'[k].owner = inode[k].owner
                          /\ inode'[k].copy = inode[k].copy
    BY <1>2, <1>3, Zenon
<1>7. EntriesRight' /\ InumsKept
    BY <1>2, <1>3, <1>6, EntriesFrame, Zenon
<1>8. OwnersRight'
  <2>1. \A q \in Procs : Locking(q) # NULL => Locking(q) \in InodeIds
      BY LockingType, Zenon DEF MaybeInode
  <2> QED
      BY <1>6, <2>1 DEF FilesInv, OwnersRight
<1>9. \A k \in InodeIds : inode'[k].ref = inode[k].ref + IF k = i THEN n ELSE 0
    BY <1>1, <1>2, <1>3 DEF Inodes
<1> QED
    BY <1>5, <1>7, <1>8, <1>9, Zenon

LEMMA CountStep ==
    ASSUME FilesInv, NEW p \in Procs, NEW i \in InodeIds, OnlyOf(p), inode[i].ref > 0, NEW n \in {-1, 1},
           inode' = [inode EXCEPT ![i].ref = @ + n], Locking(p)' = Locking(p)
    PROVE  Sound(p) /\ \A k \in InodeIds : inode'[k].ref = inode[k].ref + IF k = i THEN n ELSE 0
<1>1. \A q \in Procs : Locking(q)' = Locking(q)
    BY Zenon DEF OnlyOf
<1>2. /\ inode' \in [InodeIds -> Inodes]
      /\ InumsKept /\ EntriesRight' /\ OwnersRight'
      /\ \A k \in InodeIds : inode'[k].ref = inode[k].ref + IF k = i THEN n ELSE 0
    BY <1>1, InodeCounted, Zenon
<1>3. \A q \in Procs \ {p} : Local(q)' /\ Target(q)'
    BY <1>2, OthersKept, Zenon DEF OnlyOf, Others
<1> QED
    BY <1>2, <1>3, Zenon DEF Sound

(* Or it leaves the inodes alone. *)
LEMMA SameInodes ==
    ASSUME FilesInv, NEW p \in Procs, OnlyOf(p), inode' = inode, Locking(p)' = Locking(p)
    PROVE  Sound(p)
<1>1. \A q \in Procs : Locking(q)' = Locking(q)
    BY Zenon DEF OnlyOf
<1>2. /\ inode' \in [InodeIds -> Inodes]
      /\ InumsKept /\ EntriesRight' /\ OwnersRight'
    BY <1>1, ZenonT(30) DEF FilesInv, TypeOK, InumsKept, EntriesRight, OwnersRight
<1>3. \A q \in Procs \ {p} : Local(q)' /\ Target(q)'
    BY <1>2, OthersKept, Zenon DEF OnlyOf, Others
<1> QED
    BY <1>2, <1>3, Zenon DEF Sound

(* What a process refers to is in use. *)
LEMMA Held ==
    ASSUME FilesInv, NEW p \in Procs, NEW i \in {cwd[p], job[p].dp, job[p].ip}, i # NULL
    PROVE  i \in InodeIds /\ inode[i].ref > 0 /\ inode[i].ref \in Nat
<1>1. job[p] \in Jobs /\ cwd[p] \in MaybeInode
    BY Zenon DEF FilesInv, TypeOK
<1>2. i \in InodeIds
    BY <1>1, Zenon DEF Jobs, MaybeInode
<1>3. inode[i].ref \in Nat
    BY <1>2, Zenon DEF FilesInv, TypeOK, Inodes
<1> QED
    BY <1>2, <1>3, Referenced DEF FilesInv

(* A step of a call that uses no file. *)
LEMMA CallStep ==
    ASSUME FilesInv, NEW p \in Procs, NEW j \in Jobs, Do(p, j), UNCHANGED <<file, ofile, cwd>>,
           job[p].pc \notin {"none", "USED", "fork", "dup", "close", "openclose"},
           j.pc \notin {"none", "USED", "fork", "dup", "close", "openclose", "read", "fstat"},
           j.f = NULL, Sound(p), Local(p)', Target(p)',
           \A i \in InodeIds : inode'[i].ref = inode[i].ref + Mine(j, i) - Mine(job[p], i)
    PROVE  FilesInv'
<1>1. Others(p) /\ job'[p] = j /\ job \in [Procs -> Jobs]
    BY Zenon DEF Others, Do, FilesInv, TypeOK
<1>2. TypeOK'
    BY Zenon DEF FilesInv, TypeOK, Sound, Do
<1>3. \A q \in Procs : Local(q)' /\ Target(q)'
    BY Zenon DEF Sound
<1>4. (\A q \in Procs : Named(q)' /\ Typed(q)') /\ FilesRight' /\ FileCount'
    BY <1>1, FilesFrame, Zenon
<1>5. ForksRight'
    BY <1>1, ForksFrame, Zenon
<1>6. InodeRefExact'
  <2>1. inode \in [InodeIds -> Inodes] /\ InodeRefExact
      BY Zenon DEF FilesInv, TypeOK
  <2>2. \A i \in InodeIds : inode[i].ref \in Nat /\ Mine(j, i) \in Nat /\ Mine(job[p], i) \in Nat
      BY <2>1 DEF Inodes, Mine, Ind
  <2>3. \A i \in InodeIds : inode'[i].ref = inode[i].ref + Mine(job'[p], i) - Mine(job[p], i)
                                               + Ind(cwd'[p] = i) - Ind(cwd[p] = i)
      BY <1>1, <2>2 DEF Ind
  <2> QED
      BY <1>1, <2>1, <2>3, InodesCounted DEF Others
<1>7. OffsetStable'
    BY <1>1, OffsetsFrame, Zenon
<1> QED
    BY <1>2, <1>3, <1>4, <1>5, <1>6, <1>7, Zenon DEF FilesInv, Sound

----------------------------------------------------------------------------
(* namex() *)

LEMMA LockDirInv ==
    ASSUME FilesInv, NEW p \in Procs, LockDir(p)
    PROVE  FilesInv'
<1> DEFINE i == job[p].dp
           j == [job[p] EXCEPT !.pc = "dirlookup"]
<1>1. job[p] \in Jobs /\ job[p].pc = "lockdir" /\ Local(p) /\ Target(p)
    BY Zenon DEF FilesInv, TypeOK, LockDir, At
<1>2. /\ j \in Jobs /\ j.pc = "dirlookup" /\ j.f = NULL /\ j.dp = i /\ j.ip = job[p].ip
      /\ j.path = job[p].path /\ j.op = job[p].op
    BY <1>1, Zenon DEF Jobs, Labels, Local
<1>3. i \in InodeIds /\ inode[i].ref > 0
    BY <1>1, Held, Zenon DEF Local, Searching
<1>4. Do(p, j) /\ UNCHANGED <<file, ofile, cwd>> /\ ilock(p, i)
    BY Zenon DEF LockDir, Goto
<1>5. job'[p] = j /\ Others(p)
    BY <1>4, Zenon DEF Do, Others, FilesInv, TypeOK
<1>6. Locking(p) = NULL /\ Locking(p)' = i
    BY <1>1, <1>2, <1>5, Zenon DEF Locking
<1>7. OnlyOf(p)
    BY <1>4, <1>5, LockingKept, Zenon DEF OnlyOf
<1>8. Sound(p) /\ \A k \in InodeIds : inode'[k].ref = inode[k].ref
    BY <1>3, <1>4, <1>6, <1>7, LockStep, Zenon
<1>9. Local(p)'
    BY <1>1, <1>2, <1>4, <1>5, Zenon DEF Local, Searching, Opening
<1>10. Target(p)'
    BY <1>1, <1>2, <1>4, <1>5, <1>8, Held, Zenon DEF Target, At, Opening, Sound, InumsKept
<1>11. \A k \in InodeIds : inode'[k].ref = inode[k].ref + Mine(j, k) - Mine(job[p], k)
    BY <1>2, <1>8 DEF Mine, Ind, FilesInv, TypeOK, Inodes
<1> QED
    BY <1>1, <1>2, <1>4, <1>8, <1>9, <1>10, <1>11, CallStep, Zenon

LEMMA LockInodeInv ==
    ASSUME FilesInv, NEW p \in Procs, LockInode(p)
    PROVE  FilesInv'
<1> DEFINE i == job[p].ip
           j == [job[p] EXCEPT !.pc = job[p].op]
<1>1. job[p] \in Jobs /\ job[p].pc = "ilock" /\ Local(p) /\ Target(p)
    BY Zenon DEF FilesInv, TypeOK, LockInode, At
<1>2. /\ j \in Jobs /\ j.pc \in {"open", "exec"} /\ j.f = NULL /\ j.ip = i /\ j.dp = job[p].dp
      /\ j.path = job[p].path /\ j.op = job[p].op
    BY <1>1, Zenon DEF Jobs, Labels, Local, Opening
<1>3. i \in InodeIds /\ inode[i].ref > 0
    BY <1>1, Held, Zenon DEF Local, Opening
<1>4. Do(p, j) /\ UNCHANGED <<file, ofile, cwd>> /\ ilock(p, i)
    BY Zenon DEF LockInode, Goto
<1>5. job'[p] = j /\ Others(p)
    BY <1>4, Zenon DEF Do, Others, FilesInv, TypeOK
<1>6. Locking(p) = NULL /\ Locking(p)' = i
    BY <1>1, <1>2, <1>5, Zenon DEF Locking
<1>7. OnlyOf(p)
    BY <1>4, <1>5, LockingKept, Zenon DEF OnlyOf
<1>8. Sound(p) /\ \A k \in InodeIds : inode'[k].ref = inode[k].ref
    BY <1>3, <1>4, <1>6, <1>7, LockStep, Zenon
<1>9. Local(p)'
    BY <1>1, <1>2, <1>4, <1>5, Zenon DEF Local, Searching, Opening
<1>10. Target(p)'
    BY <1>1, <1>2, <1>3, <1>4, <1>5, <1>8, Held DEF Target, At, Opening, Sound, InumsKept
<1>11. \A k \in InodeIds : inode'[k].ref = inode[k].ref + Mine(j, k) - Mine(job[p], k)
    BY <1>2, <1>8 DEF Mine, Ind, FilesInv, TypeOK, Inodes
<1> QED
    BY <1>1, <1>2, <1>4, <1>8, <1>9, <1>10, <1>11, CallStep, Zenon

(* open() refused, exec() done *)
LEMMA UnlockInv ==
    ASSUME FilesInv, NEW p \in Procs, OpenRefused(p) \/ ExecEnd(p)
    PROVE  FilesInv'
<1> DEFINE i == job[p].ip
           j == [job[p] EXCEPT !.pc = "iput"]
<1>1. job[p] \in Jobs /\ job[p].pc \in {"open", "exec"} /\ Local(p) /\ Target(p)
    BY Zenon DEF FilesInv, TypeOK, OpenRefused, ExecEnd, At
<1>2. /\ j \in Jobs /\ j.pc = "iput" /\ j.f = NULL /\ j.ip = i /\ j.dp = job[p].dp
      /\ j.path = job[p].path /\ j.op = job[p].op
    BY <1>1, Zenon DEF Jobs, Labels, Local
<1>3. i \in InodeIds /\ inode[i].ref > 0
    BY <1>1, Held, Zenon DEF Local, Opening
<1>4. Do(p, j) /\ UNCHANGED <<file, ofile, cwd>> /\ inode' = Unlocked(inode, i)
    BY Zenon DEF OpenRefused, ExecEnd, Goto
<1>5. job'[p] = j /\ Others(p)
    BY <1>4, Zenon DEF Do, Others, FilesInv, TypeOK
<1>6. Locking(p) = i /\ Locking(p)' = NULL
    BY <1>1, <1>2, <1>5, Zenon DEF Locking
<1>7. OnlyOf(p)
    BY <1>4, <1>5, LockingKept, Zenon DEF OnlyOf
<1>8. Sound(p) /\ \A k \in InodeIds : inode'[k].ref = inode[k].ref
    BY <1>3, <1>4, <1>6, <1>7, UnlockStep, Zenon
<1>9. Local(p)'
    BY <1>1, <1>2, <1>4, <1>5, Zenon DEF Local, Searching, Opening
<1>10. Target(p)'
    BY <1>1, <1>2, <1>3, <1>4, <1>5, <1>8, Held, Zenon DEF Target, At, Opening, Sound, InumsKept
<1>11. \A k \in InodeIds : inode'[k].ref = inode[k].ref + Mine(j, k) - Mine(job[p], k)
    BY <1>2, <1>8 DEF Mine, Ind, FilesInv, TypeOK, Inodes
<1> QED
    BY <1>1, <1>2, <1>4, <1>8, <1>9, <1>10, <1>11, CallStep, Zenon

LEMMA Putting ==
    ASSUME FilesInv, NEW i \in InodeIds
    PROVE  iput(i) = [inode EXCEPT ![i].ref = @ + (-1)]
<1>1. inode[i].ref \in Nat
    BY Zenon DEF FilesInv, TypeOK, Inodes
<1>2. inode[i].ref - 1 = inode[i].ref + (-1)
    BY <1>1, Zenon
<1> QED
    BY <1>2, Zenon DEF iput

LEMMA NamexInv ==
    ASSUME FilesInv, NEW p \in Procs, NEW call \in Calls, namex(p, call[1], call[2])
    PROVE  FilesInv'
<1> DEFINE i == cwd[p]
           j == IF call[2] = <<>>
                THEN [User EXCEPT !.pc = "ilock", !.op = call[1], !.ip = cwd[p]]
                ELSE [User EXCEPT !.pc = "lockdir", !.op = call[1], !.dp = cwd[p], !.path = call[2]]
<1>1. job[p] \in Jobs /\ job[p].pc = "user" /\ Local(p) /\ Target(p)
    BY Zenon DEF FilesInv, TypeOK, namex, At
<1>2. i \in InodeIds /\ inode[i].ref > 0 /\ i # NULL
    BY <1>1, Held, Zenon DEF Local, Searching
<1>3. call[1] \in {"open", "exec"} /\ call[2] \in Seq(Inums \cup {NULL})
    BY FilesAssumption, Zenon
<1>4. /\ j.f = NULL /\ j.path = call[2] /\ j.op = call[1]
      /\ j.pc = IF call[2] = <<>> THEN "ilock" ELSE "lockdir"
      /\ j.ip = IF call[2] = <<>> THEN i ELSE NULL
      /\ j.dp = IF call[2] = <<>> THEN NULL ELSE i
    BY Zenon DEF User
<1>5. j \in Jobs
  <2>1. CASE call[2] = <<>>
      BY <1>2, <1>3, <2>1, FilesAssumption, Zenon DEF User, Jobs, Labels, MaybeInode
  <2>2. CASE call[2] # <<>>
      BY <1>2, <1>3, <2>2, FilesAssumption, Zenon DEF User, Jobs, Labels, MaybeInode
  <2> QED
      BY <2>1, <2>2, Zenon
<1> HIDE DEF j
<1>6. Do(p, j) /\ UNCHANGED <<file, ofile, cwd>> /\ inode' = [inode EXCEPT ![i].ref = @ + 1]
    BY Zenon DEF namex, idup, j
<1>7. job'[p] = j /\ Others(p)
    BY <1>6, Zenon DEF Do, Others, FilesInv, TypeOK
<1>8. Locking(p) = NULL /\ Locking(p)' = NULL
    BY <1>1, <1>4, <1>7, Zenon DEF Locking
<1>9. OnlyOf(p)
    BY <1>6, <1>7, LockingKept, Zenon DEF OnlyOf
<1>10. Sound(p) /\ \A k \in InodeIds : inode'[k].ref = inode[k].ref + IF k = i THEN 1 ELSE 0
    BY <1>2, <1>6, <1>8, <1>9, CountStep, Zenon
<1>11. Local(p)'
    BY <1>1, <1>2, <1>3, <1>4, <1>6, <1>7, Zenon DEF Local, Searching, Opening
<1>12. Target(p)'
    BY <1>1, <1>2, <1>4, <1>6, <1>7, <1>10, Zenon DEF Target, At, Opening, Sound, InumsKept
<1>13. \A k \in InodeIds : inode'[k].ref = inode[k].ref + Mine(j, k) - Mine(job[p], k)
  <2>1. job[p].dp = NULL /\ job[p].ip = NULL
      BY <1>1, Zenon DEF Local, Searching, Opening
  <2>2. \A k \in InodeIds : Mine(job[p], k) = 0 /\ Mine(j, k) = IF k = i THEN 1 ELSE 0
      BY <1>4, <2>1, Domains DEF Mine, Ind
  <2> QED
      BY <1>10, <2>2, SMTT(30) DEF FilesInv, TypeOK, Inodes
<1> QED
    BY <1>1, <1>4, <1>5, <1>6, <1>10, <1>11, <1>12, <1>13, CallStep, Zenon

LEMMA PutInv ==
    ASSUME FilesInv, NEW p \in Procs, Put(p)
    PROVE  FilesInv'
<1> DEFINE i == job[p].ip
           j == IF job[p].op = "exit" THEN [User EXCEPT !.pc = "exit"] ELSE User
<1>1. job[p] \in Jobs /\ job[p].pc = "iput" /\ Local(p) /\ Target(p)
    BY Zenon DEF FilesInv, TypeOK, Put, At
<1>2. i \in InodeIds /\ inode[i].ref > 0 /\ i # NULL
    BY <1>1, Held, Zenon DEF Local
<1>4. /\ j.f = NULL /\ j.pc \in {"exit", "user"} /\ j.ip = NULL /\ j.dp = NULL
    BY Zenon DEF User
<1>5. j \in Jobs
    BY Domains, Zenon DEF User, Jobs, Labels
<1> HIDE DEF j
<1>6. Do(p, j) /\ UNCHANGED <<file, ofile, cwd>> /\ inode' = [inode EXCEPT ![i].ref = @ + (-1)]
    BY <1>2, Putting, Zenon DEF Put, j
<1>7. job'[p] = j /\ Others(p)
    BY <1>6, Zenon DEF Do, Others, FilesInv, TypeOK
<1>8. Locking(p) = NULL /\ Locking(p)' = NULL
    BY <1>1, <1>4, <1>7, Zenon DEF Locking
<1>9. OnlyOf(p)
    BY <1>6, <1>7, LockingKept, Zenon DEF OnlyOf
<1>10. Sound(p) /\ \A k \in InodeIds : inode'[k].ref = inode[k].ref + IF k = i THEN -1 ELSE 0
    BY <1>2, <1>6, <1>8, <1>9, CountStep, Zenon
<1>11. Local(p)'
    BY <1>1, <1>4, <1>6, <1>7, Zenon DEF Local, Searching, Opening
<1>12. Target(p)'
    BY <1>1, <1>4, <1>6, <1>7, <1>10, Held, Zenon DEF Target, At, Opening, Sound, InumsKept
<1>13. \A k \in InodeIds : inode'[k].ref = inode[k].ref + Mine(j, k) - Mine(job[p], k)
  <2>1. job[p].dp = NULL
      BY <1>1, Zenon DEF Local, Searching
  <2>2. \A k \in InodeIds : Mine(j, k) = 0 /\ Mine(job[p], k) = IF k = i THEN 1 ELSE 0
      BY <1>4, <2>1, Domains DEF Mine, Ind
  <2> QED
      BY <1>10, <2>2 DEF FilesInv, TypeOK, Inodes
<1> QED
    BY <1>1, <1>4, <1>5, <1>6, <1>10, <1>11, <1>12, <1>13, CallStep, Zenon

(* What is left of a path. *)
LEMMA Rest ==
    ASSUME NEW S, NEW s \in Seq(S), s # <<>>
    PROVE  Head(s) \in S /\ Tail(s) \in Seq(S) /\ (Len(s) # 1 => Tail(s) # <<>>)
<1>1. Head(s) \in S /\ Tail(s) \in Seq(S) /\ Len(Tail(s)) = Len(s) - 1 /\ Len(s) \in Nat
    OBVIOUS
<1>2. ASSUME NEW t \in Seq(S), Len(t) = Len(s) - 1, Len(s) # 1, Len(s) \in Nat
      PROVE  t # <<>>
    BY <1>2
<1> QED
    BY <1>1, <1>2, Zenon

LEMMA PutDirInv ==
    ASSUME FilesInv, NEW p \in Procs, PutDir(p)
    PROVE  FilesInv'
<1> DEFINE i == job[p].dp
           n == job[p].ip
<1>1. job[p] \in Jobs /\ job[p].pc = "putdir" /\ Local(p) /\ Target(p)
    BY Zenon DEF FilesInv, TypeOK, PutDir, At
<1>2. i \in InodeIds /\ inode[i].ref > 0 /\ i # NULL
    BY <1>1, Held, Zenon DEF Local, Searching
<1>3. /\ job[p].path \in Seq(Inums \cup {NULL}) /\ job[p].path # <<>>
      /\ job[p].op \in {"open", "exec"} /\ job[p].f = NULL /\ n \in MaybeInode
    BY <1>1, Zenon DEF Jobs, Local, Searching
<1>4. PICK j : /\ Do(p, j) /\ j \in Jobs /\ j.f = NULL /\ j.path \in Seq(Inums \cup {NULL})
               /\ \/ n = NULL /\ j = User
                  \/ /\ n # NULL /\ j.pc = "ilock" /\ j.dp = NULL /\ j.ip = n
                     /\ j.path = job[p].path /\ j.op = job[p].op
                  \/ n # NULL /\ j.pc = "lockdir" /\ j.dp = n /\ j.ip = NULL /\ j.path # <<>>
                     /\ j.op = job[p].op
  <2>1. CASE n = NULL
      BY <2>1, Domains, Zenon DEF PutDir, User, Jobs
  <2>2. CASE n # NULL /\ Len(job[p].path) = 1
    <3> DEFINE j == [job[p] EXCEPT !.pc = "ilock", !.dp = NULL]
    <3>1. Do(p, j)
        BY <2>2, Zenon DEF PutDir
    <3>2. j \in Jobs
        BY <1>1, Zenon DEF Jobs, Labels, MaybeInode
    <3>3. /\ j.f = NULL /\ j.pc = "ilock" /\ j.dp = NULL /\ j.ip = n
          /\ j.path = job[p].path /\ j.op = job[p].op
        BY <1>1, <1>3, Zenon DEF Jobs
    <3> QED
        BY <1>3, <2>2, <3>1, <3>2, <3>3, Zenon
  <2>3. CASE n # NULL /\ Len(job[p].path) # 1
    <3> DEFINE j == [job[p] EXCEPT !.pc = "lockdir", !.dp = n, !.ip = NULL, !.path = Tail(@)]
    <3>1. Do(p, j)
        BY <2>3, Zenon DEF PutDir
    <3>2. Tail(job[p].path) \in Seq(Inums \cup {NULL}) /\ Tail(job[p].path) # <<>>
        BY <1>3, <2>3, Rest, Zenon
    <3>3. j \in Jobs
        BY <1>1, <1>3, <3>2, ZenonT(30) DEF Jobs, Labels, MaybeInode
    <3>4. /\ j.f = NULL /\ j.pc = "lockdir" /\ j.dp = n /\ j.ip = NULL
          /\ j.path = Tail(job[p].path) /\ j.op = job[p].op
        BY <1>1, <1>3, Zenon DEF Jobs
    <3> QED
        BY <1>3, <2>3, <3>1, <3>2, <3>3, <3>4, Zenon
  <2> QED
      BY <2>1, <2>2, <2>3, Zenon
<1>5. j.pc \in {"user", "ilock", "lockdir"}
    BY <1>4 DEF User
<1>6. UNCHANGED <<file, ofile, cwd>> /\ inode' = [inode EXCEPT ![i].ref = @ + (-1)]
    BY <1>2, Putting, Zenon DEF PutDir
<1>7. job'[p] = j /\ Others(p)
    BY <1>4, Zenon DEF Do, Others, FilesInv, TypeOK
<1>8. Locking(p) = NULL /\ Locking(p)' = NULL
    BY <1>1, <1>5, <1>7, Zenon DEF Locking
<1>9. OnlyOf(p)
    BY <1>6, <1>7, LockingKept, Zenon DEF OnlyOf
<1>10. Sound(p) /\ \A k \in InodeIds : inode'[k].ref = inode[k].ref + IF k = i THEN -1 ELSE 0
    BY <1>2, <1>6, <1>8, <1>9, CountStep, Zenon
<1>11. Local(p)'
  <2>1. cwd'[p] # NULL /\ job[p].op \in {"open", "exec"}
      BY <1>1, <1>6, Zenon DEF Local, Searching
  <2>2. CASE j.pc = "user"
    <3>1. j.dp = NULL /\ j.ip = NULL
        BY <1>4, <2>2, UserFields, Zenon
    <3> QED
        BY <1>4, <1>7, <2>1, <2>2, <3>1, Zenon DEF Local, Searching, Opening
  <2>3. CASE j.pc = "ilock"
    <3>1. j.dp = NULL /\ j.ip # NULL /\ j.op = job[p].op
        BY <1>4, <2>3, UserFields, Zenon
    <3> QED
        BY <1>4, <1>7, <2>1, <2>3, <3>1, Zenon DEF Local, Searching, Opening
  <2>4. CASE j.pc = "lockdir"
    <3>1. j.dp # NULL /\ j.ip = NULL /\ j.op = job[p].op /\ j.path # <<>>
        BY <1>4, <2>4, UserFields, ZenonT(30)
    <3> QED
        BY <1>4, <1>7, <2>1, <2>4, <3>1, Zenon DEF Local, Searching, Opening
  <2> QED
      BY <1>5, <2>2, <2>3, <2>4, Zenon
<1>12. Target(p)'
    BY <1>1, <1>3, <1>4, <1>6, <1>7, <1>10, Held, SMTT(30) DEF Target, At, Opening, Sound, InumsKept, User
<1>13. \A k \in InodeIds : inode'[k].ref = inode[k].ref + Mine(j, k) - Mine(job[p], k)
  <2>1. ASSUME NEW k \in InodeIds
        PROVE  Mine(job[p], k) = Ind(i = k) + Ind(n = k) /\ Mine(j, k) = Ind(n = k)
      BY <1>4, Domains DEF Mine, Ind, User
  <2> QED
      BY <1>10, <2>1 DEF FilesInv, TypeOK, Inodes, Ind
<1> QED
    BY <1>1, <1>4, <1>5, <1>6, <1>10, <1>11, <1>12, <1>13, CallStep, Zenon

(* A locked inode is in use. *)
LEMMA LockedHeld ==
    ASSUME FilesInv, NEW q \in Procs, Locking(q) # NULL
    PROVE  Locking(q) \in InodeIds /\ inode[Locking(q)].ref > 0
<1>1. Locking(q) \in InodeIds
    BY LockingType, Zenon DEF MaybeInode
<1>2. job[q] \in Jobs /\ Local(q) /\ Typed(q)
    BY Zenon DEF FilesInv, TypeOK
<1>3. job[q].pc \in {"read", "fstat"} => job[q].f \in FileIds /\ file[job[q].f].type # "NONE"
    BY <1>2, Zenon DEF Jobs, Local, Typed, At
<1>4. inode[Locking(q)].ref # 0
    BY <1>1, <1>3, Referenced, Zenon DEF FilesInv, Locking
<1> QED
    BY <1>1, <1>4 DEF FilesInv, TypeOK, Inodes

(* iget() never panics: there are as many entries as inodes on the disk. *)
LEMMA EntryFound ==
    ASSUME FilesInv, NEW inum \in Inums
    PROVE  /\ Entry(inum) \in InodeIds
           /\ Found(inum) # {} => Entry(inum) \in Found(inum)
           /\ Found(inum) = {} => inode[Entry(inum)].ref = 0
<1> DEFINE Free == {i \in InodeIds : inode[i].ref = 0}
<1>1. Found(inum) \subseteq InodeIds /\ Free \subseteq InodeIds /\ InodeIds \subseteq Nat
    BY Domains, Zenon DEF Found
<1>2. Found(inum) # {} => Entry(inum) \in Found(inum)
  <2>1. Found(inum) \subseteq Nat
      BY <1>1, Zenon
  <2> QED
      BY <2>1, LowestIn, Zenon DEF Entry
<1>3. ASSUME Found(inum) = {} PROVE Free # {}
  <2> SUFFICES ASSUME Free = {} PROVE FALSE
      BY Zenon
  <2>1. \A i \in InodeIds : inode[i].ref > 0
      BY DEF FilesInv, TypeOK, Inodes
  <2> DEFINE g == [i \in InodeIds |-> inode[i].inum]
  <2>2. \A i \in InodeIds : inode[i].inum \in Inums \ {inum}
      BY <1>3, <2>1, Zenon DEF Found, FilesInv, TypeOK, Inodes, EntriesRight
  <2>3. \A i, k \in InodeIds : i # k => g[i] # g[k]
      BY <2>1, Zenon DEF FilesInv, EntriesRight
  <2>4. g \in [InodeIds -> Inums \ {inum}]
      BY <2>2, Zenon
  <2>5. IsFiniteSet(1 .. NINODE) /\ Cardinality(1 .. NINODE) = NINODE
      BY FilesAssumption, FS_Interval
  <2>6. /\ IsFiniteSet(Inums \ {inum}) /\ Cardinality(Inums \ {inum}) = Cardinality(Inums) - 1
        /\ Cardinality(Inums) \in Nat
      BY FilesAssumption, FS_RemoveElement, FS_CardinalityType, Zenon
  <2>7. Cardinality(Inums \ {inum}) < Cardinality(InodeIds) /\ IsFiniteSet(InodeIds)
      BY <2>5, <2>6, FilesAssumption DEF InodeIds
  <2> HIDE DEF g
  <2> QED
      BY <2>3, <2>4, <2>6, <2>7, FS_PigeonHole
<1>4. Found(inum) = {} => Entry(inum) \in Free
  <2>1. Free \subseteq Nat
      BY <1>1, Zenon
  <2> HIDE DEF Free
  <2>2. Free # {} => Lowest(Free) \in Free
      BY <2>1, LowestIn, Zenon
  <2> QED
      BY <1>3, <2>2, Zenon DEF Entry, Free
<1> QED
    BY <1>1, <1>2, <1>4, Zenon

(* Nobody has locked an entry that is not in use. *)
LEMMA UnusedUnlocked ==
    ASSUME FilesInv, NEW i \in InodeIds, inode[i].ref = 0
    PROVE  inode[i].owner = NULL
<1>1. inode[i].owner \in Procs \cup {NULL}
    BY Zenon DEF FilesInv, TypeOK, Inodes
<1>2. ASSUME inode[i].owner \in Procs PROVE FALSE
  <2>1. Locking(inode[i].owner) = i
      BY <1>2, Zenon DEF FilesInv, OwnersRight
  <2>2. i # NULL
      BY Domains, Zenon
  <2> QED
      BY <1>2, <2>1, <2>2, LockedHeld
<1> QED
    BY <1>1, <1>2, Zenon

(* dirlookup() finds entry e, with the directory d unlocked afterwards. *)
LEMMA IgetStep ==
    ASSUME FilesInv, NEW p \in Procs, NEW d \in InodeIds, NEW inum \in Inums, OnlyOf(p),
           inode' = Unlocked(iget(inum), d), Locking(p) = d, Locking(p)' = NULL
    PROVE  /\ Sound(p)
           /\ inode'[Entry(inum)].inum = inum
           /\ \A k \in InodeIds :
                  inode'[k].ref = inode[k].ref + IF k = Entry(inum) THEN 1 ELSE 0
<1> DEFINE e == Entry(inum)
           E == IF Found(inum) # {} THEN [inode[e] EXCEPT !.ref = @ + 1] ELSE Recycled(inode[e], inum)
<1>1. /\ e \in InodeIds /\ inode \in [InodeIds -> Inodes] /\ inode[e] \in Inodes /\ inode[d] \in Inodes
      /\ Found(inum) # {} => inode[e].ref > 0 /\ inode[e].inum = inum
      /\ Found(inum) = {} => inode[e].ref = 0
    BY EntryFound, Zenon DEF FilesInv, TypeOK, Found
<1>2. /\ E \in Inodes /\ E.ref = inode[e].ref + 1 /\ E.owner = inode[e].owner /\ E.inum = inum
      /\ E.copy = IF Found(inum) # {} THEN inode[e].copy ELSE NULL
  <2> HIDE DEF e
  <2>1. CASE Found(inum) # {}
    <3>1. E = [inode[e] EXCEPT !.ref = @ + 1] /\ inode[e].inum = inum
        BY <1>1, <2>1, Zenon
    <3> HIDE DEF E
    <3> QED
        BY <1>1, <2>1, <3>1 DEF Inodes
  <2>2. CASE Found(inum) = {}
    <3>1. E = [inode[e] EXCEPT !.inum = inum, !.ref = 1, !.copy = NULL] /\ inode[e].ref = 0
        BY <1>1, <2>2, Zenon DEF Recycled
    <3> HIDE DEF E
    <3>2. /\ E.ref = 1 /\ E.owner = inode[e].owner /\ E.inum = inum /\ E.copy = NULL
          /\ E \in Inodes
        BY <1>1, <3>1, Zenon DEF Inodes
    <3> QED
        BY <2>2, <3>1, <3>2
  <2> QED
      BY <2>1, <2>2, Zenon
<1>3. iget(inum) = [inode EXCEPT ![e] = E]
  <2>2. CASE Found(inum) # {}
      BY <2>2, Zenon DEF iget
  <2>3. CASE Found(inum) = {}
      BY <2>3, Zenon DEF iget
  <2> QED
      BY <2>2, <2>3, Zenon
<1> HIDE DEF e, E
<1>4. /\ \A k \in InodeIds \ {d, e} : inode'[k] = inode[k]
      /\ d # e => inode'[e] = E /\ inode'[d] = [inode[d] EXCEPT !.owner = NULL]
      /\ d = e => inode'[d] = [E EXCEPT !.owner = NULL]
    BY <1>1, <1>3, Zenon DEF Unlocked
<1>5. inode[d].ref > 0 /\ d # NULL
    BY LockedHeld, Domains, Zenon
<1>6. /\ inode'[d].owner = NULL
      /\ \A k \in InodeIds \ {d} : inode'[k].owner = inode[k].owner
    BY <1>1, <1>2, <1>4 DEF Inodes
<1>7. \A k \in InodeIds : inode'[k].ref = inode[k].ref + IF k = e THEN 1 ELSE 0
    BY <1>1, <1>2, <1>4 DEF Inodes
<1>8. /\ inode'[e].inum = inum
      /\ \A k \in InodeIds \ {e} : inode'[k].inum = inode[k].inum /\ inode'[k].copy = inode[k].copy
      /\ inode'[e].copy = IF Found(inum) # {} THEN inode[e].copy ELSE NULL
    BY <1>1, <1>2, <1>4 DEF Inodes
<1>9. inode' \in [InodeIds -> Inodes]
  <2>1. inode'[e] \in Inodes /\ inode'[d] \in Inodes
      BY <1>1, <1>2, <1>4 DEF Inodes
  <2> QED
      BY <1>1, <1>3, <1>4, <2>1, Zenon DEF Unlocked
<1>10. InumsKept
    BY <1>1, <1>8 DEF InumsKept
<1>11. EntriesRight'
  <2>1. ASSUME NEW k \in InodeIds, inode'[k].ref > 0 PROVE inode'[k].inum # NULL
      BY <1>1, <1>7, <1>8, <2>1, FilesAssumption, SMTT(30) DEF FilesInv, TypeOK, Inodes, EntriesRight
  <2>2. ASSUME NEW k \in InodeIds \ {e}, inode'[k].ref > 0 PROVE inode'[k].inum # inum
    <3>1. inode[k].ref > 0 /\ inode'[k].inum = inode[k].inum
        BY <1>1, <1>7, <1>8, <2>2, SMTT(30) DEF Inodes
    <3>2. Found(inum) = {} => inode[k].inum # inum
        BY <3>1, Zenon DEF Found
    <3>3. Found(inum) # {} => inode[k].inum # inum
        BY <1>1, <3>1, Zenon DEF FilesInv, EntriesRight
    <3> QED
        BY <3>1, <3>2, <3>3, Zenon
  <2>3. ASSUME NEW k \in InodeIds, NEW l \in InodeIds, inode'[k].ref > 0, inode'[l].ref > 0, k # l
        PROVE  inode'[k].inum # inode'[l].inum
    <3>1. CASE k = e
        BY <1>8, <2>2, <2>3, <3>1, Zenon
    <3>2. CASE l = e
        BY <1>8, <2>2, <2>3, <3>2, ZenonT(30)
    <3>3. CASE k # e /\ l # e
        BY <1>1, <1>7, <1>8, <2>3, <3>3, SMTT(30) DEF FilesInv, EntriesRight, Inodes
    <3> QED
        BY <3>1, <3>2, <3>3, Zenon
  <2>4. ASSUME NEW k \in InodeIds, inode'[k].copy # NULL PROVE inode'[k].copy = inode'[k].inum
      BY <1>1, <1>8, <2>4 DEF FilesInv, EntriesRight
  <2> QED
      BY <2>1, <2>3, <2>4, Zenon DEF EntriesRight
<1>12. OwnersRight'
  <2>1. Locking(p)' \in MaybeInode
      BY Zenon DEF MaybeInode
  <2>2. ASSUME NEW k \in InodeIds \ {d}, inode[k].owner # NULL PROVE inode'[k].copy # NULL
    <3>1. inode[k].copy # NULL
        BY <1>1, <2>2, Zenon DEF FilesInv, TypeOK, Inodes, OwnersRight
    <3>2. k = e => Found(inum) # {}
        BY <1>1, <2>2, UnusedUnlocked, Zenon
    <3> QED
        BY <1>8, <3>1, <3>2, Zenon
  <2> QED
      BY <1>6, <2>1, <2>2, OwnersFrame, Zenon DEF OnlyOf
<1>13. \A q \in Procs \ {p} : Local(q)' /\ Target(q)'
    BY <1>10, OthersKept, Zenon DEF OnlyOf, Others
<1>14. Sound(p)
    BY <1>9, <1>10, <1>11, <1>12, <1>13, Zenon DEF Sound
<1> QED
    BY <1>7, <1>8, <1>14, Zenon DEF e

LEMMA DirlookupInv ==
    ASSUME FilesInv, NEW p \in Procs, dirlookup(p)
    PROVE  FilesInv'
<1> DEFINE i == job[p].dp
           inum == Head(job[p].path)
<1>1. job[p] \in Jobs /\ job[p].pc = "dirlookup" /\ Local(p) /\ Target(p)
    BY Zenon DEF FilesInv, TypeOK, dirlookup, At
<1>2. i \in InodeIds /\ inode[i].ref > 0 /\ i # NULL
    BY <1>1, Held, Zenon DEF Local, Searching
<1>3. /\ job[p].path \in Seq(Inums \cup {NULL}) /\ job[p].path # <<>>
      /\ job[p].op \in {"open", "exec"} /\ job[p].f = NULL /\ job[p].ip = NULL
    BY <1>1, Zenon DEF Jobs, Local, Searching, Opening
<1>4. inum \in Inums \cup {NULL}
    BY <1>3, Rest, Zenon
<1>5. UNCHANGED <<file, ofile, cwd>>
    BY Zenon DEF dirlookup
<1>6. CASE inum = NULL \/ inode[i].copy # ROOTINO
  <2> DEFINE j == [job[p] EXCEPT !.pc = "putdir"]
  <2>1. /\ j \in Jobs /\ j.pc = "putdir" /\ j.f = NULL /\ j.dp = i /\ j.ip = NULL
        /\ j.path = job[p].path /\ j.op = job[p].op
      BY <1>1, <1>3, Zenon DEF Jobs, Labels
  <2>2. Do(p, j) /\ inode' = Unlocked(inode, i)
      BY <1>6, Zenon DEF dirlookup, Goto
  <2>3. job'[p] = j /\ Others(p)
      BY <2>2, Zenon DEF Do, Others, FilesInv, TypeOK
  <2> HIDE DEF j
  <2>4. Locking(p) = i /\ Locking(p)' = NULL
      BY <1>1, <2>1, <2>3, Zenon DEF Locking
  <2>5. OnlyOf(p)
      BY <1>5, <2>3, LockingKept, Zenon DEF OnlyOf
  <2>6. Sound(p) /\ \A k \in InodeIds : inode'[k].ref = inode[k].ref
      BY <1>2, <2>2, <2>4, <2>5, UnlockStep, Zenon
  <2>7. Local(p)'
      BY <1>1, <1>2, <1>3, <1>5, <2>1, <2>3, Zenon DEF Local, Searching, Opening
  <2>8. Target(p)'
      BY <1>1, <1>5, <2>1, <2>3, <2>6, Held, ZenonT(30) DEF Target, At, Opening, Sound, InumsKept
  <2>9. \A k \in InodeIds : inode'[k].ref = inode[k].ref + Mine(j, k) - Mine(job[p], k)
      BY <1>3, <2>1, <2>6 DEF Mine, Ind, FilesInv, TypeOK, Inodes
  <2> QED
      BY <1>1, <1>5, <2>1, <2>2, <2>6, <2>7, <2>8, <2>9, CallStep, Zenon
<1>7. CASE ~(inum = NULL \/ inode[i].copy # ROOTINO)
  <2> DEFINE e == Entry(inum)
             j == [job[p] EXCEPT !.pc = "putdir", !.ip = e]
  <2>0. inum \in Inums /\ e \in InodeIds /\ e # NULL
      BY <1>4, <1>7, EntryFound, Domains, Zenon
  <2>1. /\ j \in Jobs /\ j.pc = "putdir" /\ j.f = NULL /\ j.dp = i /\ j.ip = e
        /\ j.path = job[p].path /\ j.op = job[p].op
    <3> HIDE DEF e
    <3> QED
        BY <1>1, <1>3, <2>0, Zenon DEF Jobs, Labels, MaybeInode
  <2>2. Do(p, j) /\ inode' = Unlocked(iget(inum), i)
      BY <1>7, Zenon DEF dirlookup
  <2>3. job'[p] = j /\ Others(p)
      BY <2>2, Zenon DEF Do, Others, FilesInv, TypeOK
  <2> HIDE DEF j
  <2>4. Locking(p) = i /\ Locking(p)' = NULL
      BY <1>1, <2>1, <2>3, Zenon DEF Locking
  <2>5. OnlyOf(p)
      BY <1>5, <2>3, LockingKept, Zenon DEF OnlyOf
  <2>6. /\ Sound(p) /\ inode'[e].inum = inum
        /\ \A k \in InodeIds : inode'[k].ref = inode[k].ref + IF k = e THEN 1 ELSE 0
      BY <1>2, <2>0, <2>2, <2>4, <2>5, IgetStep, Zenon
  <2> HIDE DEF e
  <2>7. Local(p)'
      BY <1>1, <1>2, <1>3, <1>5, <2>0, <2>1, <2>3, Zenon DEF Local, Searching, Opening
  <2>8. Target(p)'
      BY <1>1, <1>5, <2>1, <2>3, <2>6, Held, ZenonT(30) DEF Target, At, Opening, Sound, InumsKept
  <2>9. \A k \in InodeIds : inode'[k].ref = inode[k].ref + Mine(j, k) - Mine(job[p], k)
    <3>1. ASSUME NEW k \in InodeIds
          PROVE  Mine(job[p], k) = Ind(i = k) /\ Mine(j, k) = Ind(i = k) + Ind(e = k)
        BY <1>3, <2>1, Domains DEF Mine, Ind
    <3> QED
        BY <2>6, <3>1 DEF Ind, FilesInv, TypeOK, Inodes
  <2> QED
      BY <1>1, <1>5, <2>1, <2>2, <2>6, <2>7, <2>8, <2>9, CallStep, Zenon
<1> QED
    BY <1>6, <1>7, Zenon

----------------------------------------------------------------------------
(* Files *)

Uses(q, f) == job[q].f = f \/ \E d \in Fds : ofile[q][d] = f

(* A step leaves what q uses as it is. *)
Kept(q) ==
    \A f \in FileIds : Uses(q, f) =>
        /\ file'[f].type = file[f].type /\ file'[f].ip = file[f].ip
        /\ At(q, "read") /\ job[q].f = f => file'[f].off = file[f].off

LEMMA OtherFiles ==
    ASSUME FilesInv, NEW q \in Procs, job'[q] = job[q], ofile'[q] = ofile[q], Kept(q)
    PROVE  /\ Named(q)' /\ Typed(q)' /\ Locking(q)' = Locking(q)
           /\ At(q, "read") => file'[job[q].f].off = job[q].off
<1>1. /\ job[q] \in Jobs /\ Local(q) /\ Named(q) /\ Typed(q)
      /\ ofile[q] \in [Fds -> FileIds \cup {NULL}] /\ OffsetStable
    BY Zenon DEF FilesInv, TypeOK
<1>2. job[q].f \in FileIds \cup {NULL}
    BY <1>1, Zenon DEF Jobs
<1>3. Named(q)'
    BY <1>1, Zenon DEF Named, At
<1>4. /\ \A d \in Fds : ofile[q][d] # NULL => file'[ofile[q][d]].type = file[ofile[q][d]].type
      /\ job[q].f # NULL => /\ file'[job[q].f].type = file[job[q].f].type
                            /\ file'[job[q].f].ip = file[job[q].f].ip
    BY <1>1, <1>2, Zenon DEF Kept, Uses
<1>5. Typed(q)'
    BY <1>1, <1>4, Zenon DEF Typed, At
<1>6. Locking(q)' = Locking(q)
    BY <1>1, <1>4, Zenon DEF Locking, Local
<1>7. At(q, "read") => file'[job[q].f].off = job[q].off
    BY <1>1, <1>2, Zenon DEF Kept, Uses, OffsetStable, Local, At
<1> QED
    BY <1>3, <1>5, <1>6, <1>7, Zenon

(* Whoever else uses a file that p closes leaves it open. *)
LEMMA UsersShare ==
    ASSUME FilesInv, NEW p \in Procs, NEW q \in Procs, p # q, NEW f \in FileIds, Uses(q, f),
           p \in Closing(f) \/ (~At(p, "dup") /\ \E d \in Fds : ofile[p][d] = f)
    PROVE  file[f].ref >= 2
<1>1. TypeOK /\ (\A x \in Procs : Named(x)) /\ FileCount /\ Local(q)
    BY Zenon DEF FilesInv
<1>2. CASE \E d \in Fds : ofile[q][d] = f
    BY <1>1, <1>2, FileShared, Zenon
<1>3. CASE job[q].f = f /\ q \in Closing(f)
    BY <1>1, <1>3, FileShared, Zenon
<1>4. CASE job[q].f = f /\ q \notin Closing(f)
  <2>1. f # NULL
      BY Domains, Zenon
  <2>2. job[q].pc \in {"dup", "read", "fstat"}
      BY <1>1, <1>4, <2>1, Zenon DEF Local, Closing
  <2>3. \E d \in Fds : ofile[q][d] = f
      BY <1>1, <1>4, <2>2, Zenon DEF Named, At
  <2> QED
      BY <1>2, <2>3, Zenon
<1> QED
    BY <1>2, <1>3, <1>4, Zenon DEF Uses

Has(p, d, f) == d \in Fds /\ ofile[p][d] = f /\ ~Uncounted(p, d)
Ends(p, f) == job[p].pc \in {"close", "openclose"} /\ job[p].f = f

(* A step of p, on descriptor d of c: the counts of files follow. *)
Moves(p, c, d) ==
    /\ \A q \in Procs \ {p}, f \in FileIds : Ends(q, f)' <=> Ends(q, f)
    /\ \A q \in Procs, x \in Fds, f \in FileIds :
           <<q, x>> # <<c, d>> => (Has(q, x, f)' <=> Has(q, x, f))
    /\ \A f \in FileIds : /\ file[f].ref \in Nat
                          /\ file'[f].ref = file[f].ref + Ind(Has(c, d, f)') - Ind(Has(c, d, f))
                                            + Ind(Ends(p, f)') - Ind(Ends(p, f))

LEMMA FilesCounted ==
    ASSUME FileCount, NEW p \in Procs, NEW c \in Procs, NEW d, Moves(p, c, d)
    PROVE  FileCount'
<1>1. ASSUME NEW f \in FileIds
      PROVE  file'[f].ref = Cardinality(Counted(f)') + Cardinality(Closing(f)')
  <2>1. \A x \in Procs \X Fds : /\ x \in Counted(f) <=> Has(x[1], x[2], f)
                                /\ x \in Counted(f)' <=> Has(x[1], x[2], f)'
      BY Zenon DEF Counted, Has
  <2>2. Counted(f)' \ {<<c, d>>} = Counted(f) \ {<<c, d>>}
    <3>1. Counted(f) \subseteq Procs \X Fds /\ Counted(f)' \subseteq Procs \X Fds
        BY Zenon DEF Counted
    <3>2. \A x \in Procs \X Fds : x # <<c, d>> => (x \in Counted(f)' <=> x \in Counted(f))
        BY <2>1 DEF Moves
    <3> QED
        BY <3>1, <3>2, Zenon
  <2>3. Closing(f)' \ {p} = Closing(f) \ {p}
      BY DEF Closing, Ends, Moves
  <2>4. /\ <<c, d>> \in Counted(f) <=> Has(c, d, f)
        /\ <<c, d>> \in Counted(f)' <=> Has(c, d, f)'
        /\ p \in Closing(f) <=> Ends(p, f)
        /\ p \in Closing(f)' <=> Ends(p, f)'
    <3>1. CASE d \in Fds
      <4>1. <<c, d>> \in Procs \X Fds
          BY <3>1, Zenon
      <4> QED
          BY <2>1, <4>1, Zenon DEF Closing, Ends
    <3>2. CASE d \notin Fds
        BY <3>2, Zenon DEF Closing, Ends, Counted, Has
    <3> QED
        BY <3>1, <3>2, Zenon
  <2>5. Cardinality(Counted(f)') = Cardinality(Counted(f)) + Ind(<<c, d>> \in Counted(f)')
                                   - Ind(<<c, d>> \in Counted(f))
      BY <2>2, SetsFinite, CountMoved, Zenon
  <2>6. Cardinality(Closing(f)') = Cardinality(Closing(f)) + Ind(p \in Closing(f)')
                                   - Ind(p \in Closing(f))
      BY <2>3, SetsFinite, CountMoved, Zenon
  <2>7. /\ Ind(<<c, d>> \in Counted(f)) = Ind(Has(c, d, f))
        /\ Ind(<<c, d>> \in Counted(f)') = Ind(Has(c, d, f)')
        /\ Ind(p \in Closing(f)) = Ind(Ends(p, f))
        /\ Ind(p \in Closing(f)') = Ind(Ends(p, f)')
      BY <2>4, Zenon DEF Ind
  <2>8. Ind(Has(c, d, f)) \in Nat /\ Ind(Has(c, d, f)') \in Nat
        /\ Ind(Ends(p, f)) \in Nat /\ Ind(Ends(p, f)') \in Nat
      BY Zenon DEF Ind
  <2>9. file[f].ref = Cardinality(Counted(f)) + Cardinality(Closing(f))
      BY Zenon DEF FileCount
  <2> QED
      BY <2>5, <2>6, <2>7, <2>8, <2>9, SetsCounted DEF Moves
<1> QED
    BY <1>1, Zenon DEF FileCount

(* fileclose() by p, which has the file open. *)
LEMMA CloseStep ==
    ASSUME FilesInv, NEW p \in Procs, NEW f \in FileIds, file' = [file EXCEPT ![f] = Closed(@)],
           p \in Closing(f) \/ (~At(p, "dup") /\ \E d \in Fds : ofile[p][d] = f)
    PROVE  /\ file' \in [FileIds -> Files] /\ file[f].ref > 0
           /\ \A g \in FileIds \ {f} : file'[g] = file[g]
           /\ file'[f].ref = file[f].ref - 1
           /\ file[f].ref = 1 => file'[f].type = "NONE"
           /\ file[f].ref # 1 => /\ file'[f].type = file[f].type /\ file'[f].ip = file[f].ip
                                 /\ file'[f].off = file[f].off
           /\ \A q \in Procs \ {p} : Kept(q)
           /\ FilesRight'
<1>1. /\ TypeOK /\ (\A x \in Procs : Named(x)) /\ FileCount /\ FilesRight
      /\ file \in [FileIds -> Files] /\ file[f] \in Files
    BY Zenon DEF FilesInv, TypeOK
<1>2. file[f].ref > 0 /\ file[f].ref \in Nat
    BY <1>1, FileUsed, Zenon DEF Files
<1>3. file'[f] = Closed(file[f]) /\ \A g \in FileIds \ {f} : file'[g] = file[g]
    BY <1>1, Zenon
<1>4. /\ file'[f] \in Files
      /\ file'[f].ref = file[f].ref - 1
      /\ file[f].ref = 1 => file'[f].type = "NONE"
      /\ file[f].ref # 1 => /\ file'[f].type = file[f].type /\ file'[f].ip = file[f].ip
                            /\ file'[f].off = file[f].off
  <2>1. CASE file[f].ref = 1
      BY <1>3, <2>1, Domains DEF Closed, None
  <2>2. CASE file[f].ref # 1
    <3>1. file'[f] = [file[f] EXCEPT !.ref = @ - 1]
        BY <1>3, <2>2, Zenon DEF Closed
    <3> QED
        BY <1>1, <1>2, <2>2, <3>1 DEF Files
  <2> QED
      BY <2>1, <2>2, Zenon
<1>5. file' \in [FileIds -> Files]
    BY <1>1, <1>3, <1>4, Zenon
<1>6. ASSUME NEW q \in Procs \ {p} PROVE Kept(q)
  <2>1. Uses(q, f) => file[f].ref # 1
      BY <1>2, UsersShare
  <2> QED
      BY <1>3, <1>4, <2>1, Zenon DEF Kept
<1>7. FilesRight'
    BY <1>1, <1>2, <1>3, <1>4, SMTT(30) DEF FilesRight
<1> QED
    BY <1>2, <1>3, <1>4, <1>5, <1>6, <1>7, Zenon

(* What filealloc() returns. *)
LEMMA FreeFile ==
    ASSUME FilesInv, FreeFiles # {}
    PROVE  LET f == Lowest(FreeFiles)
           IN  f \in FileIds /\ file[f].ref = 0 /\ file[f].type = "NONE" /\ file[f] \in Files
<1>1. FreeFiles \subseteq Nat
    BY Domains, Zenon DEF FreeFiles
<1>2. Lowest(FreeFiles) \in FreeFiles
    BY <1>1, LowestIn, Zenon
<1> QED
    BY <1>2 DEF FreeFiles, FilesInv, TypeOK, FilesRight

LEMMA AllocStep ==
    ASSUME FilesInv, FreeFiles # {}, NEW f, f = Lowest(FreeFiles), NEW e \in Files,
           file' = [file EXCEPT ![f] = e], e.type # "NONE" => e.ip # NULL /\ e.ref > 0
    PROVE  /\ f \in FileIds /\ file[f].ref = 0 /\ file[f].type = "NONE" /\ file[f] \in Files
           /\ file' \in [FileIds -> Files] /\ file'[f] = e
           /\ \A g \in FileIds \ {f} : file'[g] = file[g]
           /\ \A q \in Procs : ~Uses(q, f) /\ Kept(q)
           /\ FilesRight'
<1>1. /\ TypeOK /\ (\A x \in Procs : Named(x) /\ Local(x)) /\ FileCount /\ FilesRight
      /\ file \in [FileIds -> Files]
    BY Zenon DEF FilesInv, TypeOK
<1>2. f \in FileIds /\ file[f].ref = 0
    BY FreeFile, Zenon
<1>3. file[f].type = "NONE" /\ file[f] \in Files
    BY FreeFile, Zenon
<1>4. ASSUME NEW q \in Procs PROVE ~Uses(q, f)
  <2>1. \A d \in Fds : ofile[q][d] # f
      BY <1>1, <1>2, FileUsed
  <2>2. q \notin Closing(f) /\ f # NULL
      BY <1>1, <1>2, FileUsed, Domains
  <2>3. job[q].f # f
      BY <1>1, <2>1, <2>2 DEF Local, Closing, Named, At
  <2> QED
      BY <2>1, <2>3, Zenon DEF Uses
<1>5. file'[f] = e /\ \A g \in FileIds \ {f} : file'[g] = file[g]
    BY <1>1, <1>2, Zenon
<1>6. file' \in [FileIds -> Files]
    BY <1>1, <1>2, Zenon
<1>7. \A q \in Procs : Kept(q)
    BY <1>4, <1>5, Zenon DEF Kept
<1>8. FilesRight'
    BY <1>1, <1>5, Zenon DEF FilesRight
<1> QED
    BY <1>2, <1>3, <1>4, <1>5, <1>6, <1>7, <1>8, Zenon

(* The others keep what they lock. *)
LEMMA KeptOnlyOf ==
    ASSUME FilesInv, NEW p \in Procs, Others(p), cwd' = cwd,
           \A q \in Procs \ {p} : ofile'[q] = ofile[q] /\ Kept(q)
    PROVE  OnlyOf(p)
    BY OtherFiles, Zenon DEF Others, OnlyOf

(* A step of a call that uses a file. *)
LEMMA FileStep ==
    ASSUME FilesInv, NEW p \in Procs, NEW j \in Jobs, Do(p, j), cwd' = cwd,
           file' \in [FileIds -> Files], ofile' \in [Procs -> [Fds -> FileIds \cup {NULL}]],
           \A q \in Procs \ {p} : ofile'[q] = ofile[q] /\ Kept(q),
           job[p].pc \notin {"none", "USED", "fork"}, j.pc \notin {"none", "USED", "fork"},
           Sound(p), Local(p)', Target(p)', Named(p)', Typed(p)',
           FilesRight', FileCount', InodeRefExact', j.pc = "read" => file'[j.f].off = j.off
    PROVE  FilesInv'
<1>1. Others(p) /\ job'[p] = j /\ job \in [Procs -> Jobs]
    BY Zenon DEF Others, Do, FilesInv, TypeOK
<1>2. TypeOK'
    BY Zenon DEF FilesInv, TypeOK, Sound, Do
<1>3. \A q \in Procs : Local(q)' /\ Target(q)'
    BY Zenon DEF Sound
<1>4. \A q \in Procs : Named(q)' /\ Typed(q)'
    BY <1>1, OtherFiles, Zenon DEF Others
<1>5. ForksRight'
    BY <1>1, ForksFrame, Zenon
<1>6. OffsetStable'
  <2>1. ASSUME NEW q \in Procs, job'[q].pc = "read" PROVE file'[job'[q].f].off = job'[q].off
      BY <1>1, <2>1, OtherFiles, Zenon DEF Others, At
  <2> QED
      BY <2>1, Zenon DEF OffsetStable, At
<1> QED
    BY <1>2, <1>3, <1>4, <1>5, <1>6, Zenon DEF FilesInv, Sound

----------------------------------------------------------------------------
(* open() *)

LEMMA OpenFileInv ==
    ASSUME FilesInv, NEW p \in Procs, OpenFile(p)
    PROVE  FilesInv'
<1> DEFINE i == job[p].ip
           e == IF inode[i].copy \in Devices
                THEN [None EXCEPT !.ref = 1, !.type = "DEVICE", !.ip = i]
                ELSE [None EXCEPT !.ref = 1, !.type = "INODE", !.ip = i]
<1>1. /\ job[p] \in Jobs /\ job[p].pc = "open" /\ Local(p) /\ Target(p) /\ Typed(p)
      /\ ofile \in [Procs -> [Fds -> FileIds \cup {NULL}]] /\ InodeRefExact /\ FileCount
    BY Zenon DEF FilesInv, TypeOK, OpenFile, At
<1>2. i \in InodeIds /\ inode[i].ref > 0 /\ i # NULL
    BY <1>1, Held, Zenon DEF Local, Opening
<1>3. /\ job[p].dp = NULL /\ job[p].f = NULL /\ cwd[p] # NULL
    BY <1>1, Zenon DEF Local, Searching
<1>4. PICK f, d : f = Lowest(FreeFiles) /\ d = Lowest(FreeFds(p))
    BY Zenon
<1>5. /\ FreeFiles # {} /\ file' = [file EXCEPT ![f] = e] /\ cwd' = cwd
      /\ ofile' = [ofile EXCEPT ![p][d] = f] /\ Do(p, User) /\ inode' = Unlocked(inode, i)
    BY <1>4, Zenon DEF OpenFile
<1>6. e \in Files /\ e.type # "NONE" /\ e.ip = i /\ e.ref = 1 /\ e.off = 0
    BY <1>2, Zenon DEF Files, MaybeInode, None
<1> HIDE DEF e
<1>20. e.type # "NONE" => e.ip # NULL /\ e.ref > 0
    BY <1>2, <1>6
<1>21. /\ User \in Jobs /\ User.pc = "user" /\ User.dp = NULL /\ User.ip = NULL /\ User.f = NULL
    BY UserFields, Zenon
<1>7. /\ f \in FileIds /\ file[f].ref = 0 /\ file[f].type = "NONE" /\ file[f] \in Files
      /\ file' \in [FileIds -> Files] /\ file'[f] = e
      /\ \A g \in FileIds \ {f} : file'[g] = file[g]
      /\ \A q \in Procs : ~Uses(q, f) /\ Kept(q)
      /\ FilesRight'
    BY <1>4, <1>5, <1>6, <1>20, AllocStep, Zenon
<1>8. d \in Fds /\ ofile[p][d] = NULL /\ d # NULL
  <2>1. FreeFds(p) \subseteq Nat /\ FreeFds(p) # {}
      BY Domains, Zenon DEF FreeFds, OpenFile
  <2> QED
      BY <1>4, <2>1, LowestIn, Domains, Zenon DEF FreeFds
<1>9. /\ ofile' \in [Procs -> [Fds -> FileIds \cup {NULL}]]
      /\ \A q \in Procs \ {p} : ofile'[q] = ofile[q]
      /\ ofile'[p][d] = f /\ \A x \in Fds \ {d} : ofile'[p][x] = ofile[p][x]
    BY <1>1, <1>5, <1>7, <1>8, Zenon
<1>10. job'[p] = User /\ Others(p)
    BY <1>5, Zenon DEF Do, Others, FilesInv, TypeOK
<1>11. Locking(p) = i /\ Locking(p)' = NULL
    BY <1>1, <1>10, <1>21, Zenon DEF Locking
<1>12. OnlyOf(p)
    BY <1>5, <1>7, <1>9, <1>10, KeptOnlyOf, Zenon
<1>13. Sound(p) /\ \A k \in InodeIds : inode'[k].ref = inode[k].ref
    BY <1>2, <1>5, <1>11, <1>12, UnlockStep, Zenon
<1>14. Local(p)'
    BY <1>3, <1>5, <1>10, <1>21, Zenon DEF Local, Searching, Opening
<1>15. Target(p)'
    BY <1>1, <1>5, <1>10, <1>13, <1>21, Held, Zenon DEF Target, At, Opening, Sound, InumsKept
<1>16. Named(p)'
    BY <1>10, <1>21, Zenon DEF Named, At
<1>17. Typed(p)'
  <2>1. ASSUME NEW x \in Fds, ofile'[p][x] # NULL PROVE file'[ofile'[p][x]].type # "NONE"
    <3>1. CASE x = d
        BY <1>6, <1>7, <1>9, <3>1, Zenon
    <3>2. CASE x # d
      <4>1. ofile'[p][x] = ofile[p][x] /\ ofile[p][x] \in FileIds \ {f}
          BY <1>1, <1>7, <1>9, <2>1, <3>2 DEF Uses
      <4> QED
          BY <1>1, <1>7, <2>1, <4>1, Zenon DEF Typed
    <3> QED
        BY <3>1, <3>2, Zenon
  <2> QED
      BY <1>10, <1>21, <2>1, Zenon DEF Typed
<1>18. FileCount'
  <2>1. \A q \in Procs \ {p}, g \in FileIds : Ends(q, g)' <=> Ends(q, g)
      BY <1>10, Zenon DEF Others, Ends
  <2>2. \A q \in Procs, x \in Fds : Uncounted(q, x)' <=> Uncounted(q, x)
      BY <1>1, <1>10, <1>21, Zenon DEF Others, Uncounted, At
  <2>3. \A q \in Procs, x \in Fds, g \in FileIds :
            <<q, x>> # <<p, d>> => (Has(q, x, g)' <=> Has(q, x, g))
      BY <1>9, <2>2, Zenon DEF Has
  <2>4. ASSUME NEW g \in FileIds
        PROVE  /\ Has(p, d, g)' <=> g = f
               /\ ~Has(p, d, g) /\ ~Ends(p, g)' /\ ~Ends(p, g)
    <3>1. ~Uncounted(p, d)' /\ NULL # g
        BY <1>10, <1>21, Domains, Zenon DEF Uncounted, At
    <3>2. ~Ends(p, g)' /\ ~Ends(p, g)
        BY <1>1, <1>10, <1>21, Zenon DEF Ends
    <3>3. Has(p, d, g)' <=> g = f
        BY <1>8, <1>9, <3>1, Zenon DEF Has
    <3> QED
        BY <1>8, <3>1, <3>2, <3>3, Zenon DEF Has
  <2>5. ASSUME NEW g \in FileIds
        PROVE  /\ file[g].ref \in Nat
               /\ file'[g].ref = file[g].ref + Ind(Has(p, d, g)') - Ind(Has(p, d, g))
                                 + Ind(Ends(p, g)') - Ind(Ends(p, g))
    <3>1. file[g].ref \in Nat
        BY Zenon DEF FilesInv, TypeOK, Files
    <3>2. file'[g].ref = file[g].ref + IF g = f THEN 1 ELSE 0
        BY <1>6, <1>7, <3>1
    <3> QED
        BY <2>4, <3>1, <3>2 DEF Ind
  <2>6. Moves(p, p, d)
      BY <2>1, <2>3, <2>5, Zenon DEF Moves
  <2> QED
      BY <1>1, <2>6, FilesCounted, Zenon
<1>19. InodeRefExact'
  <2>1. \A q \in Procs \ {p} : job'[q].dp = job[q].dp /\ job'[q].ip = job[q].ip
      BY <1>10, Zenon DEF Others
  <2>2. ASSUME NEW k \in InodeIds
        PROVE  /\ Mine(job'[p], k) = 0 /\ Mine(job[p], k) = Ind(k = i)
               /\ Of(file'[f], k) = Ind(k = i) /\ Of(file[f], k) = 0
      BY <1>3, <1>6, <1>7, <1>10, <1>21, Domains, SMTT(30) DEF Mine, Of, Ind
  <2>3. ASSUME NEW k \in InodeIds
        PROVE  inode'[k].ref = inode[k].ref + Mine(job'[p], k) - Mine(job[p], k)
                                            + Of(file'[f], k) - Of(file[f], k)
      BY <1>13, <2>2 DEF Ind, FilesInv, TypeOK, Inodes
  <2> QED
      BY <1>1, <1>5, <1>7, <2>1, <2>3, InodesCountedToo, Zenon
<1> QED
    BY <1>1, <1>5, <1>7, <1>9, <1>13, <1>14, <1>15, <1>16, <1>17, <1>18, <1>19, <1>21, FileStep, Zenon

LEMMA OpenNoFdInv ==
    ASSUME FilesInv, NEW p \in Procs, OpenNoFd(p)
    PROVE  FilesInv'
<1>1. /\ job[p] \in Jobs /\ job[p].pc = "open" /\ Local(p) /\ Target(p) /\ Typed(p)
      /\ ofile \in [Procs -> [Fds -> FileIds \cup {NULL}]] /\ InodeRefExact /\ FileCount
    BY Zenon DEF FilesInv, TypeOK, OpenNoFd, At
<1>2. job[p].ip # NULL /\ job[p].dp = NULL /\ job[p].f = NULL /\ cwd[p] # NULL
    BY <1>1, Zenon DEF Local, Searching, Opening
<1>4. PICK f : f = Lowest(FreeFiles)
    BY Zenon
<1> DEFINE e == [file[f] EXCEPT !.ref = 1]
           j == [job[p] EXCEPT !.pc = "openclose", !.f = f]
<1>5. /\ FreeFiles # {} /\ file' = [file EXCEPT ![f] = e] /\ UNCHANGED <<inode, ofile, cwd>>
      /\ Do(p, j)
    BY <1>4, Zenon DEF OpenNoFd
<1>6. f \in FileIds /\ file[f].ref = 0 /\ file[f].type = "NONE" /\ file[f] \in Files /\ f # NULL
    BY <1>4, <1>5, FreeFile, Domains, Zenon
<1>7. e \in Files /\ e.ref = 1 /\ e.type = "NONE" /\ e.ip = file[f].ip
    BY <1>6, Zenon DEF Files
<1>8. /\ j \in Jobs /\ j.pc = "openclose" /\ j.f = f /\ j.ip = job[p].ip /\ j.dp = job[p].dp
      /\ j.path = job[p].path /\ j.op = job[p].op
    BY <1>1, <1>6, Zenon DEF Jobs, Labels
<1> HIDE DEF e, j
<1>9. /\ file' \in [FileIds -> Files] /\ file'[f] = e
      /\ \A g \in FileIds \ {f} : file'[g] = file[g]
      /\ \A q \in Procs : ~Uses(q, f) /\ Kept(q)
      /\ FilesRight'
    BY <1>4, <1>5, <1>7, AllocStep, Zenon
<1>10. job'[p] = j /\ Others(p)
    BY <1>5, Zenon DEF Do, Others, FilesInv, TypeOK
<1>11. Locking(p)' = Locking(p)
    BY <1>1, <1>8, <1>10, Zenon DEF Locking
<1>12. OnlyOf(p)
    BY <1>5, <1>9, <1>10, KeptOnlyOf, Zenon
<1>13. Sound(p)
    BY <1>5, <1>11, <1>12, SameInodes, Zenon
<1>14. Local(p)'
    BY <1>1, <1>5, <1>6, <1>8, <1>10, Zenon DEF Local, Searching, Opening
<1>15. Target(p)'
    BY <1>1, <1>5, <1>8, <1>10, Zenon DEF Target, At, Opening
<1>16. Named(p)'
    BY <1>8, <1>10, Zenon DEF Named, At
<1>17. Typed(p)'
  <2>1. ASSUME NEW x \in Fds, ofile[p][x] # NULL PROVE file'[ofile[p][x]].type # "NONE"
    <3>1. ofile[p][x] \in FileIds \ {f}
        BY <1>1, <1>9, <2>1 DEF Uses
    <3> QED
        BY <1>1, <1>9, <2>1, <3>1, Zenon DEF Typed
  <2> QED
      BY <1>5, <1>7, <1>8, <1>9, <1>10, <2>1, Zenon DEF Typed, At
<1>18. FileCount'
  <2>1. \A q \in Procs \ {p}, g \in FileIds : Ends(q, g)' <=> Ends(q, g)
      BY <1>10, Zenon DEF Others, Ends
  <2>2. \A q \in Procs, x \in Fds : Uncounted(q, x)' <=> Uncounted(q, x)
      BY <1>1, <1>8, <1>10, Zenon DEF Others, Uncounted, At
  <2>3. \A q \in Procs, x \in Fds, g \in FileIds : Has(q, x, g)' <=> Has(q, x, g)
      BY <1>5, <2>2, Zenon DEF Has
  <2>4. ASSUME NEW g \in FileIds
        PROVE  ~Has(p, NULL, g)' /\ ~Has(p, NULL, g) /\ (Ends(p, g)' <=> g = f) /\ ~Ends(p, g)
      BY <1>1, <1>8, <1>10, Domains, Zenon DEF Has, Ends
  <2>5. ASSUME NEW g \in FileIds
        PROVE  /\ file[g].ref \in Nat
               /\ file'[g].ref = file[g].ref + Ind(Has(p, NULL, g)') - Ind(Has(p, NULL, g))
                                 + Ind(Ends(p, g)') - Ind(Ends(p, g))
    <3>1. file[g].ref \in Nat
        BY Zenon DEF FilesInv, TypeOK, Files
    <3>2. file'[g].ref = file[g].ref + IF g = f THEN 1 ELSE 0
        BY <1>6, <1>7, <1>9, <3>1
    <3> QED
        BY <2>4, <3>1, <3>2 DEF Ind
  <2>6. Moves(p, p, NULL)
      BY <2>1, <2>3, <2>5, Zenon DEF Moves
  <2> QED
      BY <1>1, <2>6, FilesCounted, Zenon
<1>19. InodeRefExact'
  <2>1. \A q \in Procs : job'[q].dp = job[q].dp /\ job'[q].ip = job[q].ip
      BY <1>8, <1>10, Zenon DEF Others
  <2>2. \A g \in FileIds : file'[g].type = file[g].type /\ file'[g].ip = file[g].ip
      BY <1>6, <1>7, <1>9, Zenon
  <2> QED
      BY <1>1, <1>5, <2>1, <2>2, InodesSame, Zenon
<1> QED
    BY <1>1, <1>5, <1>8, <1>9, <1>13, <1>14, <1>15, <1>16, <1>17, <1>18, <1>19, FileStep, Zenon

LEMMA OpenCloseInv ==
    ASSUME FilesInv, NEW p \in Procs, OpenClose(p)
    PROVE  FilesInv'
<1> DEFINE i == job[p].ip
           j == [job[p] EXCEPT !.pc = "iput", !.f = NULL]
<1>1. /\ job[p] \in Jobs /\ job[p].pc = "openclose" /\ Local(p) /\ Target(p) /\ Typed(p)
      /\ ofile \in [Procs -> [Fds -> FileIds \cup {NULL}]] /\ InodeRefExact /\ FileCount
    BY Zenon DEF FilesInv, TypeOK, OpenClose, At
<1>2. i \in InodeIds /\ inode[i].ref > 0 /\ i # NULL
    BY <1>1, Held, Zenon DEF Local, Opening
<1>3. PICK f \in FileIds : f = job[p].f
    BY <1>1, Zenon DEF Local, Jobs
<1>4. file[f].type = "NONE" /\ job[p].dp = NULL /\ f # NULL /\ cwd[p] # NULL
    BY <1>1, <1>3, Domains, Zenon DEF Typed, Local, Searching, At
<1>5. /\ file' = [file EXCEPT ![f] = Closed(@)] /\ UNCHANGED <<ofile, cwd>> /\ Do(p, j)
      /\ inode' = Unlocked(inode, i)
    BY <1>3, <1>4, Zenon DEF OpenClose, fileclose
<1>8. /\ j \in Jobs /\ j.pc = "iput" /\ j.f = NULL /\ j.ip = i /\ j.dp = NULL
      /\ j.path = job[p].path /\ j.op = job[p].op
  <2>1. j \in Jobs
      BY <1>1, Zenon DEF Jobs, Labels
  <2>2. /\ j.pc = "iput" /\ j.f = NULL /\ j.ip = i /\ j.dp = NULL
        /\ j.path = job[p].path /\ j.op = job[p].op
      BY <1>1, <1>4, Zenon DEF Jobs
  <2> QED
      BY <2>1, <2>2, Zenon
<1> HIDE DEF j
<1>9. /\ file' \in [FileIds -> Files] /\ file'[f].ref = file[f].ref - 1 /\ file'[f].type = "NONE"
      /\ \A g \in FileIds \ {f} : file'[g] = file[g]
      /\ \A q \in Procs \ {p} : Kept(q)
      /\ FilesRight'
  <2>1. p \in Closing(f)
      BY <1>1, <1>3, Zenon DEF Closing
  <2> QED
      BY <1>4, <1>5, <2>1, CloseStep, Zenon
<1>10. job'[p] = j /\ Others(p)
    BY <1>5, Zenon DEF Do, Others, FilesInv, TypeOK
<1>11. Locking(p) = i /\ Locking(p)' = NULL
    BY <1>1, <1>8, <1>10, Zenon DEF Locking
<1>12. OnlyOf(p)
    BY <1>5, <1>9, <1>10, KeptOnlyOf, Zenon
<1>13. Sound(p) /\ \A k \in InodeIds : inode'[k].ref = inode[k].ref
    BY <1>2, <1>5, <1>11, <1>12, UnlockStep, Zenon
<1>14. Local(p)'
    BY <1>1, <1>2, <1>4, <1>5, <1>8, <1>10, Zenon DEF Local, Searching, Opening
<1>15. Target(p)'
    BY <1>1, <1>5, <1>8, <1>10, <1>13, Held, Zenon DEF Target, At, Opening, Sound, InumsKept
<1>16. Named(p)'
    BY <1>8, <1>10, Zenon DEF Named, At
<1>17. Typed(p)'
  <2>1. ASSUME NEW x \in Fds, ofile[p][x] # NULL PROVE file'[ofile[p][x]].type # "NONE"
    <3>1. ofile[p][x] \in FileIds \ {f}
        BY <1>1, <1>4, <2>1 DEF Typed
    <3> QED
        BY <1>1, <1>9, <2>1, <3>1, Zenon DEF Typed
  <2> QED
      BY <1>5, <1>8, <1>10, <2>1, Zenon DEF Typed
<1>18. FileCount'
  <2>1. \A q \in Procs \ {p}, g \in FileIds : Ends(q, g)' <=> Ends(q, g)
      BY <1>10, Zenon DEF Others, Ends
  <2>2. \A q \in Procs, x \in Fds : Uncounted(q, x)' <=> Uncounted(q, x)
      BY <1>1, <1>8, <1>10, Zenon DEF Others, Uncounted, At
  <2>3. \A q \in Procs, x \in Fds, g \in FileIds : Has(q, x, g)' <=> Has(q, x, g)
      BY <1>5, <2>2, Zenon DEF Has
  <2>4. ASSUME NEW g \in FileIds
        PROVE  ~Has(p, NULL, g)' /\ ~Has(p, NULL, g) /\ ~Ends(p, g)' /\ (Ends(p, g) <=> g = f)
      BY <1>1, <1>3, <1>8, <1>10, Domains, Zenon DEF Has, Ends
  <2>5. ASSUME NEW g \in FileIds
        PROVE  /\ file[g].ref \in Nat
               /\ file'[g].ref = file[g].ref + Ind(Has(p, NULL, g)') - Ind(Has(p, NULL, g))
                                 + Ind(Ends(p, g)') - Ind(Ends(p, g))
    <3>1. file[g].ref \in Nat
        BY Zenon DEF FilesInv, TypeOK, Files
    <3>2. file'[g].ref = file[g].ref - IF g = f THEN 1 ELSE 0
        BY <1>9, <3>1
    <3> QED
        BY <2>4, <3>1, <3>2 DEF Ind
  <2>6. Moves(p, p, NULL)
      BY <2>1, <2>3, <2>5, Zenon DEF Moves
  <2> QED
      BY <1>1, <2>6, FilesCounted, Zenon
<1>19. InodeRefExact'
  <2>1. \A q \in Procs : job'[q].dp = job[q].dp /\ job'[q].ip = job[q].ip
      BY <1>4, <1>8, <1>10, Zenon DEF Others
  <2>2. ASSUME NEW k \in InodeIds
        PROVE  inode'[k].ref = inode[k].ref + Mine(job'[p], k) - Mine(job[p], k)
                                            + Of(file'[f], k) - Of(file[f], k)
    <3>1. Mine(job'[p], k) = Mine(job[p], k) /\ Mine(job[p], k) \in Nat
        BY <2>1 DEF Mine, Ind
    <3>2. Of(file'[f], k) = 0 /\ Of(file[f], k) = 0
        BY <1>4, <1>9, Zenon DEF Of, Ind
    <3> QED
        BY <1>13, <3>1, <3>2, SMTT(30) DEF FilesInv, TypeOK, Inodes
  <2> QED
      BY <1>1, <1>5, <1>9, <2>1, <2>2, InodesCountedToo, Zenon
<1> QED
    BY <1>1, <1>5, <1>8, <1>9, <1>13, <1>14, <1>15, <1>16, <1>17, <1>18, <1>19, FileStep, Zenon

=============================================================================
