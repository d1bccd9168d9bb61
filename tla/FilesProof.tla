----------------------------- MODULE FilesProof -----------------------------
(***************************************************************************)
(* Proofs about Files for any number of processes, descriptors, files and  *)
(* inodes: the counts of files and inodes, the inode locks and offsets.    *)
(***************************************************************************)
EXTENDS FilesLemmas

----------------------------------------------------------------------------
(* dup(), close(), read() and fstat() *)

LEMMA DupInv ==
    ASSUME FilesInv, NEW p \in Procs, NEW d \in Fds, sys_dup(p, d)
    PROVE  FilesInv'
<1>1. /\ job[p] \in Jobs /\ job[p].pc = "user" /\ Local(p) /\ Target(p) /\ Typed(p)
      /\ ofile \in [Procs -> [Fds -> FileIds \cup {NULL}]] /\ InodeRefExact /\ FileCount
      /\ ofile[p][d] # NULL
    BY Zenon DEF FilesInv, TypeOK, sys_dup, Open, At
<1>2. job[p].ip = NULL /\ job[p].dp = NULL /\ job[p].f = NULL /\ cwd[p] # NULL
    BY <1>1, Zenon DEF Local, Searching, Opening
<1>3. PICK f \in FileIds : f = ofile[p][d]
    BY <1>1, Zenon
<1>4. PICK n : n = Lowest(FreeFds(p))
    BY Zenon
<1> DEFINE j == [User EXCEPT !.pc = "dup", !.f = f, !.at = n]
<1>5. /\ ofile' = [ofile EXCEPT ![p][n] = f] /\ UNCHANGED <<file, inode, cwd>> /\ Do(p, j)
    BY <1>3, <1>4, Zenon DEF sys_dup
<1>6. n \in Fds /\ n \in Nat /\ ofile[p][n] = NULL /\ n # d /\ f # NULL
  <2>1. FreeFds(p) \subseteq Nat /\ FreeFds(p) # {}
      BY Domains, Zenon DEF FreeFds, sys_dup
  <2> QED
      BY <1>1, <1>3, <1>4, <2>1, LowestIn, Domains, Zenon DEF FreeFds
<1>7. /\ j \in Jobs /\ j.pc = "dup" /\ j.f = f /\ j.at = n /\ j.ip = NULL /\ j.dp = NULL
  <2>1. j \in Jobs
      BY <1>6, UserFields, Zenon DEF Jobs, Labels
  <2>2. j.pc = "dup" /\ j.f = f /\ j.at = n /\ j.ip = NULL /\ j.dp = NULL
      BY UserFields, Zenon DEF Jobs
  <2> QED
      BY <2>1, <2>2, Zenon
<1> HIDE DEF j
<1>8. /\ ofile' \in [Procs -> [Fds -> FileIds \cup {NULL}]]
      /\ \A q \in Procs \ {p} : ofile'[q] = ofile[q]
      /\ ofile'[p][n] = f /\ \A x \in Fds \ {n} : ofile'[p][x] = ofile[p][x]
    BY <1>1, <1>5, <1>6, Zenon
<1>9. /\ file' \in [FileIds -> Files] /\ FilesRight' /\ \A q \in Procs : Kept(q)
    BY <1>5, Zenon DEF FilesInv, TypeOK, FilesRight, Kept
<1>10. job'[p] = j /\ Others(p)
    BY <1>5, Zenon DEF Do, Others, FilesInv, TypeOK
<1>11. Locking(p)' = Locking(p)
    BY <1>1, <1>7, <1>10, Zenon DEF Locking
<1>12. OnlyOf(p)
    BY <1>5, <1>8, <1>9, <1>10, KeptOnlyOf, Zenon
<1>13. Sound(p)
    BY <1>5, <1>11, <1>12, SameInodes, Zenon
<1>14. Local(p)'
    BY <1>2, <1>5, <1>6, <1>7, <1>10, Zenon DEF Local, Searching, Opening
<1>15. Target(p)'
    BY <1>1, <1>5, <1>7, <1>10, Zenon DEF Target, At, Opening
<1>16. Named(p)'
    BY <1>3, <1>6, <1>7, <1>8, <1>10, Zenon DEF Named, At
<1>17. Typed(p)'
  <2>1. file[f].type # "NONE"
      BY <1>1, <1>3, Zenon DEF Typed
  <2> QED
      BY <1>1, <1>5, <1>6, <1>7, <1>8, <1>10, <2>1, SMTT(30) DEF Typed, At
<1>18. FileCount'
  <2>1. \A q \in Procs \ {p}, g \in FileIds : Ends(q, g)' <=> Ends(q, g)
      BY <1>10, Zenon DEF Others, Ends
  <2>2. \A q \in Procs, x \in Fds : <<q, x>> # <<p, n>> => (Uncounted(q, x)' <=> Uncounted(q, x))
      BY <1>1, <1>7, <1>10, Zenon DEF Others, Uncounted, At
  <2>3. \A q \in Procs, x \in Fds, g \in FileIds :
            <<q, x>> # <<p, n>> => (Has(q, x, g)' <=> Has(q, x, g))
      BY <1>8, <2>2, Zenon DEF Has
  <2>4. ASSUME NEW g \in FileIds
        PROVE  ~Has(p, n, g)' /\ ~Has(p, n, g) /\ ~Ends(p, g)' /\ ~Ends(p, g)
    <3>1. Uncounted(p, n)' /\ NULL # g
        BY <1>7, <1>10, Domains, Zenon DEF Uncounted, At
    <3> QED
        BY <1>1, <1>6, <1>7, <1>10, <3>1, Zenon DEF Has, Ends
  <2>5. ASSUME NEW g \in FileIds
        PROVE  /\ file[g].ref \in Nat
               /\ file'[g].ref = file[g].ref + Ind(Has(p, n, g)') - Ind(Has(p, n, g))
                                 + Ind(Ends(p, g)') - Ind(Ends(p, g))
    <3>1. file[g].ref \in Nat /\ file'[g].ref = file[g].ref
        BY <1>5, Zenon DEF FilesInv, TypeOK, Files
    <3> QED
        BY <2>4, <3>1 DEF Ind
  <2>6. Moves(p, p, n)
      BY <2>1, <2>3, <2>5, Zenon DEF Moves
  <2> QED
      BY <1>1, <2>6, FilesCounted, Zenon
<1>19. InodeRefExact'
  <2>1. \A q \in Procs : job'[q].dp = job[q].dp /\ job'[q].ip = job[q].ip
      BY <1>2, <1>7, <1>10, Zenon DEF Others
  <2> QED
      BY <1>1, <1>5, <2>1 DEF InodeRefExact
<1> QED
    BY <1>1, <1>5, <1>7, <1>8, <1>9, <1>13, <1>14, <1>15, <1>16, <1>17, <1>18, <1>19, FileStep, Zenon

(* filedup() *)
LEMMA DupStep ==
    ASSUME FilesInv, NEW f \in FileIds, filedup(f)
    PROVE  /\ file' \in [FileIds -> Files]
           /\ \A g \in FileIds : /\ file'[g].type = file[g].type /\ file'[g].ip = file[g].ip
                                  /\ file'[g].off = file[g].off /\ file[g].ref \in Nat
                                  /\ file'[g].ref = file[g].ref + IF g = f THEN 1 ELSE 0
           /\ FilesRight' /\ \A q \in Procs : Kept(q)
<1>1. file \in [FileIds -> Files] /\ file[f] \in Files /\ FilesRight
    BY Zenon DEF FilesInv, TypeOK
<1>2. file'[f] = [file[f] EXCEPT !.ref = @ + 1]
    BY <1>1, Zenon DEF filedup
<1>3. \A g \in FileIds \ {f} : file'[g] = file[g]
    BY <1>1, Zenon DEF filedup
<1>4. /\ file'[f] \in Files /\ file'[f].ref = file[f].ref + 1 /\ file'[f].type = file[f].type
      /\ file'[f].ip = file[f].ip /\ file'[f].off = file[f].off
    BY <1>1, <1>2 DEF Files
<1>5. file' \in [FileIds -> Files]
    BY <1>1, <1>3, <1>4, Zenon DEF filedup
<1>6. \A g \in FileIds : file[g].ref \in Nat
    BY <1>1, Zenon DEF Files
<1>7. \A g \in FileIds : /\ file'[g].type = file[g].type /\ file'[g].ip = file[g].ip
                         /\ file'[g].off = file[g].off
                         /\ file'[g].ref = file[g].ref + IF g = f THEN 1 ELSE 0
    BY <1>3, <1>4, <1>6
<1>8. FilesRight' /\ \A q \in Procs : Kept(q)
    BY <1>1, <1>6, <1>7 DEF FilesRight, Kept
<1> QED
    BY <1>5, <1>6, <1>7, <1>8, Zenon

LEMMA DupCountInv ==
    ASSUME FilesInv, NEW p \in Procs, DupCount(p)
    PROVE  FilesInv'
<1>1. /\ job[p] \in Jobs /\ job[p].pc = "dup" /\ Local(p) /\ Target(p) /\ Typed(p) /\ Named(p)
      /\ ofile \in [Procs -> [Fds -> FileIds \cup {NULL}]] /\ InodeRefExact /\ FileCount
      /\ file \in [FileIds -> Files]
    BY Zenon DEF FilesInv, TypeOK, DupCount, At
<1>2. job[p].ip = NULL /\ job[p].dp = NULL /\ cwd[p] # NULL
    BY <1>1, Zenon DEF Local, Searching, Opening
<1>3. PICK f \in FileIds : f = job[p].f
    BY <1>1, Zenon DEF Local, Jobs
<1>4. PICK n \in Fds : n = job[p].at /\ ofile[p][n] = f
    BY <1>1, <1>3, Zenon DEF Named, At
<1>5. filedup(f) /\ UNCHANGED <<inode, ofile, cwd>> /\ Do(p, User)
    BY <1>3, Zenon DEF DupCount
<1>6. /\ file' \in [FileIds -> Files]
      /\ \A g \in FileIds : /\ file'[g].type = file[g].type /\ file'[g].ip = file[g].ip
                             /\ file'[g].off = file[g].off /\ file[g].ref \in Nat
                             /\ file'[g].ref = file[g].ref + IF g = f THEN 1 ELSE 0
      /\ FilesRight' /\ \A q \in Procs : Kept(q)
    BY <1>5, DupStep, Zenon
<1>10. job'[p] = User /\ Others(p)
    BY <1>5, Zenon DEF Do, Others, FilesInv, TypeOK
<1>11. Locking(p)' = Locking(p)
    BY <1>1, <1>10, UserFields, Zenon DEF Locking
<1>12. OnlyOf(p)
    BY <1>5, <1>6, <1>10, KeptOnlyOf, Zenon
<1>13. Sound(p)
    BY <1>5, <1>11, <1>12, SameInodes, Zenon
<1>14. Local(p)'
    BY <1>2, <1>5, <1>10, UserFields, Zenon DEF Local, Searching, Opening
<1>15. Target(p)'
    BY <1>1, <1>5, <1>10, UserFields, Zenon DEF Target, At, Opening
<1>16. Named(p)'
    BY <1>10, UserFields, Zenon DEF Named, At
<1>17. Typed(p)'
  <2>1. ASSUME NEW x \in Fds, ofile[p][x] # NULL PROVE file'[ofile[p][x]].type # "NONE"
    <3>1. ofile[p][x] \in FileIds
        BY <1>1, <2>1
    <3> QED
        BY <1>1, <1>6, <2>1, <3>1, Zenon DEF Typed
  <2> QED
      BY <1>5, <1>10, <2>1, UserFields, Zenon DEF Typed
<1>18. FileCount'
  <2>1. \A q \in Procs \ {p}, g \in FileIds : Ends(q, g)' <=> Ends(q, g)
      BY <1>10, Zenon DEF Others, Ends
  <2>2. \A q \in Procs, x \in Fds : <<q, x>> # <<p, n>> => (Uncounted(q, x)' <=> Uncounted(q, x))
      BY <1>4, <1>10, UserFields, Zenon DEF Others, Uncounted, At
  <2>3. \A q \in Procs, x \in Fds, g \in FileIds :
            <<q, x>> # <<p, n>> => (Has(q, x, g)' <=> Has(q, x, g))
      BY <1>5, <2>2, Zenon DEF Has
  <2>4. ASSUME NEW g \in FileIds
        PROVE  (Has(p, n, g)' <=> g = f) /\ ~Has(p, n, g) /\ ~Ends(p, g)' /\ ~Ends(p, g)
    <3>1. ~Uncounted(p, n)' /\ Uncounted(p, n)
        BY <1>1, <1>4, <1>10, UserFields, Zenon DEF Uncounted, At
    <3> QED
        BY <1>1, <1>4, <1>5, <1>10, <3>1, UserFields, Zenon DEF Has, Ends
  <2>5. ASSUME NEW g \in FileIds
        PROVE  /\ file[g].ref \in Nat
               /\ file'[g].ref = file[g].ref + Ind(Has(p, n, g)') - Ind(Has(p, n, g))
                                 + Ind(Ends(p, g)') - Ind(Ends(p, g))
      BY <1>6, <2>4 DEF Ind
  <2>6. Moves(p, p, n)
      BY <2>1, <2>3, <2>5, Zenon DEF Moves
  <2> QED
      BY <1>1, <2>6, FilesCounted, Zenon
<1>19. InodeRefExact'
  <2>1. \A q \in Procs : job'[q].dp = job[q].dp /\ job'[q].ip = job[q].ip
      BY <1>2, <1>10, UserFields, Zenon DEF Others
  <2>2. \A g \in FileIds : file'[g].type = file[g].type /\ file'[g].ip = file[g].ip
      BY <1>6, Zenon
  <2> QED
      BY <1>1, <1>5, <2>1, <2>2, InodesSame, Zenon
<1>20. User \in Jobs /\ User.pc = "user"
    BY UserFields, Zenon
<1>21. \A q \in Procs \ {p} : ofile'[q] = ofile[q] /\ Kept(q)
    BY <1>5, <1>6, Zenon
<1> QED
    BY <1>1, <1>5, <1>6, <1>13, <1>14, <1>15, <1>16, <1>17, <1>18, <1>19, <1>20, <1>21, FileStep, Zenon

LEMMA CloseInv ==
    ASSUME FilesInv, NEW p \in Procs, NEW d \in Fds, sys_close(p, d)
    PROVE  FilesInv'
<1>1. /\ job[p] \in Jobs /\ job[p].pc = "user" /\ Local(p) /\ Target(p) /\ Typed(p)
      /\ ofile \in [Procs -> [Fds -> FileIds \cup {NULL}]] /\ InodeRefExact /\ FileCount
      /\ ofile[p][d] # NULL
    BY Zenon DEF FilesInv, TypeOK, sys_close, Open, At
<1>2. job[p].ip = NULL /\ job[p].dp = NULL /\ job[p].f = NULL /\ cwd[p] # NULL
    BY <1>1, Zenon DEF Local, Searching, Opening
<1>3. PICK f \in FileIds : f = ofile[p][d]
    BY <1>1, Zenon
<1> DEFINE j == [User EXCEPT !.pc = "close", !.f = f]
<1>5. /\ ofile' = [ofile EXCEPT ![p][d] = NULL] /\ UNCHANGED <<file, inode, cwd>> /\ Do(p, j)
    BY <1>3, Zenon DEF sys_close
<1>6. f # NULL
    BY Domains, Zenon
<1>7. /\ j \in Jobs /\ j.pc = "close" /\ j.f = f /\ j.ip = NULL /\ j.dp = NULL
    BY <1>6, UserFields, Zenon DEF User, Jobs, Labels
<1> HIDE DEF j
<1>8. /\ ofile' \in [Procs -> [Fds -> FileIds \cup {NULL}]]
      /\ \A q \in Procs \ {p} : ofile'[q] = ofile[q]
      /\ ofile'[p][d] = NULL /\ \A x \in Fds \ {d} : ofile'[p][x] = ofile[p][x]
    BY <1>1, <1>5, Zenon
<1>9. /\ file' \in [FileIds -> Files] /\ FilesRight' /\ \A q \in Procs : Kept(q)
    BY <1>5, Zenon DEF FilesInv, TypeOK, FilesRight, Kept
<1>10. job'[p] = j /\ Others(p)
    BY <1>5, Zenon DEF Do, Others, FilesInv, TypeOK
<1>11. Locking(p)' = Locking(p)
    BY <1>1, <1>7, <1>10, Zenon DEF Locking
<1>12. OnlyOf(p)
    BY <1>5, <1>8, <1>9, <1>10, KeptOnlyOf, Zenon
<1>13. Sound(p)
    BY <1>5, <1>11, <1>12, SameInodes, Zenon
<1>14. Local(p)'
    BY <1>2, <1>5, <1>6, <1>7, <1>10, Zenon DEF Local, Searching, Opening
<1>15. Target(p)'
    BY <1>1, <1>5, <1>7, <1>10, Zenon DEF Target, At, Opening
<1>16. Named(p)'
    BY <1>7, <1>10, Zenon DEF Named, At
<1>17. Typed(p)'
  <2>1. file[f].type # "NONE"
      BY <1>1, <1>3, Zenon DEF Typed
  <2> QED
      BY <1>1, <1>5, <1>6, <1>7, <1>8, <1>10, <2>1, Zenon DEF Typed, At
<1>18. FileCount'
  <2>1. \A q \in Procs \ {p}, g \in FileIds : Ends(q, g)' <=> Ends(q, g)
      BY <1>10, Zenon DEF Others, Ends
  <2>2. \A q \in Procs, x \in Fds : Uncounted(q, x)' <=> Uncounted(q, x)
      BY <1>1, <1>7, <1>10, Zenon DEF Others, Uncounted, At
  <2>3. \A q \in Procs, x \in Fds, g \in FileIds :
            <<q, x>> # <<p, d>> => (Has(q, x, g)' <=> Has(q, x, g))
      BY <1>8, <2>2, Zenon DEF Has
  <2>4. ASSUME NEW g \in FileIds
        PROVE  ~Has(p, d, g)' /\ (Has(p, d, g) <=> g = f) /\ (Ends(p, g)' <=> g = f) /\ ~Ends(p, g)
    <3>1. ~Uncounted(p, d) /\ NULL # g
        BY <1>1, Domains, Zenon DEF Uncounted, At
    <3> QED
        BY <1>1, <1>3, <1>7, <1>8, <1>10, <3>1, Zenon DEF Has, Ends
  <2>5. ASSUME NEW g \in FileIds
        PROVE  /\ file[g].ref \in Nat
               /\ file'[g].ref = file[g].ref + Ind(Has(p, d, g)') - Ind(Has(p, d, g))
                                 + Ind(Ends(p, g)') - Ind(Ends(p, g))
    <3>1. file[g].ref \in Nat /\ file'[g].ref = file[g].ref
        BY <1>5, Zenon DEF FilesInv, TypeOK, Files
    <3> QED
        BY <2>4, <3>1 DEF Ind
  <2>6. Moves(p, p, d)
      BY <2>1, <2>3, <2>5, Zenon DEF Moves
  <2> QED
      BY <1>1, <2>6, FilesCounted, Zenon
<1>19. InodeRefExact'
  <2>1. \A q \in Procs : job'[q].dp = job[q].dp /\ job'[q].ip = job[q].ip
      BY <1>2, <1>7, <1>10, Zenon DEF Others
  <2> QED
      BY <1>1, <1>5, <2>1, SMTT(30) DEF InodeRefExact
<1> QED
    BY <1>1, <1>5, <1>7, <1>8, <1>9, <1>13, <1>14, <1>15, <1>16, <1>17, <1>18, <1>19, FileStep, Zenon

(* Where the caller of fileclose() goes on. *)
After(f, j) ==
    IF file[f].ref = 1 /\ file[f].type # "NONE" THEN [j EXCEPT !.pc = "iput", !.ip = file[f].ip] ELSE j

(* The reference of the file's inode is the caller's then. *)
LEMMA AfterClose ==
    ASSUME FilesInv, NEW f \in FileIds, NEW j \in Jobs, j.ip = NULL, j.dp = NULL, j.f = NULL
    PROVE  LET k == After(f, j)
           IN  /\ k \in Jobs /\ k.pc \in {"iput", j.pc} /\ k.dp = NULL /\ k.f = NULL /\ k.op = j.op
               /\ k.ip # NULL => k.pc = "iput"
               /\ k.pc = "iput" => k.ip # NULL \/ j.pc = "iput"
               /\ k.ip = IF file[f].ref = 1 /\ file[f].type # "NONE" THEN file[f].ip ELSE NULL
<1>1. file[f] \in Files /\ FilesRight
    BY Zenon DEF FilesInv, TypeOK
<1>2. CASE file[f].ref = 1 /\ file[f].type # "NONE"
  <2>1. file[f].ip \in MaybeInode /\ file[f].ip # NULL
      BY <1>1, <1>2, Zenon DEF Files, FilesRight
  <2>2. PICK k : k = [j EXCEPT !.pc = "iput", !.ip = file[f].ip]
      BY Zenon
  <2>3. /\ k \in Jobs /\ k.pc = "iput" /\ k.dp = NULL /\ k.f = NULL /\ k.op = j.op /\ k.ip = file[f].ip
      BY <2>1, <2>2, Zenon DEF Jobs, Labels
  <2> QED
      BY <1>2, <2>1, <2>2, <2>3, Zenon DEF After
<1>3. CASE ~(file[f].ref = 1 /\ file[f].type # "NONE")
    BY <1>3, Zenon DEF After
<1> QED
    BY <1>2, <1>3, Zenon

LEMMA CloseFileInv ==
    ASSUME FilesInv, NEW p \in Procs, CloseFile(p)
    PROVE  FilesInv'
<1>1. /\ job[p] \in Jobs /\ job[p].pc = "close" /\ Local(p) /\ Target(p) /\ Typed(p)
      /\ ofile \in [Procs -> [Fds -> FileIds \cup {NULL}]] /\ InodeRefExact /\ FileCount
      /\ TypeOK /\ \A x \in Procs : Named(x)
    BY Zenon DEF FilesInv, TypeOK, CloseFile, At
<1>2. job[p].ip = NULL /\ job[p].dp = NULL /\ cwd[p] # NULL
    BY <1>1, Zenon DEF Local, Searching, Opening
<1>3. PICK f \in FileIds : f = job[p].f
    BY <1>1, Zenon DEF Local, Jobs
<1>4. PICK j : j = After(f, User)
    BY Zenon
<1>5. file' = [file EXCEPT ![f] = Closed(@)] /\ UNCHANGED <<inode, ofile, cwd>> /\ Do(p, j)
    BY <1>3, <1>4, Zenon DEF CloseFile, fileclose, After
<1>6. file[f].type # "NONE" /\ p \in Closing(f) /\ f # NULL
    BY <1>1, <1>3, Domains, Zenon DEF Typed, At, Closing
<1>7. /\ j \in Jobs /\ j.pc \in {"iput", "user"} /\ j.dp = NULL /\ j.f = NULL
      /\ j.ip # NULL <=> j.pc = "iput"
      /\ j.ip = IF file[f].ref = 1 THEN file[f].ip ELSE NULL
    BY <1>4, <1>6, AfterClose, UserFields, Zenon
<1>8. /\ file' \in [FileIds -> Files] /\ file[f].ref > 0
      /\ \A g \in FileIds \ {f} : file'[g] = file[g]
      /\ file'[f].ref = file[f].ref - 1
      /\ file[f].ref = 1 => file'[f].type = "NONE"
      /\ file[f].ref # 1 => /\ file'[f].type = file[f].type /\ file'[f].ip = file[f].ip
                            /\ file'[f].off = file[f].off
      /\ \A q \in Procs \ {p} : Kept(q)
      /\ FilesRight'
    BY <1>5, <1>6, CloseStep, Zenon
<1>10. job'[p] = j /\ Others(p)
    BY <1>5, Zenon DEF Do, Others, FilesInv, TypeOK
<1>11. Locking(p)' = Locking(p)
    BY <1>1, <1>7, <1>10, Zenon DEF Locking
<1>12. OnlyOf(p)
    BY <1>5, <1>8, <1>10, KeptOnlyOf, Zenon
<1>13. Sound(p)
    BY <1>5, <1>11, <1>12, SameInodes, Zenon
<1>14. Local(p)'
    BY <1>2, <1>5, <1>7, <1>10, Zenon DEF Local, Searching, Opening
<1>15. Target(p)'
    BY <1>1, <1>5, <1>7, <1>10, Zenon DEF Target, At, Opening
<1>16. Named(p)'
    BY <1>7, <1>10, Zenon DEF Named, At
<1>17. Typed(p)'
  <2>1. ASSUME NEW x \in Fds, ofile[p][x] # NULL PROVE file'[ofile[p][x]].type # "NONE"
    <3>1. ofile[p][x] = f => file[f].ref # 1
        BY <1>1, <1>6, FileShared
    <3>2. ofile[p][x] \in FileIds /\ file[ofile[p][x]].type # "NONE"
        BY <1>1, <2>1, Zenon DEF Typed
    <3> QED
        BY <1>8, <3>1, <3>2, Zenon
  <2> QED
      BY <1>5, <1>7, <1>10, <2>1, Zenon DEF Typed
<1>18. FileCount'
  <2>1. \A q \in Procs \ {p}, g \in FileIds : Ends(q, g)' <=> Ends(q, g)
      BY <1>10, Zenon DEF Others, Ends
  <2>2. \A q \in Procs, x \in Fds : Uncounted(q, x)' <=> Uncounted(q, x)
      BY <1>1, <1>7, <1>10, Zenon DEF Others, Uncounted, At
  <2>3. \A q \in Procs, x \in Fds, g \in FileIds : Has(q, x, g)' <=> Has(q, x, g)
      BY <1>5, <2>2, Zenon DEF Has
  <2>4. ASSUME NEW g \in FileIds
        PROVE  ~Has(p, NULL, g)' /\ ~Has(p, NULL, g) /\ ~Ends(p, g)' /\ (Ends(p, g) <=> g = f)
      BY <1>1, <1>3, <1>7, <1>10, Domains, Zenon DEF Has, Ends
  <2>5. ASSUME NEW g \in FileIds
        PROVE  /\ file[g].ref \in Nat
               /\ file'[g].ref = file[g].ref + Ind(Has(p, NULL, g)') - Ind(Has(p, NULL, g))
                                 + Ind(Ends(p, g)') - Ind(Ends(p, g))
    <3>1. file[g].ref \in Nat
        BY Zenon DEF FilesInv, TypeOK, Files
    <3>2. file'[g].ref = file[g].ref - IF g = f THEN 1 ELSE 0
        BY <1>8, <3>1
    <3> QED
        BY <2>4, <3>1, <3>2 DEF Ind
  <2>6. Moves(p, p, NULL)
      BY <2>1, <2>3, <2>5, Zenon DEF Moves
  <2> QED
      BY <1>1, <2>6, FilesCounted, Zenon
<1>19. InodeRefExact'
  <2>1. \A q \in Procs \ {p} : job'[q].dp = job[q].dp /\ job'[q].ip = job[q].ip
      BY <1>10, Zenon DEF Others
  <2>2. ASSUME NEW k \in InodeIds
        PROVE  inode'[k].ref = inode[k].ref + Mine(job'[p], k) - Mine(job[p], k)
                                            + Of(file'[f], k) - Of(file[f], k)
    <3>1. Mine(job[p], k) = 0 /\ Mine(j, k) = Ind(file[f].ref = 1 /\ file[f].ip = k) /\ NULL # k
        BY <1>2, <1>7, Domains DEF Mine, Ind
    <3>2. Of(file[f], k) = Ind(file[f].ip = k) /\ Of(file'[f], k) = Ind(file[f].ref # 1 /\ file[f].ip = k)
        BY <1>6, <1>8, Zenon DEF Of, Ind
    <3>3. inode[k].ref \in Nat /\ inode' = inode
        BY <1>5, Zenon DEF FilesInv, TypeOK, Inodes
    <3> QED
        BY <1>10, <3>1, <3>2, <3>3 DEF Ind
  <2> QED
      BY <1>1, <1>5, <1>8, <2>1, <2>2, InodesCountedToo, Zenon
<1> QED
    BY <1>1, <1>5, <1>7, <1>8, <1>13, <1>14, <1>15, <1>16, <1>17, <1>18, <1>19, FileStep, Zenon

(* The inode of an open file is in use. *)
LEMMA FileInode ==
    ASSUME FilesInv, NEW f \in FileIds, file[f].type # "NONE"
    PROVE  file[f].ip \in InodeIds /\ inode[file[f].ip].ref > 0
<1>1. file[f].ip \in InodeIds
    BY Zenon DEF FilesInv, TypeOK, Files, FilesRight, MaybeInode
<1>2. inode[file[f].ip].ref # 0
    BY <1>1, Referenced, Zenon DEF FilesInv
<1> QED
    BY <1>1, <1>2 DEF FilesInv, TypeOK, Inodes

(* A step that counts no file. *)
LEMMA FilesUncounted ==
    ASSUME FilesInv, UNCHANGED ofile, \A f \in FileIds : file'[f].ref = file[f].ref,
           \A q \in Procs : \/ job'[q] = job[q]
                           \/ /\ job'[q].pc \notin {"dup", "close", "openclose"}
                              /\ job[q].pc \notin {"dup", "close", "openclose"}
    PROVE  FileCount'
<1>1. \A q \in Procs, d \in Fds : Uncounted(q, d)' <=> Uncounted(q, d)
    BY Zenon DEF Uncounted, At
<1>2. \A q \in Procs : \/ job'[q] = job[q]
                       \/ /\ job'[q].pc \notin {"close", "openclose"}
                          /\ job[q].pc \notin {"close", "openclose"}
    BY Zenon
<1>3. \A f \in FileIds : Counted(f)' = Counted(f) /\ Closing(f)' = Closing(f)
    BY <1>1, <1>2, Zenon DEF Counted, Closing
<1> QED
    BY <1>3, Zenon DEF FilesInv, FileCount

LEMMA FileLockInv ==
    ASSUME FilesInv, NEW p \in Procs, NEW d \in Fds, NEW op \in {"read", "fstat"}, FileLock(p, d, op)
    PROVE  FilesInv'
<1>1. /\ job[p] \in Jobs /\ job[p].pc = "user" /\ Local(p) /\ Target(p) /\ Typed(p)
      /\ ofile \in [Procs -> [Fds -> FileIds \cup {NULL}]] /\ InodeRefExact /\ FileCount
      /\ ofile[p][d] # NULL
    BY Zenon DEF FilesInv, TypeOK, FileLock, Open, At
<1>2. job[p].ip = NULL /\ job[p].dp = NULL /\ job[p].f = NULL /\ cwd[p] # NULL
    BY <1>1, Zenon DEF Local, Searching, Opening
<1>3. PICK f \in FileIds : f = ofile[p][d]
    BY <1>1, Zenon
<1>4. /\ file[f].type # "NONE" /\ file[f].off \in Nat /\ f # NULL
    BY <1>1, <1>3, Domains, Zenon DEF Typed, FilesInv, TypeOK, Files
<1>5. PICK i \in InodeIds : i = file[f].ip /\ inode[i].ref > 0
    BY <1>4, FileInode, Zenon
<1> DEFINE j == [User EXCEPT !.pc = op, !.f = f, !.off = file[f].off]
<1>6. ilock(p, i) /\ UNCHANGED <<file, ofile, cwd>> /\ Do(p, j)
    BY <1>3, <1>5, Zenon DEF FileLock
<1>7. /\ j \in Jobs /\ j.pc = op /\ j.f = f /\ j.ip = NULL /\ j.dp = NULL /\ j.off = file[f].off
    BY <1>4, UserFields, Zenon DEF User, Jobs, Labels
<1> HIDE DEF j
<1>9. /\ file' \in [FileIds -> Files] /\ FilesRight' /\ \A q \in Procs : Kept(q)
    BY <1>6, Zenon DEF FilesInv, TypeOK, FilesRight, Kept
<1>10. job'[p] = j /\ Others(p)
    BY <1>6, Zenon DEF Do, Others, FilesInv, TypeOK
<1>11. Locking(p) = NULL /\ Locking(p)' = i
    BY <1>1, <1>5, <1>6, <1>7, <1>10, Zenon DEF Locking
<1>12. OnlyOf(p)
    BY <1>6, <1>9, <1>10, KeptOnlyOf, Zenon
<1>13. Sound(p) /\ \A k \in InodeIds : inode'[k].ref = inode[k].ref
    BY <1>5, <1>6, <1>11, <1>12, LockStep, Zenon
<1>14. Local(p)'
    BY <1>2, <1>4, <1>6, <1>7, <1>10, Zenon DEF Local, Searching, Opening
<1>15. Target(p)'
    BY <1>1, <1>6, <1>7, <1>10, <1>13, Held, Zenon DEF Target, At, Opening, Sound, InumsKept
<1>16. Named(p)'
    BY <1>3, <1>6, <1>7, <1>10, Zenon DEF Named, At
<1>17. Typed(p)'
    BY <1>1, <1>4, <1>6, <1>7, <1>10, Zenon DEF Typed, At
<1>18. FileCount'
    BY <1>1, <1>6, <1>7, <1>10, FilesUncounted, Zenon DEF Others
<1>19. InodeRefExact'
  <2>1. \A q \in Procs : job'[q].dp = job[q].dp /\ job'[q].ip = job[q].ip
      BY <1>2, <1>7, <1>10, Zenon DEF Others
  <2>2. \A g \in FileIds : file'[g].type = file[g].type /\ file'[g].ip = file[g].ip
      BY <1>6, Zenon
  <2>3. cwd' = cwd /\ \A k \in InodeIds : inode'[k].ref = inode[k].ref
      BY <1>6, <1>13, Zenon
  <2> QED
      BY <1>1, <2>1, <2>2, <2>3, InodesSame, Zenon
<1>20. ofile' \in [Procs -> [Fds -> FileIds \cup {NULL}]] /\ file'[j.f].off = j.off
    BY <1>1, <1>6, <1>7, Zenon
<1> QED
    BY <1>1, <1>6, <1>7, <1>9, <1>13, <1>14, <1>15, <1>16, <1>17, <1>18, <1>19, <1>20, FileStep, Zenon

(* No other process reads the same file. *)
LEMMA ReadEndInv ==
    ASSUME FilesInv, NEW p \in Procs, ReadEnd(p)
    PROVE  FilesInv'
<1>1. /\ job[p] \in Jobs /\ job[p].pc = "read" /\ Local(p) /\ Target(p) /\ Typed(p)
      /\ ofile \in [Procs -> [Fds -> FileIds \cup {NULL}]] /\ InodeRefExact /\ FileCount
      /\ file \in [FileIds -> Files] /\ FilesRight
    BY Zenon DEF FilesInv, TypeOK, ReadEnd, At
<1>2. job[p].ip = NULL /\ job[p].dp = NULL /\ cwd[p] # NULL /\ job[p].off \in Nat
    BY <1>1, Zenon DEF Local, Searching, Opening, Jobs
<1>3. PICK f \in FileIds : f = job[p].f
    BY <1>1, Zenon DEF Local, Jobs
<1>4. /\ file[f].type # "NONE" /\ file[f] \in Files /\ f # NULL
    BY <1>1, <1>3, Domains, Zenon DEF Typed, At
<1>5. PICK i \in InodeIds : i = file[f].ip /\ inode[i].ref > 0
    BY <1>4, FileInode, Zenon
<1>6. PICK n \in 0 .. SIZE - job[p].off : file' = [file EXCEPT ![f].off = @ + n]
    BY <1>3, Zenon DEF ReadEnd
<1>7. inode' = Unlocked(inode, i) /\ UNCHANGED <<ofile, cwd>> /\ Do(p, User)
    BY <1>3, <1>5, Zenon DEF ReadEnd
<1>8. n \in Nat
    BY <1>2, <1>6, FilesAssumption
<1>9. /\ file'[f] \in Files /\ file'[f].ref = file[f].ref /\ file'[f].type = file[f].type
      /\ file'[f].ip = file[f].ip
  <2>1. file'[f] = [file[f] EXCEPT !.off = @ + n]
      BY <1>1, <1>6, Zenon
  <2> QED
      BY <1>4, <1>8, <2>1 DEF Files
<1>20. \A g \in FileIds \ {f} : file'[g] = file[g]
    BY <1>1, <1>6, Zenon
<1>21. file' \in [FileIds -> Files]
    BY <1>1, <1>6, <1>9, <1>20, Zenon
<1>22. \A g \in FileIds : /\ file'[g].type = file[g].type /\ file'[g].ip = file[g].ip
                          /\ file'[g].ref = file[g].ref
    BY <1>9, <1>20, Zenon
<1>23. FilesRight'
    BY <1>1, <1>22, Zenon DEF FilesRight
<1>24. ASSUME NEW q \in Procs \ {p} PROVE Kept(q)
  <2>1. ASSUME At(q, "read"), job[q].f = f PROVE FALSE
    <3>1. Locking(q) = i /\ Locking(p) = i
        BY <1>1, <1>3, <1>5, <2>1, Zenon DEF Locking, At
    <3>2. i # NULL
        BY Domains, Zenon
    <3> QED
        BY <3>1, <3>2, Zenon DEF FilesInv, OwnersRight
  <2> QED
      BY <1>20, <1>22, <2>1, Zenon DEF Kept
<1>10. job'[p] = User /\ Others(p)
    BY <1>7, Zenon DEF Do, Others, FilesInv, TypeOK
<1>11. Locking(p) = i /\ Locking(p)' = NULL
    BY <1>1, <1>3, <1>5, <1>10, UserFields, Zenon DEF Locking
<1>12. OnlyOf(p)
    BY <1>7, <1>10, <1>24, KeptOnlyOf, Zenon
<1>13. Sound(p) /\ \A k \in InodeIds : inode'[k].ref = inode[k].ref
    BY <1>5, <1>7, <1>11, <1>12, UnlockStep, Zenon
<1>14. Local(p)'
    BY <1>2, <1>7, <1>10, UserFields, Zenon DEF Local, Searching, Opening
<1>15. Target(p)'
    BY <1>1, <1>7, <1>10, <1>13, UserFields, Held, ZenonT(30) DEF Target, At, Opening, Sound, InumsKept
<1>16. Named(p)'
    BY <1>10, UserFields, Zenon DEF Named, At
<1>17. Typed(p)'
  <2>1. ASSUME NEW x \in Fds, ofile[p][x] # NULL PROVE file'[ofile[p][x]].type # "NONE"
    <3>1. ofile[p][x] \in FileIds
        BY <1>1, <2>1
    <3> QED
        BY <1>1, <1>22, <2>1, <3>1, Zenon DEF Typed
  <2> QED
      BY <1>7, <1>10, <2>1, UserFields, Zenon DEF Typed
<1>18. FileCount'
    BY <1>1, <1>7, <1>10, <1>22, UserFields, FilesUncounted, Zenon DEF Others
<1>19. InodeRefExact'
  <2>1. \A q \in Procs : job'[q].dp = job[q].dp /\ job'[q].ip = job[q].ip
      BY <1>2, <1>10, UserFields, Zenon DEF Others
  <2>2. \A g \in FileIds : file'[g].type = file[g].type /\ file'[g].ip = file[g].ip
      BY <1>22, Zenon
  <2> QED
      BY <1>1, <1>7, <1>13, <2>1, <2>2, InodesSame, Zenon
<1>25. \A q \in Procs \ {p} : ofile'[q] = ofile[q] /\ Kept(q)
    BY <1>7, <1>24, Zenon
<1> QED
    BY <1>1, <1>7, <1>13, <1>14, <1>15, <1>16, <1>17, <1>18, <1>19, <1>21, <1>23, <1>25, UserFields, FileStep, ZenonT(30)

LEMMA StatEndInv ==
    ASSUME FilesInv, NEW p \in Procs, StatEnd(p)
    PROVE  FilesInv'
<1>1. /\ job[p] \in Jobs /\ job[p].pc = "fstat" /\ Local(p) /\ Target(p) /\ Typed(p)
    BY Zenon DEF FilesInv, TypeOK, StatEnd, At
<1>2. job[p].ip = NULL /\ job[p].dp = NULL /\ cwd[p] # NULL
    BY <1>1, Zenon DEF Local, Searching, Opening
<1>3. PICK f \in FileIds : f = job[p].f
    BY <1>1, Zenon DEF Local, Jobs
<1>4. file[f].type # "NONE" /\ f # NULL
    BY <1>1, <1>3, Domains, Zenon DEF Typed, At
<1>5. PICK i \in InodeIds : i = file[f].ip
    BY <1>4, FileInode, Zenon
<1>6. UNCHANGED <<file, ofile, cwd>> /\ inode' = Unlocked(inode, i) /\ Do(p, User)
    BY <1>3, <1>5, Zenon DEF StatEnd
<1>7. job'[p] = User /\ Others(p)
    BY <1>6, Zenon DEF Do, Others, FilesInv, TypeOK
<1>8. Locking(p) = i /\ Locking(p)' = NULL
    BY <1>1, <1>3, <1>5, <1>7, UserFields, ZenonT(30) DEF Locking
<1>9. OnlyOf(p)
    BY <1>6, <1>7, LockingKept, Zenon DEF OnlyOf
<1>10. Sound(p) /\ \A k \in InodeIds : inode'[k].ref = inode[k].ref
    BY <1>6, <1>8, <1>9, UnlockStep, Zenon
<1>11. Local(p)'
    BY <1>2, <1>6, <1>7, UserFields, Zenon DEF Local, Searching, Opening
<1>12. Target(p)'
    BY <1>1, <1>6, <1>7, <1>10, UserFields, Held, ZenonT(30) DEF Target, At, Opening, Sound, InumsKept
<1>13. \A k \in InodeIds : inode'[k].ref = inode[k].ref + Mine(User, k) - Mine(job[p], k)
  <2>1. \A k \in InodeIds : Mine(User, k) = 0 /\ Mine(job[p], k) = 0
      BY <1>2, Domains, UserFields DEF Mine, Ind
  <2> QED
      BY <1>10, <2>1, SMTT(30) DEF FilesInv, TypeOK, Inodes
<1> QED
    BY <1>1, <1>6, <1>10, <1>11, <1>12, <1>13, UserFields, CallStep, Zenon

----------------------------------------------------------------------------
(* exit() *)

LEMMA KexitInv ==
    ASSUME FilesInv, NEW p \in Procs, kexit(p)
    PROVE  FilesInv'
<1> DEFINE j == [User EXCEPT !.pc = "exit"]
<1>1. job[p] \in Jobs /\ job[p].pc = "user" /\ Local(p) /\ Target(p)
    BY Zenon DEF FilesInv, TypeOK, kexit, At
<1>2. job[p].ip = NULL /\ job[p].dp = NULL /\ cwd[p] # NULL
    BY <1>1, Zenon DEF Local, Searching, Opening
<1>3. /\ j \in Jobs /\ j.pc = "exit" /\ j.f = NULL /\ j.ip = NULL /\ j.dp = NULL
    BY UserFields, Zenon DEF User, Jobs, Labels
<1>4. UNCHANGED <<file, inode, ofile, cwd>> /\ Do(p, j)
    BY Zenon DEF kexit
<1> HIDE DEF j
<1>5. job'[p] = j /\ Others(p)
    BY <1>4, Zenon DEF Do, Others, FilesInv, TypeOK
<1>6. Locking(p)' = Locking(p)
    BY <1>1, <1>3, <1>5, Zenon DEF Locking
<1>7. OnlyOf(p)
    BY <1>4, <1>5, LockingKept, Zenon DEF OnlyOf
<1>8. Sound(p)
    BY <1>4, <1>6, <1>7, SameInodes, Zenon
<1>9. Local(p)'
    BY <1>2, <1>3, <1>4, <1>5, Zenon DEF Local, Searching, Opening
<1>10. Target(p)'
    BY <1>1, <1>3, <1>4, <1>5, Zenon DEF Target, At, Opening
<1>11. \A k \in InodeIds : inode'[k].ref = inode[k].ref + Mine(j, k) - Mine(job[p], k)
  <2>1. \A k \in InodeIds : Mine(j, k) = 0 /\ Mine(job[p], k) = 0
      BY <1>2, <1>3, Domains DEF Mine, Ind
  <2> QED
      BY <1>4, <2>1 DEF FilesInv, TypeOK, Inodes
<1> QED
    BY <1>1, <1>3, <1>4, <1>8, <1>9, <1>10, <1>11, CallStep, Zenon

LEMMA ExitFileInv ==
    ASSUME FilesInv, NEW p \in Procs, ExitFile(p)
    PROVE  FilesInv'
<1> DEFINE u == [User EXCEPT !.pc = "exit", !.op = "exit"]
<1>1. /\ job[p] \in Jobs /\ job[p].pc = "exit" /\ Local(p) /\ Target(p) /\ Typed(p)
      /\ ofile \in [Procs -> [Fds -> FileIds \cup {NULL}]] /\ InodeRefExact /\ FileCount
      /\ TypeOK /\ \A x \in Procs : Named(x)
    BY Zenon DEF FilesInv, TypeOK, ExitFile, At
<1>2. job[p].ip = NULL /\ job[p].dp = NULL /\ job[p].f = NULL /\ cwd[p] # NULL
    BY <1>1, Zenon DEF Local, Searching, Opening
<1>3. PICK d \in Fds : d = Lowest({x \in Fds : ofile[p][x] # NULL}) /\ ofile[p][d] # NULL
  <2> DEFINE S == {x \in Fds : ofile[p][x] # NULL}
  <2>1. S \subseteq Nat /\ S # {}
      BY Domains, Zenon DEF ExitFile
  <2>2. Lowest(S) \in S
    <3> HIDE DEF S
    <3> QED
        BY <2>1, LowestIn, Zenon
  <2> QED
      BY <2>2, Zenon
<1>4. PICK f \in FileIds : f = ofile[p][d]
    BY <1>1, <1>3, Zenon
<1>5. PICK j : j = After(f, u)
    BY Zenon
<1>6. /\ file' = [file EXCEPT ![f] = Closed(@)] /\ UNCHANGED <<inode, cwd>> /\ Do(p, j)
      /\ ofile' = [ofile EXCEPT ![p][d] = NULL]
    BY <1>3, <1>4, <1>5, Zenon DEF ExitFile, fileclose, After
<1>7. file[f].type # "NONE" /\ f # NULL /\ ~At(p, "dup")
    BY <1>1, <1>3, <1>4, Domains, Zenon DEF Typed, At
<1>8. u \in Jobs /\ u.pc = "exit" /\ u.dp = NULL /\ u.ip = NULL /\ u.f = NULL
    BY UserFields, Zenon DEF User, Jobs, Labels
<1> HIDE DEF u
<1>9. /\ j \in Jobs /\ j.pc \in {"iput", "exit"} /\ j.dp = NULL /\ j.f = NULL
      /\ j.ip # NULL <=> j.pc = "iput"
      /\ j.ip = IF file[f].ref = 1 THEN file[f].ip ELSE NULL
    BY <1>5, <1>7, <1>8, AfterClose, Zenon
<1>20. /\ file' \in [FileIds -> Files] /\ file[f].ref > 0
       /\ \A g \in FileIds \ {f} : file'[g] = file[g]
       /\ file'[f].ref = file[f].ref - 1
       /\ file[f].ref = 1 => file'[f].type = "NONE"
       /\ file[f].ref # 1 => /\ file'[f].type = file[f].type /\ file'[f].ip = file[f].ip
                             /\ file'[f].off = file[f].off
       /\ \A q \in Procs \ {p} : Kept(q)
       /\ FilesRight'
    BY <1>4, <1>6, <1>7, CloseStep, Zenon
<1>21. /\ ofile' \in [Procs -> [Fds -> FileIds \cup {NULL}]]
       /\ \A q \in Procs \ {p} : ofile'[q] = ofile[q]
       /\ ofile'[p][d] = NULL /\ \A x \in Fds \ {d} : ofile'[p][x] = ofile[p][x]
    BY <1>1, <1>6, Zenon
<1>10. job'[p] = j /\ Others(p)
    BY <1>6, Zenon DEF Do, Others, FilesInv, TypeOK
<1>11. Locking(p)' = Locking(p)
    BY <1>1, <1>9, <1>10, Zenon DEF Locking
<1>12. OnlyOf(p)
    BY <1>6, <1>10, <1>20, <1>21, KeptOnlyOf, Zenon
<1>13. Sound(p)
    BY <1>6, <1>11, <1>12, SameInodes, Zenon
<1>14. Local(p)'
    BY <1>2, <1>6, <1>9, <1>10, Zenon DEF Local, Searching, Opening
<1>15. Target(p)'
    BY <1>1, <1>6, <1>9, <1>10, Zenon DEF Target, At, Opening
<1>16. Named(p)'
    BY <1>9, <1>10, Zenon DEF Named, At
<1>17. Typed(p)'
  <2>1. ASSUME NEW x \in Fds, ofile'[p][x] # NULL PROVE file'[ofile'[p][x]].type # "NONE"
    <3>1. x # d /\ ofile'[p][x] = ofile[p][x]
        BY <1>21, <2>1, Zenon
    <3>2. ofile[p][x] = f => file[f].ref # 1
        BY <1>1, <1>4, <1>7, <3>1, FileShared, SMTT(30)
    <3>3. ofile[p][x] \in FileIds /\ file[ofile[p][x]].type # "NONE"
        BY <1>1, <2>1, <3>1, SMTT(30) DEF Typed
    <3> QED
        BY <1>20, <3>1, <3>2, <3>3, Zenon
  <2> QED
      BY <1>9, <1>10, <2>1, Zenon DEF Typed
<1>18. FileCount'
  <2>1. \A q \in Procs \ {p}, g \in FileIds : Ends(q, g)' <=> Ends(q, g)
      BY <1>10, Zenon DEF Others, Ends
  <2>2. \A q \in Procs, x \in Fds : Uncounted(q, x)' <=> Uncounted(q, x)
      BY <1>1, <1>9, <1>10, Zenon DEF Others, Uncounted, At
  <2>3. \A q \in Procs, x \in Fds, g \in FileIds :
            <<q, x>> # <<p, d>> => (Has(q, x, g)' <=> Has(q, x, g))
      BY <1>21, <2>2, Zenon DEF Has
  <2>4. ASSUME NEW g \in FileIds
        PROVE  ~Has(p, d, g)' /\ (Has(p, d, g) <=> g = f) /\ ~Ends(p, g)' /\ ~Ends(p, g)
    <3>1. ~Uncounted(p, d) /\ NULL # g
        BY <1>7, Domains, Zenon DEF Uncounted
    <3> QED
        BY <1>1, <1>4, <1>9, <1>10, <1>21, <3>1, Zenon DEF Has, Ends
  <2>5. ASSUME NEW g \in FileIds
        PROVE  /\ file[g].ref \in Nat
               /\ file'[g].ref = file[g].ref + Ind(Has(p, d, g)') - Ind(Has(p, d, g))
                                 + Ind(Ends(p, g)') - Ind(Ends(p, g))
    <3>1. file[g].ref \in Nat
        BY Zenon DEF FilesInv, TypeOK, Files
    <3>2. file'[g].ref = file[g].ref - IF g = f THEN 1 ELSE 0
        BY <1>20, <3>1, SMTT(30)
    <3> QED
        BY <2>4, <3>1, <3>2, SMTT(30) DEF Ind
  <2>6. Moves(p, p, d)
      BY <2>1, <2>3, <2>5, Zenon DEF Moves
  <2> QED
      BY <1>1, <2>6, FilesCounted, Zenon
<1>19. InodeRefExact'
  <2>1. \A q \in Procs \ {p} : job'[q].dp = job[q].dp /\ job'[q].ip = job[q].ip
      BY <1>10, Zenon DEF Others
  <2>2. ASSUME NEW k \in InodeIds
        PROVE  inode'[k].ref = inode[k].ref + Mine(job'[p], k) - Mine(job[p], k)
                                            + Of(file'[f], k) - Of(file[f], k)
    <3>1. Mine(job[p], k) = 0 /\ Mine(j, k) = Ind(file[f].ref = 1 /\ file[f].ip = k) /\ NULL # k
        BY <1>2, <1>9, Domains, SMTT(30) DEF Mine, Ind
    <3>2. Of(file[f], k) = Ind(file[f].ip = k) /\ Of(file'[f], k) = Ind(file[f].ref # 1 /\ file[f].ip = k)
        BY <1>7, <1>20, Zenon DEF Of, Ind
    <3>3. inode[k].ref \in Nat /\ inode' = inode
        BY <1>6, Zenon DEF FilesInv, TypeOK, Inodes
    <3> QED
        BY <1>10, <3>1, <3>2, <3>3, SMTT(30) DEF Ind
  <2> QED
      BY <1>1, <1>6, <1>20, <2>1, <2>2, InodesCountedToo, Zenon
<1> QED
    BY <1>1, <1>6, <1>9, <1>13, <1>14, <1>15, <1>16, <1>17, <1>18, <1>19, <1>20, <1>21, FileStep, Zenon

LEMMA ExitEndInv ==
    ASSUME FilesInv, NEW p \in Procs, ExitEnd(p)
    PROVE  FilesInv'
<1> DEFINE i == cwd[p]
           j == [User EXCEPT !.pc = "none"]
<1>1. /\ job[p] \in Jobs /\ job[p].pc = "exit" /\ Local(p) /\ Target(p) /\ InodeRefExact
      /\ cwd \in [Procs -> MaybeInode] /\ job \in [Procs -> Jobs]
    BY Zenon DEF FilesInv, TypeOK, ExitEnd, At
<1>2. job[p].ip = NULL /\ job[p].dp = NULL /\ i # NULL
    BY <1>1, Zenon DEF Local, Searching, Opening
<1>3. i \in InodeIds /\ inode[i].ref > 0
    BY <1>2, Held, Zenon
<1>4. /\ j \in Jobs /\ j.pc = "none" /\ j.f = NULL /\ j.ip = NULL /\ j.dp = NULL
    BY UserFields, Zenon DEF User, Jobs, Labels
<1>5. /\ UNCHANGED <<file, ofile>> /\ Do(p, j) /\ cwd' = [cwd EXCEPT ![p] = NULL]
      /\ inode' = [inode EXCEPT ![i].ref = @ + (-1)] /\ \A x \in Fds : ofile[p][x] = NULL
    BY <1>3, Putting, Zenon DEF ExitEnd
<1> HIDE DEF j
<1>6. job'[p] = j /\ Others(p) /\ cwd'[p] = NULL /\ \A q \in Procs \ {p} : cwd'[q] = cwd[q]
    BY <1>1, <1>5, Zenon DEF Do, Others
<1>7. Locking(p)' = Locking(p)
    BY <1>1, <1>4, <1>6, Zenon DEF Locking
<1>8. OnlyOf(p)
    BY <1>5, <1>6, LockingKept, Zenon DEF OnlyOf
<1>9. Sound(p) /\ \A k \in InodeIds : inode'[k].ref = inode[k].ref + IF k = i THEN -1 ELSE 0
    BY <1>3, <1>5, <1>7, <1>8, CountStep, Zenon
<1>10. TypeOK'
    BY <1>1, <1>4, <1>5, <1>9, Zenon DEF FilesInv, TypeOK, Sound, Do, MaybeInode
<1>11. Local(p)'
    BY <1>4, <1>6, Zenon DEF Local, Searching, Opening
<1>12. Target(p)'
    BY <1>4, <1>6, Zenon DEF Target, At, Opening
<1>13. (\A q \in Procs : Named(q)' /\ Typed(q)') /\ FilesRight' /\ FileCount'
    BY <1>1, <1>4, <1>5, <1>6, FilesFrame, ZenonT(30)
<1>14. ForksRight'
    BY <1>1, <1>4, <1>5, <1>6, SMTT(30) DEF Others, FilesInv, ForksRight, At
<1>15. InodeRefExact'
  <2>1. \A q \in Procs \ {p} : job'[q].dp = job[q].dp /\ job'[q].ip = job[q].ip
      BY <1>6, Zenon DEF Others
  <2>2. ASSUME NEW k \in InodeIds
        PROVE  inode'[k].ref = inode[k].ref + Mine(job'[p], k) - Mine(job[p], k)
                                            + Ind(cwd'[p] = k) - Ind(cwd[p] = k)
    <3>1. Mine(job'[p], k) = 0 /\ Mine(job[p], k) = 0 /\ NULL # k
        BY <1>2, <1>4, <1>6, Domains, SMTT(30) DEF Mine, Ind
    <3> QED
        BY <1>6, <1>9, <3>1, SMTT(30) DEF Ind, FilesInv, TypeOK, Inodes
  <2> QED
      BY <1>1, <1>5, <1>6, <2>1, <2>2, InodesCounted, SMTT(30)
<1>16. OffsetStable'
    BY <1>4, <1>5, <1>6, OffsetsFrame, Zenon
<1>17. \A q \in Procs : Local(q)' /\ Target(q)'
    BY <1>9, <1>11, <1>12, Zenon DEF Sound
<1> QED
    BY <1>9, <1>10, <1>13, <1>14, <1>15, <1>16, <1>17, Zenon DEF FilesInv, Sound

----------------------------------------------------------------------------
(* fork() *)

(* The child of fork() is no other process. *)
LEMMA Child ==
    ASSUME FilesInv, NEW p \in Procs, At(p, "fork")
    PROVE  /\ job[p].child \in Procs /\ job[p].child # p /\ job[job[p].child].pc = "USED"
           /\ \A d \in Fds : d >= job[p].at => ofile[job[p].child][d] = NULL
    BY Zenon DEF FilesInv, ForksRight, At

LEMMA KforkInv ==
    ASSUME FilesInv, NEW p \in Procs, NEW c \in Procs, kfork(p, c)
    PROVE  FilesInv'
<1> DEFINE j == [User EXCEPT !.pc = "fork", !.child = c]
           k == [job[c] EXCEPT !.pc = "USED"]
<1>1. /\ job \in [Procs -> Jobs] /\ job[p] \in Jobs /\ job[c] \in Jobs /\ Local(p) /\ Local(c)
      /\ Target(p) /\ Target(c) /\ job[p].pc = "user" /\ job[c].pc = "none" /\ Typed(c) /\ Typed(p)
    BY Zenon DEF FilesInv, TypeOK, kfork, At
<1>2. p # c
    BY <1>1, Zenon
<1>3. /\ job[p].dp = NULL /\ job[p].ip = NULL /\ job[p].f = NULL /\ cwd[p] # NULL
      /\ job[c].dp = NULL /\ job[c].ip = NULL /\ job[c].f = NULL /\ cwd[c] = NULL
    BY <1>1, Zenon DEF Local, Searching, Opening
<1>4. /\ j \in Jobs /\ j.pc = "fork" /\ j.child = c /\ j.dp = NULL /\ j.ip = NULL /\ j.f = NULL
      /\ j.at = 0
    BY UserFields, Zenon DEF User, Jobs, Labels
<1>5. /\ k \in Jobs /\ k.pc = "USED" /\ k.dp = NULL /\ k.ip = NULL /\ k.f = NULL
    BY <1>1, <1>3, Zenon DEF Jobs, Labels
<1>6. /\ UNCHANGED <<file, inode, ofile, cwd>>
      /\ job' = [job EXCEPT ![p] = j, ![c] = k]
    BY <1>1, <1>2, Zenon DEF kfork
<1> HIDE DEF j, k
<1>7. /\ job'[p] = j /\ job'[c] = k /\ \A q \in Procs \ {p, c} : job'[q] = job[q]
      /\ job' \in [Procs -> Jobs]
    BY <1>1, <1>2, <1>4, <1>5, <1>6, Zenon
<1>8. TypeOK'
    BY <1>6, <1>7, Zenon DEF FilesInv, TypeOK
<1>9. \A q \in Procs : Local(q)'
  <2>1. Local(p)'
      BY <1>3, <1>4, <1>6, <1>7, Zenon DEF Local, Searching, Opening
  <2>2. Local(c)'
      BY <1>3, <1>5, <1>6, <1>7, Zenon DEF Local, Searching, Opening
  <2>3. \A q \in Procs \ {p, c} : Local(q)'
      BY <1>6, <1>7, Zenon DEF FilesInv, Local
  <2> QED
      BY <2>1, <2>2, <2>3, Zenon
<1>10. \A q \in Procs : Target(q)'
  <2>1. Target(p)'
      BY <1>1, <1>4, <1>6, <1>7, Zenon DEF Target, At, Opening
  <2>2. Target(c)'
      BY <1>1, <1>5, <1>6, <1>7, Zenon DEF Target, At, Opening
  <2>3. \A q \in Procs \ {p, c} : Target(q)'
      BY <1>6, <1>7, Zenon DEF FilesInv, Target, At
  <2> QED
      BY <2>1, <2>2, <2>3, Zenon
<1>11. \A q \in Procs : Named(q)' /\ Typed(q)'
  <2>1. Named(p)' /\ Typed(p)' /\ Named(c)' /\ Typed(c)'
      BY <1>1, <1>4, <1>5, <1>6, <1>7, ZenonT(30) DEF Named, Typed, At
  <2>2. \A q \in Procs \ {p, c} : Named(q)' /\ Typed(q)'
      BY <1>6, <1>7, SMTT(30) DEF FilesInv, Named, Typed, At
  <2> QED
      BY <2>1, <2>2, Zenon
<1>12. ForksRight'
  <2>1. \A q \in Procs : At(q, "none")' => At(q, "none")
      BY <1>1, <1>4, <1>5, <1>7, Zenon DEF At
  <2>2. \A q \in Procs \ {p} : At(q, "fork")' => At(q, "fork") /\ job'[q] = job[q] /\ job[q].child # c
      BY <1>1, <1>5, <1>7, ZenonT(30) DEF At, FilesInv, ForksRight
  <2>3. \A q \in Procs : At(q, "USED") => At(q, "USED")'
      BY <1>1, <1>2, <1>7, Zenon DEF At
  <2>4. At(p, "fork")' /\ job'[p].child = c /\ At(c, "USED")' /\ \A d \in Fds : ofile[c][d] = NULL
      BY <1>1, <1>4, <1>5, <1>7, ZenonT(30) DEF At, FilesInv, ForksRight
  <2>5. \A q \in Procs : At(q, "none")' => \A d \in Fds : ofile'[q][d] = NULL
      BY <1>6, <2>1, Zenon DEF FilesInv, ForksRight
  <2>6. ASSUME NEW q \in Procs, At(q, "fork")'
        PROVE  /\ job'[q].child \in Procs /\ job'[job'[q].child].pc = "USED"
               /\ \A d \in Fds : d >= job'[q].at => ofile'[job'[q].child][d] = NULL
    <3>1. CASE q = p
        BY <1>5, <1>6, <1>7, <2>4, <3>1, Zenon DEF At
    <3>2. CASE q # p
      <4>1. job'[q] = job[q] /\ job[q].child \in Procs /\ At(job[q].child, "USED")
            /\ \A d \in Fds : d >= job[q].at => ofile[job[q].child][d] = NULL
          BY <2>2, <2>6, <3>2, ZenonT(30) DEF FilesInv, ForksRight
      <4> QED
          BY <1>6, <2>3, <4>1, Zenon DEF At
    <3> QED
        BY <3>1, <3>2, Zenon
  <2>7. ASSUME NEW q \in Procs, NEW r \in Procs, At(q, "fork")', At(r, "fork")', q # r
        PROVE  job'[q].child # job'[r].child
      BY <2>2, <2>4, <2>7, SMTT(30) DEF FilesInv, ForksRight
  <2> QED
      BY <2>5, <2>6, <2>7, Zenon DEF ForksRight, At
<1>13. FileCount'
  <2>1. \A q \in Procs : \/ job'[q] = job[q]
                         \/ /\ job'[q].pc \notin {"dup", "close", "openclose"}
                            /\ job[q].pc \notin {"dup", "close", "openclose"}
      BY <1>1, <1>4, <1>5, <1>7, Zenon
  <2> QED
      BY <1>6, <2>1, FilesUncounted, Zenon
<1>14. InodeRefExact'
  <2>1. \A q \in Procs : job'[q].dp = job[q].dp /\ job'[q].ip = job[q].ip
      BY <1>3, <1>4, <1>5, <1>7, ZenonT(30)
  <2> QED
      BY <1>6, <2>1, InodesSame, Zenon DEF FilesInv
<1>15. \A q \in Procs : Locking(q)' = Locking(q)
    BY <1>1, <1>4, <1>5, <1>6, <1>7, Zenon DEF Locking
<1>16. EntriesRight' /\ OwnersRight' /\ FilesRight'
    BY <1>6, <1>15, Zenon DEF FilesInv, EntriesRight, OwnersRight, FilesRight
<1>17. OffsetStable'
    BY <1>4, <1>5, <1>6, <1>7, Zenon DEF FilesInv, OffsetStable, At
<1> QED
    BY <1>8, <1>9, <1>10, <1>11, <1>12, <1>13, <1>14, <1>16, <1>17, Zenon DEF FilesInv

LEMMA ForkFileInv ==
    ASSUME FilesInv, NEW p \in Procs, ForkFile(p)
    PROVE  FilesInv'
<1> DEFINE j == [job[p] EXCEPT !.at = job[p].at + 1]
<1>1. /\ job \in [Procs -> Jobs] /\ job[p] \in Jobs /\ job[p].pc = "fork" /\ Local(p) /\ Target(p)
      /\ Typed(p) /\ ofile \in [Procs -> [Fds -> FileIds \cup {NULL}]] /\ At(p, "fork") /\ FileCount
      /\ FilesRight /\ InodeRefExact
    BY Zenon DEF FilesInv, TypeOK, ForkFile, At
<1>2. PICK c \in Procs : /\ c = job[p].child /\ c # p /\ job[c].pc = "USED"
                         /\ \A d \in Fds : d >= job[p].at => ofile[c][d] = NULL
    BY <1>1, Child, Zenon
<1>3. PICK d \in Fds : d = job[p].at /\ d \in Nat
  <2>1. job[p].at \in Nat /\ job[p].at < NOFILE
      BY <1>1, Zenon DEF Jobs, ForkFile
  <2> QED
      BY <2>1, FilesAssumption DEF Fds
<1>4. PICK f \in FileIds \cup {NULL} : f = ofile[p][d]
    BY <1>1, Zenon
<1>5. /\ ofile' = [ofile EXCEPT ![c][d] = f] /\ Do(p, j) /\ UNCHANGED <<inode, cwd>>
      /\ IF f = NULL THEN UNCHANGED file ELSE filedup(f)
    BY <1>2, <1>3, <1>4, Zenon DEF ForkFile
<1>6. /\ j \in Jobs /\ j.pc = "fork" /\ j.at = d + 1 /\ j.child = c /\ j.dp = job[p].dp
      /\ j.ip = job[p].ip /\ j.f = job[p].f /\ j.path = job[p].path /\ j.op = job[p].op
  <2>1. job[p].at + 1 = d + 1 /\ job[p].at + 1 \in Nat
      BY <1>3
  <2> QED
      BY <1>1, <1>2, <2>1, Zenon DEF Jobs
<1> HIDE DEF j
<1>7. job'[p] = j /\ Others(p) /\ job' \in [Procs -> Jobs]
    BY <1>1, <1>5, <1>6, Zenon DEF Do, Others
<1>8. /\ file' \in [FileIds -> Files]
      /\ \A g \in FileIds : /\ file'[g].type = file[g].type /\ file'[g].ip = file[g].ip
                            /\ file'[g].off = file[g].off /\ file[g].ref \in Nat
                            /\ file'[g].ref = file[g].ref + IF g = f THEN 1 ELSE 0
      /\ FilesRight' /\ \A q \in Procs : Kept(q)
  <2>1. CASE f = NULL
    <3>1. \A g \in FileIds : file[g].ref \in Nat /\ g # f
        BY <2>1, Domains, Zenon DEF FilesInv, TypeOK, Files
    <3>2. file' = file /\ file \in [FileIds -> Files]
        BY <1>5, <2>1, Zenon DEF FilesInv, TypeOK
    <3> QED
        BY <1>1, <3>1, <3>2 DEF FilesRight, Kept
  <2>2. CASE f # NULL
      BY <1>5, <2>2, DupStep, Zenon
  <2> QED
      BY <2>1, <2>2, Zenon
<1>9. /\ ofile' \in [Procs -> [Fds -> FileIds \cup {NULL}]]
      /\ \A q \in Procs \ {c} : ofile'[q] = ofile[q]
      /\ ofile'[c][d] = f /\ \A x \in Fds \ {d} : ofile'[c][x] = ofile[c][x]
    BY <1>1, <1>5, Zenon
<1>10. TypeOK'
    BY <1>5, <1>7, <1>8, <1>9, Zenon DEF FilesInv, TypeOK
<1>11. ASSUME NEW q \in Procs \ {p, c} PROVE Named(q)' /\ Typed(q)' /\ Locking(q)' = Locking(q)
    BY <1>7, <1>8, <1>9, OtherFiles, Zenon DEF Others
<1>12. Locking(p)' = Locking(p) /\ Locking(c)' = Locking(c)
    BY <1>1, <1>2, <1>6, <1>7, Zenon DEF Locking, Others
<1>13. OnlyOf(p)
    BY <1>5, <1>7, <1>11, <1>12, Zenon DEF OnlyOf
<1>14. Sound(p)
    BY <1>5, <1>12, <1>13, SameInodes, Zenon
<1>15. Local(p)' /\ Target(p)'
    BY <1>1, <1>5, <1>6, <1>7, Zenon DEF Local, Target, At, Opening, Searching
<1>16. Named(p)' /\ Typed(p)'
  <2>1. job[p].f = NULL
      BY <1>1, Zenon DEF Local
  <2>2. ASSUME NEW x \in Fds, ofile[p][x] # NULL PROVE file'[ofile[p][x]].type # "NONE"
    <3>1. ofile[p][x] \in FileIds
        BY <1>1, <2>2, Zenon
    <3> QED
        BY <1>1, <1>8, <2>2, <3>1, Zenon DEF Typed
  <2> QED
      BY <1>2, <1>6, <1>7, <1>9, <2>1, <2>2, ZenonT(30) DEF Named, Typed, At
<1>17. Named(c)' /\ Typed(c)'
  <2>1. job'[c] = job[c] /\ job[c].f = NULL /\ Typed(c)
      BY <1>2, <1>7, ZenonT(30) DEF Others, FilesInv, Local
  <2>2. ASSUME NEW x \in Fds, ofile'[c][x] # NULL PROVE file'[ofile'[c][x]].type # "NONE"
    <3>1. ofile'[c][x] \in FileIds /\ (ofile'[c][x] = ofile[c][x] \/ ofile'[c][x] = ofile[p][d])
        BY <1>4, <1>9, <2>2, ZenonT(30)
    <3> QED
        BY <1>1, <1>8, <2>1, <2>2, <3>1, SMTT(30) DEF Typed
  <2> QED
      BY <1>2, <2>1, <2>2, ZenonT(30) DEF Named, Typed, At
<1>18. ForksRight'
  <2>1. \A q \in Procs, l \in Labels : At(q, l)' <=> At(q, l)
      BY <1>1, <1>6, <1>7, Zenon DEF At, Others
  <2>2. \A q \in Procs : job'[q].child = job[q].child
      BY <1>2, <1>6, <1>7, ZenonT(30) DEF Others
  <2>3. \A q \in Procs : At(q, "none")' => \A x \in Fds : ofile'[q][x] = NULL
      BY <1>2, <1>9, <2>1, SMTT(30) DEF FilesInv, ForksRight, At, Labels
  <2>4. ASSUME NEW q \in Procs, At(q, "fork")'
        PROVE  /\ job'[q].child \in Procs /\ job'[job'[q].child].pc = "USED"
               /\ \A x \in Fds : x >= job'[q].at => ofile'[job'[q].child][x] = NULL
    <3>1. /\ job[q].child \in Procs /\ At(job[q].child, "USED")
          /\ \A x \in Fds : x >= job[q].at => ofile[job[q].child][x] = NULL
        BY <2>1, <2>4, Zenon DEF FilesInv, ForksRight, Labels
    <3>2. job'[q].child \in Procs /\ job'[job'[q].child].pc = "USED"
        BY <1>1, <1>6, <1>7, <2>2, <3>1, Zenon DEF At, Others
    <3>3. CASE q = p
      <4>1. ASSUME NEW x \in Fds, x >= d + 1 PROVE ofile'[c][x] = NULL
        <5>1. x \in Nat
            BY Domains, Zenon
        <5>2. x # d /\ x >= d
            BY <1>3, <4>1, <5>1, SMTT(30)
        <5> QED
            BY <1>2, <1>3, <1>9, <5>2, Zenon
      <4> QED
          BY <1>6, <1>7, <3>2, <3>3, <4>1, Zenon
    <3>4. CASE q # p
      <4>1. job[q].child # c /\ job'[q] = job[q]
          BY <1>1, <1>2, <1>7, <2>1, <2>4, <3>4, Zenon DEF FilesInv, ForksRight, Labels, Others
      <4> QED
          BY <1>9, <3>1, <3>2, <4>1, ZenonT(30)
    <3> QED
        BY <3>3, <3>4, Zenon
  <2>5. ASSUME NEW q \in Procs, NEW r \in Procs, At(q, "fork")', At(r, "fork")', q # r
        PROVE  job'[q].child # job'[r].child
      BY <2>1, <2>2, <2>5, Zenon DEF FilesInv, ForksRight, Labels
  <2> QED
      BY <2>3, <2>4, <2>5, Zenon DEF ForksRight, At
<1>19. FileCount'
  <2>1. \A q \in Procs \ {p}, g \in FileIds : Ends(q, g)' <=> Ends(q, g)
      BY <1>7, Zenon DEF Others, Ends
  <2>2. \A q \in Procs, x \in Fds : Uncounted(q, x)' <=> Uncounted(q, x)
      BY <1>1, <1>6, <1>7, Zenon DEF Others, Uncounted, At
  <2>3. \A q \in Procs, x \in Fds, g \in FileIds :
            <<q, x>> # <<c, d>> => (Has(q, x, g)' <=> Has(q, x, g))
      BY <1>9, <2>2, Zenon DEF Has
  <2>4. ASSUME NEW g \in FileIds
        PROVE  (Has(c, d, g)' <=> g = f) /\ ~Has(c, d, g) /\ ~Ends(p, g)' /\ ~Ends(p, g)
    <3>1. ~Uncounted(c, d)' /\ NULL # g /\ ofile[c][d] = NULL
        BY <1>2, <1>3, <1>7, Domains, SMTT(30) DEF Uncounted, At, Others
    <3> QED
        BY <1>1, <1>6, <1>7, <1>9, <3>1, Zenon DEF Has, Ends
  <2>5. ASSUME NEW g \in FileIds
        PROVE  /\ file[g].ref \in Nat
               /\ file'[g].ref = file[g].ref + Ind(Has(c, d, g)') - Ind(Has(c, d, g))
                                 + Ind(Ends(p, g)') - Ind(Ends(p, g))
      BY <1>8, <2>4 DEF Ind
  <2>6. Moves(p, c, d)
      BY <2>1, <2>3, <2>5, Zenon DEF Moves
  <2> QED
      BY <1>1, <2>6, FilesCounted, Zenon
<1>20. InodeRefExact'
  <2>1. \A q \in Procs : job'[q].dp = job[q].dp /\ job'[q].ip = job[q].ip
      BY <1>6, <1>7, Zenon DEF Others
  <2>2. \A g \in FileIds : file'[g].type = file[g].type /\ file'[g].ip = file[g].ip
      BY <1>8, Zenon
  <2> QED
      BY <1>1, <1>5, <2>1, <2>2, InodesSame, Zenon
<1>21. OffsetStable'
  <2>1. ASSUME NEW q \in Procs, job'[q].pc = "read" PROVE file'[job'[q].f].off = job'[q].off
    <3>1. q \notin {p, c} /\ job'[q] = job[q]
        BY <1>2, <1>6, <1>7, <2>1, Zenon DEF Others
    <3> QED
        BY <1>8, <1>9, <2>1, <3>1, OtherFiles, Zenon DEF At
  <2> QED
      BY <2>1, Zenon DEF OffsetStable, At
<1>22. \A q \in Procs : Local(q)' /\ Target(q)' /\ Named(q)' /\ Typed(q)'
    BY <1>11, <1>14, <1>15, <1>16, <1>17, Zenon DEF Sound
<1> QED
    BY <1>8, <1>10, <1>14, <1>18, <1>19, <1>20, <1>21, <1>22, Zenon DEF FilesInv, Sound

LEMMA ForkEndInv ==
    ASSUME FilesInv, NEW p \in Procs, ForkEnd(p)
    PROVE  FilesInv'
<1> DEFINE i == cwd[p]
<1>1. /\ job \in [Procs -> Jobs] /\ job[p] \in Jobs /\ job[p].pc = "fork" /\ Local(p) /\ Target(p)
      /\ Typed(p) /\ cwd \in [Procs -> MaybeInode] /\ At(p, "fork") /\ InodeRefExact
    BY Zenon DEF FilesInv, TypeOK, ForkEnd, At
<1>2. PICK c \in Procs : c = job[p].child /\ c # p /\ job[c].pc = "USED"
    BY <1>1, Child, Zenon
<1>3. /\ job[p].dp = NULL /\ job[p].ip = NULL /\ job[p].f = NULL /\ i # NULL
      /\ job[c].dp = NULL /\ job[c].ip = NULL /\ job[c].f = NULL /\ cwd[c] = NULL
      /\ Local(c) /\ Typed(c)
    BY <1>1, <1>2, Zenon DEF FilesInv, Local, Searching, Opening
<1>4. i \in InodeIds /\ inode[i].ref > 0
    BY <1>3, Held, Zenon
<1>5. /\ inode' = [inode EXCEPT ![i].ref = @ + 1] /\ cwd' = [cwd EXCEPT ![c] = i]
      /\ job' = [job EXCEPT ![p] = User, ![c] = User] /\ UNCHANGED <<file, ofile>>
    BY <1>2, Zenon DEF ForkEnd, idup
<1>6. /\ job'[p] = User /\ job'[c] = User /\ \A q \in Procs \ {p, c} : job'[q] = job[q]
      /\ job' \in [Procs -> Jobs]
      /\ cwd'[p] = i /\ cwd'[c] = i /\ \A q \in Procs \ {c} : cwd'[q] = cwd[q]
      /\ cwd' \in [Procs -> MaybeInode]
    BY <1>1, <1>2, <1>4, <1>5, UserFields, Zenon DEF MaybeInode
<1>7. \A q \in Procs : Locking(q)' = Locking(q)
    BY <1>1, <1>2, <1>5, <1>6, UserFields, ZenonT(30) DEF Locking
<1>8. /\ inode' \in [InodeIds -> Inodes]
      /\ InumsKept /\ EntriesRight' /\ OwnersRight'
      /\ \A k \in InodeIds : inode'[k].ref = inode[k].ref + IF k = i THEN 1 ELSE 0
    BY <1>4, <1>5, <1>7, InodeCounted, Zenon
<1>9. TypeOK'
    BY <1>5, <1>6, <1>8, Zenon DEF FilesInv, TypeOK
<1>10. \A q \in Procs : Local(q)' /\ Target(q)'
  <2>1. ASSUME NEW q \in Procs \ {p, c} PROVE Local(q)' /\ Target(q)'
      BY <1>6, <1>8, OthersKept, Zenon
  <2>2. inode'[i].inum = ROOTINO
      BY <1>1, <1>3, <1>4, <1>8, Zenon DEF InumsKept, Target
  <2>3. ASSUME NEW q \in {p, c} PROVE Local(q)' /\ Target(q)'
    <3>1. job'[q] = User /\ cwd'[q] = i
        BY <1>6, Zenon
    <3>2. Local(q)'
        BY <1>3, <3>1, UserFields, Zenon DEF Local, Searching, Opening
    <3>3. Target(q)'
        BY <2>2, <3>1, UserFields, Zenon DEF Target, At, Opening
    <3> QED
        BY <3>2, <3>3, Zenon
  <2> QED
      BY <2>1, <2>3, Zenon
<1>11. \A q \in Procs : Named(q)' /\ Typed(q)'
  <2>1. ASSUME NEW q \in {p, c} PROVE Named(q)' /\ Typed(q)'
    <3>1. job'[q].pc = "user" /\ job'[q].f = NULL /\ Typed(q)
        BY <1>1, <1>3, <1>6, UserFields, ZenonT(30)
    <3> QED
        BY <1>5, <3>1, Zenon DEF Named, Typed, At
  <2>2. \A q \in Procs \ {p, c} : Named(q)' /\ Typed(q)'
      BY <1>5, <1>6 DEF FilesInv, Named, Typed, At
  <2> QED
      BY <2>1, <2>2, Zenon
<1>12. ForksRight'
  <2>1. \A q \in Procs : job'[q].pc \in {"none", "fork"} => q \notin {p, c} /\ job'[q] = job[q]
      BY <1>6, UserFields, Zenon
  <2>2. ASSUME NEW q \in Procs, job'[q].pc = "fork"
        PROVE  /\ job[q].child \in Procs \ {p, c} /\ job[job[q].child].pc = "USED"
               /\ \A d \in Fds : d >= job[q].at => ofile[job[q].child][d] = NULL
      BY <1>1, <1>2, <2>1, <2>2, ZenonT(30) DEF FilesInv, ForksRight, At
  <2>3. ASSUME NEW q \in Procs, job'[q].pc = "none" PROVE \A d \in Fds : ofile[q][d] = NULL
      BY <2>1, <2>3, SMTT(30) DEF FilesInv, ForksRight, At
  <2>4. ASSUME NEW q \in Procs, NEW r \in Procs, job'[q].pc = "fork", job'[r].pc = "fork", q # r
        PROVE  job'[q].child # job'[r].child
      BY <2>1, <2>4 DEF FilesInv, ForksRight, At
  <2>5. ASSUME NEW q \in Procs, job'[q].pc = "fork"
        PROVE  /\ job'[q].child \in Procs /\ job'[job'[q].child].pc = "USED"
               /\ \A d \in Fds : d >= job'[q].at => ofile'[job'[q].child][d] = NULL
      BY <1>5, <1>6, <2>1, <2>2, <2>5, ZenonT(30)
  <2> QED
      BY <1>5, <2>3, <2>4, <2>5, Zenon DEF ForksRight, At
<1>13. FileCount'
  <2>1. \A q \in Procs : \/ job'[q] = job[q]
                         \/ /\ job'[q].pc \notin {"dup", "close", "openclose"}
                            /\ job[q].pc \notin {"dup", "close", "openclose"}
      BY <1>1, <1>2, <1>6, UserFields, ZenonT(30)
  <2> QED
      BY <1>5, <2>1, FilesUncounted, Zenon
<1>14. InodeRefExact'
  <2>1. \A q \in Procs : job'[q].dp = job[q].dp /\ job'[q].ip = job[q].ip
      BY <1>3, <1>6, UserFields, Zenon
  <2>2. ASSUME NEW k \in InodeIds
        PROVE  inode'[k].ref = inode[k].ref + Mine(job'[p], k) - Mine(job[p], k)
                                            + Ind(cwd'[c] = k) - Ind(cwd[c] = k)
    <3>1. Mine(job'[p], k) = 0 /\ Mine(job[p], k) = 0 /\ NULL # k
        BY <1>3, <2>1, Domains, SMTT(30) DEF Mine, Ind
    <3> QED
        BY <1>3, <1>6, <1>8, <3>1, SMTT(30) DEF Ind, FilesInv, TypeOK, Inodes
  <2>3. \A g \in FileIds : file'[g].type = file[g].type /\ file'[g].ip = file[g].ip
      BY <1>5, Zenon
  <2> QED
      BY <1>1, <1>6, <2>1, <2>2, <2>3, InodesCounted, SMTT(30)
<1>15. OffsetStable' /\ FilesRight'
    BY <1>5, <1>6, UserFields, Zenon DEF FilesInv, OffsetStable, FilesRight, At
<1> QED
    BY <1>8, <1>9, <1>10, <1>11, <1>12, <1>13, <1>14, <1>15, Zenon DEF FilesInv

----------------------------------------------------------------------------
(* The invariant *)

LEMMA FilesInit == Init => FilesInv
<1> SUFFICES ASSUME Init PROVE FilesInv
    BY Zenon
<1>1. 1 \in InodeIds /\ NINODE >= 1
  <2>1. Cardinality(Inums) \in Nat /\ Cardinality(Inums) # 0
      BY FilesAssumption, FS_EmptySet, FS_CardinalityType, Zenon
  <2> QED
      BY <2>1, FilesAssumption DEF InodeIds
<1> DEFINE N == [User EXCEPT !.pc = "none"]
<1>2. N \in Jobs /\ N.pc = "none" /\ N.dp = NULL /\ N.ip = NULL /\ N.f = NULL
    BY UserFields, Zenon DEF User, Jobs, Labels
<1>3. \A p \in Procs : job[p] = IF p = First THEN User ELSE N
    BY Zenon DEF Init
<1> HIDE DEF N
<1>4. \A p \in Procs : /\ job[p] \in Jobs /\ job[p].dp = NULL /\ job[p].ip = NULL /\ job[p].f = NULL
                       /\ job[p].pc = IF p = First THEN "user" ELSE "none"
    BY <1>2, <1>3, UserFields, Zenon
<1>5. \A i \in InodeIds :
          /\ inode[i] \in Inodes /\ inode[i].owner = NULL /\ inode[i].copy = NULL
          /\ inode[i].ref = Ind(i = 1) /\ inode[i].inum = IF i = 1 THEN ROOTINO ELSE NULL
    BY FilesAssumption, Zenon DEF Init, Inodes, Ind
<1>6. \A p \in Procs : cwd[p] = (IF p = First THEN 1 ELSE NULL) /\ \A d \in Fds : ofile[p][d] = NULL
    BY Zenon DEF Init
<1>7. \A f \in FileIds : file[f] = None /\ file[f].ref = 0 /\ file[f].type = "NONE"
    BY Zenon DEF Init, None
<1>8. TypeOK
  <2>1. file \in [FileIds -> Files]
      BY Domains, Zenon DEF Init
  <2>2. inode \in [InodeIds -> Inodes]
      BY <1>5, Zenon DEF Init
  <2>3. ofile \in [Procs -> [Fds -> FileIds \cup {NULL}]]
      BY Zenon DEF Init
  <2>4. cwd \in [Procs -> MaybeInode]
      BY <1>1, Zenon DEF Init, MaybeInode
  <2>5. job \in [Procs -> Jobs]
      BY <1>4, Zenon DEF Init
  <2> QED
      BY <2>1, <2>2, <2>3, <2>4, <2>5, Zenon DEF TypeOK
<1>9. ASSUME NEW p \in Procs PROVE Local(p) /\ Target(p) /\ Named(p) /\ Typed(p)
  <2>1. Local(p)
      BY <1>1, <1>4, <1>6, Domains, Zenon DEF Local, Searching, Opening
  <2>2. Target(p)
      BY <1>1, <1>4, <1>5, <1>6, Zenon DEF Target, At, Opening
  <2>3. Named(p) /\ Typed(p)
      BY <1>4, <1>6, Zenon DEF Named, Typed, At
  <2> QED
      BY <2>1, <2>2, <2>3, Zenon
<1>10. ForksRight
    BY <1>4, <1>6, Zenon DEF ForksRight, At
<1>11. FilesRight
    BY <1>7, Zenon DEF FilesRight
<1>12. FileCount
  <2>1. \A f \in FileIds : Counted(f) = {} /\ Closing(f) = {}
      BY <1>4, <1>6, Domains, Zenon DEF Counted, Closing
  <2> QED
      BY <1>7, <2>1, FS_EmptySet DEF FileCount
<1>13. InodeRefExact
  <2>1. ASSUME NEW i \in InodeIds PROVE inode[i].ref = Refs(i)
    <3>1. Files_(i) = {} /\ Dps(i) = {} /\ Ips(i) = {}
        BY <1>4, <1>7, Domains, Zenon DEF Files_, Dps, Ips
    <3>2. Cwds(i) = IF i = 1 THEN {First} ELSE {}
        BY <1>6, Domains, FilesAssumption, Zenon DEF Cwds
    <3>3. Cardinality({}) = 0 /\ Cardinality({First}) = 1
        BY FS_EmptySet, FS_Singleton, Zenon
    <3> QED
        BY <1>5, <3>1, <3>2, <3>3 DEF Refs, Ind
  <2> QED
      BY <2>1, RefsExact, Zenon
<1>14. EntriesRight
    BY <1>5, FilesAssumption DEF EntriesRight, Ind
<1>15. OwnersRight
  <2>1. \A p \in Procs : Locking(p) = NULL
      BY <1>4, Zenon DEF Locking
  <2> QED
      BY <1>5, <2>1, FilesAssumption, Zenon DEF OwnersRight
<1>16. OffsetStable
    BY <1>4, Zenon DEF OffsetStable, At
<1> QED
    BY <1>8, <1>9, <1>10, <1>11, <1>12, <1>13, <1>14, <1>15, <1>16, Zenon DEF FilesInv

LEMMA FilesNext == FilesInv /\ [Next]_vars => FilesInv'
<1> SUFFICES ASSUME FilesInv, [Next]_vars PROVE FilesInv'
    BY Zenon
<1>1. ASSUME NEW p \in Procs, NEW call \in Calls, namex(p, call[1], call[2]) PROVE FilesInv'
    BY <1>1, NamexInv, Zenon
<1>2. ASSUME NEW p \in Procs, Lookup(p) PROVE FilesInv'
    BY <1>2, LockDirInv, DirlookupInv, PutDirInv, LockInodeInv, PutInv, Zenon DEF Lookup
<1>3. ASSUME NEW p \in Procs, OpenStep(p) PROVE FilesInv'
    BY <1>3, UnlockInv, OpenFileInv, OpenNoFdInv, OpenCloseInv, Zenon DEF OpenStep
<1>4. ASSUME NEW p \in Procs, FdStep(p) PROVE FilesInv'
    BY <1>4, DupCountInv, CloseFileInv, ReadEndInv, StatEndInv, DupInv, CloseInv, FileLockInv, Zenon DEF FdStep
<1>5. ASSUME NEW p \in Procs, ForkStep(p) PROVE FilesInv'
    BY <1>5, ForkFileInv, ForkEndInv, KforkInv, KexitInv, ExitFileInv, ExitEndInv, Zenon DEF ForkStep
<1>6. ASSUME UNCHANGED vars PROVE FilesInv'
  <2>1. UNCHANGED <<file, inode, ofile, cwd, job>>
      BY <1>6, ZenonT(30) DEF vars
  <2>2. TypeOK' /\ ForksRight' /\ FilesRight' /\ InodeRefExact' /\ EntriesRight' /\ OffsetStable'
      BY <2>1, SMTT(30) DEF FilesInv, TypeOK, ForksRight, FilesRight, InodeRefExact, EntriesRight, OffsetStable, At
  <2>3. \A p \in Procs : Local(p)' /\ Target(p)' /\ Named(p)' /\ Typed(p)'
      BY <2>1, ZenonT(30) DEF FilesInv, Local, Target, Named, Typed, At
  <2>4. OwnersRight'
      BY <2>1, Zenon DEF FilesInv, OwnersRight, Locking
  <2>5. FileCount'
      BY <2>1, Zenon DEF FilesInv, FileCount, Counted, Closing, Uncounted, At
  <2> QED
      BY <2>2, <2>3, <2>4, <2>5, Zenon DEF FilesInv
<1> QED
    BY <1>1, <1>2, <1>3, <1>4, <1>5, <1>6, Zenon DEF Next

(* The counts, the locks and the places of every call stay in step, however *)
(* the calls of the processes interleave.                                  *)
THEOREM FilesInvariant == Spec => []FilesInv
    BY FilesInit, FilesNext, PTL DEF Spec

----------------------------------------------------------------------------
(* The new descriptor of each dup() is the one that is not counted yet. *)
LEMMA CountsExact == FilesInv => FileRefExact
<1> SUFFICES ASSUME FilesInv, NEW f \in FileIds
             PROVE  file[f].ref = Count({x \in Procs \X Fds : ofile[x[1]][x[2]] = f})
                      + Count({p \in Procs : job[p].pc \in {"close", "openclose"} /\ job[p].f = f})
                      - Count({p \in Procs : At(p, "dup") /\ job[p].f = f})
    BY Zenon DEF FileRefExact
<1> DEFINE All == {x \in Procs \X Fds : ofile[x[1]][x[2]] = f}
           Dups == {p \in Procs : At(p, "dup") /\ job[p].f = f}
           New == {x \in Procs \X Fds : ofile[x[1]][x[2]] = f /\ Uncounted(x[1], x[2])}
           g == [p \in Dups |-> <<p, job[p].at>>]
<1>1. IsFiniteSet(Dups) /\ IsFiniteSet(New) /\ IsFiniteSet(Counted(f))
  <2>1. Dups \subseteq Procs /\ New \subseteq Procs \X Fds
      BY Zenon
  <2> QED
      BY <2>1, SetsFinite, FdsFinite, FilesAssumption, FS_Subset, ZenonT(30)
<1>2. \A p \in Dups : <<p, job[p].at>> \in New
  <2> SUFFICES ASSUME NEW p \in Dups PROVE <<p, job[p].at>> \in New
      BY Zenon
  <2>1. p \in Procs /\ At(p, "dup") /\ job[p].f = f /\ Named(p)
      BY Zenon DEF FilesInv
  <2>2. job[p].at \in Fds /\ ofile[p][job[p].at] = f
      BY <2>1, Zenon DEF Named
  <2> QED
      BY <2>1, <2>2, Zenon DEF Uncounted
<1>3. \A x \in New : x[1] \in Dups /\ x = <<x[1], job[x[1]].at>>
  <2> SUFFICES ASSUME NEW x \in New PROVE x[1] \in Dups /\ x = <<x[1], job[x[1]].at>>
      BY Zenon
  <2>1. /\ x \in Procs \X Fds /\ x[1] \in Procs /\ ofile[x[1]][x[2]] = f /\ At(x[1], "dup")
        /\ job[x[1]].at = x[2] /\ Named(x[1])
      BY Zenon DEF Uncounted, FilesInv
  <2>2. job[x[1]].f = f
      BY <2>1, Zenon DEF Named
  <2> QED
      BY <2>1, <2>2
<1>4. g \in Bijection(Dups, New)
  <2> HIDE DEF Dups, New
  <2>1. g \in [Dups -> New]
      BY <1>2, Zenon
  <2>2. \A a, b \in Dups : g[a] = g[b] => a = b
      BY Zenon
  <2>3. \A t \in New : \E s \in Dups : g[s] = t
      BY <1>3, Zenon
  <2> HIDE DEF g
  <2> QED
      BY <2>1, <2>2, <2>3, Zenon DEF Bijection, Injection, IsInjective, Surjection
<1>5. Cardinality(New) = Cardinality(Dups)
  <2> HIDE DEF g, Dups, New
  <2>1. ExistsBijection(Dups, New)
      BY <1>4, Zenon DEF ExistsBijection
  <2> QED
      BY <1>1, <2>1, FS_Bijection, Zenon
<1>6. All = Counted(f) \cup New /\ Counted(f) \cap New = {}
    BY Zenon DEF Counted
<1>7. Cardinality(All) = Cardinality(Counted(f)) + Cardinality(New)
  <2> HIDE DEF All, New
  <2>1. Cardinality(Counted(f) \cup New) = Cardinality(Counted(f)) + Cardinality(New)
                                          - Cardinality(Counted(f) \cap New)
      BY <1>1, FS_Union, Zenon
  <2>2. Cardinality(Counted(f) \cap New) = 0 /\ Cardinality(New) \in Nat
      BY <1>1, <1>6, FS_EmptySet, FS_CardinalityType, Zenon
  <2> QED
      BY <1>6, <2>1, <2>2, SetsCounted, SMTT(30)
<1>8. file[f].ref = Cardinality(Counted(f)) + Cardinality(Closing(f))
    BY Zenon DEF FilesInv, FileCount
<1>9. Cardinality(Dups) \in Nat
    BY <1>1, FS_CardinalityType, Zenon
<1>10. file[f].ref = Cardinality(All) + Cardinality(Closing(f)) - Cardinality(Dups)
  <2> HIDE DEF All, New, Dups
  <2> QED
      BY <1>5, <1>7, <1>8, <1>9, SetsCounted, SMTT(30)
<1> QED
    BY <1>10, Zenon DEF Count, Closing

(* fileclose() frees a file when the last descriptor of it goes, in        *)
(* whatever process, and not before.                                       *)
THEOREM FileCountsExact == Spec => []FileRefExact
    BY FilesInvariant, CountsExact, PTL

(* iput() frees an entry of the inode table when the last open file, system *)
(* call and current directory have let go of it.                           *)
THEOREM InodeCountsExact == Spec => []InodeRefExact
<1>1. FilesInv => InodeRefExact
    BY Zenon DEF FilesInv
<1> QED
    BY <1>1, FilesInvariant, PTL

LEMMA HoldersRight == FilesInv => HolderHasInode
<1> SUFFICES ASSUME FilesInv, NEW p \in Procs, NEW i, i = Locking(p), i # NULL
             PROVE  /\ inode[i].owner = p /\ inode[i].ref > 0
                    /\ inode[i].copy = inode[i].inum
                    /\ \A q \in Procs \ {p} :
                           Locking(q) # NULL => inode[Locking(q)].inum # inode[i].inum
                    /\ job[p].pc \in {"open", "exec"} =>
                           inode[i].inum = IF job[p].path = <<>> THEN ROOTINO
                                           ELSE Head(job[p].path)
    BY Zenon DEF HolderHasInode
<1>1. i \in InodeIds /\ inode[i].ref > 0 /\ inode[i].owner = p
    BY LockedHeld, Zenon DEF FilesInv, OwnersRight
<1>2. inode[i].copy = inode[i].inum
    BY <1>1, Zenon DEF FilesInv, OwnersRight, EntriesRight
<1>3. ASSUME NEW q \in Procs \ {p}, Locking(q) # NULL PROVE inode[Locking(q)].inum # inode[i].inum
  <2>1. Locking(q) \in InodeIds /\ inode[Locking(q)].ref > 0 /\ inode[Locking(q)].owner = q
      BY <1>3, LockedHeld, Zenon DEF FilesInv, OwnersRight
  <2> QED
      BY <1>1, <2>1, Zenon DEF FilesInv, EntriesRight
<1>4. ASSUME job[p].pc \in {"open", "exec"}
      PROVE  inode[i].inum = IF job[p].path = <<>> THEN ROOTINO ELSE Head(job[p].path)
    BY <1>4, Zenon DEF FilesInv, Locking, Target, Opening
<1> QED
    BY <1>1, <1>2, <1>3, <1>4, Zenon

(* ilock() and iunlock() never panic, and open() and exec() have locked    *)
(* what their path names.                                                  *)
THEOREM HoldersHaveInodes == Spec => []HolderHasInode
    BY FilesInvariant, HoldersRight, PTL

(* Processes that share a file never read the same bytes of it. *)
THEOREM OffsetsStable == Spec => []OffsetStable
<1>1. FilesInv => OffsetStable
    BY Zenon DEF FilesInv
<1> QED
    BY <1>1, FilesInvariant, PTL
=============================================================================
