--------------------------- MODULE BufCacheProof ----------------------------
(***************************************************************************)
(* Proofs about BufCache for any number of buffers, any finite number of   *)
(* processes and any set of blocks: the counts and contents of buffers,    *)
(* and that the cache implements BlockLocks.                               *)
(***************************************************************************)
EXTENDS BufCache, FiniteSetTheorems, TLAPS

Users(x) == {p \in Procs : b[p] = x}

(* A process has a buffer, of the block it wants, from bget() to brelse(). *)
Placed(p) ==
    IF pc[p] \in Holding
    THEN b[p] \in Bufs /\ want[p] \in Blocks /\ blockno[b[p]] = want[p]
    ELSE b[p] = NULL

(* The sleep-lock of a buffer is with the process that is reading it. *)
OwnersRight ==
    /\ \A p \in Procs : pc[p] \in Locked => owner[b[p]] = p
    /\ \A x \in Bufs : owner[x] # NULL => pc[owner[x]] \in Locked /\ b[owner[x]] = x

(* A valid buffer has the contents of its block, and a transfer under way  *)
(* is for the block of its buffer.                                         *)
ContentsRight ==
    /\ \A x \in Bufs : valid[x] = TRUE => data[x] = blockno[x]
    /\ \A p \in Procs : pc[p] = "io" => sector[p] = want[p]
    /\ \A p \in Procs : pc[p] = "have" => valid[b[p]] = TRUE

(* When bget() panics, every buffer has a user. *)
Full == (\E p \in Procs : pc[p] = "panic") => \A x \in Bufs : \E q \in Procs : b[q] = x

BufInv ==
    /\ \A p \in Procs : Placed(p)
    /\ RefcntExact
    /\ OneBufferPerBlock
    /\ OwnersRight
    /\ ContentsRight
    /\ SleeperHasOwner
    /\ Full

----------------------------------------------------------------------------
(* Users and counts *)

LEMMA NullNoBuf == NULL \notin Bufs
    BY BufCacheAssumption DEF Bufs

LEMMA UsersFinite == \A x : IsFiniteSet(Users(x)) /\ Cardinality(Users(x)) \in Nat
<1>1. \A x : Users(x) \subseteq Procs
    BY DEF Users
<1> QED
    BY <1>1, BufCacheAssumption, FS_Subset, FS_CardinalityType

(* A buffer that bget() may recycle has no user, *)
LEMMA UnusedFree ==
    ASSUME TypeOK, BufInv, NEW x \in Bufs, refcnt[x] = 0
    PROVE  /\ \A p \in Procs : b[p] # x
           /\ owner[x] = NULL
<1>1. Cardinality(Users(x)) = 0
    BY DEF BufInv, RefcntExact, Users
<1>2. Users(x) = {}
    BY <1>1, UsersFinite, FS_EmptySet
<1>3. \A p \in Procs : b[p] # x
    BY <1>2 DEF Users
<1> QED
    BY <1>3 DEF BufInv, OwnersRight, TypeOK

(* and one that is counted has one. *)
LEMMA UsedHasUser ==
    ASSUME TypeOK, BufInv, NEW x \in Bufs, refcnt[x] # 0
    PROVE  \E p \in Procs : b[p] = x
<1>1. Users(x) # {}
    BY FS_EmptySet DEF BufInv, RefcntExact, Users
<1> QED
    BY <1>1 DEF Users

(* A process that takes a buffer is one more user of it, *)
LEMMA CountAdded ==
    ASSUME TypeOK, BufInv, NEW p \in Procs, NEW x \in Bufs, b[p] = NULL,
           b' = [b EXCEPT ![p] = x],
           \A y \in Bufs : refcnt'[y] = IF y = x THEN refcnt[x] + 1 ELSE refcnt[y]
    PROVE  RefcntExact'
<1>0. NULL \notin Bufs /\ \A q \in Procs : b'[q] = IF q = p THEN x ELSE b[q]
    BY NullNoBuf DEF TypeOK
<1>1. Users(x)' = Users(x) \cup {p} /\ p \notin Users(x)
    BY <1>0 DEF Users
<1>2. Cardinality(Users(x) \cup {p}) = Cardinality(Users(x)) + 1
    BY <1>1, UsersFinite, FS_AddElement
<1>3. ASSUME NEW y \in Bufs, y # x PROVE Users(y)' = Users(y)
    BY <1>0, <1>3 DEF Users
<1>4. \A y \in Bufs : refcnt[y] = Cardinality(Users(y))
    BY DEF BufInv, RefcntExact, Users
<1>5. \A y \in Bufs : refcnt'[y] = Cardinality(Users(y)')
    BY <1>1, <1>2, <1>3, <1>4
<1> QED
    BY <1>5 DEF RefcntExact, Users

(* and one less when it lets it go. *)
LEMMA CountRemoved ==
    ASSUME TypeOK, BufInv, NEW p \in Procs, b[p] \in Bufs, b' = [b EXCEPT ![p] = NULL],
           \A y \in Bufs : refcnt'[y] = IF y = b[p] THEN refcnt[y] - 1 ELSE refcnt[y]
    PROVE  RefcntExact'
<1>0. NULL \notin Bufs /\ \A q \in Procs : b'[q] = IF q = p THEN NULL ELSE b[q]
    BY NullNoBuf DEF TypeOK
<1>1. PICK x \in Bufs : x = b[p]
    OBVIOUS
<1>2. Users(x)' = Users(x) \ {p} /\ p \in Users(x)
    BY <1>0, <1>1 DEF Users
<1>3. Cardinality(Users(x) \ {p}) = Cardinality(Users(x)) - 1
    BY <1>2, UsersFinite, FS_RemoveElement
<1>4. ASSUME NEW y \in Bufs, y # x PROVE Users(y)' = Users(y)
    BY <1>0, <1>1, <1>4 DEF Users
<1>5. \A y \in Bufs : refcnt[y] = Cardinality(Users(y))
    BY DEF BufInv, RefcntExact, Users
<1>6. \A y \in Bufs : refcnt'[y] = Cardinality(Users(y)')
    BY <1>1, <1>2, <1>3, <1>4, <1>5
<1> QED
    BY <1>6 DEF RefcntExact, Users

----------------------------------------------------------------------------
(* Types *)

(* brelse() keeps the list a permutation. *)
LEMMA MovedType ==
    ASSUME TypeOK, NEW x \in Bufs, MoveToFront(x)
    PROVE  /\ list' \in [Bufs -> Bufs]
           /\ \A l, m \in Bufs : list'[l] = list'[m] => l = m
<1> PICK n \in Bufs : /\ list[n] = x
                      /\ list' = [l \in Bufs |-> IF l = 1 THEN x
                                                 ELSE IF l <= n THEN list[l - 1]
                                                 ELSE list[l]]
    BY DEF MoveToFront
<1>1. \A l \in Bufs : l # 1 => l - 1 \in Bufs
    BY BufCacheAssumption DEF Bufs
<1>2. list \in [Bufs -> Bufs] /\ \A l, m \in Bufs : list[l] = list[m] => l = m
    BY DEF TypeOK
<1>3. list' \in [Bufs -> Bufs]
    BY <1>1, <1>2
<1>4. ASSUME NEW l \in Bufs, NEW m \in Bufs, list'[l] = list'[m] PROVE l = m
  <2> DEFINE From(k) == IF k = 1 THEN n ELSE IF k <= n THEN k - 1 ELSE k
  <2>1. \A k \in Bufs : From(k) \in Bufs /\ list'[k] = list[From(k)]
      BY <1>1
  <2>2. From(l) = From(m)
      BY <1>2, <1>4, <2>1
  <2> QED
      BY <2>2 DEF Bufs
<1> QED
    BY <1>3, <1>4

(* Every step keeps the types. *)
LEMMA TypeStep == ASSUME TypeOK, BufInv, [Next]_vars PROVE TypeOK'
<1> USE DEF TypeOK, bufvars, Holding, Goto
<1>1. ASSUME NEW p \in Procs, NEW k \in Blocks, bget(p, k) PROVE TypeOK'
  <2>1. CASE bget_hit(p, k)
      BY <2>1 DEF bget_hit
  <2>2. CASE bget_miss(p, k)
      BY <2>2 DEF bget_miss, Recycle
  <2>3. CASE bget_panic(p, k)
      BY <2>3 DEF bget_panic
  <2> QED
      BY <1>1, <2>1, <2>2, <2>3 DEF bget
<1>2. ASSUME NEW p \in Procs, AcquireFree(p) \/ AcquireHeld(p) \/ Kill(p) \/ bread_cached(p)
      PROVE  TypeOK'
    BY <1>2 DEF AcquireFree, AcquireHeld, Kill, bread_cached
<1>3. ASSUME NEW p \in Procs, bread_start(p) PROVE TypeOK'
    BY <1>3 DEF bread_start, BufInv, Placed
<1>4. ASSUME NEW p \in Procs, bread_done(p) PROVE TypeOK'
    BY <1>4 DEF bread_done
<1>5. ASSUME NEW p \in Procs, releasesleep(p) PROVE TypeOK'
    BY <1>5 DEF releasesleep, Wakeup
<1>6. ASSUME NEW p \in Procs, brelse(p) PROVE TypeOK'
  <2>1. b[p] \in Bufs
      BY <1>6 DEF brelse, BufInv, Placed
  <2>2. refcnt[b[p]] # 0
      BY <2>1, UnusedFree
  <2>3. /\ list' \in [Bufs -> Bufs]
        /\ \A l, m \in Bufs : list'[l] = list'[m] => l = m
      BY <1>6, <2>1, MovedType DEF brelse
  <2>4. refcnt' \in [Bufs -> Nat]
      BY <1>6, <2>1, <2>2 DEF brelse
  <2> QED
      BY <1>6, <2>3, <2>4 DEF brelse
<1>7. CASE UNCHANGED vars
    BY <1>7 DEF vars
<1> QED
    BY <1>1, <1>2, <1>3, <1>4, <1>5, <1>6, <1>7 DEF Next, Step

----------------------------------------------------------------------------
(* The invariant, one lemma for each step *)

(* A process counts itself on the buffer x of block k. *)
LEMMA HitStep ==
    ASSUME TypeOK, TypeOK', BufInv, NEW p \in Procs, NEW k \in Blocks, bget_hit(p, k)
    PROVE  BufInv'
<1> PICK x \in Bufs : /\ blockno[x] = k
                      /\ refcnt' = [refcnt EXCEPT ![x] = @ + 1]
                      /\ b' = [b EXCEPT ![p] = x]
    BY DEF bget_hit, FirstWith
<1>0. /\ pc[p] = "idle" /\ LockFree
      /\ want' = [want EXCEPT ![p] = k] /\ pc' = [pc EXCEPT ![p] = "lock"]
      /\ UNCHANGED <<list, blockno, valid, data, owner, sector>>
    BY DEF bget_hit, Goto
<1>1. \A q \in Procs : Placed(q)'
    BY <1>0 DEF TypeOK, BufInv, Placed, Holding
<1>2. RefcntExact'
  <2>1. b[p] = NULL
      BY <1>0 DEF BufInv, Placed, Holding
  <2>2. \A y \in Bufs : refcnt'[y] = IF y = x THEN refcnt[x] + 1 ELSE refcnt[y]
      BY DEF TypeOK
  <2> QED
      BY <2>1, <2>2, CountAdded
<1> USE DEF TypeOK
<1>3. OneBufferPerBlock'
    BY <1>0 DEF BufInv, OneBufferPerBlock
<1>4. OwnersRight'
    BY <1>0 DEF BufInv, OwnersRight, Locked
<1>5. ContentsRight'
    BY <1>0 DEF BufInv, ContentsRight
<1>6. SleeperHasOwner' /\ Full'
    BY <1>0 DEF BufInv, SleeperHasOwner, Full, LockFree
<1> QED
    BY <1>1, <1>2, <1>3, <1>4, <1>5, <1>6 DEF BufInv

(* An unused buffer is recycled for it. *)
LEMMA MissStep ==
    ASSUME TypeOK, TypeOK', BufInv, NEW p \in Procs, NEW k \in Blocks, bget_miss(p, k)
    PROVE  BufInv'
<1> PICK x \in Bufs : refcnt[x] = 0 /\ Recycle(x, k) /\ b' = [b EXCEPT ![p] = x]
    BY DEF bget_miss, LastUnused
<1>0. /\ pc[p] = "idle" /\ LockFree
      /\ want' = [want EXCEPT ![p] = k] /\ pc' = [pc EXCEPT ![p] = "lock"]
      /\ \A y \in Bufs : blockno[y] # k
      /\ blockno' = [blockno EXCEPT ![x] = k]
      /\ valid' = [valid EXCEPT ![x] = FALSE]
      /\ refcnt' = [refcnt EXCEPT ![x] = 1]
      /\ UNCHANGED <<list, data, owner, sector>>
    BY DEF bget_miss, Goto, Recycle, Cached
<1>u. owner[x] = NULL /\ \A q \in Procs : b[q] # x
    BY UnusedFree
<1>1. \A q \in Procs : Placed(q)'
    BY <1>0, <1>u DEF TypeOK, BufInv, Placed, Holding
<1>2. RefcntExact'
  <2>1. b[p] = NULL
      BY <1>0 DEF BufInv, Placed, Holding
  <2>2. \A y \in Bufs : refcnt'[y] = IF y = x THEN refcnt[x] + 1 ELSE refcnt[y]
      BY <1>0 DEF TypeOK
  <2> QED
      BY <2>1, <2>2, CountAdded
<1> USE DEF TypeOK
<1>3. OneBufferPerBlock'
    BY <1>0 DEF BufInv, OneBufferPerBlock
<1>4. OwnersRight'
    BY <1>0, <1>u DEF BufInv, OwnersRight, Locked
<1>5. ContentsRight'
  <2>1. \A q \in Procs : pc'[q] \in {"io", "have"} => q # p /\ pc[q] = pc'[q] /\ b'[q] = b[q] /\ b[q] \in Bufs
      BY <1>0 DEF BufInv, Placed, Holding
  <2>2. \A q \in Procs : pc'[q] = "have" => valid'[b'[q]] = TRUE
      BY <1>0, <1>u, <2>1 DEF BufInv, ContentsRight
  <2> QED
      BY <1>0, <2>1, <2>2 DEF BufInv, ContentsRight
<1>6. SleeperHasOwner' /\ Full'
    BY <1>0 DEF BufInv, SleeperHasOwner, Full, LockFree
<1> QED
    BY <1>1, <1>2, <1>3, <1>4, <1>5, <1>6 DEF BufInv

(* No buffer is free: each has a user. *)
LEMMA PanicStep ==
    ASSUME TypeOK, TypeOK', BufInv, NEW p \in Procs, NEW k \in Blocks, bget_panic(p, k)
    PROVE  BufInv'
<1> USE DEF TypeOK, bget_panic, bufvars, Goto
<1>1. (\A q \in Procs : Placed(q)) /\ RefcntExact' /\ OneBufferPerBlock'
    BY DEF BufInv, RefcntExact, OneBufferPerBlock
<1>2. \A q \in Procs : Placed(q)'
    BY <1>1 DEF Placed, Holding
<1>3. OwnersRight' /\ ContentsRight' /\ SleeperHasOwner'
    BY DEF BufInv, OwnersRight, ContentsRight, SleeperHasOwner, Locked
<1>4. Full'
    BY UsedHasUser DEF Full
<1> QED
    BY <1>1, <1>2, <1>3, <1>4 DEF BufInv

(* The sleep-lock is taken, or waited for. *)
LEMMA AcquireStep ==
    ASSUME TypeOK, TypeOK', BufInv, NEW p \in Procs, AcquireFree(p) \/ AcquireHeld(p)
    PROVE  BufInv'
<1> USE DEF TypeOK, bufvars, Goto
<1>0. b[p] \in Bufs /\ pc[p] \in {"lock", "wake"}
    BY DEF AcquireFree, AcquireHeld, BufInv, Placed, Holding
<1>1. RefcntExact' /\ OneBufferPerBlock'
    BY DEF AcquireFree, AcquireHeld, BufInv, RefcntExact, OneBufferPerBlock
<1>2. \A q \in Procs : Placed(q)'
    BY <1>0 DEF AcquireFree, AcquireHeld, BufInv, Placed, Holding
<1>3. ContentsRight' /\ Full'
    BY <1>0 DEF AcquireFree, AcquireHeld, BufInv, ContentsRight, Full
<1>4. OwnersRight' /\ SleeperHasOwner'
  <2>1. CASE AcquireFree(p)
    <3>1. OwnersRight'
        BY <1>0, <2>1, BufCacheAssumption DEF AcquireFree, BufInv, OwnersRight, Locked
    <3>2. SleeperHasOwner'
        BY <1>0, <2>1, BufCacheAssumption DEF AcquireFree, BufInv, SleeperHasOwner
    <3> QED
        BY <3>1, <3>2
  <2>2. CASE AcquireHeld(p)
    <3>1. OwnersRight'
        BY <1>0, <2>2 DEF AcquireHeld, BufInv, OwnersRight, Locked
    <3>2. owner[b[p]] \in Procs /\ owner[b[p]] # p
        BY <1>0, <2>2 DEF AcquireHeld, BufInv, OwnersRight, Locked
    <3>3. SleeperHasOwner'
        BY <1>0, <2>2, <3>2 DEF AcquireHeld, BufInv, SleeperHasOwner
    <3> QED
        BY <3>1, <3>3
  <2> QED
      BY <2>1, <2>2
<1> QED
    BY <1>1, <1>2, <1>3, <1>4 DEF BufInv

(* A sleeper is woken by a kill. *)
LEMMA KillStep == ASSUME TypeOK, TypeOK', BufInv, NEW p \in Procs, Kill(p) PROVE BufInv'
<1> USE DEF TypeOK, bufvars, Goto
<1>1. RefcntExact' /\ OneBufferPerBlock'
    BY DEF Kill, BufInv, RefcntExact, OneBufferPerBlock
<1>2. \A q \in Procs : Placed(q)'
    BY DEF Kill, BufInv, Placed, Holding
<1>3. ContentsRight' /\ Full'
    BY DEF Kill, BufInv, ContentsRight, Full
<1>4. OwnersRight' /\ SleeperHasOwner'
    BY DEF Kill, BufInv, OwnersRight, SleeperHasOwner, Locked
<1> QED
    BY <1>1, <1>2, <1>3, <1>4 DEF BufInv

(* The buffer is read, or was valid. *)
LEMMA ReadStep ==
    ASSUME TypeOK, TypeOK', BufInv, NEW p \in Procs,
           bread_cached(p) \/ bread_start(p) \/ bread_done(p)
    PROVE  BufInv'
<1> USE DEF TypeOK, bufvars, Goto
<1>0. b[p] \in Bufs /\ pc[p] \in {"locked", "io"} /\ owner[b[p]] = p /\ blockno[b[p]] = want[p]
    BY DEF bread_cached, bread_start, bread_done, BufInv, Placed, Holding, OwnersRight, Locked
<1>1. RefcntExact' /\ OneBufferPerBlock'
    BY DEF bread_cached, bread_start, bread_done, BufInv, RefcntExact, OneBufferPerBlock
<1>2. \A q \in Procs : Placed(q)'
    BY <1>0 DEF bread_cached, bread_start, bread_done, BufInv, Placed, Holding
<1>3. OwnersRight' /\ SleeperHasOwner' /\ Full'
    BY <1>0 DEF bread_cached, bread_start, bread_done, BufInv, OwnersRight, SleeperHasOwner, Full, Locked
<1>4. ContentsRight'
  <2>1. CASE bread_cached(p)
      BY <1>0, <2>1 DEF bread_cached, BufInv, ContentsRight
  <2>2. CASE bread_start(p)
      BY <1>0, <2>2 DEF bread_start, BufInv, ContentsRight
  <2>3. CASE bread_done(p)
      BY <1>0, <2>3 DEF bread_done, BufInv, ContentsRight
  <2> QED
      BY <2>1, <2>2, <2>3
<1> QED
    BY <1>1, <1>2, <1>3, <1>4 DEF BufInv

(* The sleep-lock is released, and those that wait for it are woken. *)
LEMMA ReleaseStep ==
    ASSUME TypeOK, TypeOK', BufInv, NEW p \in Procs, releasesleep(p)
    PROVE  BufInv'
<1> USE DEF TypeOK, bufvars
<1>0. b[p] \in Bufs /\ pc[p] = "have" /\ owner[b[p]] = p
    BY DEF releasesleep, BufInv, Placed, Holding, OwnersRight, Locked
<1>1. RefcntExact' /\ OneBufferPerBlock'
    BY DEF releasesleep, BufInv, RefcntExact, OneBufferPerBlock
<1>2. \A q \in Procs : Placed(q)'
    BY <1>0 DEF releasesleep, Wakeup, BufInv, Placed, Holding
<1>3. OwnersRight'
    BY <1>0, BufCacheAssumption DEF releasesleep, Wakeup, BufInv, OwnersRight, Locked
<1>4. SleeperHasOwner'
    BY <1>0 DEF releasesleep, Wakeup, BufInv, SleeperHasOwner, Placed, Holding
<1>5. ContentsRight' /\ Full'
    BY <1>0 DEF releasesleep, Wakeup, BufInv, ContentsRight, Full
<1> QED
    BY <1>1, <1>2, <1>3, <1>4, <1>5 DEF BufInv

(* The reference is given up. *)
LEMMA BrelseStep ==
    ASSUME TypeOK, TypeOK', BufInv, NEW p \in Procs, brelse(p)
    PROVE  BufInv'
<1>0. b[p] \in Bufs /\ pc[p] = "release"
    BY DEF brelse, BufInv, Placed, Holding
<1>1. RefcntExact'
  <2>1. \A y \in Bufs : refcnt'[y] = IF y = b[p] THEN refcnt[y] - 1 ELSE refcnt[y]
      BY <1>0 DEF brelse, TypeOK
  <2> QED
      BY <1>0, <2>1, CountRemoved DEF brelse
<1> USE DEF TypeOK, Goto
<1>2. OneBufferPerBlock'
    BY DEF brelse, BufInv, OneBufferPerBlock
<1>3. \A q \in Procs : Placed(q)'
    BY <1>0 DEF brelse, BufInv, Placed, Holding
<1>4. OwnersRight'
    BY <1>0 DEF brelse, BufInv, OwnersRight, Locked
<1>5. ContentsRight' /\ SleeperHasOwner'
    BY <1>0 DEF brelse, BufInv, ContentsRight, SleeperHasOwner
<1>6. Full'
    BY <1>0 DEF brelse, LockFree, Full
<1> QED
    BY <1>1, <1>2, <1>3, <1>4, <1>5, <1>6 DEF BufInv

LEMMA InvStep == ASSUME TypeOK, TypeOK', BufInv, [Next]_vars PROVE BufInv'
<1>1. CASE UNCHANGED vars
    BY <1>1
    DEF vars, bufvars, BufInv, Placed, RefcntExact, OneBufferPerBlock, OwnersRight, ContentsRight,
        SleeperHasOwner, Full
<1> QED
    BY <1>1, HitStep, MissStep, PanicStep, AcquireStep, KillStep, ReadStep, ReleaseStep, BrelseStep
    DEF Next, Step, bget

LEMMA InvInit == Init => TypeOK /\ BufInv
<1> SUFFICES ASSUME Init PROVE TypeOK /\ BufInv
    OBVIOUS
<1>1. TypeOK
    BY BufCacheAssumption DEF Init, TypeOK, Bufs
<1>2. RefcntExact
  <2>1. ASSUME NEW x \in Bufs PROVE {p \in Procs : b[p] = x} = {}
      BY NullNoBuf DEF Init
  <2> QED
      BY <2>1, FS_EmptySet DEF Init, RefcntExact
<1> QED
    BY <1>1, <1>2
    DEF Init, BufInv, Placed, Holding, OneBufferPerBlock, OwnersRight, Locked, ContentsRight,
        SleeperHasOwner, Full

(* The invariant holds in every reachable state. *)
THEOREM BufInductive == Spec => [](TypeOK /\ BufInv)
<1>1. TypeOK /\ BufInv /\ [Next]_vars => (TypeOK /\ BufInv)'
    BY TypeStep, InvStep
<1> QED
    BY InvInit, <1>1, PTL DEF Spec

(* No block is cached twice. *)
THEOREM CachedOnce == Spec => []OneBufferPerBlock
<1>1. BufInv => OneBufferPerBlock
    BY DEF BufInv
<1> QED
    BY BufInductive, <1>1, PTL

(* bread() returns the block that was asked for, locked and filled. *)
THEOREM ReadSafety == Spec => []HolderHasBlock
<1>1. TypeOK /\ BufInv => HolderHasBlock
  <2> SUFFICES ASSUME TypeOK, BufInv, NEW p \in Procs, pc[p] = "have"
               PROVE  /\ owner[b[p]] = p
                      /\ blockno[b[p]] = want[p]
                      /\ valid[b[p]] /\ data[b[p]] = want[p]
      BY DEF HolderHasBlock
  <2>1. b[p] \in Bufs /\ blockno[b[p]] = want[p]
      BY DEF BufInv, Placed, Holding
  <2>2. owner[b[p]] = p
      BY DEF BufInv, OwnersRight, Locked
  <2>3. valid[b[p]] = TRUE /\ data[b[p]] = want[p]
      BY <2>1 DEF BufInv, ContentsRight
  <2> QED
      BY <2>1, <2>2, <2>3
<1> QED
    BY BufInductive, <1>1, PTL

(* Counts are exact, and a process sleeps only for a buffer that is held. *)
THEOREM CountSafety == Spec => [](RefcntExact /\ SleeperHasOwner)
<1>1. BufInv => RefcntExact /\ SleeperHasOwner
    BY DEF BufInv
<1> QED
    BY BufInductive, <1>1, PTL

(* bget() panics only when there are as many users as buffers. *)
THEOREM PanicSafety == Spec => []PanicOnlyWhenFull
<1>1. TypeOK /\ BufInv => PanicOnlyWhenFull
  <2> SUFFICES ASSUME TypeOK, BufInv, NEW p \in Procs, pc[p] = "panic"
               PROVE  Cardinality({q \in Procs : b[q] # NULL}) >= NBUF
      BY DEF PanicOnlyWhenFull
  <2> DEFINE T == {q \in Procs : b[q] # NULL}
  <2> DEFINE f == [q \in T |-> b[q]]
  <2>1. f \in [T -> Bufs]
      BY DEF TypeOK
  <2>2. \A x \in Bufs : \E q \in T : f[q] = x
      BY NullNoBuf DEF BufInv, Full
  <2>3. f \in Surjection(T, Bufs)
      BY <2>1, <2>2 DEF Surjection
  <2>4. IsFiniteSet(T) /\ Cardinality(T) \in Nat
      BY BufCacheAssumption, FS_Subset, FS_CardinalityType
  <2>5. Cardinality(Bufs) <= Cardinality(T)
      BY <2>3, <2>4, FS_Surjection
  <2>6. Cardinality(Bufs) = NBUF
      BY BufCacheAssumption, FS_Interval DEF Bufs
  <2> QED
      BY <2>4, <2>5, <2>6, BufCacheAssumption
<1> QED
    BY BufInductive, <1>1, PTL

----------------------------------------------------------------------------
(* The refinement *)

(* The holder of a block is the owner of its buffer, if it has one. *)
LEMMA HolderCached ==
    ASSUME OneBufferPerBlock, NEW x \in Bufs, blockno[x] \in Blocks
    PROVE  HolderOf(blockno[x]) = owner[x]
<1>0. \A y \in Bufs : blockno[y] = blockno[x] => y = x
    BY BufCacheAssumption DEF OneBufferPerBlock
<1>1. CASE owner[x] = NULL
    BY <1>0, <1>1 DEF HolderOf
<1>2. CASE owner[x] # NULL
    BY <1>0, <1>2 DEF HolderOf
<1> QED
    BY <1>1, <1>2

(* A step that changes neither the owners nor the block of an owned buffer *)
(* changes no holder.                                                      *)
LEMMA HoldersSame ==
    ASSUME UNCHANGED owner,
           \A x \in Bufs : blockno'[x] = blockno[x] \/ owner[x] = NULL
    PROVE  UNCHANGED Holders
<1>1. ASSUME NEW k \in Blocks PROVE HolderOf(k)' = HolderOf(k)
  <2>1. \A x \in Bufs : blockno'[x] = k /\ owner'[x] # NULL <=> blockno[x] = k /\ owner[x] # NULL
      OBVIOUS
  <2> QED
      BY <2>1 DEF HolderOf
<1> QED
    BY <1>1 DEF Holders

(* A sleep-lock that is taken or released is that of its block. *)
LEMMA HoldersSet ==
    ASSUME TypeOK, OneBufferPerBlock, UNCHANGED blockno,
           NEW x \in Bufs, blockno[x] \in Blocks, NEW v, owner' = [owner EXCEPT ![x] = v]
    PROVE  Holders' = [Holders EXCEPT ![blockno[x]] = v]
<1>0. \A y \in Bufs : blockno[y] = blockno[x] => y = x
    BY BufCacheAssumption DEF OneBufferPerBlock
<1>1. owner'[x] = v /\ \A y \in Bufs : y # x => owner'[y] = owner[y]
    BY DEF TypeOK
<1>2. HolderOf(blockno[x])' = v
  <2>1. CASE v = NULL
      BY <1>0, <1>1, <2>1 DEF HolderOf
  <2>2. CASE v # NULL
      BY <1>0, <1>1, <2>2 DEF HolderOf
  <2> QED
      BY <2>1, <2>2
<1>3. ASSUME NEW k \in Blocks, k # blockno[x] PROVE HolderOf(k)' = HolderOf(k)
  <2>1. \A y \in Bufs : blockno'[y] = k /\ owner'[y] # NULL <=> blockno[y] = k /\ owner[y] # NULL
      BY <1>1, <1>3
  <2>2. \A y \in Bufs : blockno[y] = k => owner'[y] = owner[y]
      BY <1>1, <1>3
  <2> DEFINE At(y) == blockno[y] = k /\ owner[y] # NULL
  <2>3. CASE \E y \in Bufs : At(y)
    <3>1. (CHOOSE y \in Bufs : At(y)) \in Bufs /\ blockno[CHOOSE y \in Bufs : At(y)] = k
        BY <2>3
    <3> QED
        BY <2>1, <2>2, <2>3, <3>1 DEF HolderOf
  <2>4. CASE ~ \E y \in Bufs : At(y)
      BY <2>1, <2>4 DEF HolderOf
  <2> QED
      BY <2>3, <2>4
<1> QED
    BY <1>2, <1>3 DEF Holders

(* Every step of the cache takes a block, gives one up, or does neither. *)
LEMMA LocksStep ==
    ASSUME TypeOK, BufInv, [Next]_vars
    PROVE  BL!Next \/ UNCHANGED Holders
<1> USE DEF TypeOK, bufvars
<1>1. ASSUME NEW p \in Procs, AcquireFree(p) PROVE BL!Next
  <2>1. b[p] \in Bufs /\ want[p] \in Blocks /\ blockno[b[p]] = want[p]
      BY <1>1 DEF AcquireFree, BufInv, Placed, Holding
  <2>2. Holders' = [Holders EXCEPT ![want[p]] = p]
      BY <1>1, <2>1, HoldersSet DEF AcquireFree, BufInv
  <2>3. Holders[want[p]] = NULL
      BY <1>1, <2>1, HolderCached DEF AcquireFree, BufInv, Holders
  <2>4. BL!Get(p, want[p])
      BY <2>2, <2>3 DEF BL!Get
  <2> QED
      BY <2>1, <2>4 DEF BL!Next
<1>2. ASSUME NEW p \in Procs, releasesleep(p) PROVE BL!Next
  <2>1. b[p] \in Bufs /\ want[p] \in Blocks /\ blockno[b[p]] = want[p] /\ owner[b[p]] = p
      BY <1>2 DEF releasesleep, BufInv, Placed, Holding, OwnersRight, Locked
  <2>2. Holders' = [Holders EXCEPT ![want[p]] = NULL]
      BY <1>2, <2>1, HoldersSet DEF releasesleep, BufInv
  <2>3. Holders[want[p]] = p
      BY <1>2, <2>1, HolderCached DEF BufInv, Holders
  <2>4. BL!Put(p, want[p])
      BY <2>2, <2>3 DEF BL!Put
  <2> QED
      BY <2>1, <2>4 DEF BL!Next
<1>3. ASSUME NEW p \in Procs, NEW k \in Blocks, bget_miss(p, k) PROVE UNCHANGED Holders
  <2>1. PICK x \in Bufs : refcnt[x] = 0 /\ Recycle(x, k)
      BY <1>3 DEF bget_miss, LastUnused
  <2>2. owner[x] = NULL
      BY <2>1, UnusedFree
  <2>3. \A y \in Bufs : blockno'[y] = blockno[y] \/ owner[y] = NULL
      BY <2>1, <2>2 DEF Recycle
  <2> QED
      BY <1>3, <2>3, HoldersSame DEF bget_miss
<1>4. ASSUME UNCHANGED <<blockno, owner>> PROVE UNCHANGED Holders
    BY <1>4, HoldersSame
<1>5. ASSUME NEW p \in Procs, NEW k \in Blocks, bget_hit(p, k) \/ bget_panic(p, k)
      PROVE  UNCHANGED Holders
    BY <1>4, <1>5 DEF bget_hit, bget_panic
<1>6. ASSUME NEW p \in Procs,
             \/ AcquireHeld(p) \/ Kill(p)
             \/ bread_cached(p) \/ bread_start(p) \/ bread_done(p) \/ brelse(p)
      PROVE  UNCHANGED Holders
    BY <1>4, <1>6 DEF AcquireHeld, Kill, bread_cached, bread_start, bread_done, brelse
<1>7. CASE UNCHANGED vars
    BY <1>4, <1>7 DEF vars
<1> QED
    BY <1>1, <1>2, <1>3, <1>5, <1>6, <1>7 DEF Next, Step, bget

(* The cache implements one lock for each block. *)
THEOREM LocksRefined == Spec => ImplementsBlockLocks
<1>1. Init => BL!Init
    BY DEF Init, BL!Init, Holders, HolderOf
<1>2. TypeOK /\ BufInv /\ [Next]_vars => [BL!Next]_Holders
    BY LocksStep
<1> QED
    BY BufInductive, <1>1, <1>2, PTL DEF Spec, ImplementsBlockLocks, BL!Spec
=============================================================================
