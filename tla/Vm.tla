--------------------------------- MODULE Vm ---------------------------------
(***************************************************************************)
(* Physical pages and user page tables: kernel/mm/kalloc.c, kernel/mm/vm.c *)
(* and their users growproc(), kfork(), kexec(), sys_exec(), freeproc().   *)
(*                                                                         *)
(* A page table belongs to one process; processes meet only at the free    *)
(* list.  Loops that allocate advance by one action per page, so memory    *)
(* can run out at each of them.  Addresses are in units, PG to a page.     *)
(***************************************************************************)
EXTENDS Integers, Sequences, FiniteSets
LOCAL INSTANCE SequencesExt

CONSTANTS
    Slots,       \* the proc table, 1 .. NPROC; slot 1 is init
    NPAGE,       \* pages of physical memory
    FAN,         \* PTEs per page-table page
    PG,          \* units per page
    USERSTACK,   \* user stack pages
    MAXARG,      \* argv entries, the terminating one included
    Deltas,      \* arguments of sbrk()
    Programs,    \* executables: sequences of loadable segments
    MayStore,    \* whether programs write to their memory
    MaxCalls,    \* bound on the system calls begun
    NULL, TRAMP  \* no page, the page of the trampoline code

ASSUME VmAssumption ==
    /\ NPAGE \in Nat /\ FAN \in Nat \ {0, 1} /\ PG \in Nat \ {0}
    /\ USERSTACK \in Nat \ {0} /\ MAXARG \in Nat \ {0}
    /\ Deltas \subseteq Int /\ MayStore \in BOOLEAN
    /\ NULL \notin Int /\ TRAMP \notin Int

VARIABLES
    mem,         \* physical memory, see below
    state, pagetable, trapframe, sz,   \* fields of struct proc
    job,         \* what each process does in the kernel
    argv, newpt, \* sys_exec()'s argv[] and kexec()'s pagetable
    calls        \* system calls begun

procvars == <<state, pagetable, trapframe, sz>>
vars == <<mem, procvars, job, argv, newpt, calls>>

Pages == 1 .. NPAGE
Idx == 0 .. FAN - 1
VPages == FAN * FAN * FAN            \* MAXVA, in pages
TRAMPOLINE == VPages - 1
TRAPFRAME == VPages - 2
UMOD == 4 * VPages * PG              \* where addresses wrap

PX(level, va) == (va \div FAN ^ level) % FAN
RoundUp(a) == (a + PG - 1) \div PG    \* PGROUNDUP, in pages

(* F(v), where v is the result of a call that is evaluated once. *)
Once(v, F(_)) == CHOOSE r \in {F(x) : x \in {v}} : TRUE

----------------------------------------------------------------------------
(* kalloc.c.  mem.cnt: how often a page is on the free list; mem.word: what *)
(* a data page holds; mem.pte: the entries of a page used as page table.    *)
(* mem.panic: a panic() was reached.                                       *)

Pte(pa, perm) == [pa |-> pa, perm |-> perm]
EmptyTable == [i \in Idx |-> NULL]

Panic(m) == [m EXCEPT !.panic = TRUE]

(* Which free page it is does not matter: it is the lowest. *)
kalloc(m) ==
    LET free == {g \in Pages : m.cnt[g] > 0}
        g == CHOOSE x \in free : \A y \in free : x <= y
    IN IF free = {} THEN [m |-> m, pa |-> NULL]
       ELSE [m |-> [m EXCEPT !.cnt[g] = @ - 1, !.word[g] = "junk"], pa |-> g]

(* The page is filled with junk, which leaves no entry of a page table. *)
kfree(m, g) ==
    IF g \in Pages
    THEN [m EXCEPT !.cnt[g] = @ + 1, !.word[g] = "junk", !.pte[g] = EmptyTable]
    ELSE Panic(m)

(* kinit() frees every page. *)
kinit == [cnt |-> [g \in Pages |-> 1], word |-> [g \in Pages |-> "junk"],
          pte |-> [g \in Pages |-> EmptyTable], panic |-> FALSE]

----------------------------------------------------------------------------
(* vm.c *)

(* One level of walk() with alloc = 1. *)
Descend(m, t, i) ==
    IF m.pte[t][i] # NULL THEN [m |-> m, pa |-> m.pte[t][i].pa]
    ELSE Once(kalloc(m), LAMBDA k :
        IF k.pa = NULL THEN k
        ELSE [k EXCEPT !.m.pte[k.pa] = EmptyTable, !.m.pte[t][i] = Pte(k.pa, "table")])

walk(m, root, va) ==
    IF va >= VPages THEN [m |-> Panic(m), pa |-> NULL]
    ELSE Once(Descend(m, root, PX(2, va)), LAMBDA d :
        IF d.pa = NULL THEN d ELSE Descend(d.m, d.pa, PX(1, va)))

(* walk() with alloc = 0: the page-table page with the entry of va, or NULL. *)
LeafTable(m, root, va) ==
    LET e == m.pte[root][PX(2, va)]
        f == m.pte[e.pa][PX(1, va)]
    IN IF e = NULL THEN NULL ELSE IF f = NULL THEN NULL ELSE f.pa

Leaf(m, root, va) ==
    LET t == LeafTable(m, root, va)
    IN IF t = NULL THEN NULL ELSE m.pte[t][PX(0, va)]

(* One page; the result says whether it was mapped. *)
mappages(m, root, va, pa, perm) ==
    Once(walk(m, root, va), LAMBDA w :
        IF w.pa = NULL THEN [m |-> w.m, ok |-> FALSE]
        ELSE IF w.m.pte[w.pa][PX(0, va)] # NULL THEN [m |-> Panic(w.m), ok |-> FALSE]
        ELSE [m |-> [w.m EXCEPT !.pte[w.pa][PX(0, va)] = Pte(pa, perm)], ok |-> TRUE])

(* va is a set of pages.  Entries that are not there are skipped. *)
uvmunmap(m, root, va, do_free) ==
    LET there == {a \in va : Leaf(m, root, a) # NULL}
        cells == {<<LeafTable(m, root, a), PX(0, a)>> : a \in there}
        page == [a \in there |-> Leaf(m, root, a).pa]
        times(g) == IF do_free THEN Cardinality({a \in there : page[a] = g}) ELSE 0
    IN [m EXCEPT
          !.cnt = [g \in Pages |-> @[g] + times(g)],
          !.word = [g \in Pages |-> IF times(g) > 0 THEN "junk" ELSE @[g]],
          !.pte = [t \in Pages |-> [i \in Idx |-> IF <<t, i>> \in cells THEN NULL ELSE @[t][i]]],
          !.panic = @ \/ \E a \in there : do_free /\ page[a] \notin Pages]

(* The page-table pages below t, and the entries that are leaves. *)
Below(m, t) == {i \in Idx : m.pte[t][i] # NULL /\ m.pte[t][i].perm = "table"}
Children(m, S) == {m.pte[t][i].pa : <<t, i>> \in {x \in S \X Idx : x[2] \in Below(m, x[1])}}

freewalk(m, root) ==
    LET mid == Children(m, {root})
        low == Children(m, mid)
        tables == {root} \cup mid \cup low
        leaf == \E t \in tables : \E i \in Idx : m.pte[t][i] # NULL /\ i \notin Below(m, t)
    IN IF leaf THEN Panic(m)
       ELSE [m EXCEPT
               !.cnt = [g \in Pages |-> @[g] + IF g \in tables THEN 1 ELSE 0],
               !.pte = [g \in Pages |-> IF g \in tables THEN EmptyTable ELSE @[g]]]

(* size in units *)
uvmfree(m, root, size) ==
    Once(uvmunmap(m, root, 0 .. RoundUp(size) - 1, TRUE), LAMBDA n : freewalk(n, root))

(* Wrong variant: the pages mapped before the failure stay. *)
UvmallocPageKeeps(m, root, va, from) ==
    Once(kalloc(m), LAMBDA k :
        IF k.pa = NULL THEN [m |-> m, ok |-> FALSE]
        ELSE Once(mappages([k.m EXCEPT !.word[k.pa] = "zero"], root, va, k.pa, "user"), LAMBDA x :
            IF x.ok THEN x ELSE [m |-> kfree(x.m, k.pa), ok |-> FALSE]))

(* One turn of the loop of uvmalloc(): page va of root, and if memory runs *)
(* out the pages from `from' on are given back.                            *)
UvmallocPage(m, root, va, from) ==
    LET undo(n) == [m |-> uvmunmap(n, root, from .. va - 1, TRUE), ok |-> FALSE]
    IN Once(kalloc(m), LAMBDA k :
        IF k.pa = NULL THEN undo(m)
        ELSE Once(mappages([k.m EXCEPT !.word[k.pa] = "zero"], root, va, k.pa, "user"), LAMBDA x :
            IF x.ok THEN x ELSE Once(kfree(x.m, k.pa), undo)))

(* oldsz and newsz in units *)
uvmdealloc(m, root, oldsz, newsz) ==
    IF newsz >= oldsz THEN m
    ELSE uvmunmap(m, root, RoundUp(newsz) .. RoundUp(oldsz) - 1, TRUE)

----------------------------------------------------------------------------
(* proc.c *)

(* Wrong variant: the trapframe stays mapped. *)
FreeMapped(m, root, size) ==
    Once(uvmunmap(m, root, {TRAMPOLINE}, FALSE), LAMBDA n : uvmfree(n, root, size))

proc_freepagetable(m, root, size) ==
    Once(uvmunmap(m, root, {TRAMPOLINE, TRAPFRAME}, FALSE), LAMBDA n : uvmfree(n, root, size))

(* proc_pagetable(), for a process with trapframe page tf. *)
proc_pagetable(m, tf) ==
    LET failed(m1, root, mapped) ==
            [m |-> Once(uvmunmap(m1, root, mapped, FALSE), LAMBDA n : uvmfree(n, root, 0)),
             pa |-> NULL]
        trap(m1, root) == Once(mappages(m1, root, TRAPFRAME, tf, "kern"), LAMBDA y :
            IF y.ok THEN [m |-> y.m, pa |-> root] ELSE failed(y.m, root, {TRAMPOLINE}))
    IN Once(kalloc(m), LAMBDA c :                               \* uvmcreate()
        IF c.pa = NULL THEN c
        ELSE Once(mappages([c.m EXCEPT !.pte[c.pa] = EmptyTable],
                           c.pa, TRAMPOLINE, TRAMP, "kern"), LAMBDA x :
            IF x.ok THEN trap(x.m, c.pa) ELSE failed(x.m, c.pa, {})))

(* The memory of freeproc(). *)
freeproc(m, tf, root, size) ==
    Once(IF tf = NULL THEN m ELSE kfree(m, tf), LAMBDA n :
        IF root = NULL THEN n ELSE proc_freepagetable(n, root, size))

----------------------------------------------------------------------------
(* The processes *)

User == [op |-> "user"]

Does(p, op) == state[p] = "ALIVE" /\ job[p].op = op

(* userinit(): the first process has a trapframe and an empty page table. *)
Init ==
    LET k == kalloc(kinit)
        t == proc_pagetable(k.m, k.pa)
        first(x, y) == [p \in Slots |-> IF p = 1 THEN x ELSE y]
    IN /\ mem = t.m
       /\ state = first("ALIVE", "UNUSED")
       /\ pagetable = first(t.pa, NULL)
       /\ trapframe = first(k.pa, NULL)
       /\ sz = [p \in Slots |-> 0]
       /\ job = [p \in Slots |-> User]
       /\ argv = [p \in Slots |-> << >>]
       /\ newpt = [p \in Slots |-> NULL]
       /\ calls = 0

Begin(p, j) == job' = [job EXCEPT ![p] = j]

(* p enters the kernel. *)
Call(p) ==
    /\ Does(p, "user")
    /\ calls < MaxCalls
    /\ calls' = calls + 1

(* The user program writes to its memory. *)
Store(p) ==
    /\ MayStore
    /\ Does(p, "user")
    /\ \E va \in 0 .. RoundUp(sz[p]) - 1 :
           LET e == Leaf(mem, pagetable[p], va)
           IN /\ e # NULL
              /\ e.perm = "user"
              /\ mem' = [mem EXCEPT !.word[e.pa] = "data"]
    /\ UNCHANGED <<procvars, job, argv, newpt, calls>>

(* growproc() with n > 0, up to the loop of uvmalloc(). *)
growproc(p, n) ==
    /\ Call(p)
    /\ n > 0
    /\ sz[p] + n <= TRAPFRAME * PG
    /\ Begin(p, [op |-> "grow", from |-> RoundUp(sz[p]), at |-> RoundUp(sz[p]),
                 to |-> sz[p] + n])
    /\ UNCHANGED <<mem, procvars, argv, newpt>>

GrowDone(p) ==
    /\ Does(p, "grow")
    /\ job[p].at * PG >= job[p].to
    /\ sz' = [sz EXCEPT ![p] = job[p].to]
    /\ Begin(p, User)
    /\ UNCHANGED <<mem, state, pagetable, trapframe, argv, newpt, calls>>

(* growproc() with n < 0; sz + n is unsigned. *)
Shrink(p, n) ==
    /\ Call(p)
    /\ n < 0
    /\ LET newsz == (sz[p] + n) % UMOD
       IN /\ mem' = uvmdealloc(mem, pagetable[p], sz[p], newsz)
          /\ sz' = [sz EXCEPT ![p] = IF newsz >= @ THEN @ ELSE newsz]
    /\ UNCHANGED <<state, pagetable, trapframe, job, argv, newpt>>

----------------------------------------------------------------------------
(* kfork() *)

Unused(c) == state[c] = "UNUSED" /\ \A d \in Slots : state[d] = "UNUSED" => c <= d

(* allocproc(): a trapframe and a page table, or nothing. *)
allocproc(p, c) ==
    LET k == kalloc(mem)
        t == proc_pagetable(k.m, k.pa)
    IN /\ Call(p)
       /\ Unused(c)
       /\ IF k.pa # NULL /\ t.pa # NULL
          THEN /\ mem' = t.m
               /\ state' = [state EXCEPT ![c] = "USED"]
               /\ trapframe' = [trapframe EXCEPT ![c] = k.pa]
               /\ pagetable' = [pagetable EXCEPT ![c] = t.pa]
               /\ Begin(p, [op |-> "fork", child |-> c, at |-> 0])
          ELSE /\ mem' = IF k.pa = NULL THEN mem ELSE freeproc(t.m, k.pa, NULL, 0)
               /\ UNCHANGED <<state, trapframe, pagetable, job>>
       /\ UNCHANGED <<sz, argv, newpt>>

(* Wrong variant: the last page copied stays when the next one fails. *)
UvmcopyPageShort(m, old, new, va) ==
    LET e == Leaf(m, old, va)
        undo(n) == [m |-> uvmunmap(n, new, 0 .. va - 2, TRUE), ok |-> FALSE]
    IN IF e = NULL THEN [m |-> m, ok |-> TRUE]
       ELSE Once(kalloc(m), LAMBDA k :
        IF k.pa = NULL THEN undo(m)
        ELSE Once(mappages([k.m EXCEPT !.word[k.pa] = m.word[e.pa]], new, va, k.pa, e.perm), LAMBDA x :
            IF x.ok THEN x ELSE Once(kfree(x.m, k.pa), undo)))

(* Wrong variant: the child maps the parent's page. *)
UvmcopyPageShares(m, old, new, va) ==
    LET e == Leaf(m, old, va)
    IN Once(mappages(m, new, va, e.pa, e.perm), LAMBDA x :
        IF x.ok THEN x ELSE [m |-> uvmunmap(x.m, new, 0 .. va - 1, TRUE), ok |-> FALSE])

(* One turn of the loop of uvmcopy(), without the end of the call. *)
UvmcopyPage(m, old, new, va) ==
    LET e == Leaf(m, old, va)
        undo(n) == [m |-> uvmunmap(n, new, 0 .. va - 1, TRUE), ok |-> FALSE]
    IN IF e = NULL THEN [m |-> m, ok |-> TRUE]
       ELSE Once(kalloc(m), LAMBDA k :
        IF k.pa = NULL THEN undo(m)
        ELSE Once(mappages([k.m EXCEPT !.word[k.pa] = m.word[e.pa]], new, va, k.pa, e.perm), LAMBDA x :
            IF x.ok THEN x ELSE Once(kfree(x.m, k.pa), undo)))

ForkPage(p) ==
    /\ Does(p, "fork")
    /\ job[p].at * PG < sz[p]
    /\ LET c == job[p].child
           x == UvmcopyPage(mem, pagetable[p], pagetable[c], job[p].at)
       IN IF x.ok
          THEN /\ mem' = x.m
               /\ Begin(p, [job[p] EXCEPT !.at = @ + 1])
               /\ UNCHANGED <<state, pagetable, trapframe>>
          ELSE /\ mem' = freeproc(x.m, trapframe[c], pagetable[c], sz[c])
               /\ Begin(p, User)
               /\ state' = [state EXCEPT ![c] = "UNUSED"]
               /\ pagetable' = [pagetable EXCEPT ![c] = NULL]
               /\ trapframe' = [trapframe EXCEPT ![c] = NULL]
    /\ UNCHANGED <<sz, argv, newpt, calls>>

ForkDone(p) ==
    /\ Does(p, "fork")
    /\ job[p].at * PG >= sz[p]
    /\ sz' = [sz EXCEPT ![job[p].child] = sz[p]]
    /\ state' = [state EXCEPT ![job[p].child] = "ALIVE"]
    /\ Begin(p, User)
    /\ UNCHANGED <<mem, pagetable, trapframe, argv, newpt, calls>>

----------------------------------------------------------------------------
(* sys_exec() and kexec() *)

sys_exec(p) ==
    /\ Call(p)
    /\ Begin(p, [op |-> "argv"])
    /\ UNCHANGED <<mem, procvars, argv, newpt>>

(* One argument string is copied in. *)
FetchArg(p) ==
    LET k == kalloc(mem)
    IN /\ Does(p, "argv")
       /\ Len(argv[p]) < MAXARG
       /\ k.pa # NULL
       /\ mem' = k.m
       /\ argv' = [argv EXCEPT ![p] = Append(@, k.pa)]
       /\ UNCHANGED <<procvars, job, newpt, calls>>

(* The end of sys_exec(): m without the argument strings. *)
Return(p, m) ==
    /\ mem' = FoldLeft(kfree, m, argv[p])
    /\ argv' = [argv EXCEPT ![p] = << >>]
    /\ newpt' = [newpt EXCEPT ![p] = NULL]
    /\ Begin(p, User)

(* Too many arguments, no page for one, an unreadable one, or no such      *)
(* executable.                                                             *)
ExecRefused(p) ==
    /\ Does(p, "argv")
    /\ Return(p, mem)
    /\ UNCHANGED <<procvars, calls>>

(* What comes after the segments before segs were loaded into size units. *)
NextSegment(segs, size) ==
    LET from == RoundUp(size)
        stack == (from + USERSTACK + 1) * PG
    IN IF segs = << >>
       THEN [op |-> "stack", from |-> from, at |-> from, to |-> stack, size |-> from * PG]
       ELSE [op |-> "segment", from |-> from, at |-> from,
             to |-> Head(segs).vaddr + Head(segs).memsz, size |-> size, segs |-> segs]

kexec(p, prog) ==
    LET t == proc_pagetable(mem, trapframe[p])
    IN /\ Does(p, "argv")
       /\ Len(argv[p]) < MAXARG
       /\ IF t.pa = NULL THEN Return(p, t.m)
          ELSE /\ mem' = t.m
               /\ newpt' = [newpt EXCEPT ![p] = t.pa]
               /\ Begin(p, NextSegment(prog, 0))
               /\ UNCHANGED argv
       /\ UNCHANGED <<procvars, calls>>

(* bad: the new page table goes, with size units of memory. *)
Bad(p, m, size) == Return(p, proc_freepagetable(m, newpt[p], size))

(* One page of uvmalloc() for sbrk(), a segment or the stack. *)
AllocPage(p) ==
    LET j == job[p]
        root == IF j.op = "grow" THEN pagetable[p] ELSE newpt[p]
        x == UvmallocPage(mem, root, j.at, j.from)
    IN /\ Does(p, j.op)
       /\ j.op \in {"grow", "segment", "stack"}
       /\ j.at * PG < j.to
       /\ CASE x.ok -> /\ mem' = x.m
                       /\ Begin(p, [j EXCEPT !.at = @ + 1])
                       /\ UNCHANGED <<argv, newpt>>
            [] ~x.ok /\ j.op = "grow" -> /\ mem' = x.m
                                         /\ Begin(p, User)
                                         /\ UNCHANGED <<argv, newpt>>
            [] ~x.ok /\ j.op # "grow" -> Bad(p, x.m, j.size)
       /\ UNCHANGED <<procvars, calls>>

(* What uvmalloc() returns. *)
Allocated(j) == IF j.to < j.size THEN j.size ELSE j.to

(* loadseg(): the pages must be there and belong to the user. *)
loadseg(m, root, seg) ==
    LET leaves == {Leaf(m, root, va) : va \in
                      seg.vaddr \div PG .. RoundUp(seg.vaddr + seg.filesz) - 1}
    IN IF NULL \in leaves THEN Panic(m)
       ELSE IF \E e \in leaves : e.perm # "user" THEN Panic(m)
       ELSE [m EXCEPT !.word = [g \in Pages |-> IF \E e \in leaves : e.pa = g
                                                THEN "text" ELSE @[g]]]

(* A segment has its memory.  uvmalloc() says 0 also for an empty image. *)
LoadSegment(p) ==
    /\ Does(p, "segment")
    /\ job[p].at * PG >= job[p].to
    /\ Allocated(job[p]) # 0
    /\ mem' = loadseg(mem, newpt[p], Head(job[p].segs))
    /\ Begin(p, NextSegment(Tail(job[p].segs), Allocated(job[p])))
    /\ UNCHANGED <<procvars, argv, newpt, calls>>

(* The executable cannot be read or is malformed, before or after a        *)
(* segment got its memory, or the arguments do not fit on the stack.       *)
ExecBad(p) ==
    LET j == job[p]
    IN /\ Does(p, j.op)
       /\ j.op \in {"segment", "stack"}
       /\ \/ j.op = "segment" /\ j.at = j.from /\ Bad(p, mem, j.size)
          \/ j.at * PG >= j.to /\ Bad(p, mem, Allocated(j))
       /\ UNCHANGED <<procvars, calls>>

(* uvmclear() and the arguments, then the old image goes. *)
Commit(p) ==
    LET j == job[p]
        guard == LeafTable(mem, newpt[p], j.from)
        top == Leaf(mem, newpt[p], j.at - 1).pa
        m == [mem EXCEPT !.pte[guard][PX(0, j.from)].perm = "guard",
                         !.word[top] = "args"]
    IN /\ Does(p, "stack")
       /\ j.at * PG >= j.to
       /\ Return(p, proc_freepagetable(m, pagetable[p], sz[p]))
       /\ pagetable' = [pagetable EXCEPT ![p] = newpt[p]]
       /\ sz' = [sz EXCEPT ![p] = j.to]
       /\ UNCHANGED <<state, trapframe, calls>>

----------------------------------------------------------------------------
(* kexit() and the end of kwait() *)

kexit(p) ==
    /\ Does(p, "user")
    /\ p # 1
    /\ state' = [state EXCEPT ![p] = "ZOMBIE"]
    /\ UNCHANGED <<mem, pagetable, trapframe, sz, job, argv, newpt, calls>>

Reap(p) ==
    /\ state[p] = "ZOMBIE"
    /\ mem' = freeproc(mem, trapframe[p], pagetable[p], sz[p])
    /\ state' = [state EXCEPT ![p] = "UNUSED"]
    /\ pagetable' = [pagetable EXCEPT ![p] = NULL]
    /\ trapframe' = [trapframe EXCEPT ![p] = NULL]
    /\ sz' = [sz EXCEPT ![p] = 0]
    /\ UNCHANGED <<job, argv, newpt, calls>>

ProcStep(p) ==
    \/ Store(p)
    \/ \E n \in Deltas : growproc(p, n) \/ Shrink(p, n)
    \/ AllocPage(p) \/ GrowDone(p)
    \/ \E c \in Slots : allocproc(p, c)
    \/ ForkPage(p) \/ ForkDone(p)
    \/ sys_exec(p) \/ FetchArg(p) \/ ExecRefused(p)
    \/ \E prog \in Programs : kexec(p, prog)
    \/ LoadSegment(p) \/ ExecBad(p) \/ Commit(p)
    \/ kexit(p) \/ Reap(p)

Next == \E p \in Slots : ProcStep(p)

Spec == Init /\ [][Next]_vars

----------------------------------------------------------------------------
(* Properties *)

(* The owners of page g: the free list, a process, an argument string, or  *)
(* an entry of a page table that owns what it maps.                        *)
Owners(g) ==
    mem.cnt[g]
    + Cardinality({p \in Slots : trapframe[p] = g})
    + Cardinality({p \in Slots : pagetable[p] = g})
    + Cardinality({p \in Slots : newpt[p] = g})
    + Cardinality({x \in Slots \X (1 .. MAXARG) : x[2] <= Len(argv[x[1]]) /\ argv[x[1]][x[2]] = g})
    + Cardinality({x \in Pages \X Idx :
          LET e == mem.pte[x[1]][x[2]] IN IF e = NULL THEN FALSE ELSE e.perm # "kern" /\ e.pa = g})

(* No page is leaked, freed twice or shared, whichever allocation of       *)
(* sbrk(), fork() or exec() fails and whoever else allocates meanwhile.    *)
PagesPartitioned == \A g \in Pages : Owners(g) = 1

(* walk, remap, freewalk: leaf, loadseg: address should exist, kfree: none *)
(* of the panics of the memory code is reached.                            *)
NoPanic == ~mem.panic

Mapped(root) == {va \in 0 .. VPages - 1 : Leaf(mem, root, va) # NULL}

Maps(p, root, pages) ==
    /\ Mapped(root) = pages \cup {TRAMPOLINE, TRAPFRAME}
    /\ Leaf(mem, root, TRAPFRAME).pa = trapframe[p]
    /\ Leaf(mem, root, TRAMPOLINE).pa = TRAMP

(* A page table maps the pages below the size that will be used to free    *)
(* it, those the current uvmalloc() or uvmcopy() has added, and the        *)
(* process's own trapframe: what sz says and what is mapped never differ.  *)
SizeMapped ==
    \A p \in Slots :
        /\ state[p] \in {"ALIVE", "ZOMBIE"} =>
              Maps(p, pagetable[p], 0 .. (IF job[p].op = "grow" THEN job[p].at
                                         ELSE RoundUp(sz[p])) - 1)
        /\ newpt[p] # NULL => Maps(p, newpt[p], 0 .. job[p].at - 1)
        /\ job[p].op = "fork" =>
              Maps(job[p].child, pagetable[job[p].child], 0 .. job[p].at - 1)

Space(p) ==
    IF state[p] # "ALIVE" THEN NULL
    ELSE [i \in 1 .. RoundUp(sz[p]) |->
             LET e == Leaf(mem, pagetable[p], i - 1)
             IN [perm |-> e.perm, word |-> mem.word[e.pa]]]

Spaces == INSTANCE AddressSpaces WITH
              Procs <- Slots, MaxPages <- VPages, space <- [p \in Slots |-> Space(p)]

(* Every process has its own memory: fork() copies all of it or fails,     *)
(* a failed exec() or sbrk() changes nothing a program can see, and no     *)
(* process's operation shows in the memory of another.                     *)
ImplementsSpaces == Spaces!Spec
=============================================================================
