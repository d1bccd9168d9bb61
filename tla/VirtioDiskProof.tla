-------------------------- MODULE VirtioDiskProof --------------------------
(***************************************************************************)
(* The disk driver for any number of descriptors, ring indices, processes  *)
(* and blocks: descriptors are owned, requests are accounted for and the   *)
(* driver implements DiskService.                                          *)
(***************************************************************************)
EXTENDS VirtioDisk, FiniteSetTheorems, TLAPS

----------------------------------------------------------------------------
(* Arithmetic modulo m *)

LEMMA Quotient ==
    ASSUME NEW m \in Nat, m > 0, NEW a \in Int
    PROVE  \E q \in Int : a = (m * q) + (a % m)
  OBVIOUS

LEMMA Remainder ==
    ASSUME NEW m \in Nat, m > 0, NEW a \in Int, NEW q \in Int, NEW r \in 0 .. m - 1,
           a = m * q + r
    PROVE  a % m = r
  OBVIOUS

LEMMA Congruent ==
    ASSUME NEW m \in Nat, m > 0, NEW a \in Int, NEW b \in Int, NEW q \in Int,
           a = b + m * q
    PROVE  a % m = b % m
<1>1. PICK r \in Int : b = (m * r) + (b % m)
  BY Quotient
<1>2. b % m \in 0 .. m - 1 /\ q + r \in Int
  BY <1>1
<1>3. a = m * (q + r) + (b % m)
  BY <1>1, <1>2
<1> QED
  BY <1>2, <1>3, Remainder, ZenonT(30)

(* Numbers less than m apart have different remainders. *)
LEMMA Apart ==
    ASSUME NEW m \in Nat, m > 0, NEW a \in Int, NEW b \in Int, a < b, b < a + m
    PROVE  a % m # b % m
<1> SUFFICES ASSUME a % m = b % m PROVE FALSE
  OBVIOUS
<1>1. PICK q \in Int : a = (m * q) + (a % m)
  BY Quotient, ZenonT(30)
<1>2. PICK r \in Int : b = (m * r) + (b % m)
  BY Quotient, ZenonT(30)
<1>3. a % m \in Int
  OBVIOUS
<1> DEFINE d == r - q
<1>4. d \in Int /\ b - a = m * d
  BY <1>1, <1>2, <1>3
<1>5. (d >= 1 => m * d >= m) /\ (d <= -1 => m * d <= -m)
  BY <1>4
<1>6. d = 0
  BY <1>4, <1>5
<1> QED
  BY <1>4, <1>6

----------------------------------------------------------------------------
(* The rings *)

Index == 0 .. IDX - 1

(* How many entries there are between two indices, and in which slots. *)
Span(from, to) == (to - from) % IDX

Window(from, to) == {(from + k) % NUM : k \in 0 .. Span(from, to) - 1}

LEMMA Sizes ==
    /\ NUM \in Nat /\ NUM >= 3 /\ IDX \in Nat /\ IDX > NUM
    /\ Index \subseteq Nat /\ Desc \subseteq Nat /\ Slots \subseteq Nat
    /\ \E c \in Int : IDX = NUM * c
<1>1. \E c \in Int : IDX = NUM * c
  <2>1. NUM \in Nat /\ NUM > 0 /\ IDX \in Int
    BY VirtioAssumption
  <2>2. PICK c \in Int : IDX = (NUM * c) + (IDX % NUM)
    BY <2>1, Quotient, Zenon
  <2> QED
    BY <2>2, VirtioAssumption
<1> QED
  BY <1>1, VirtioAssumption DEF Index, Desc, Slots

LEMMA IncIs ==
    ASSUME NEW x \in Index
    PROVE  /\ Inc(x) \in Index
           /\ x # IDX - 1 => Inc(x) = x + 1
           /\ x = IDX - 1 => Inc(x) = 0
<1>1. CASE x # IDX - 1
  <2>1. x + 1 \in 0 .. IDX - 1 /\ x + 1 = IDX * 0 + (x + 1)
    BY <1>1, Sizes DEF Index
  <2>2. (x + 1) % IDX = x + 1
    BY <2>1, Sizes, Remainder
  <2> QED
    BY <1>1, <2>1, <2>2 DEF Inc, Index
<1>2. CASE x = IDX - 1
  <2>1. x + 1 = IDX * 1 + 0 /\ 0 \in 0 .. IDX - 1 /\ x + 1 \in Int
    BY <1>2, Sizes DEF Index
  <2>2. (x + 1) % IDX = 0
    BY <2>1, Sizes, Remainder
  <2> QED
    BY <1>2, <2>1, <2>2 DEF Inc, Index
<1> QED
  BY <1>1, <1>2

LEMMA SpanIs ==
    ASSUME NEW from \in Index, NEW to \in Index
    PROVE  /\ from <= to => Span(from, to) = to - from
           /\ to < from => Span(from, to) = to - from + IDX
<1>1. CASE from <= to
  <2>1. to - from \in 0 .. IDX - 1 /\ to - from = IDX * 0 + (to - from)
    BY <1>1, Sizes DEF Index
  <2> QED
    BY <1>1, <2>1, Sizes, Remainder DEF Span, Index
<1>2. CASE to < from
  <2>1. /\ to - from + IDX \in 0 .. IDX - 1 /\ to - from \in Int
        /\ to - from = IDX * (-1) + (to - from + IDX)
    BY <1>2, Sizes DEF Index
  <2>2. (to - from) % IDX = to - from + IDX
    BY <2>1, Sizes, Remainder
  <2> QED
    BY <1>2, <2>2, Sizes DEF Span, Index
<1> QED
  BY <1>1, <1>2, Sizes DEF Index

LEMMA SpanType ==
    ASSUME NEW from \in Index, NEW to \in Index
    PROVE  Span(from, to) \in Index /\ (Span(from, to) = 0 <=> from = to)
  BY SpanIs, Sizes DEF Index

(* A slot is found again when the index wraps: IDX is a multiple of NUM. *)
LEMMA SlotWraps ==
    ASSUME NEW x \in Int, NEW y \in Int, y = x + IDX
    PROVE  y % NUM = x % NUM
<1>1. PICK c \in Int : IDX = NUM * c
  BY Sizes, Zenon
<1>2. y = x + NUM * c /\ NUM \in Nat /\ NUM > 0
  BY <1>1, Sizes
<1> QED
  BY <1>2, Congruent, Zenon

LEMMA SlotType ==
    ASSUME NEW x \in Int
    PROVE  x % NUM \in Slots
  BY Sizes DEF Slots

(* (from + k) % NUM is where the k-th entry is. *)
LEMMA SlotOf ==
    ASSUME NEW from \in Index, NEW to \in Index, NEW k \in Nat
    PROVE  /\ (from + Span(from, to)) % NUM = to % NUM
           /\ (Inc(from) + k) % NUM = (from + (k + 1)) % NUM
<1>1. (from + Span(from, to)) % NUM = to % NUM
  <2>1. from + Span(from, to) = to \/ from + Span(from, to) = to + IDX
    BY SpanIs, Sizes DEF Index
  <2>2. to \in Nat /\ from \in Nat /\ Span(from, to) \in Nat
    BY SpanType, Sizes, Zenon
  <2>3. to \in Int /\ from + Span(from, to) \in Int
    BY <2>2
  <2> QED
    BY <2>1, <2>3, SlotWraps, Zenon
<1>2. (Inc(from) + k) % NUM = (from + (k + 1)) % NUM
  <2>1. \/ Inc(from) + k = from + (k + 1)
        \/ from + (k + 1) = (Inc(from) + k) + IDX
    BY IncIs, Sizes DEF Index
  <2>2. from + (k + 1) \in Int /\ Inc(from) + k \in Int
    BY IncIs, Sizes
  <2> QED
    BY <2>1, <2>2, SlotWraps, Zenon
<1> QED
  BY <1>1, <1>2, Zenon

LEMMA SpanGrows ==
    ASSUME NEW from \in Index, NEW to \in Index, Span(from, to) < NUM
    PROVE  Span(from, Inc(to)) = Span(from, to) + 1
<1>1. /\ from \in 0 .. IDX - 1 /\ to \in 0 .. IDX - 1 /\ Inc(to) \in 0 .. IDX - 1
      /\ to # IDX - 1 => Inc(to) = to + 1
      /\ to = IDX - 1 => Inc(to) = 0
  BY IncIs, Zenon DEF Index
<1>2. /\ from <= Inc(to) => Span(from, Inc(to)) = Inc(to) - from
      /\ Inc(to) < from => Span(from, Inc(to)) = Inc(to) - from + IDX
  BY IncIs, SpanIs, Zenon
<1>3. /\ from <= to => Span(from, to) = to - from
      /\ to < from => Span(from, to) = to - from + IDX
  BY SpanIs, Zenon
<1>4. NUM \in Nat /\ NUM >= 3 /\ IDX \in Nat /\ IDX > NUM
  BY Sizes, Zenon
<1>5. CASE to = IDX - 1
  BY <1>1, <1>2, <1>3, <1>4, <1>5
<1>6. CASE to # IDX - 1 /\ from <= to
  BY <1>1, <1>2, <1>3, <1>4, <1>6
<1>7. CASE to # IDX - 1 /\ to < from
  BY <1>1, <1>2, <1>3, <1>4, <1>7
<1> QED
  BY <1>1, <1>4, <1>5, <1>6, <1>7

LEMMA SpanShrinks ==
    ASSUME NEW from \in Index, NEW to \in Index, from # to
    PROVE  Span(from, to) = Span(Inc(from), to) + 1
<1>1. /\ from \in 0 .. IDX - 1 /\ to \in 0 .. IDX - 1 /\ Inc(from) \in 0 .. IDX - 1
      /\ from # IDX - 1 => Inc(from) = from + 1
      /\ from = IDX - 1 => Inc(from) = 0
  BY IncIs, Zenon DEF Index
<1>2. /\ Inc(from) <= to => Span(Inc(from), to) = to - Inc(from)
      /\ to < Inc(from) => Span(Inc(from), to) = to - Inc(from) + IDX
  BY IncIs, SpanIs, Zenon
<1>3. /\ from <= to => Span(from, to) = to - from
      /\ to < from => Span(from, to) = to - from + IDX
  BY SpanIs, Zenon
<1>4. NUM \in Nat /\ NUM >= 3 /\ IDX \in Nat /\ IDX > NUM
  BY Sizes, Zenon
<1>5. CASE from = IDX - 1
  BY <1>1, <1>2, <1>3, <1>4, <1>5
<1>6. CASE from # IDX - 1 /\ from <= to
  BY <1>1, <1>2, <1>3, <1>4, <1>6
<1>7. CASE from # IDX - 1 /\ to < from
  BY <1>1, <1>2, <1>3, <1>4, <1>7
<1> QED
  BY <1>1, <1>4, <1>5, <1>6, <1>7

(* A ring that is not full has room in the slot at its end. *)
LEMMA WindowGrows ==
    ASSUME NEW from \in Index, NEW to \in Index, Span(from, to) < NUM
    PROVE  /\ Window(from, Inc(to)) = Window(from, to) \cup {to % NUM}
           /\ to % NUM \notin Window(from, to)
<1> DEFINE n == Span(from, to)
<1>1. n \in Nat /\ Span(from, Inc(to)) = n + 1
  BY SpanGrows, SpanType, Sizes, ZenonT(30)
<1>2. (from + n) % NUM = to % NUM
  BY SlotOf
<1> HIDE DEF n
<1>3. 0 .. (n + 1) - 1 = (0 .. n - 1) \cup {n}
  BY <1>1
<1>4. Window(from, Inc(to)) = Window(from, to) \cup {to % NUM}
  BY <1>1, <1>2, <1>3, Zenon DEF Window, n
<1>5. ASSUME NEW k \in 0 .. n - 1 PROVE (from + k) % NUM # (from + n) % NUM
  <2>1. from + k \in Int /\ from + n \in Int /\ NUM \in Nat /\ NUM > 0
    BY <1>1, Sizes
  <2>2. from + k < from + n /\ from + n < (from + k) + NUM
    BY <1>1, Sizes DEF n
  <2> QED
    BY <2>1, <2>2, Apart, Zenon
<1> QED
  BY <1>2, <1>4, <1>5, Zenon DEF Window, n

(* The slot at the beginning of a ring that is not empty is given back. *)
LEMMA WindowShrinks ==
    ASSUME NEW from \in Index, NEW to \in Index, from # to, Span(from, to) <= NUM
    PROVE  /\ Window(from, to) = Window(Inc(from), to) \cup {from % NUM}
           /\ from % NUM \notin Window(Inc(from), to)
<1> DEFINE n == Span(Inc(from), to)
           at(k) == (from + k) % NUM
<1>1. n \in Nat /\ Span(from, to) = n + 1 /\ n < NUM
  <2>1. Inc(from) \in Index
    BY IncIs, Zenon
  <2>2. n \in Index /\ Span(from, to) = n + 1 /\ NUM \in Nat
    BY <2>1, SpanShrinks, SpanType, Sizes, Zenon
  <2> HIDE DEF n
  <2>3. n \in Nat
    BY <2>2, Sizes, Zenon
  <2> QED
    BY <2>2, <2>3
<1>2. \A k \in 0 .. n - 1 : (Inc(from) + k) % NUM = at(k + 1)
  BY <1>1, SlotOf
<1>3. at(0) = from % NUM
  BY Sizes
<1> HIDE DEF n, at
<1>4. Window(Inc(from), to) = {at(k + 1) : k \in 0 .. n - 1}
  BY <1>2, Zenon DEF Window, n
<1>5. Window(from, to) = {at(k) : k \in 0 .. (n + 1) - 1}
  BY <1>1, Zenon DEF Window, at
<1>6. {at(k) : k \in 0 .. (n + 1) - 1} = {at(k + 1) : k \in 0 .. n - 1} \cup {at(0)}
  <2>1. \A k \in 0 .. (n + 1) - 1 : k = 0 \/ (k - 1 \in 0 .. n - 1 /\ k = (k - 1) + 1)
    BY <1>1
  <2>2. \A k \in 0 .. n - 1 : k + 1 \in 0 .. (n + 1) - 1
    BY <1>1
  <2>3. 0 \in 0 .. (n + 1) - 1
    BY <1>1
  <2> QED
    BY <2>1, <2>2, <2>3, Zenon
<1>7. ASSUME NEW k \in 0 .. n - 1 PROVE at(k + 1) # at(0)
  <2>1. from + 0 \in Int /\ from + (k + 1) \in Int /\ NUM \in Nat /\ NUM > 0
    BY <1>1, Sizes
  <2>2. from + 0 < from + (k + 1) /\ from + (k + 1) < (from + 0) + NUM
    BY <1>1, Sizes
  <2> QED
    BY <2>1, <2>2, Apart, Zenon DEF at
<1> QED
  BY <1>3, <1>4, <1>5, <1>6, <1>7, Zenon

LEMMA WindowType ==
    ASSUME NEW from \in Index, NEW to \in Index
    PROVE  Window(from, to) \subseteq Slots
<1>1. \A k \in 0 .. Span(from, to) - 1 : from + k \in Int
  BY Sizes, SpanType
<1> QED
  BY <1>1, SlotType, Zenon DEF Window

(* NUM entries fill the ring. *)
LEMMA WindowFull ==
    ASSUME NEW from \in Index, NEW to \in Index, Span(from, to) = NUM
    PROVE  Slots \subseteq Window(from, to)
<1> SUFFICES ASSUME NEW s \in Slots PROVE s \in Window(from, to)
  OBVIOUS
<1>1. s - from \in Int /\ NUM \in Nat /\ NUM > 0 /\ from \in Int /\ s \in 0 .. NUM - 1
  BY Sizes DEF Slots
<1> DEFINE k == (s - from) % NUM
<1>2. k \in 0 .. NUM - 1
  BY <1>1
<1>3. PICK q \in Int : s - from = (NUM * q) + k
  BY <1>1, Quotient, Zenon
<1> HIDE DEF k
<1>4. /\ from + k \in Int /\ -q \in Int
      /\ from + k = NUM * (-q) + s
  BY <1>1, <1>2, <1>3
<1>5. (from + k) % NUM = s
  BY <1>1, <1>4, Remainder, Zenon
<1> QED
  BY <1>2, <1>5, Zenon DEF Window

(* A ring holds different requests, no more than it has slots. *)
Fits(ring, from, to) ==
    /\ Span(from, to) <= NUM
    /\ \A s, t \in Window(from, to) : ring[s] = ring[t] => s = t

Held(ring, from, to) == {ring[s] : s \in Window(from, to)}

(* The oldest entry is taken. *)
LEMMA RingTakes ==
    ASSUME NEW ring \in [Slots -> Desc], NEW from \in Index, NEW to \in Index, from # to,
           Fits(ring, from, to)
    PROVE  /\ Fits(ring, Inc(from), to)
           /\ ring[from % NUM] \in Desc
           /\ Held(ring, from, to) = Held(ring, Inc(from), to) \cup {ring[from % NUM]}
           /\ ring[from % NUM] \notin Held(ring, Inc(from), to)
<1>1. Span(from, to) <= NUM /\ \A s, t \in Window(from, to) : ring[s] = ring[t] => s = t
  BY Zenon DEF Fits
<1>2. /\ Window(from, to) = Window(Inc(from), to) \cup {from % NUM}
      /\ from % NUM \notin Window(Inc(from), to)
  BY <1>1, WindowShrinks, Zenon
<1>3. Span(Inc(from), to) <= NUM
  <2>1. Span(Inc(from), to) \in Nat /\ NUM \in Nat
    BY IncIs, SpanType, Sizes, Zenon
  <2>2. Span(from, to) = Span(Inc(from), to) + 1
    BY SpanShrinks, Zenon
  <2> QED
    BY <1>1, <2>1, <2>2
<1>4. Fits(ring, Inc(from), to)
  BY <1>1, <1>2, <1>3, Zenon DEF Fits
<1>5. ring[from % NUM] \in Desc
  BY <1>2, WindowType, Zenon
<1> QED
  BY <1>1, <1>2, <1>4, <1>5, Zenon DEF Held

(* There is room for a request that is not in the ring: it has a slot for  *)
(* each descriptor.                                                        *)
LEMMA RingHasRoom ==
    ASSUME NEW ring \in [Slots -> Desc], NEW from \in Index, NEW to \in Index,
           Fits(ring, from, to), NEW d \in Desc, d \notin Held(ring, from, to)
    PROVE  Span(from, to) < NUM
<1> SUFFICES ASSUME Span(from, to) = NUM PROVE FALSE
  <2>1. Span(from, to) \in Nat /\ NUM \in Nat /\ Span(from, to) <= NUM
    BY SpanType, Sizes, Zenon DEF Fits
  <2> QED
    BY <2>1
<1>1. Slots \subseteq Window(from, to)
  BY WindowFull, Zenon
<1>2. \A s, t \in Slots : ring[s] = ring[t] => s = t
  BY <1>1, Zenon DEF Fits
<1> DEFINE T == Desc \ {d}
<1>3. ring \in [Slots -> T]
  BY <1>1, Zenon DEF Held
<1>4. /\ IsFiniteSet(Slots) /\ Cardinality(Slots) = NUM
      /\ IsFiniteSet(Desc) /\ Cardinality(Desc) = NUM
  BY FS_Interval, Sizes DEF Slots, Desc
<1>5. IsFiniteSet(T) /\ Cardinality(T) = NUM - 1
  BY <1>4, FS_RemoveElement, Zenon
<1>6. Cardinality(T) < Cardinality(Slots)
  BY <1>4, <1>5, Sizes
<1>7. \E s, t \in Slots : s # t /\ ring[s] = ring[t]
  BY <1>3, <1>4, <1>5, <1>6, FS_PigeonHole, Zenon
<1> QED
  BY <1>2, <1>7, Zenon

(* new is ring with d in the slot of index to. *)
Appended(new, ring, to, d) ==
    /\ new \in [Slots -> Desc] /\ new[to % NUM] = d
    /\ \A s \in Slots : s # to % NUM => new[s] = ring[s]

LEMMA AppendedIs ==
    ASSUME NEW ring \in [Slots -> Desc], NEW to \in Index, NEW d \in Desc,
           NEW new, new = [ring EXCEPT ![to % NUM] = d]
    PROVE  Appended(new, ring, to, d)
<1>1. to % NUM \in Slots
  BY SlotType, Sizes
<1> QED
  BY <1>1, Zenon DEF Appended

LEMMA RingAppends ==
    ASSUME NEW ring \in [Slots -> Desc], NEW from \in Index, NEW to \in Index,
           Fits(ring, from, to), NEW d \in Desc, d \notin Held(ring, from, to),
           NEW new, Appended(new, ring, to, d)
    PROVE  /\ new \in [Slots -> Desc] /\ Fits(new, from, Inc(to))
           /\ Held(new, from, Inc(to)) = Held(ring, from, to) \cup {d}
<1>1. Span(from, to) < NUM
  BY RingHasRoom, Zenon
<1>2. /\ Window(from, Inc(to)) = Window(from, to) \cup {to % NUM}
      /\ to % NUM \notin Window(from, to)
  BY <1>1, WindowGrows, Zenon
<1>3. Span(from, Inc(to)) <= NUM
  <2>1. Span(from, to) \in Nat /\ NUM \in Nat
    BY SpanType, Sizes, Zenon
  <2>2. Span(from, Inc(to)) = Span(from, to) + 1
    BY <1>1, SpanGrows, Zenon
  <2> QED
    BY <1>1, <2>1, <2>2
<1>4. to % NUM \in Slots /\ Window(from, to) \subseteq Slots
  BY <1>2, IncIs, WindowType, Zenon
<1>5. \A s \in Window(from, to) : new[s] = ring[s] /\ ring[s] # d
  BY <1>2, <1>4, Zenon DEF Held, Appended
<1>6. Held(new, from, Inc(to)) = Held(ring, from, to) \cup {d}
  BY <1>2, <1>5, ZenonT(30) DEF Held, Appended
<1>7. \A s, t \in Window(from, Inc(to)) : new[s] = new[t] => s = t
  BY <1>2, <1>5, Zenon DEF Fits, Appended
<1> QED
  BY <1>3, <1>6, <1>7, Zenon DEF Fits, Appended

----------------------------------------------------------------------------
(* The inductive invariant *)

TypeOK ==
    /\ free \subseteq Desc
    /\ next \in [Desc -> Desc \cup {NULL}]
    /\ info \in [Desc -> Procs \cup {NULL}]
    /\ status \in [Desc -> {0, 255}]
    /\ addr = [d \in Desc |-> addr[d]] /\ ops = [d \in Desc |-> ops[d]]
    /\ avail \in [Slots -> Desc] /\ used \in [Slots -> Desc]
    /\ avail_idx \in Index /\ taken \in Index /\ used_idx \in Index /\ used_end \in Index
    /\ active \subseteq Desc
    /\ disk \in [Procs -> BOOLEAN]
    /\ pc \in [Procs -> {"idle", "desc", "descwake", "wait", "wake"}]
    /\ head \in [Procs -> Desc \cup {NULL}]
    /\ blk \in [Procs -> Blocks \cup {NULL}]
    /\ write \in [Procs -> BOOLEAN]
    /\ media = [k \in Blocks |-> media[k]] /\ data = [p \in Procs |-> data[p]]

(* The three descriptors of a request. *)
Middle(p) == next[head[p]]
Last(p) == next[next[head[p]]]
Owned(p) == {head[p], Middle(p), Last(p)}

(* A request's descriptors make a chain and are not free. *)
Linked(p) ==
    /\ Owned(p) \subseteq Desc \ free
    /\ head[p] # Middle(p) /\ head[p] # Last(p) /\ Middle(p) # Last(p)
    /\ next[Last(p)] = NULL

(* They describe what the process asked for. *)
Described(p) ==
    /\ blk[p] \in Blocks
    /\ info[head[p]] = p
    /\ ops[head[p]] = [write |-> write[p], sector |-> blk[p]]
    /\ addr[head[p]] = <<"ops", head[p]>>
    /\ addr[Middle(p)] = <<"data", p>>
    /\ addr[Last(p)] = <<"status", head[p]>>

Chains ==
    /\ \A p \in Issued : Linked(p)
    /\ \A p, q \in Issued : p # q => Owned(p) \cap Owned(q) = {}
    /\ \A d \in Desc : d \in free \/ \E p \in Issued : d \in Owned(p)

Requests ==
    /\ \A p \in Issued : Described(p)
    /\ \A p \in Procs : pc[p] # "idle" => blk[p] \in Blocks

(* The requests that wait for the device, and those it has answered. *)
Waiting == Held(avail, taken, avail_idx)
Answered == Held(used, used_idx, used_end)

Rings == Fits(avail, taken, avail_idx) /\ Fits(used, used_idx, used_end)

(* Where a request is, and what its status says meanwhile. *)
Places ==
    /\ Waiting \cap active = {} /\ Waiting \cap Answered = {} /\ active \cap Answered = {}
    /\ \A d \in Waiting \cup active \cup Answered : \E p \in Issued : disk[p] /\ head[p] = d
    /\ \A p \in Issued : disk[p] => head[p] \in Waiting \cup active \cup Answered
    /\ \A d \in Waiting \cup active : status[d] = 255
    /\ \A d \in Answered : status[d] = 0
    /\ \A p \in Issued : ~disk[p] => status[head[p]] = 0

DiskInv == TypeOK /\ Chains /\ Requests /\ Rings /\ Places

LEMMA IssuedIs ==
    ASSUME NEW p
    PROVE  p \in Issued <=> p \in Procs /\ pc[p] \in {"wait", "wake"}
  BY Zenon DEF Issued

LEMMA DiskInit == Init => DiskInv
<1> SUFFICES ASSUME Init PROVE DiskInv
  OBVIOUS
<1> USE DEF Init
<1>1. 0 \in Desc /\ First \in Index
  BY VirtioAssumption DEF Desc, Index
<1>2. TypeOK
  BY <1>1, Zenon DEF TypeOK
<1>3. Issued = {}
  BY Zenon DEF Issued
<1>4. Chains
  BY <1>3, Zenon DEF Chains
<1>5. Requests
  BY <1>3, Zenon DEF Requests
<1>6. Span(First, First) = 0
  BY <1>1, SpanType, Zenon
<1>7. Window(First, First) = {}
  BY <1>6 DEF Window
<1>8. Rings
  BY <1>6, <1>7, VirtioAssumption DEF Rings, Fits
<1>9. Waiting = {} /\ Answered = {}
  BY <1>7, Zenon DEF Waiting, Answered, Held
<1>10. Places
  BY <1>3, <1>9, Zenon DEF Places
<1> QED
  BY <1>2, <1>4, <1>5, <1>8, <1>10, Zenon DEF DiskInv

----------------------------------------------------------------------------
(* What an action that leaves a part of the state alone keeps *)

LEMMA ChainsFrame ==
    ASSUME Chains, Issued' = Issued, UNCHANGED <<free, next, head>>
    PROVE  Chains'
<1>1. \A p : Owned(p)' = Owned(p) /\ (Linked(p) => Linked(p)')
  BY Zenon DEF Owned, Middle, Last, Linked
<1> QED
  BY <1>1, Zenon DEF Chains

LEMMA RequestsFrame ==
    ASSUME Requests, Issued' = Issued, UNCHANGED <<next, head, blk, write, info, ops, addr>>,
           \A p \in Procs : pc'[p] # "idle" => pc[p] # "idle"
    PROVE  Requests'
<1>1. \A p : Described(p) => Described(p)'
  BY Zenon DEF Middle, Last, Described
<1> QED
  BY <1>1, Zenon DEF Requests

LEMMA RingsFrame ==
    ASSUME Rings, UNCHANGED <<avail, avail_idx, taken, used, used_idx, used_end>>
    PROVE  Rings' /\ Waiting' = Waiting /\ Answered' = Answered
  BY Zenon DEF Rings, Waiting, Answered

LEMMA PlacesFrame ==
    ASSUME Places, Issued' = Issued, Waiting' = Waiting, Answered' = Answered,
           UNCHANGED <<active, disk, head, status>>
    PROVE  Places'
  BY DEF Places

(* A process is woken or goes back to sleep: Resleep, Kill, and Starve. *)
LEMMA OnlyPc ==
    ASSUME DiskInv, Issued' = Issued, pc' \in [Procs -> {"idle", "desc", "descwake", "wait", "wake"}],
           \A p \in Procs : pc'[p] # "idle" => pc[p] # "idle",
           UNCHANGED <<descvars, status, avail, avail_idx, used, used_end, used_idx,
                       disk, head, blk, write, taken, active, media, data>>
    PROVE  DiskInv'
<1> USE DEF descvars
<1>1. TypeOK'
  BY Zenon DEF DiskInv, TypeOK
<1>2. Chains'
  BY ChainsFrame, Zenon DEF DiskInv
<1>3. Requests'
  BY RequestsFrame, Zenon DEF DiskInv
<1>4. Rings' /\ Waiting' = Waiting /\ Answered' = Answered
  BY RingsFrame, Zenon DEF DiskInv
<1>5. Places'
  BY <1>4, PlacesFrame, Zenon DEF DiskInv
<1> QED
  BY <1>1, <1>2, <1>3, <1>4, <1>5, Zenon DEF DiskInv

LEMMA ResleepInv ==
    ASSUME DiskInv, NEW p \in Procs, Resleep(p)
    PROVE  DiskInv'
<1>1. pc \in [Procs -> {"idle", "desc", "descwake", "wait", "wake"}]
  BY Zenon DEF DiskInv, TypeOK
<1>2. pc[p] = "wake" /\ pc' = [pc EXCEPT ![p] = "wait"]
  BY Zenon DEF Resleep
<1>3. /\ Issued' = Issued /\ pc' \in [Procs -> {"idle", "desc", "descwake", "wait", "wake"}]
      /\ \A q \in Procs : pc'[q] # "idle" => pc[q] # "idle"
  BY <1>1, <1>2, Zenon DEF Issued
<1> QED
  BY <1>3, OnlyPc, Zenon DEF Resleep, devvars

LEMMA KillInv ==
    ASSUME DiskInv, NEW p \in Procs, Kill(p)
    PROVE  DiskInv'
<1>1. pc \in [Procs -> {"idle", "desc", "descwake", "wait", "wake"}]
  BY Zenon DEF DiskInv, TypeOK
<1>2. pc[p] \in {"wait", "desc"} /\ pc' = [pc EXCEPT ![p] = IF @ = "wait" THEN "wake" ELSE "descwake"]
  BY Zenon DEF Kill
<1>3. /\ Issued' = Issued /\ pc' \in [Procs -> {"idle", "desc", "descwake", "wait", "wake"}]
      /\ \A q \in Procs : pc'[q] # "idle" => pc[q] # "idle"
  BY <1>1, <1>2, Zenon DEF Issued
<1> QED
  BY <1>3, OnlyPc, Zenon DEF Kill, devvars

LEMMA IntrEdgeInv ==
    ASSUME DiskInv, IntrBegin \/ IntrEnd
    PROVE  DiskInv'
<1>1. /\ UNCHANGED <<descvars, status, avail, avail_idx, used, used_end, used_idx,
                     procvars, devvars, data>>
  BY Zenon DEF IntrBegin, IntrEnd
<1>2. Issued' = Issued /\ pc' = pc
  BY <1>1, Zenon DEF Issued, procvars
<1>3. pc' \in [Procs -> {"idle", "desc", "descwake", "wait", "wake"}]
  BY <1>2, Zenon DEF DiskInv, TypeOK
<1> QED
  BY <1>1, <1>2, <1>3, OnlyPc, Zenon DEF procvars, devvars

----------------------------------------------------------------------------
(* The device and the interrupt handler *)

LEMMA DeviceTakeInv ==
    ASSUME DiskInv, DeviceTake
    PROVE  DiskInv'
<1> DEFINE d == avail[taken % NUM]
<1>1. /\ taken # avail_idx /\ taken' = Inc(taken) /\ active' = active \cup {d}
      /\ UNCHANGED <<descvars, status, avail, avail_idx, used, used_end, used_idx,
                     procvars, media, data>>
  BY Zenon DEF DeviceTake, Inc
<1>2. /\ avail \in [Slots -> Desc] /\ taken \in Index /\ avail_idx \in Index
      /\ Fits(avail, taken, avail_idx)
  BY Zenon DEF DiskInv, TypeOK, Rings
<1>3. taken' \in Index
  BY <1>1, <1>2, IncIs, Zenon
<1>4. Fits(avail, taken', avail_idx) /\ d \in Desc
  BY <1>1, <1>2, RingTakes, Zenon
<1>5. Waiting = Waiting' \cup {d} /\ d \notin Waiting'
  BY <1>1, <1>2, RingTakes, Zenon DEF Waiting
<1> HIDE DEF d
<1>6. Answered' = Answered /\ Issued' = Issued
  BY <1>1, Zenon DEF Answered, Issued, procvars
<1>7. TypeOK'
  <2>1. avail_idx' \in Index /\ taken' \in Index /\ used_idx' \in Index /\ used_end' \in Index
    BY <1>1, <1>3, Zenon DEF DiskInv, TypeOK
  <2>2. active' \subseteq Desc
    BY <1>1, <1>4, Zenon DEF DiskInv, TypeOK
  <2> QED
    BY <1>1, <2>1, <2>2, Zenon DEF DiskInv, TypeOK, descvars, procvars
<1>8. Chains'
  BY <1>1, <1>6, ChainsFrame, Zenon DEF DiskInv, descvars, procvars
<1>9. Requests'
  BY <1>1, <1>6, RequestsFrame, Zenon DEF DiskInv, descvars, procvars
<1>10. Rings'
  BY <1>1, <1>4, Zenon DEF DiskInv, Rings
<1>11. Places'
  <2>1. UNCHANGED <<status, disk, head>>
    BY <1>1, Zenon DEF procvars
  <2> QED
    BY <1>1, <1>4, <1>5, <1>6, <2>1 DEF DiskInv, Places
<1> QED
  BY <1>7, <1>8, <1>9, <1>10, <1>11, Zenon DEF DiskInv

(* The chain leads the device to what the process asked for. *)
LEMMA DeviceActs ==
    ASSUME DiskInv, NEW d \in Desc, DeviceDo(d)
    PROVE  \E p \in Issued :
             /\ disk[p] /\ head[p] = d /\ info[d] = p /\ blk[p] \in Blocks
             /\ status' = [status EXCEPT ![d] = 0]
             /\ IF write[p]
                THEN media' = [media EXCEPT ![blk[p]] = data[p]] /\ UNCHANGED data
                ELSE data' = [data EXCEPT ![p] = media[blk[p]]] /\ UNCHANGED media
<1>1. PICK p \in Issued : disk[p] /\ head[p] = d
  BY Zenon DEF DeviceDo, DiskInv, Places
<1>2. Described(p)
  BY Zenon DEF DiskInv, Requests
<1>3. addr[d][2] = d /\ addr[next[d]][2] = p /\ addr[next[next[d]]][2] = d
  <2>1. addr[d] = <<"ops", d>> /\ addr[next[d]] = <<"data", p>> /\ addr[next[next[d]]] = <<"status", d>>
    BY <1>1, <1>2, Zenon DEF Described, Middle, Last
  <2> QED
    BY <2>1
<1>4. ops[d].write = write[p] /\ ops[d].sector = blk[p]
  <2>1. ops[d] = [write |-> write[p], sector |-> blk[p]]
    BY <1>1, <1>2, Zenon DEF Described
  <2> QED
    BY <2>1
<1>5. info[d] = p /\ blk[p] \in Blocks
  BY <1>1, <1>2, Zenon DEF Described
<1>6. /\ status' = [status EXCEPT ![addr[next[next[d]]][2]] = 0]
      /\ IF ops[addr[d][2]].write
         THEN /\ media' = [media EXCEPT ![ops[addr[d][2]].sector] = data[addr[next[d]][2]]]
              /\ UNCHANGED data
         ELSE /\ data' = [data EXCEPT ![addr[next[d]][2]] = media[ops[addr[d][2]].sector]]
              /\ UNCHANGED media
  BY Zenon DEF DeviceDo
<1>7. /\ status' = [status EXCEPT ![d] = 0]
      /\ IF write[p]
         THEN media' = [media EXCEPT ![blk[p]] = data[p]] /\ UNCHANGED data
         ELSE data' = [data EXCEPT ![p] = media[blk[p]]] /\ UNCHANGED media
  BY <1>3, <1>4, <1>6, Zenon
<1> QED
  BY <1>1, <1>5, <1>7, Zenon

LEMMA DeviceDoInv ==
    ASSUME DiskInv, NEW d \in Desc, DeviceDo(d)
    PROVE  DiskInv'
<1>1. /\ d \in active /\ active' = active \ {d} /\ used_end' = Inc(used_end)
      /\ used' = [used EXCEPT ![used_end % NUM] = d]
      /\ UNCHANGED <<descvars, avail, avail_idx, used_idx, procvars, taken>>
  BY Zenon DEF DeviceDo, Inc
<1>2. PICK p \in Issued :
        /\ disk[p] /\ head[p] = d
        /\ status' = [status EXCEPT ![d] = 0]
        /\ \/ media' = [media EXCEPT ![blk[p]] = data[p]] /\ UNCHANGED data
           \/ data' = [data EXCEPT ![p] = media[blk[p]]] /\ UNCHANGED media
  BY DeviceActs
<1>3. d \notin Answered /\ d \notin Waiting
  BY <1>1, Zenon DEF DiskInv, Places
<1>4. /\ used \in [Slots -> Desc] /\ used_idx \in Index /\ used_end \in Index
      /\ Fits(used, used_idx, used_end)
  BY Zenon DEF DiskInv, TypeOK, Rings
<1>5. /\ used' \in [Slots -> Desc] /\ Fits(used', used_idx, used_end')
      /\ Held(used', used_idx, used_end') = Answered \cup {d}
  <2>1. d \notin Held(used, used_idx, used_end)
    BY <1>3, Zenon DEF Answered
  <2>2. Appended(used', used, used_end, d)
    BY <1>1, <1>4, AppendedIs, ZenonT(30)
  <2>3. /\ used' \in [Slots -> Desc] /\ Fits(used', used_idx, Inc(used_end))
        /\ Held(used', used_idx, Inc(used_end)) = Held(used, used_idx, used_end) \cup {d}
    BY <1>4, <2>1, <2>2, RingAppends
  <2> QED
    BY <1>1, <2>3, Zenon DEF Answered
<1>6. Answered' = Answered \cup {d} /\ Waiting' = Waiting /\ Issued' = Issued
  BY <1>1, <1>5, Zenon DEF Answered, Waiting, Issued, procvars
<1>7. TypeOK'
  <2>1. used_end' \in Index /\ active' \subseteq Desc
    BY <1>1, <1>4, IncIs, Zenon DEF DiskInv, TypeOK
  <2>2. status' \in [Desc -> {0, 255}]
    BY <1>2, Zenon DEF DiskInv, TypeOK
  <2>3. media' = [k \in Blocks |-> media'[k]] /\ data' = [q \in Procs |-> data'[q]]
    BY <1>2, Zenon DEF DiskInv, TypeOK
  <2> QED
    BY <1>1, <1>5, <2>1, <2>2, <2>3, Zenon DEF DiskInv, TypeOK, descvars, procvars
<1>8. Chains'
  BY <1>1, <1>6, ChainsFrame, Zenon DEF DiskInv, descvars, procvars
<1>9. Requests'
  BY <1>1, <1>6, RequestsFrame, Zenon DEF DiskInv, descvars, procvars
<1>10. Rings'
  BY <1>1, <1>5, Zenon DEF DiskInv, Rings
<1>11. Places'
  <2>1. UNCHANGED <<disk, head>> /\ \A q \in Issued : head[q] \in Desc
    BY <1>1, Zenon DEF procvars, DiskInv, Chains, Linked, Owned
  <2>2. status'[d] = 0 /\ \A x \in Desc : x # d => status'[x] = status[x]
    BY <1>2, Zenon DEF DiskInv, TypeOK
  <2>3. Waiting \cup active \cup Answered = Waiting' \cup active' \cup Answered'
    BY <1>1, <1>6, Zenon
  <2>4. Waiting \cup active \cup Answered \subseteq Desc
    BY <2>1 DEF DiskInv, Places
  <2>5. /\ Waiting' \cap active' = {} /\ Waiting' \cap Answered' = {}
        /\ active' \cap Answered' = {}
    BY <1>1, <1>3, <1>6 DEF DiskInv, Places
  <2>6. /\ \A x \in Waiting' \cup active' : status'[x] = 255
        /\ \A x \in Answered' : status'[x] = 0
    BY <1>1, <1>3, <1>6, <2>2, <2>4 DEF DiskInv, Places
  <2>7. \A q \in Issued : ~disk[q] => status'[head[q]] = 0
    BY <2>1, <2>2 DEF DiskInv, Places
  <2>8. /\ \A x \in Waiting' \cup active' \cup Answered' : \E q \in Issued : disk[q] /\ head[q] = x
        /\ \A q \in Issued : disk[q] => head[q] \in Waiting' \cup active' \cup Answered'
    BY <2>3 DEF DiskInv, Places
  <2> QED
    BY <1>6, <2>1, <2>5, <2>6, <2>7, <2>8 DEF Places
<1> QED
  BY <1>7, <1>8, <1>9, <1>10, <1>11, Zenon DEF DiskInv

(* The handler finds a request in the used ring, and its process. *)
LEMMA IntrFinds ==
    ASSUME DiskInv, lock, used_idx # used_end
    PROVE  LET d == used[used_idx % NUM]
           IN  d \in Answered /\ info[d] \in Issued /\ head[info[d]] = d /\ disk[info[d]]
<1> DEFINE d == used[used_idx % NUM]
<1>1. /\ used \in [Slots -> Desc] /\ used_idx \in Index /\ used_end \in Index
      /\ Fits(used, used_idx, used_end)
  BY Zenon DEF DiskInv, TypeOK, Rings
<1>2. d \in Answered
  BY <1>1, RingTakes DEF Answered
<1>3. PICK p \in Issued : disk[p] /\ head[p] = d
  BY <1>2, Zenon DEF DiskInv, Places
<1>4. info[d] = p
  BY <1>3, Zenon DEF DiskInv, Requests, Described
<1> QED
  BY <1>2, <1>3, <1>4, Zenon

LEMMA IntrNextInv ==
    ASSUME DiskInv, IntrNext
    PROVE  DiskInv'
<1> DEFINE d == used[used_idx % NUM]
<1>1. PICK p \in Issued :
        /\ info[d] = p /\ disk[p] /\ head[p] = d
        /\ disk' = [disk EXCEPT ![p] = FALSE]
        /\ pc' = [pc EXCEPT ![p] = IF @ = "wait" THEN "wake" ELSE @]
  BY IntrFinds, Zenon DEF IntrNext
<1>2. /\ used_idx # used_end /\ used_idx' = Inc(used_idx)
      /\ UNCHANGED <<descvars, status, avail, avail_idx, used, used_end,
                     head, blk, write, devvars, data>>
  BY Zenon DEF IntrNext
<1>3. /\ used \in [Slots -> Desc] /\ used_idx \in Index /\ used_end \in Index
      /\ Fits(used, used_idx, used_end)
  BY Zenon DEF DiskInv, TypeOK, Rings
<1>4. Fits(used, used_idx', used_end) /\ used_idx' \in Index
  BY <1>2, <1>3, RingTakes, IncIs, Zenon
<1>5. Answered = Answered' \cup {d} /\ d \notin Answered'
  BY <1>2, <1>3, RingTakes, Zenon DEF Answered
<1> HIDE DEF d
<1>6. p \in Procs /\ pc[p] \in {"wait", "wake"}
  BY Zenon DEF Issued
<1>7. /\ pc' \in [Procs -> {"idle", "desc", "descwake", "wait", "wake"}]
      /\ \A q \in Procs : pc'[q] # "idle" => pc[q] # "idle"
      /\ Issued' = Issued
  BY <1>1, <1>6, ZenonT(30) DEF DiskInv, TypeOK, Issued
<1>8. /\ disk' \in [Procs -> BOOLEAN] /\ ~disk'[p]
      /\ \A q \in Procs : q # p => disk'[q] = disk[q]
  BY <1>1, <1>6, Zenon DEF DiskInv, TypeOK
<1>9. Waiting' = Waiting /\ active' = active /\ status' = status /\ head' = head
  BY <1>2, Zenon DEF Waiting, devvars
<1>10. TypeOK'
  BY <1>2, <1>4, <1>7, <1>8, Zenon DEF DiskInv, TypeOK, descvars, devvars
<1>11. Chains'
  BY <1>2, <1>7, ChainsFrame, Zenon DEF DiskInv, descvars
<1>12. Requests'
  BY <1>2, <1>7, RequestsFrame, Zenon DEF DiskInv, descvars
<1>13. Rings'
  BY <1>2, <1>4, Zenon DEF DiskInv, Rings, devvars
<1>14. Places'
  <2>1. \A q \in Issued : q \in Procs /\ (q # p => head[q] # d)
    <3>1. \A q \in Issued : q # p => Owned(p) \cap Owned(q) = {}
      BY Zenon DEF DiskInv, Chains
    <3>2. \A q : head[q] \in Owned(q)
      BY Zenon DEF Owned
    <3> QED
      BY <1>1, <3>1, <3>2, Zenon DEF Issued
  <2>2. d \notin Waiting /\ d \notin active /\ status[d] = 0
    BY <1>5, Zenon DEF DiskInv, Places
  <2>3. /\ Waiting' \cap active' = {} /\ Waiting' \cap Answered' = {}
        /\ active' \cap Answered' = {}
    BY <1>5, <1>9, Zenon DEF DiskInv, Places
  <2>4. /\ \A x \in Waiting' \cup active' : status'[x] = 255
        /\ \A x \in Answered' : status'[x] = 0
    BY <1>5, <1>9, Zenon DEF DiskInv, Places
  <2>5. \A q \in Issued : ~disk'[q] => status'[head'[q]] = 0
    BY <1>1, <1>8, <1>9, <2>1, <2>2 DEF DiskInv, Places
  <2>6. \A x \in Waiting' \cup active' \cup Answered' : \E q \in Issued : disk'[q] /\ head'[q] = x
    <3> SUFFICES ASSUME NEW x \in Waiting \cup active \cup Answered'
                 PROVE  \E q \in Issued : disk'[q] /\ head'[q] = x
      BY <1>9, Zenon
    <3>1. x # d /\ x \in Waiting \cup active \cup Answered
      BY <1>5, <2>2, Zenon
    <3>2. PICK q \in Issued : disk[q] /\ head[q] = x
      BY <3>1, Zenon DEF DiskInv, Places
    <3> QED
      BY <1>1, <1>8, <1>9, <2>1, <3>1, <3>2, Zenon
  <2>7. \A q \in Issued : disk'[q] => head'[q] \in Waiting' \cup active' \cup Answered'
    BY <1>5, <1>8, <1>9, <2>1 DEF DiskInv, Places
  <2> QED
    BY <1>7, <2>3, <2>4, <2>5, <2>6, <2>7, Zenon DEF Places
<1> QED
  BY <1>10, <1>11, <1>12, <1>13, <1>14, Zenon DEF DiskInv
----------------------------------------------------------------------------
(* virtio_disk_rw() *)

LEMMA LowestIn ==
    ASSUME NEW T, T \subseteq Nat, T # {}
    PROVE  Lowest(T) \in T
<1> DEFINE R == OpToRel(<, Nat)
<1>1. \E x \in T : \A y \in T : ~(<<y, x>> \in R)
  <2>1. IsWellFoundedOn(R, Nat)
    BY NatLessThanWellFounded, Zenon
  <2> HIDE DEF R
  <2> QED
    BY <2>1, WFMin, Zenon
<1>2. ASSUME NEW x \in Nat, NEW y \in Nat, ~(<<y, x>> \in R) PROVE x <= y
  BY <1>2 DEF OpToRel
<1>3. \E x \in T : \A y \in T : x <= y
  BY <1>1, <1>2, Zenon
<1> QED
  BY <1>3, Zenon DEF Lowest

(* alloc3_desc() finds three different free descriptors when there are. *)
LEMMA AllocFinds ==
    ASSUME free \subseteq Desc, Cardinality(free) >= 3
    PROVE  \E a, b, c \in free : alloc3_desc = <<a, b, c>> /\ a # b /\ a # c /\ b # c
<1> DEFINE a == Lowest(free)
           b == Lowest(free \ {a})
           c == Lowest(free \ {a, b})
<1>1. IsFiniteSet(free) /\ Cardinality(free) \in Nat
  <2>1. IsFiniteSet(Desc)
    BY FS_Interval, Sizes DEF Desc
  <2> QED
    BY <2>1, FS_Subset, FS_CardinalityType, Zenon
<1>2. free \subseteq Nat
  BY Sizes, Zenon
<1>3. a \in free
  <2>1. free # {}
    BY <1>1, FS_EmptySet
  <2> QED
    BY <1>2, <2>1, LowestIn, Zenon
<1> HIDE DEF a
<1>4. IsFiniteSet(free \ {a}) /\ Cardinality(free \ {a}) = Cardinality(free) - 1
  BY <1>1, <1>3, FS_RemoveElement, Zenon
<1>5. b \in free \ {a}
  <2>1. free \ {a} # {}
    BY <1>1, <1>4, FS_EmptySet
  <2> QED
    BY <1>2, <2>1, LowestIn, Zenon
<1> HIDE DEF b
<1>6. free \ {a, b} = (free \ {a}) \ {b}
  BY Zenon
<1>7. IsFiniteSet(free \ {a, b}) /\ Cardinality(free \ {a, b}) = Cardinality(free \ {a}) - 1
  BY <1>4, <1>5, <1>6, FS_RemoveElement, Zenon
<1>8. c \in free \ {a, b}
  <2>1. free \ {a, b} # {}
    BY <1>1, <1>4, <1>7, FS_EmptySet
  <2> QED
    BY <1>2, <2>1, LowestIn, Zenon
<1> HIDE DEF c
<1>9. alloc3_desc = <<a, b, c>>
  BY Zenon DEF alloc3_desc, a, b, c
<1> QED
  BY <1>3, <1>5, <1>8, <1>9, Zenon

LEMMA StarveInv ==
    ASSUME DiskInv, NEW p \in Procs, pc[p] \in {"idle", "descwake"}, blk'[p] \in Blocks,
           blk' \in [Procs -> Blocks \cup {NULL}], write' \in [Procs -> BOOLEAN],
           data' = [q \in Procs |-> data'[q]],
           \A q \in Procs : q # p => blk'[q] = blk[q] /\ write'[q] = write[q],
           Starve(p), UNCHANGED <<used, used_end, used_idx, taken, active, media>>
    PROVE  DiskInv'
<1>1. /\ \/ pc' = [pc EXCEPT ![p] = "desc"]
         \/ pc' = [q \in Procs |-> IF q = p THEN "desc"
                                   ELSE IF pc[q] = "desc" THEN "descwake" ELSE pc[q]]
      /\ UNCHANGED <<descvars, status, avail, avail_idx, disk, head>>
  BY Zenon DEF Starve, WakeDesc
<1>2. /\ pc' \in [Procs -> {"idle", "desc", "descwake", "wait", "wake"}]
      /\ pc'[p] = "desc"
      /\ \A q \in Procs : q # p =>
            pc'[q] = pc[q] \/ (pc[q] = "desc" /\ pc'[q] = "descwake")
  <2>1. pc \in [Procs -> {"idle", "desc", "descwake", "wait", "wake"}]
    BY Zenon DEF DiskInv, TypeOK
  <2>2. CASE pc' = [pc EXCEPT ![p] = "desc"]
    BY <2>1, <2>2, Zenon
  <2>3. CASE pc' = [q \in Procs |-> IF q = p THEN "desc"
                                   ELSE IF pc[q] = "desc" THEN "descwake" ELSE pc[q]]
    BY <2>1, <2>3
  <2> QED
    BY <1>1, <2>2, <2>3, Zenon
<1>3. Issued' = Issued /\ p \notin Issued
  BY <1>2, Zenon DEF Issued
<1>4. TypeOK'
  BY <1>1, <1>2, Zenon DEF DiskInv, TypeOK, descvars
<1>5. Chains'
  BY <1>1, <1>3, ChainsFrame, Zenon DEF DiskInv, descvars
<1>6. Requests'
  <2>1. \A q \in Issued : Described(q) => Described(q)'
    <3> SUFFICES ASSUME NEW q \in Issued, Described(q) PROVE Described(q)'
      OBVIOUS
    <3>1. blk'[q] = blk[q] /\ write'[q] = write[q]
      BY <1>3, Zenon DEF Issued
    <3> QED
      BY <1>1, <3>1, Zenon DEF Described, Middle, Last, descvars
  <2> QED
    BY <1>2, <1>3, <2>1, Zenon DEF DiskInv, Requests
<1>7. Rings' /\ Waiting' = Waiting /\ Answered' = Answered
  BY <1>1, RingsFrame, Zenon DEF DiskInv
<1>8. Places'
  BY <1>1, <1>3, <1>7, PlacesFrame, Zenon DEF DiskInv
<1> QED
  BY <1>4, <1>5, <1>6, <1>7, <1>8, Zenon DEF DiskInv
(* What Issue changes, with the descriptors it takes named. *)
Taken(p, a, b, c) ==
    /\ a \in free /\ b \in free /\ c \in free /\ a # b /\ a # c /\ b # c
    /\ free' = free \ {a, b, c}
    /\ next'[a] = b /\ next'[b] = c /\ next'[c] = NULL
    /\ \A d \in Desc \ {a, b, c} : next'[d] = next[d] /\ addr'[d] = addr[d]
    /\ head'[p] = a
    /\ \A q \in Procs : q # p => head'[q] = head[q] /\ pc'[q] = pc[q] /\ disk'[q] = disk[q]
    /\ pc'[p] = "wait" /\ disk'[p]

Recorded(p, k, wr, a, b, c) ==
    /\ info'[a] = p /\ ops'[a] = [write |-> wr, sector |-> k] /\ status'[a] = 255
    /\ \A d \in Desc \ {a} : info'[d] = info[d] /\ ops'[d] = ops[d] /\ status'[d] = status[d]
    /\ addr'[a] = <<"ops", a>> /\ addr'[b] = <<"data", p>> /\ addr'[c] = <<"status", a>>

TypesKept ==
    /\ next' \in [Desc -> Desc \cup {NULL}] /\ info' \in [Desc -> Procs \cup {NULL}]
    /\ status' \in [Desc -> {0, 255}]
    /\ addr' = [d \in Desc |-> addr'[d]] /\ ops' = [d \in Desc |-> ops'[d]]
    /\ disk' \in [Procs -> BOOLEAN] /\ head' \in [Procs -> Desc \cup {NULL}]
    /\ pc' \in [Procs -> {"idle", "desc", "descwake", "wait", "wake"}]

LEMMA IssueIs ==
    ASSUME TypeOK, NEW p \in Procs, NEW k, NEW wr, Cardinality(free) >= 3, Issue(p, k, wr)
    PROVE  \E a, b, c \in Desc :
             /\ Taken(p, a, b, c) /\ Recorded(p, k, wr, a, b, c)
             /\ TypesKept
             /\ avail' = [avail EXCEPT ![avail_idx % NUM] = a] /\ avail_idx' = Inc(avail_idx)
<1>1. free \subseteq Desc
  BY Zenon DEF TypeOK
<1>2. PICK a, b, c \in free : alloc3_desc = <<a, b, c>> /\ a # b /\ a # c /\ b # c
  BY <1>1, AllocFinds, Zenon
<1>3. alloc3_desc[1] = a /\ alloc3_desc[2] = b /\ alloc3_desc[3] = c
  BY <1>2
<1>4. /\ free' = free \ {a, b, c}
      /\ ops' = [ops EXCEPT ![a] = [write |-> wr, sector |-> k]]
      /\ addr' = [addr EXCEPT ![a] = <<"ops", a>>, ![b] = <<"data", p>>, ![c] = <<"status", a>>]
      /\ next' = [next EXCEPT ![a] = b, ![b] = c, ![c] = NULL]
      /\ status' = [status EXCEPT ![a] = 255]
      /\ disk' = [disk EXCEPT ![p] = TRUE]
      /\ info' = [info EXCEPT ![a] = p]
      /\ head' = [head EXCEPT ![p] = a]
      /\ avail' = [avail EXCEPT ![avail_idx % NUM] = a]
      /\ avail_idx' = Inc(avail_idx)
      /\ pc' = [pc EXCEPT ![p] = "wait"]
  BY <1>3, Zenon DEF Issue
<1>5. a \in Desc /\ b \in Desc /\ c \in Desc
  BY <1>1, <1>2, Zenon
<1>6. /\ next' \in [Desc -> Desc \cup {NULL}]
      /\ next'[a] = b /\ next'[b] = c /\ next'[c] = NULL
      /\ \A d \in Desc \ {a, b, c} : next'[d] = next[d]
  <2>1. next \in [Desc -> Desc \cup {NULL}]
    BY Zenon DEF TypeOK
  <2>2. next' = [next EXCEPT ![a] = b, ![b] = c, ![c] = NULL]
    BY <1>4, Zenon
  <2> QED
    BY <1>2, <1>5, <2>1, <2>2
<1>7. /\ addr' = [d \in Desc |-> addr'[d]]
      /\ addr'[a] = <<"ops", a>> /\ addr'[b] = <<"data", p>> /\ addr'[c] = <<"status", a>>
      /\ \A d \in Desc \ {a, b, c} : addr'[d] = addr[d]
  <2>1. addr = [d \in Desc |-> addr[d]]
    BY Zenon DEF TypeOK
  <2>2. addr' = [addr EXCEPT ![a] = <<"ops", a>>, ![b] = <<"data", p>>, ![c] = <<"status", a>>]
    BY <1>4, Zenon
  <2> QED
    BY <1>2, <1>5, <2>1, <2>2, ZenonT(30)
<1>8. /\ info' \in [Desc -> Procs \cup {NULL}] /\ status' \in [Desc -> {0, 255}]
      /\ info'[a] = p /\ status'[a] = 255
      /\ \A d \in Desc \ {a} : info'[d] = info[d] /\ status'[d] = status[d]
  BY <1>4, <1>5, ZenonT(30) DEF TypeOK
<1>9. /\ ops' = [d \in Desc |-> ops'[d]] /\ ops'[a] = [write |-> wr, sector |-> k]
      /\ \A d \in Desc \ {a} : ops'[d] = ops[d]
  <2>1. ops = [d \in Desc |-> ops[d]]
    BY Zenon DEF TypeOK
  <2>2. ops' = [ops EXCEPT ![a] = [write |-> wr, sector |-> k]]
    BY <1>4, Zenon
  <2> QED
    BY <1>5, <2>1, <2>2
<1>10. /\ disk' \in [Procs -> BOOLEAN] /\ head' \in [Procs -> Desc \cup {NULL}]
       /\ pc' \in [Procs -> {"idle", "desc", "descwake", "wait", "wake"}]
  BY <1>4, <1>5, Zenon DEF TypeOK
<1>11. /\ head'[p] = a /\ pc'[p] = "wait" /\ disk'[p]
       /\ \A q \in Procs : q # p => head'[q] = head[q] /\ pc'[q] = pc[q] /\ disk'[q] = disk[q]
  BY <1>4, Zenon DEF TypeOK
<1>12. Taken(p, a, b, c)
  BY <1>2, <1>4, <1>6, <1>7, <1>11, Zenon DEF Taken
<1>13. Recorded(p, k, wr, a, b, c)
  BY <1>7, <1>8, <1>9, Zenon DEF Recorded
<1>14. TypesKept
  BY <1>6, <1>7, <1>8, <1>9, <1>10, Zenon DEF TypesKept
<1> QED
  BY <1>4, <1>5, <1>12, <1>13, <1>14, Zenon

(* A new request disturbs no other. *)
LEMMA TakenAside ==
    ASSUME DiskInv, NEW p \in Procs, p \notin Issued, NEW a, NEW b, NEW c, Taken(p, a, b, c),
           NEW q \in Issued
    PROVE  /\ head'[q] = head[q] /\ Middle(q)' = Middle(q) /\ Last(q)' = Last(q)
           /\ Owned(q)' = Owned(q) /\ Owned(q) \subseteq Desc \ {a, b, c}
<1>1. Linked(q) /\ q \in Procs /\ q # p
  BY Zenon DEF DiskInv, Chains, Issued
<1>2. Owned(q) \subseteq Desc \ {a, b, c}
  <2>1. Owned(q) \subseteq Desc \ free /\ a \in free /\ b \in free /\ c \in free
    BY <1>1, Zenon DEF Linked, Taken
  <2> QED
    BY <2>1
<1>3. head'[q] = head[q] /\ \A d \in Owned(q) : next'[d] = next[d]
  BY <1>1, <1>2, Zenon DEF Taken
<1>4. Middle(q)' = Middle(q) /\ Last(q)' = Last(q)
  BY <1>3, Zenon DEF Middle, Last, Owned
<1> QED
  BY <1>2, <1>3, <1>4, Zenon DEF Owned

LEMMA IssueChains ==
    ASSUME DiskInv, NEW p \in Procs, p \notin Issued, NEW a, NEW b, NEW c, Taken(p, a, b, c),
           Issued' = Issued \cup {p}
    PROVE  Chains'
<1>1. Middle(p)' = b /\ Last(p)' = c /\ Owned(p)' = {a, b, c}
  BY Zenon DEF Middle, Last, Owned, Taken
<1>2. Linked(p)'
  BY <1>1, ZenonT(30) DEF Linked, Taken, DiskInv, TypeOK
<1>3. \A q \in Issued : Linked(q)'
  <2> SUFFICES ASSUME NEW q \in Issued PROVE Linked(q)'
    OBVIOUS
  <2>1. Linked(q)
    BY Zenon DEF DiskInv, Chains
  <2>2. /\ head'[q] = head[q] /\ Middle(q)' = Middle(q) /\ Last(q)' = Last(q)
        /\ Owned(q)' = Owned(q) /\ Owned(q) \subseteq Desc \ {a, b, c}
    BY TakenAside, Zenon
  <2>3. next'[Last(q)] = next[Last(q)]
    BY <2>2, Zenon DEF Owned, Taken
  <2>4. Owned(q)' \subseteq Desc \ free'
    <3>1. Owned(q) \subseteq Desc \ free /\ free' = free \ {a, b, c}
      BY <2>1, Zenon DEF Linked, Taken
    <3> QED
      BY <2>2, <3>1
  <2>5. next'[Last(q)'] = NULL
    BY <2>1, <2>2, <2>3, Zenon DEF Linked
  <2> QED
    BY <2>1, <2>2, <2>4, <2>5, Zenon DEF Linked
<1>4. \A q \in Issued : Owned(q)' = Owned(q) /\ Owned(q) \cap {a, b, c} = {}
  BY TakenAside, Zenon
<1>5. \A q, r \in Issued' : q # r => Owned(q)' \cap Owned(r)' = {}
  BY <1>1, <1>4 DEF DiskInv, Chains
<1>6. \A d \in Desc : d \in free' \/ \E q \in Issued' : d \in Owned(q)'
  <2> SUFFICES ASSUME NEW d \in Desc PROVE d \in free' \/ \E q \in Issued' : d \in Owned(q)'
    OBVIOUS
  <2>1. CASE d \in {a, b, c}
    BY <1>1, <2>1, Zenon
  <2>2. CASE d \in free /\ d \notin {a, b, c}
    BY <2>2, Zenon DEF Taken
  <2>3. CASE d \notin free
    <3>1. PICK q \in Issued : d \in Owned(q)
      BY <2>3, Zenon DEF DiskInv, Chains
    <3> QED
      BY <1>4, <3>1, Zenon
  <2> QED
    BY <2>1, <2>2, <2>3, Zenon
<1> QED
  BY <1>2, <1>3, <1>5, <1>6, Zenon DEF Chains
LEMMA IssueRequests ==
    ASSUME DiskInv, NEW p \in Procs, p \notin Issued, NEW k \in Blocks, NEW wr,
           NEW a, NEW b, NEW c, Taken(p, a, b, c), Recorded(p, k, wr, a, b, c),
           Issued' = Issued \cup {p}, blk'[p] = k, write'[p] = wr,
           \A q \in Procs : q # p => blk'[q] = blk[q] /\ write'[q] = write[q]
    PROVE  Requests'
<1>1. Described(p)'
  <2>1. Middle(p)' = b /\ Last(p)' = c /\ head'[p] = a
    BY Zenon DEF Middle, Last, Taken
  <2> QED
    BY <2>1, Zenon DEF Described, Recorded
<1>2. \A q \in Issued : Described(q)'
  <2> SUFFICES ASSUME NEW q \in Issued PROVE Described(q)'
    OBVIOUS
  <2>1. Described(q) /\ q \in Procs /\ q # p
    BY Zenon DEF DiskInv, Requests, Issued
  <2>2. /\ head'[q] = head[q] /\ Middle(q)' = Middle(q) /\ Last(q)' = Last(q)
        /\ Owned(q) \subseteq Desc \ {a, b, c}
    BY TakenAside, Zenon
  <2>3. \A d \in Owned(q) : addr'[d] = addr[d] /\ info'[d] = info[d] /\ ops'[d] = ops[d]
    <3>1. \A d \in Owned(q) : d \in Desc \ {a, b, c} /\ d \in Desc \ {a}
      BY <2>2, Zenon
    <3>2. \A d \in Desc \ {a, b, c} : addr'[d] = addr[d]
      BY Zenon DEF Taken
    <3>3. \A d \in Desc \ {a} : info'[d] = info[d] /\ ops'[d] = ops[d]
      BY Zenon DEF Recorded
    <3> QED
      BY <3>1, <3>2, <3>3, Zenon
  <2>4. head[q] \in Owned(q) /\ Middle(q) \in Owned(q) /\ Last(q) \in Owned(q)
    BY Zenon DEF Owned
  <2> QED
    BY <2>1, <2>2, <2>3, <2>4, ZenonT(30) DEF Described
<1>3. \A q \in Procs : pc'[q] # "idle" => blk'[q] \in Blocks
  BY Zenon DEF DiskInv, Requests, Taken
<1> QED
  BY <1>1, <1>2, <1>3, Zenon DEF Requests

LEMMA IssuePlaces ==
    ASSUME DiskInv, NEW p \in Procs, p \notin Issued, NEW k, NEW wr,
           NEW a \in Desc, NEW b, NEW c, Taken(p, a, b, c), Recorded(p, k, wr, a, b, c),
           Issued' = Issued \cup {p}, Waiting' = Waiting \cup {a}, Answered' = Answered,
           active' = active
    PROVE  Places'
<1>1. \A q \in Issued : head[q] \in Desc \ {a}
  BY TakenAside, Zenon DEF Owned
<1>2. \A q \in Issued : head'[q] = head[q] /\ disk'[q] = disk[q]
  BY Zenon DEF Taken, Issued
<1>3. Waiting \cup active \cup Answered \subseteq Desc \ {a}
  BY <1>1, SMTT(30) DEF DiskInv, Places
<1>4. /\ Waiting' \cap active' = {} /\ Waiting' \cap Answered' = {}
      /\ active' \cap Answered' = {}
  BY <1>3 DEF DiskInv, Places
<1>5. status'[a] = 255 /\ \A d \in Desc \ {a} : status'[d] = status[d]
  BY Zenon DEF Recorded
<1>6. /\ \A d \in Waiting' \cup active' : status'[d] = 255
      /\ \A d \in Answered' : status'[d] = 0
  BY <1>3, <1>5 DEF DiskInv, Places
<1>7. head'[p] = a /\ disk'[p]
  BY Zenon DEF Taken
<1>8. \A q \in Issued' : ~disk'[q] => status'[head'[q]] = 0
  BY <1>1, <1>2, <1>5, <1>7 DEF DiskInv, Places
<1>9. \A d \in Waiting' \cup active' \cup Answered' : \E q \in Issued' : disk'[q] /\ head'[q] = d
  <2> SUFFICES ASSUME NEW d \in (Waiting \cup active \cup Answered) \cup {a}
               PROVE  \E q \in Issued' : disk'[q] /\ head'[q] = d
    BY Zenon
  <2>1. CASE d = a
    BY <1>7, <2>1, Zenon
  <2>2. CASE d # a
    <3>1. PICK q \in Issued : disk[q] /\ head[q] = d
      BY <2>2, Zenon DEF DiskInv, Places
    <3> QED
      BY <1>2, <3>1, Zenon
  <2> QED
    BY <2>1, <2>2, Zenon
<1>10. \A q \in Issued' : disk'[q] => head'[q] \in Waiting' \cup active' \cup Answered'
  BY <1>2, <1>7, Zenon DEF DiskInv, Places
<1> QED
  BY <1>4, <1>6, <1>8, <1>9, <1>10, Zenon DEF Places

LEMMA IssueInv ==
    ASSUME DiskInv, NEW p \in Procs, pc[p] \in {"idle", "descwake"},
           NEW k \in Blocks, NEW wr \in BOOLEAN, blk'[p] = k, write'[p] = wr,
           blk' \in [Procs -> Blocks \cup {NULL}], write' \in [Procs -> BOOLEAN],
           data' = [q \in Procs |-> data'[q]],
           \A q \in Procs : q # p => blk'[q] = blk[q] /\ write'[q] = write[q],
           Cardinality(free) >= 3, Issue(p, k, wr),
           UNCHANGED <<used, used_end, used_idx, taken, active, media>>
    PROVE  DiskInv'
<1>1. TypeOK
  BY Zenon DEF DiskInv
<1>2. PICK a, b, c \in Desc :
        /\ Taken(p, a, b, c) /\ Recorded(p, k, wr, a, b, c)
        /\ TypesKept
        /\ avail' = [avail EXCEPT ![avail_idx % NUM] = a] /\ avail_idx' = Inc(avail_idx)
  BY <1>1, IssueIs, Zenon
<1>3. p \notin Issued /\ Issued' = Issued \cup {p}
  <2>1. pc'[p] = "wait" /\ \A q \in Procs : q # p => pc'[q] = pc[q]
    BY <1>2, Zenon DEF Taken
  <2> QED
    BY <2>1, Zenon DEF Issued
<1>4. /\ avail \in [Slots -> Desc] /\ taken \in Index /\ avail_idx \in Index
      /\ Fits(avail, taken, avail_idx)
  BY Zenon DEF DiskInv, TypeOK, Rings
<1>5. a \notin Held(avail, taken, avail_idx)
  <2>1. \A d \in Waiting : \E q \in Issued : disk[q] /\ head[q] = d
    BY Zenon DEF DiskInv, Places
  <2>2. \A q \in Issued : head[q] \notin free
    BY Zenon DEF DiskInv, Chains, Linked, Owned
  <2>3. a \in free
    BY <1>2, Zenon DEF Taken
  <2> QED
    BY <2>1, <2>2, <2>3, Zenon DEF Waiting
<1>6. Appended(avail', avail, avail_idx, a)
  BY <1>2, <1>4, AppendedIs, ZenonT(30)
<1>7. /\ avail' \in [Slots -> Desc] /\ Fits(avail', taken, Inc(avail_idx))
      /\ Held(avail', taken, Inc(avail_idx)) = Held(avail, taken, avail_idx) \cup {a}
  BY <1>4, <1>5, <1>6, RingAppends
<1>8. Waiting' = Waiting \cup {a} /\ Answered' = Answered /\ active' = active
  BY <1>2, <1>7, Zenon DEF Waiting, Answered
<1>9. TypeOK'
  <2>1. avail_idx' \in Index /\ free' \subseteq Desc
    BY <1>2, <1>4, IncIs, Zenon DEF Taken, DiskInv, TypeOK
  <2> QED
    BY <1>1, <1>2, <1>7, <2>1, Zenon DEF TypeOK, TypesKept
<1>10. Chains'
  BY <1>2, <1>3, IssueChains, Zenon
<1>11. Requests'
  BY <1>2, <1>3, IssueRequests, Zenon
<1>12. Rings'
  BY <1>2, <1>7, Zenon DEF DiskInv, Rings
<1>13. Places'
  BY <1>2, <1>3, <1>8, IssuePlaces, Zenon
<1> QED
  BY <1>9, <1>10, <1>11, <1>12, <1>13, Zenon DEF DiskInv
LEMMA AllocInv ==
    ASSUME DiskInv, NEW p \in Procs, pc[p] \in {"idle", "descwake"},
           NEW k \in Blocks, NEW wr \in BOOLEAN, blk'[p] = k, write'[p] = wr,
           blk' \in [Procs -> Blocks \cup {NULL}], write' \in [Procs -> BOOLEAN],
           data' = [q \in Procs |-> data'[q]],
           \A q \in Procs : q # p => blk'[q] = blk[q] /\ write'[q] = write[q],
           Alloc(p, k, wr)
    PROVE  DiskInv'
<1>1. UNCHANGED <<used, used_end, used_idx, taken, active, media>>
  BY Zenon DEF Alloc
<1>2. CASE Cardinality(free) >= 3
  <2>1. Issue(p, k, wr)
    BY <1>2, Zenon DEF Alloc
  <2> QED
    BY <1>1, <1>2, <2>1, IssueInv, Zenon
<1>3. CASE ~(Cardinality(free) >= 3)
  <2>1. Starve(p) /\ blk'[p] \in Blocks
    BY <1>3, Zenon DEF Alloc
  <2> QED
    BY <1>1, <2>1, StarveInv, Zenon
<1> QED
  BY <1>2, <1>3, Zenon

LEMMA CallInv ==
    ASSUME DiskInv, NEW p \in Procs, NEW k \in Blocks, NEW wr \in Writes,
           virtio_disk_rw(p, k, wr)
    PROVE  DiskInv'
<1>1. /\ pc[p] = "idle" /\ Alloc(p, k, wr)
      /\ blk' = [blk EXCEPT ![p] = k] /\ write' = [write EXCEPT ![p] = wr]
      /\ data' = [data EXCEPT ![p] = IF wr THEN p ELSE NULL]
  BY Zenon DEF virtio_disk_rw
<1>2. wr \in BOOLEAN
  BY VirtioAssumption, Zenon
<1>3. /\ blk' \in [Procs -> Blocks \cup {NULL}] /\ write' \in [Procs -> BOOLEAN]
      /\ blk'[p] = k /\ write'[p] = wr
      /\ \A q \in Procs : q # p => blk'[q] = blk[q] /\ write'[q] = write[q]
  BY <1>1, <1>2, ZenonT(30) DEF DiskInv, TypeOK
<1>4. data' = [q \in Procs |-> data'[q]]
  <2>1. data = [q \in Procs |-> data[q]]
    BY Zenon DEF DiskInv, TypeOK
  <2> QED
    BY <1>1, <2>1, Zenon
<1>5. pc[p] \in {"idle", "descwake"} /\ Alloc(p, k, wr)
  BY <1>1, Zenon
<1> QED
  BY <1>2, <1>3, <1>4, <1>5, AllocInv, Zenon

LEMMA RetryInv ==
    ASSUME DiskInv, NEW p \in Procs, Retry(p)
    PROVE  DiskInv'
<1>1. pc[p] = "descwake" /\ Alloc(p, blk[p], write[p]) /\ UNCHANGED <<blk, write, data>>
  BY Zenon DEF Retry
<1>2. blk[p] \in Blocks /\ write[p] \in BOOLEAN
  BY <1>1, Zenon DEF DiskInv, TypeOK, Requests
<1>3. /\ blk' \in [Procs -> Blocks \cup {NULL}] /\ write' \in [Procs -> BOOLEAN]
      /\ data' = [q \in Procs |-> data'[q]]
      /\ blk'[p] = blk[p] /\ write'[p] = write[p]
      /\ \A q \in Procs : q # p => blk'[q] = blk[q] /\ write'[q] = write[q]
  BY <1>1, Zenon DEF DiskInv, TypeOK
<1> QED
  BY <1>1, <1>2, <1>3, AllocInv, Zenon

(* free_chain() finds the three descriptors of the request. *)
LEMMA ChainIs ==
    ASSUME DiskInv, NEW p \in Issued
    PROVE  Chain(head[p]) = Owned(p)
<1>1. Linked(p)
  BY Zenon DEF DiskInv, Chains
<1>2. Middle(p) # NULL /\ Last(p) # NULL
  <2>1. NULL \notin Desc
    BY VirtioAssumption, Sizes, Zenon
  <2>2. Middle(p) \in Desc /\ Last(p) \in Desc
    BY <1>1, Zenon DEF Linked, Owned
  <2> QED
    BY <2>1, <2>2, Zenon
<1> QED
  BY <1>2, Zenon DEF Chain, Owned, Middle, Last

LEMMA FinishInv ==
    ASSUME DiskInv, NEW p \in Procs, Finish(p)
    PROVE  DiskInv'
<1> DEFINE h == head[p]
<1>1. p \in Issued /\ ~disk[p]
  BY Zenon DEF Finish, Completed, Issued
<1>2. Chain(h) = Owned(p) /\ h \in Owned(p) /\ Owned(p) \subseteq Desc
  <2>1. Linked(p)
    BY <1>1, Zenon DEF DiskInv, Chains
  <2> QED
    BY <1>1, <2>1, ChainIs, Zenon DEF Owned, Linked
<1>3. /\ free' = free \cup Owned(p)
      /\ addr' = [x \in Desc |-> IF x \in Owned(p) THEN NULL ELSE addr[x]]
      /\ next' = [x \in Desc |-> IF x \in Owned(p) THEN NULL ELSE next[x]]
  BY <1>2, Zenon DEF Finish, free_chain
<1>4. /\ info' = [info EXCEPT ![h] = NULL] /\ head' = [head EXCEPT ![p] = NULL]
      /\ pc' = [q \in Procs |-> IF q = p THEN "idle"
                                ELSE IF pc[q] = "desc" THEN "descwake" ELSE pc[q]]
      /\ UNCHANGED <<ops, status, avail, avail_idx, used, used_end, used_idx,
                     disk, blk, write, devvars, data>>
  BY Zenon DEF Finish, WakeDesc
<1> HIDE DEF h
<1>5. /\ addr' = [x \in Desc |-> addr'[x]] /\ next' \in [Desc -> Desc \cup {NULL}]
      /\ \A x \in Desc \ Owned(p) : addr'[x] = addr[x] /\ next'[x] = next[x]
  <2>1. next \in [Desc -> Desc \cup {NULL}]
    BY Zenon DEF DiskInv, TypeOK
  <2>2. next' \in [Desc -> Desc \cup {NULL}] /\ \A x \in Desc \ Owned(p) : next'[x] = next[x]
    BY <1>3, <2>1
  <2>3. addr' = [x \in Desc |-> addr'[x]] /\ \A x \in Desc \ Owned(p) : addr'[x] = addr[x]
    BY <1>3
  <2> QED
    BY <2>2, <2>3, Zenon
<1>6. /\ info' \in [Desc -> Procs \cup {NULL}] /\ head' \in [Procs -> Desc \cup {NULL}]
      /\ \A x \in Desc \ Owned(p) : info'[x] = info[x]
      /\ \A q \in Procs : q # p => head'[q] = head[q]
  BY <1>2, <1>4, Zenon DEF DiskInv, TypeOK
<1>7. /\ pc' \in [Procs -> {"idle", "desc", "descwake", "wait", "wake"}] /\ pc'[p] = "idle"
      /\ \A q \in Procs : q # p =>
            pc'[q] = pc[q] \/ (pc[q] = "desc" /\ pc'[q] = "descwake")
  <2>1. pc \in [Procs -> {"idle", "desc", "descwake", "wait", "wake"}]
    BY Zenon DEF DiskInv, TypeOK
  <2> QED
    BY <1>4, <2>1
<1>8. Issued' = Issued \ {p}
  BY <1>7, Zenon DEF Issued
<1>9. ASSUME NEW q \in Issued, q # p
      PROVE  /\ head'[q] = head[q] /\ Middle(q)' = Middle(q) /\ Last(q)' = Last(q)
             /\ Owned(q)' = Owned(q) /\ Owned(q) \subseteq Desc \ Owned(p) /\ Linked(q)
  <2>1. Linked(q) /\ q \in Procs /\ Owned(q) \cap Owned(p) = {}
    BY <1>1, <1>9, Zenon DEF DiskInv, Chains, Issued
  <2>2. Owned(q) \subseteq Desc \ Owned(p)
    BY <2>1, Zenon DEF Linked
  <2>3. head'[q] = head[q] /\ \A x \in Owned(q) : next'[x] = next[x]
    BY <1>5, <1>6, <1>9, <2>1, <2>2, Zenon
  <2>4. Middle(q)' = Middle(q) /\ Last(q)' = Last(q)
    BY <2>3, Zenon DEF Middle, Last, Owned
  <2> QED
    BY <2>1, <2>2, <2>3, <2>4, Zenon DEF Owned
<1>10. TypeOK'
  <2>1. free' \subseteq Desc
    BY <1>2, <1>3, Zenon DEF DiskInv, TypeOK
  <2> QED
    BY <1>4, <1>5, <1>6, <1>7, <2>1, ZenonT(30) DEF DiskInv, TypeOK, devvars
<1>11. Chains'
  <2>1. \A q \in Issued' : Linked(q)'
    <3> SUFFICES ASSUME NEW q \in Issued, q # p PROVE Linked(q)'
      BY <1>8, Zenon
    <3>1. /\ head'[q] = head[q] /\ Middle(q)' = Middle(q) /\ Last(q)' = Last(q)
          /\ Owned(q)' = Owned(q) /\ Owned(q) \subseteq Desc \ Owned(p) /\ Linked(q)
      BY <1>9, Zenon
    <3>2. Owned(q)' \subseteq Desc \ free'
      BY <1>3, <3>1, Zenon DEF Linked
    <3>3. next'[Last(q)'] = NULL
      BY <1>5, <3>1, Zenon DEF Linked, Owned
    <3> QED
      BY <3>1, <3>2, <3>3, Zenon DEF Linked
  <2>2. \A q, t \in Issued' : q # t => Owned(q)' \cap Owned(t)' = {}
    BY <1>8, <1>9, Zenon DEF DiskInv, Chains
  <2>3. \A d \in Desc : d \in free' \/ \E q \in Issued' : d \in Owned(q)'
    <3> SUFFICES ASSUME NEW d \in Desc, d \notin free' PROVE \E q \in Issued' : d \in Owned(q)'
      OBVIOUS
    <3>1. d \notin free /\ d \notin Owned(p)
      BY <1>3, Zenon
    <3>2. PICK q \in Issued : d \in Owned(q)
      BY <3>1, Zenon DEF DiskInv, Chains
    <3> QED
      BY <1>8, <1>9, <3>1, <3>2, Zenon
  <2> QED
    BY <2>1, <2>2, <2>3, Zenon DEF Chains
<1>12. Requests'
  <2>1. \A q \in Issued' : Described(q)'
    <3> SUFFICES ASSUME NEW q \in Issued, q # p PROVE Described(q)'
      BY <1>8, Zenon
    <3>1. /\ head'[q] = head[q] /\ Middle(q)' = Middle(q) /\ Last(q)' = Last(q)
          /\ Owned(q) \subseteq Desc \ Owned(p)
      BY <1>9, Zenon
    <3>2. Described(q)
      BY Zenon DEF DiskInv, Requests
    <3>3. \A x \in Owned(q) : addr'[x] = addr[x] /\ info'[x] = info[x]
      BY <1>5, <1>6, <3>1, Zenon
    <3>4. head[q] \in Owned(q) /\ Middle(q) \in Owned(q) /\ Last(q) \in Owned(q)
      BY Zenon DEF Owned
    <3> QED
      BY <1>4, <3>1, <3>2, <3>3, <3>4, Zenon DEF Described
  <2>2. \A q \in Procs : pc'[q] # "idle" => blk'[q] \in Blocks
    BY <1>4, <1>7, Zenon DEF DiskInv, Requests
  <2> QED
    BY <2>1, <2>2, Zenon DEF Requests
<1>13. Rings' /\ Waiting' = Waiting /\ Answered' = Answered
  BY <1>4, RingsFrame, Zenon DEF DiskInv, devvars
<1>14. Places'
  <2>1. disk' = disk /\ active' = active /\ status' = status
    BY <1>4, Zenon DEF devvars
  <2>2. \A q \in Issued' : q \in Issued /\ head'[q] = head[q]
    BY <1>8, <1>9, Zenon
  <2>3. \A q \in Issued : disk[q] => q \in Issued'
    BY <1>1, <1>8, Zenon
  <2>4. \A d \in Waiting \cup active \cup Answered : \E q \in Issued' : disk[q] /\ head'[q] = d
    <3> SUFFICES ASSUME NEW d \in Waiting \cup active \cup Answered
                 PROVE  \E q \in Issued' : disk[q] /\ head'[q] = d
      OBVIOUS
    <3>1. PICK q \in Issued : disk[q] /\ head[q] = d
      BY Zenon DEF DiskInv, Places
    <3> QED
      BY <2>2, <2>3, <3>1, Zenon
  <2> QED
    BY <1>13, <2>1, <2>2, <2>4 DEF DiskInv, Places
<1> QED
  BY <1>10, <1>11, <1>12, <1>13, <1>14, Zenon DEF DiskInv
----------------------------------------------------------------------------
LEMMA DiskNext == DiskInv /\ [Next]_vars => DiskInv'
<1> SUFFICES ASSUME DiskInv, [Next]_vars PROVE DiskInv'
  OBVIOUS
<1>1. CASE UNCHANGED vars
  <2>1. /\ pc' = pc
        /\ UNCHANGED <<descvars, status, avail, avail_idx, used, used_end, used_idx,
                       disk, head, blk, write, taken, active, media, data>>
    BY <1>1, Zenon DEF vars, procvars, devvars
  <2>2. Issued' = Issued /\ pc' \in [Procs -> {"idle", "desc", "descwake", "wait", "wake"}]
    BY <2>1, Zenon DEF Issued, DiskInv, TypeOK
  <2> QED
    BY <2>1, <2>2, OnlyPc, Zenon
<1>2. CASE \E p \in Procs, k \in Blocks, wr \in Writes : virtio_disk_rw(p, k, wr)
  BY <1>2, CallInv, Zenon
<1>3. CASE \E p \in Procs : ProcStep(p) \/ Kill(p)
  BY <1>3, RetryInv, ResleepInv, FinishInv, KillInv, Zenon DEF ProcStep
<1>4. CASE IntrStep
  BY <1>4, IntrEdgeInv, IntrNextInv, Zenon DEF IntrStep
<1>5. CASE Device
  BY <1>5, DeviceTakeInv, DeviceDoInv, Zenon DEF Device
<1> QED
  BY <1>1, <1>2, <1>3, <1>4, <1>5, Zenon DEF Next

(* The chains, the rings and the calls of virtio_disk_rw() stay in step,   *)
(* whatever the device answers first and whenever it interrupts.           *)
THEOREM DiskInvariant == Spec => []DiskInv
  BY DiskInit, DiskNext, PTL DEF Spec

LEMMA ChainsOwned == DiskInv => DescriptorsOwned
<1> SUFFICES ASSUME DiskInv PROVE DescriptorsOwned
  OBVIOUS
<1>1. \A p \in Issued : Chain(head[p]) = Owned(p) /\ Linked(p)
  BY ChainIs, Zenon DEF DiskInv, Chains
<1>2. ASSUME NEW p \in Issued PROVE Cardinality(Chain(head[p])) = 3
  <2>1. /\ Owned(p) = ({head[p]} \cup {Middle(p)}) \cup {Last(p)}
        /\ Middle(p) \notin {head[p]} /\ Last(p) \notin {head[p]} \cup {Middle(p)}
    BY <1>1, Zenon DEF Linked, Owned
  <2>2. IsFiniteSet({head[p]}) /\ Cardinality({head[p]}) = 1
    BY FS_Singleton, Zenon
  <2>3. /\ IsFiniteSet({head[p]} \cup {Middle(p)})
        /\ Cardinality({head[p]} \cup {Middle(p)}) = 2
    BY <2>1, <2>2, FS_AddElement, SMTT(30)
  <2>4. Cardinality(({head[p]} \cup {Middle(p)}) \cup {Last(p)}) = 3
    BY <2>1, <2>3, FS_AddElement
  <2> QED
    BY <1>1, <2>1, <2>4, Zenon
<1>3. \A p, q \in Issued : p # q => Chain(head[p]) \cap Chain(head[q]) = {}
  BY <1>1, Zenon DEF DiskInv, Chains
<1>4. Desc \ free = UNION {Chain(head[p]) : p \in Issued}
  <2>1. ASSUME NEW d \in Desc \ free PROVE \E p \in Issued : d \in Chain(head[p])
    <3>1. PICK p \in Issued : d \in Owned(p)
      BY Zenon DEF DiskInv, Chains
    <3> QED
      BY <1>1, <3>1, Zenon
  <2>2. \A p \in Issued : Chain(head[p]) \subseteq Desc \ free
    BY <1>1, Zenon DEF Linked
  <2> QED
    BY <2>1, <2>2, Zenon
<1> QED
  BY <1>2, <1>3, <1>4, Zenon DEF DescriptorsOwned

(* free_desc() never panics, no descriptor leaks, and the device never     *)
(* follows a chain that was given to another request.                      *)
THEOREM DescriptorsAreOwned == Spec => []DescriptorsOwned
  BY DiskInvariant, ChainsOwned, PTL

LEMMA PlacesAccounted == DiskInv => RequestsAccounted
<1> SUFFICES ASSUME DiskInv PROVE RequestsAccounted
  OBVIOUS
<1>1. Entries(avail, taken, avail_idx) = Waiting /\ Entries(used, used_idx, used_end) = Answered
  BY Zenon DEF Entries, Waiting, Answered, Held, Window, Span
<1>2. Waiting \cap active = {} /\ Waiting \cap Answered = {} /\ active \cap Answered = {}
  BY Zenon DEF DiskInv, Places
<1>3. Waiting \cup active \cup Answered = {head[p] : p \in {q \in Issued : disk[q]}}
  <2>1. \A d \in Waiting \cup active \cup Answered : \E p \in Issued : disk[p] /\ head[p] = d
    BY Zenon DEF DiskInv, Places
  <2>2. \A p \in Issued : disk[p] => head[p] \in Waiting \cup active \cup Answered
    BY Zenon DEF DiskInv, Places
  <2> QED
    BY <2>1, <2>2
<1>4. ASSUME NEW d \in Answered PROVE info[d] \in Issued /\ head[info[d]] = d /\ status[d] = 0
  <2>1. PICK p \in Issued : disk[p] /\ head[p] = d
    BY Zenon DEF DiskInv, Places
  <2>2. info[d] = p /\ status[d] = 0
    BY <2>1, ZenonT(30) DEF DiskInv, Places, Requests, Described
  <2> QED
    BY <2>1, <2>2, Zenon
<1> QED
  BY <1>1, <1>2, <1>3, <1>4, Zenon DEF RequestsAccounted

(* No request is lost, answered twice or taken for another, also when the  *)
(* 16-bit indices wrap, and virtio_disk_intr() never panics.               *)
THEOREM RequestsAreAccounted == Spec => []RequestsAccounted
  BY DiskInvariant, PlacesAccounted, PTL
----------------------------------------------------------------------------
(* The driver implements DiskService *)

Ops == [p \in Procs |-> Progress(p)]

LEMMA OpsChange ==
    ASSUME NEW p \in Procs, NEW v, Progress(p)' = v,
           \A q \in Procs : q # p => Progress(q)' = Progress(q)
    PROVE  Ops' = [Ops EXCEPT ![p] = v]
  BY Zenon DEF Ops

LEMMA OpsKept ==
    ASSUME Issued' = Issued, UNCHANGED <<status, head>>,
           \A q \in Procs : pc'[q] = "idle" <=> pc[q] = "idle"
    PROVE  Ops' = Ops
<1>1. \A q \in Procs : Progress(q)' = Progress(q)
  BY Zenon DEF Progress
<1> QED
  BY <1>1, Zenon DEF Ops

LEMMA AllocAsks ==
    ASSUME DiskInv, NEW p \in Procs, pc[p] \in {"idle", "descwake"}, NEW k, NEW wr,
           Alloc(p, k, wr)
    PROVE  /\ media' = media /\ Progress(p)' = "asked"
           /\ \A q \in Procs : q # p => Progress(q)' = Progress(q)
<1>1. media' = media
  BY Zenon DEF Alloc
<1>2. CASE Cardinality(free) >= 3
  <2>1. TypeOK /\ Issue(p, k, wr) /\ p \notin Issued
    BY <1>2, Zenon DEF Alloc, DiskInv, Issued
  <2>2. PICK a, b, c \in Desc : Taken(p, a, b, c) /\ Recorded(p, k, wr, a, b, c)
    BY <1>2, <2>1, IssueIs, Zenon
  <2>3. pc'[p] = "wait" /\ head'[p] = a /\ status'[a] = 255
    BY <2>2, Zenon DEF Taken, Recorded
  <2>4. Progress(p)' = "asked"
    BY <2>3 DEF Progress
  <2>5. ASSUME NEW q \in Procs, q # p PROVE Progress(q)' = Progress(q)
    <3>1. pc'[q] = pc[q] /\ (q \in Issued' <=> q \in Issued)
      BY <2>2, <2>5, Zenon DEF Taken, Issued
    <3>2. q \in Issued => head'[q] = head[q] /\ status'[head[q]] = status[head[q]]
      <4> SUFFICES ASSUME q \in Issued PROVE head'[q] = head[q] /\ status'[head[q]] = status[head[q]]
        OBVIOUS
      <4>1. head'[q] = head[q] /\ Owned(q) \subseteq Desc \ {a, b, c}
        BY <2>1, <2>2, TakenAside, Zenon
      <4>2. head[q] \in Desc \ {a}
        BY <4>1, Zenon DEF Owned
      <4>3. \A d \in Desc \ {a} : status'[d] = status[d]
        BY <2>2, Zenon DEF Recorded
      <4> QED
        BY <4>1, <4>2, <4>3, Zenon
    <3> QED
      BY <3>1, <3>2, Zenon DEF Progress
  <2> QED
    BY <1>1, <2>4, <2>5, Zenon
<1>3. CASE ~(Cardinality(free) >= 3)
  <2>1. /\ \/ pc' = [pc EXCEPT ![p] = "desc"]
           \/ pc' = [q \in Procs |-> IF q = p THEN "desc"
                                     ELSE IF pc[q] = "desc" THEN "descwake" ELSE pc[q]]
        /\ UNCHANGED <<status, head>>
    BY <1>3, Zenon DEF Alloc, Starve, WakeDesc
  <2>2. /\ pc'[p] = "desc"
        /\ \A q \in Procs : q # p =>
              pc'[q] = pc[q] \/ (pc[q] = "desc" /\ pc'[q] = "descwake")
    <3>1. pc \in [Procs -> {"idle", "desc", "descwake", "wait", "wake"}]
      BY Zenon DEF DiskInv, TypeOK
    <3>2. CASE pc' = [pc EXCEPT ![p] = "desc"]
      BY <3>1, <3>2, Zenon
    <3>3. CASE pc' = [q \in Procs |-> IF q = p THEN "desc"
                                     ELSE IF pc[q] = "desc" THEN "descwake" ELSE pc[q]]
      BY <3>1, <3>3
    <3> QED
      BY <2>1, <3>2, <3>3, Zenon
  <2>3. p \notin Issued' /\ Progress(p)' = "asked"
    BY <2>2, Zenon DEF Issued, Progress
  <2>4. ASSUME NEW q \in Procs, q # p PROVE Progress(q)' = Progress(q)
    <3>1. (q \in Issued' <=> q \in Issued) /\ (pc'[q] = "idle" <=> pc[q] = "idle")
      BY <2>2, <2>4, Zenon DEF Issued
    <3> QED
      BY <2>1, <3>1, Zenon DEF Progress
  <2> QED
    BY <1>1, <2>3, <2>4, Zenon
<1> QED
  BY <1>2, <1>3, Zenon

LEMMA ServiceInit == Init => DS!Init
<1> SUFFICES ASSUME Init PROVE DS!Init
  OBVIOUS
<1>1. Ops = [p \in Procs |-> "idle"]
  BY Zenon DEF Init, Ops, Progress
<1> QED
  BY <1>1, Zenon DEF Init, DS!Init, Ops

LEMMA CallServes ==
    ASSUME DiskInv, NEW p \in Procs, NEW k \in Blocks, NEW wr \in Writes,
           virtio_disk_rw(p, k, wr)
    PROVE  DS!Next
<1>1. /\ blk' = [blk EXCEPT ![p] = k] /\ write' = [write EXCEPT ![p] = wr]
      /\ data' = [data EXCEPT ![p] = IF wr THEN p ELSE NULL]
  BY Zenon DEF virtio_disk_rw
<1>2. pc[p] = "idle" /\ Alloc(p, k, wr) /\ wr \in BOOLEAN
  BY VirtioAssumption, Zenon DEF virtio_disk_rw
<1>3. /\ media' = media /\ Progress(p)' = "asked"
      /\ \A q \in Procs : q # p => Progress(q)' = Progress(q)
  BY <1>2, AllocAsks, Zenon
<1>4. Ops[p] = "idle" /\ Ops' = [Ops EXCEPT ![p] = "asked"]
  BY <1>2, <1>3, OpsChange, Zenon DEF Ops, Progress
<1>5. DS!Call(p, k, wr)
  BY <1>1, <1>3, <1>4, Zenon DEF DS!Call, Ops
<1> QED
  BY <1>2, <1>5, Zenon DEF DS!Next

LEMMA FinishServes ==
    ASSUME DiskInv, NEW p \in Procs, Finish(p)
    PROVE  DS!Next
<1>1. /\ pc[p] = "wake" /\ ~disk[p] /\ UNCHANGED <<media, data, blk, write, status>>
      /\ pc' = [q \in Procs |-> IF q = p THEN "idle"
                                ELSE IF pc[q] = "desc" THEN "descwake" ELSE pc[q]]
      /\ head' = [head EXCEPT ![p] = NULL]
  BY Zenon DEF Finish, Completed, WakeDesc, devvars
<1>2. p \in Issued /\ status[head[p]] = 0
  BY <1>1, Zenon DEF Issued, DiskInv, Places
<1>3. Progress(p) = "done"
  BY <1>1, <1>2, Zenon DEF Progress
<1>4. pc'[p] = "idle" /\ \A q \in Procs : q # p =>
            pc'[q] = pc[q] \/ (pc[q] = "desc" /\ pc'[q] = "descwake")
  BY <1>1
<1>5. \A q \in Procs : q # p => head'[q] = head[q]
  BY <1>1, Zenon DEF DiskInv, TypeOK
<1>6. ASSUME NEW q \in Procs, q # p PROVE Progress(q)' = Progress(q)
  <2>1. (q \in Issued' <=> q \in Issued) /\ (pc'[q] = "idle" <=> pc[q] = "idle")
    BY <1>4, <1>6, Zenon DEF Issued
  <2> QED
    BY <1>1, <1>5, <1>6, <2>1, Zenon DEF Progress
<1>7. Progress(p)' = "idle"
  BY <1>4, Zenon DEF Progress
<1>8. Ops[p] = "done" /\ Ops' = [Ops EXCEPT ![p] = "idle"]
  BY <1>3, <1>6, <1>7, OpsChange, Zenon DEF Ops
<1>9. DS!Return(p)
  BY <1>1, <1>8, Zenon DEF DS!Return, Ops
<1> QED
  BY <1>9, Zenon DEF DS!Next

LEMMA DeviceServes ==
    ASSUME DiskInv, NEW d \in Desc, DeviceDo(d)
    PROVE  DS!Next
<1>1. PICK p \in Issued :
        /\ head[p] = d
        /\ status' = [status EXCEPT ![d] = 0]
        /\ IF write[p]
           THEN media' = [media EXCEPT ![blk[p]] = data[p]] /\ UNCHANGED data
           ELSE data' = [data EXCEPT ![p] = media[blk[p]]] /\ UNCHANGED media
  BY DeviceActs
<1>2. d \in active /\ UNCHANGED <<disk, pc, head, blk, write>>
  BY Zenon DEF DeviceDo, procvars
<1>3. p \in Procs /\ pc[p] # "idle" /\ Issued' = Issued
  BY <1>2, Zenon DEF Issued
<1>4. status[d] = 255
  BY <1>2, Zenon DEF DiskInv, Places
<1>5. status'[d] = 0 /\ \A x \in Desc : x # d => status'[x] = status[x]
  BY <1>1, Zenon DEF DiskInv, TypeOK
<1>6. Progress(p) = "asked"
  BY <1>1, <1>3, <1>4 DEF Progress
<1>7. Progress(p)' = "done"
  BY <1>1, <1>2, <1>3, <1>5, Zenon DEF Progress
<1>8. ASSUME NEW q \in Procs, q # p PROVE Progress(q)' = Progress(q)
  <2>1. q \in Issued => status'[head[q]] = status[head[q]]
    <3> SUFFICES ASSUME q \in Issued PROVE status'[head[q]] = status[head[q]]
      OBVIOUS
    <3>1. Owned(p) \cap Owned(q) = {} /\ Linked(q)
      BY <1>8, Zenon DEF DiskInv, Chains
    <3>2. head[q] \in Desc /\ head[q] # d
      BY <1>1, <3>1, Zenon DEF Owned, Linked
    <3> QED
      BY <1>5, <3>2, Zenon
  <2> QED
    BY <1>2, <1>3, <2>1, Zenon DEF Progress
<1>9. Ops[p] = "asked" /\ Ops' = [Ops EXCEPT ![p] = "done"]
  BY <1>3, <1>6, <1>7, <1>8, OpsChange, Zenon DEF Ops
<1>10. DS!Transfer(p)
  BY <1>1, <1>2, <1>9, Zenon DEF DS!Transfer, Ops
<1> QED
  BY <1>3, <1>10, Zenon DEF DS!Next

(* Everything else is invisible to the caller. *)
LEMMA Unseen ==
    ASSUME DiskInv,
           \/ \E p \in Procs : Retry(p) \/ Resleep(p) \/ Kill(p)
           \/ IntrStep \/ DeviceTake \/ UNCHANGED vars
    PROVE  UNCHANGED DS!vars
<1>1. media' = media /\ data' = data /\ blk' = blk /\ write' = write
  BY Zenon DEF Retry, Alloc, Resleep, Kill, IntrStep, IntrBegin, IntrNext, IntrEnd, DeviceTake,
     vars, procvars, devvars
<1>2. Ops' = Ops
  <2>1. CASE \E p \in Procs : Retry(p)
    <3>1. PICK p \in Procs : Retry(p)
      BY <2>1, Zenon
    <3>2. pc[p] = "descwake" /\ Alloc(p, blk[p], write[p])
      BY <3>1, Zenon DEF Retry
    <3>3. p \notin Issued
      BY <3>2, Zenon DEF Issued
    <3>4. Progress(p) = "asked"
      BY <3>2, <3>3, Zenon DEF Progress
    <3>5. \A q \in Procs : Progress(q)' = Progress(q)
      BY <3>2, <3>4, AllocAsks, Zenon
    <3> QED
      BY <3>5, Zenon DEF Ops
  <2>2. CASE \E p \in Procs : Resleep(p) \/ Kill(p)
    <3>1. PICK p \in Procs : Resleep(p) \/ Kill(p)
      BY <2>2, Zenon
    <3>2. /\ UNCHANGED <<status, head>>
          /\ \/ pc[p] = "wake" /\ pc' = [pc EXCEPT ![p] = "wait"]
             \/ /\ pc[p] \in {"wait", "desc"}
                /\ pc' = [pc EXCEPT ![p] = IF @ = "wait" THEN "wake" ELSE "descwake"]
      BY <3>1, Zenon DEF Resleep, Kill
    <3>3. Issued' = Issued /\ \A q \in Procs : pc'[q] = "idle" <=> pc[q] = "idle"
      BY <3>2, ZenonT(30) DEF Issued, DiskInv, TypeOK
    <3> QED
      BY <3>2, <3>3, OpsKept, Zenon
  <2>3. CASE IntrNext
    <3>1. PICK p \in Issued : pc' = [pc EXCEPT ![p] = IF @ = "wait" THEN "wake" ELSE @]
      BY <2>3, IntrFinds, Zenon DEF IntrNext
    <3>2. Issued' = Issued /\ \A q \in Procs : pc'[q] = "idle" <=> pc[q] = "idle"
      BY <3>1, Zenon DEF Issued, DiskInv, TypeOK
    <3> QED
      BY <2>3, <3>2, OpsKept, Zenon DEF IntrNext
  <2>4. CASE IntrBegin \/ IntrEnd \/ DeviceTake \/ UNCHANGED vars
    <3>1. UNCHANGED <<status, head, pc>>
      BY <2>4, Zenon DEF IntrBegin, IntrEnd, DeviceTake, vars, procvars
    <3>2. Issued' = Issued
      BY <3>1, Zenon DEF Issued
    <3> QED
      BY <3>1, <3>2, OpsKept, Zenon
  <2> QED
    BY <2>1, <2>2, <2>3, <2>4, Zenon DEF IntrStep
<1> QED
  BY <1>1, <1>2, Zenon DEF DS!vars, Ops

LEMMA ServiceNext == DiskInv /\ [Next]_vars => [DS!Next]_(DS!vars)
<1> SUFFICES ASSUME DiskInv, [Next]_vars PROVE DS!Next \/ UNCHANGED DS!vars
  BY Zenon
<1>1. CASE UNCHANGED vars
  BY <1>1, Unseen, Zenon
<1>2. CASE \E p \in Procs, k \in Blocks, wr \in Writes : virtio_disk_rw(p, k, wr)
  BY <1>2, CallServes, Zenon
<1>3. CASE \E p \in Procs : ProcStep(p) \/ Kill(p)
  BY <1>3, FinishServes, Unseen, Zenon DEF ProcStep
<1>4. CASE IntrStep
  BY <1>4, Unseen, Zenon
<1>5. CASE Device
  BY <1>5, DeviceServes, Unseen, Zenon DEF Device
<1> QED
  BY <1>1, <1>2, <1>3, <1>4, <1>5, Zenon DEF Next

(* virtio_disk_rw() moves each block once, between the right place on the  *)
(* disk and the caller's buffer, before it returns.                        *)
THEOREM DriverImplementsService == Spec => ImplementsDiskService
<1>1. Spec => DS!Init
  BY ServiceInit, Zenon DEF Spec
<1>2. Spec => [][DS!Next]_(DS!vars)
  BY DiskInvariant, ServiceNext, PTL DEF Spec
<1> QED
  BY <1>1, <1>2, PTL DEF ImplementsDiskService, DS!Spec
=============================================================================
