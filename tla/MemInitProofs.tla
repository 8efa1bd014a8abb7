--------------------------- MODULE MemInitProofs ---------------------------
(***************************************************************************)
(* Proofs about the address space: from every boot loader's tree of        *)
(* tables and every free list, whatever the MMU caches and callers map.    *)
(*                                                                         *)
(* The invariant names the level of every table (lvl, chosen anew in every *)
(* step that enters a table) so that a frame has one place in the tree,    *)
(* and follows the call under way along the path of its page.              *)
(***************************************************************************)
EXTENDS MemInit, FiniteSetTheorems, SequenceTheorems, TLAPS

(* The entries on the way to page v, and whether a table is there at       *)
(* levels 3, 2 and 1.                                                      *)
E4(t, v) == t[Root][v[1]]
E3(t, v) == t[E4(t, v).to][v[2]]
E2(t, v) == t[E3(t, v).to][v[3]]
E1(t, v) == t[E2(t, v).to][v[4]]

Has3(t, v) == Refers(E4(t, v))
Has2(t, v) == Has3(t, v) /\ Refers(E3(t, v))
Has1(t, v) == Has2(t, v) /\ Refers(E2(t, v))

(* f is the table of level k on the way to v. *)
OnPath(t, v, k, f) ==
  \/ k = 4 /\ f = Root
  \/ k = 3 /\ Has3(t, v) /\ f = E4(t, v).to
  \/ k = 2 /\ Has2(t, v) /\ f = E3(t, v).to
  \/ k = 1 /\ Has1(t, v) /\ f = E2(t, v).to

(* t is a tree of tables with levels lvl. *)
Shape(t, lvl) ==
  /\ t \in [DOMAIN t -> [Idx -> EntryType]]
  /\ lvl \in [DOMAIN t -> 0 .. 4]
  /\ Root \in DOMAIN t /\ 0 \notin DOMAIN t
  /\ Members(Pool) \subseteq DOMAIN t /\ Members(PtPool) \subseteq DOMAIN t
  /\ TreeOf(t, lvl)

(* Frames that are not in the tree. *)
FramesInv(lvl) ==
  /\ free \in Seq(Members(Pool)) /\ Distinct(free)
  /\ heap_phys \in Seq(Members(Pool)) /\ Distinct(heap_phys)
  /\ \A m \in DOMAIN free, n \in DOMAIN heap_phys : free[m] # heap_phys[n]
  /\ \A f \in Members(free) \cup Members(heap_phys) : lvl[f] = 0 /\ f # op.new
  /\ \A f \in Members(Pool) : lvl[f] = 0 => tables[f] = Garbage \/ f = op.new
  /\ pt_pool_idx \in 0 .. 3
  /\ \A n \in pt_pool_idx + 1 .. 3 : lvl[PtPool[n]] = 0 /\ tables[PtPool[n]] = EmptyTable /\ PtPool[n] # op.new

(* The call under way. *)
CallType == [call : {"map", "unmap", "apic"}, virt : Virt, phys : Nat, level : 0 .. 4, at : DOMAIN tables,
             new : DOMAIN tables \cup {0}]

OpInv(lvl) ==
  op # Idle =>
    /\ op \in CallType
    /\ op.level >= 1 => OnPath(tables, op.virt, op.level, op.at)
    /\ op.level = 0 => VirtToPhys(op.virt) = op.phys
    /\ op.call = "unmap" => op.phys = 0
    /\ op.new # 0 => /\ op.level >= 2 /\ op.call # "unmap" /\ tables[op.new] = EmptyTable
                     /\ op.call = "map" => lvl[op.new] = 0 /\ ~EntryHere.p /\ op.new \in Members(Pool)
                     /\ op.call = "apic" => EntryHere = Entry(op.new)

Tree(lvl) == Shape(tables, lvl) /\ FramesInv(lvl) /\ OpInv(lvl)

TreeInv == \E lvl : Tree(lvl)

(* The TLB is stale at most for the page of a call that has changed it.    *)
TlbInv ==
  /\ tlb \in [Virt -> Nat]
  /\ \A v \in Virt : tlb[v] \in {0, VirtToPhys(v)} \/ (op # Idle /\ op.virt = v /\ op.level = 0)

FbMapped(k)   == VirtToPhys(FbPages[k]) = FbPhys + k - 1
HeapMapped(k) == VirtToPhys(HeapPages[k]) = heap_phys[k]

(* Who calls what for which page. *)
CallerInv ==
  /\ pc \in {"apic", "lint0", "fb", "heap", "done"} /\ i \in Nat
  /\ pc = "apic" /\ op # Idle => op.call = "apic" /\ op.virt = ApicPage /\ op.phys = ApicPhys
  /\ pc = "lint0" => op = Idle
  /\ pc = "fb" /\ op # Idle => /\ op.call = "map" /\ i \in DOMAIN FbPages
                               /\ op.virt = FbPages[i] /\ op.phys = FbPhys + i - 1
  /\ pc = "heap" /\ op # Idle => /\ op.call = "map" /\ i \in DOMAIN HeapPages
                                 /\ op.virt = HeapPages[i] /\ op.phys = heap_phys[i]
  /\ pc = "done" /\ op # Idle => op.call # "apic" /\ op.virt \in UserPages

(* apic_init takes at most one table per level. *)
ApicInv ==
  /\ pc = "apic" => /\ op = Idle => pt_pool_idx = 0
                    /\ op # Idle => pt_pool_idx <= (IF op.new = 0 THEN 4 ELSE 5) - op.level
  /\ pc \in {"apic", "lint0"} => lint0_at = 0 /\ i = 0
  /\ pc = "lint0" => VirtToPhys(ApicPage) = ApicPhys
  /\ pc \in {"fb", "heap", "done"} => lint0_at = ApicPhys \/ (lint0_at = 0 /\ CoveredBy(tables, ApicPage))

(* A page of the framebuffer is missing only if the frames have run out.   *)
FbInv ==
  /\ pc = "fb" => /\ i \in 0 .. Len(FbPages)
                  /\ \A k \in 1 .. i : (k < i \/ op = Idle) => FbMapped(k) \/ free = <<>>
  /\ pc \in {"apic", "lint0", "fb"} => heap_phys = <<>> /\ ~fb_ptr
  /\ fb_ptr => \/ \A k \in DOMAIN FbPages : FbMapped(k)
               \/ free = <<>> /\ heap_phys = <<>>
  /\ fb_ptr \in BOOLEAN

(* A page of the heap is missing only if it is the first and the frames    *)
(* have run out: after the first their table is there.                     *)
HeapPagesInv ==
  /\ pc \in {"apic", "lint0", "fb", "heap"} => ~heap_head
  /\ pc = "heap" => /\ i = Len(heap_phys) /\ i \in 0 .. Len(HeapPages)
                    /\ \/ \A k \in 1 .. i : (k < i \/ op = Idle) => HeapMapped(k)
                       \/ i = 1 /\ op = Idle /\ free = <<>>
  /\ heap_head => Len(heap_phys) = Len(HeapPages) /\ \A k \in DOMAIN HeapPages : HeapMapped(k)
  /\ \A v \in Members(FbPages) \cup Members(HeapPages) : ~CoveredBy(tables, v)
  /\ heap_head \in BOOLEAN

MemInv == TreeInv /\ SizeIsPresent(tables) /\ TlbInv /\ CallerInv /\ ApicInv /\ FbInv /\ HeapPagesInv

----------------------------------------------------------------------------
(* Walks *)

LEMMA WalkIs ==
  ASSUME NEW t, NEW v, ~E4(t, v).huge
  PROVE  /\ ~Has3(t, v) => TranslatedBy(t, v) = 0
         /\ Has3(t, v) /\ ~E3(t, v).p => TranslatedBy(t, v) = 0
         /\ Has3(t, v) /\ E3(t, v).p /\ E3(t, v).huge => TranslatedBy(t, v) = E3(t, v).to + v[3] * Fan + v[4]
         /\ Has2(t, v) /\ ~E2(t, v).p => TranslatedBy(t, v) = 0
         /\ Has2(t, v) /\ E2(t, v).p /\ E2(t, v).huge => TranslatedBy(t, v) = E2(t, v).to + v[4]
         /\ Has1(t, v) => TranslatedBy(t, v) = IF E1(t, v).p THEN E1(t, v).to ELSE 0
  BY DEF TranslatedBy, Has3, Has2, Has1, Refers, E4, E3, E2, E1

LEMMA CoverIs ==
  ASSUME NEW t, NEW v, ~E4(t, v).huge
  PROVE  CoveredBy(t, v) <=> \/ Has3(t, v) /\ E3(t, v).p /\ E3(t, v).huge
                             \/ Has2(t, v) /\ E2(t, v).p /\ E2(t, v).huge
  BY DEF CoveredBy, Has3, Has2, Refers, E4, E3, E2

(* Where a walk ends. *)
LEMMA WalkCases ==
  ASSUME NEW t, NEW v
  PROVE  \/ ~Has3(t, v)
         \/ Has3(t, v) /\ ~E3(t, v).p
         \/ Has3(t, v) /\ E3(t, v).p /\ E3(t, v).huge
         \/ Has2(t, v) /\ ~E2(t, v).p
         \/ Has2(t, v) /\ E2(t, v).p /\ E2(t, v).huge
         \/ Has1(t, v)
  BY DEF Has1, Has2, Refers

(* A change that leaves the entries on the way to v alone. *)
LEMMA SameWalk ==
  ASSUME NEW t, NEW u, NEW v, ~E4(t, v).huge,
         \A k, f : OnPath(t, v, k, f) => u[f][IndexAt(v, k)] = t[f][IndexAt(v, k)]
  PROVE  /\ TranslatedBy(u, v) = TranslatedBy(t, v)
         /\ CoveredBy(u, v) <=> CoveredBy(t, v)
         /\ \A k, f : OnPath(u, v, k, f) <=> OnPath(t, v, k, f)
         /\ Has1(u, v) <=> Has1(t, v)
<1>0. /\ IndexAt(v, 4) = v[1] /\ IndexAt(v, 3) = v[2] /\ IndexAt(v, 2) = v[3] /\ IndexAt(v, 1) = v[4]
      /\ OnPath(t, v, 4, Root)
      /\ Has3(t, v) => OnPath(t, v, 3, E4(t, v).to)
      /\ Has2(t, v) => OnPath(t, v, 2, E3(t, v).to)
      /\ Has1(t, v) => OnPath(t, v, 1, E2(t, v).to)
  BY DEF OnPath, IndexAt
<1>1. E4(u, v) = E4(t, v) /\ (Has3(u, v) <=> Has3(t, v))
  BY <1>0 DEF E4, Has3
<1>2. Has3(t, v) => E3(u, v) = E3(t, v)
  BY <1>0, <1>1 DEF E3
<1>3. Has2(u, v) <=> Has2(t, v)
  BY <1>1, <1>2 DEF Has2
<1>4. Has2(t, v) => E2(u, v) = E2(t, v) /\ E3(u, v) = E3(t, v)
  BY <1>0, <1>1, <1>2, <1>3 DEF E2, Has2
<1>5. Has1(u, v) <=> Has1(t, v)
  BY <1>3, <1>4 DEF Has1
<1>6. Has1(t, v) => E1(u, v) = E1(t, v) /\ E2(u, v) = E2(t, v)
  BY <1>0, <1>4, <1>5 DEF E1, Has1
<1>7. TranslatedBy(u, v) = TranslatedBy(t, v)
  <2>0. ~E4(u, v).huge
    BY <1>1
  <2>1. CASE ~Has3(t, v) \/ (Has3(t, v) /\ ~E3(t, v).p) \/ (Has2(t, v) /\ ~E2(t, v).p)
    BY <1>1, <1>2, <1>3, <1>4, <2>0, <2>1, WalkIs
  <2>2. CASE Has3(t, v) /\ E3(t, v).p /\ E3(t, v).huge
    BY <1>1, <1>2, <2>0, <2>2, WalkIs
  <2>3. CASE Has2(t, v) /\ E2(t, v).p /\ E2(t, v).huge
    BY <1>3, <1>4, <2>0, <2>3, WalkIs
  <2>4. CASE Has1(t, v)
    BY <1>5, <1>6, <2>0, <2>4, WalkIs
  <2> QED
    BY <2>1, <2>2, <2>3, <2>4, WalkCases
<1>8. CoveredBy(u, v) <=> CoveredBy(t, v)
  BY <1>1, <1>2, <1>3, <1>4, CoverIs
<1> QED
  BY <1>1, <1>3, <1>4, <1>5, <1>6, <1>7, <1>8 DEF OnPath

----------------------------------------------------------------------------
(* Paths in a tree *)

LEMMA PageIs ==
  ASSUME NEW v \in Virt
  PROVE  /\ v[1] \in Idx /\ v[2] \in Idx /\ v[3] \in Idx /\ v[4] \in Idx
         /\ v = <<v[1], v[2], v[3], v[4]>>
         /\ \A k \in 1 .. 4 : IndexAt(v, k) \in Idx
<1>1. v \in Idx \X Idx \X Idx \X Idx
  BY VmmAssumption
<1>2. /\ v[1] \in Idx /\ v[2] \in Idx /\ v[3] \in Idx /\ v[4] \in Idx
      /\ v = <<v[1], v[2], v[3], v[4]>>
  BY <1>1
<1>3. ASSUME NEW k \in 1 .. 4 PROVE IndexAt(v, k) \in Idx
  <2>1. k = 1 \/ k = 2 \/ k = 3 \/ k = 4
    OBVIOUS
  <2> QED
    BY <1>2, <2>1 DEF IndexAt
<1> QED
  BY <1>2, <1>3

LEMMA RootSmall ==
  ASSUME NEW t, NEW lvl, Shape(t, lvl), NEW v \in Virt
  PROVE  ~E4(t, v).huge
  BY PageIs DEF Shape, TreeOf, E4

LEMMA PathLevel ==
  ASSUME NEW t, NEW lvl, Shape(t, lvl), NEW v \in Virt, NEW k, NEW f, OnPath(t, v, k, f)
  PROVE  f \in DOMAIN t /\ lvl[f] = k /\ k \in 1 .. 4 /\ IndexAt(v, k) \in Idx
<1>1. /\ Root \in DOMAIN t /\ lvl[Root] = 4
      /\ \A g \in DOMAIN t, x \in Idx :
           lvl[g] >= 2 /\ Refers(t[g][x]) => t[g][x].to \in DOMAIN t /\ lvl[t[g][x].to] = lvl[g] - 1
  BY DEF Shape, TreeOf
<1>2. v[1] \in Idx /\ v[2] \in Idx /\ v[3] \in Idx
  BY PageIs
<1>3. Has3(t, v) => E4(t, v).to \in DOMAIN t /\ lvl[E4(t, v).to] = 3
  BY <1>1, <1>2 DEF Has3, E4
<1>4. Has2(t, v) => E3(t, v).to \in DOMAIN t /\ lvl[E3(t, v).to] = 2
  BY <1>1, <1>2, <1>3 DEF Has2, E3
<1>5. Has1(t, v) => E2(t, v).to \in DOMAIN t /\ lvl[E2(t, v).to] = 1
  BY <1>1, <1>2, <1>4 DEF Has1, Has2, E2
<1>6. f \in DOMAIN t /\ lvl[f] = k /\ k \in 1 .. 4
  BY <1>1, <1>3, <1>4, <1>5 DEF OnPath
<1> QED
  BY <1>6, PageIs

(* A table is on the way to pages that agree down to it. *)
LEMMA SamePath ==
  ASSUME NEW t, NEW lvl, Shape(t, lvl), NEW v \in Virt, NEW w \in Virt, NEW k, NEW f,
         OnPath(t, v, k, f), OnPath(t, w, k, f)
  PROVE  /\ k <= 3 => v[1] = w[1]
         /\ k <= 2 => v[2] = w[2]
         /\ k <= 1 => v[3] = w[3]
<1>1. /\ Root \in DOMAIN t /\ lvl[Root] = 4
      /\ \A g, h \in DOMAIN t, x, y \in Idx :
           /\ lvl[g] >= 2 /\ Refers(t[g][x])
           /\ lvl[h] >= 2 /\ Refers(t[h][y])
           /\ t[h][y].to = t[g][x].to
           => h = g /\ y = x
  BY DEF Shape, TreeOf
<1>2. /\ v[1] \in Idx /\ v[2] \in Idx /\ v[3] \in Idx
      /\ w[1] \in Idx /\ w[2] \in Idx /\ w[3] \in Idx
  BY PageIs
<1>3. ASSUME Has3(t, v), Has3(t, w), E4(t, v).to = E4(t, w).to
      PROVE  v[1] = w[1]
  BY <1>1, <1>2, <1>3 DEF Has3, E4
<1>4. ASSUME Has2(t, v), Has2(t, w), E3(t, v).to = E3(t, w).to
      PROVE  v[1] = w[1] /\ v[2] = w[2]
  <2>1. /\ E4(t, v).to \in DOMAIN t /\ lvl[E4(t, v).to] = 3
        /\ E4(t, w).to \in DOMAIN t /\ lvl[E4(t, w).to] = 3
    BY <1>4, PathLevel DEF OnPath, Has2
  <2>2. E4(t, v).to = E4(t, w).to /\ v[2] = w[2]
    BY <1>1, <1>2, <1>4, <2>1 DEF Has2, E3
  <2> QED
    BY <1>3, <1>4, <2>2 DEF Has2
<1>5. ASSUME Has1(t, v), Has1(t, w), E2(t, v).to = E2(t, w).to
      PROVE  v[1] = w[1] /\ v[2] = w[2] /\ v[3] = w[3]
  <2>1. /\ E3(t, v).to \in DOMAIN t /\ lvl[E3(t, v).to] = 2
        /\ E3(t, w).to \in DOMAIN t /\ lvl[E3(t, w).to] = 2
    BY <1>5, PathLevel DEF OnPath, Has1
  <2>2. E3(t, v).to = E3(t, w).to /\ v[3] = w[3]
    BY <1>1, <1>2, <1>5, <2>1 DEF Has1, E2
  <2> QED
    BY <1>4, <1>5, <2>2 DEF Has1
<1>6. k = 4 \/ k = 3 \/ k = 2 \/ k = 1
  BY DEF OnPath
<1>7. CASE k = 4
  BY <1>7
<1>8. CASE k = 3
  BY <1>3, <1>8 DEF OnPath
<1>9. CASE k = 2
  BY <1>4, <1>9 DEF OnPath
<1>10. CASE k = 1
  BY <1>5, <1>10 DEF OnPath
<1> QED
  BY <1>6, <1>7, <1>8, <1>9, <1>10

----------------------------------------------------------------------------
(* The three ways tables change *)

(* A frame outside the tree, or an entry of a PT, is written. *)
LEMMA OutsideShape ==
  ASSUME NEW t, NEW lvl, Shape(t, lvl), NEW u, DOMAIN u = DOMAIN t,
         u \in [DOMAIN t -> [Idx -> EntryType]],
         \A g \in DOMAIN t : lvl[g] >= 2 => u[g] = t[g]
  PROVE  Shape(u, lvl)
<1>1. /\ lvl \in [DOMAIN t -> 0 .. 4] /\ Root \in DOMAIN t /\ lvl[Root] = 4 /\ TreeOf(t, lvl)
  BY DEF Shape, TreeOf
<1>2. u[Root] = t[Root]
  BY <1>1
<1>3. \A x \in Idx : ~u[Root][x].huge
  BY <1>1, <1>2 DEF TreeOf
<1>4. ASSUME NEW g \in DOMAIN t, NEW x \in Idx, lvl[g] >= 2, Refers(u[g][x])
      PROVE  /\ u[g][x].to \in DOMAIN t /\ lvl[u[g][x].to] = lvl[g] - 1
             /\ \A h \in DOMAIN t, y \in Idx :
                  lvl[h] >= 2 /\ Refers(u[h][y]) /\ u[h][y].to = u[g][x].to => h = g /\ y = x
  <2>1. u[g][x] = t[g][x]
    BY <1>4
  <2>2. /\ t[g][x].to \in DOMAIN t /\ lvl[t[g][x].to] = lvl[g] - 1
        /\ \A h \in DOMAIN t, y \in Idx :
             lvl[h] >= 2 /\ Refers(t[h][y]) /\ t[h][y].to = t[g][x].to => h = g /\ y = x
    BY <1>1, <1>4, <2>1 DEF TreeOf
  <2> QED
    BY <2>1, <2>2
<1>5. ASSUME NEW c \in DOMAIN t, lvl[c] \in 1 .. 3
      PROVE  \E g \in DOMAIN t, x \in Idx : lvl[g] = lvl[c] + 1 /\ u[g][x] = Entry(c)
  <2>1. PICK g \in DOMAIN t, x \in Idx : lvl[g] = lvl[c] + 1 /\ t[g][x] = Entry(c)
    BY <1>1, <1>5 DEF TreeOf
  <2>2. lvl[g] >= 2
    BY <1>5, <2>1
  <2> QED
    BY <2>1, <2>2
<1>6. TreeOf(u, lvl)
  BY <1>1, <1>3, <1>4, <1>5 DEF TreeOf
<1> QED
  BY <1>6 DEF Shape

LEMMA OutsideWalk ==
  ASSUME NEW t, NEW lvl, Shape(t, lvl), NEW u, NEW v \in Virt,
         \A g \in DOMAIN t : lvl[g] >= 1 => u[g] = t[g]
  PROVE  /\ TranslatedBy(u, v) = TranslatedBy(t, v)
         /\ CoveredBy(u, v) <=> CoveredBy(t, v)
         /\ \A k, f : OnPath(u, v, k, f) <=> OnPath(t, v, k, f)
         /\ Has1(u, v) <=> Has1(t, v)
<1>1. ~E4(t, v).huge
  BY RootSmall
<1>2. ASSUME NEW k, NEW f, OnPath(t, v, k, f) PROVE u[f][IndexAt(v, k)] = t[f][IndexAt(v, k)]
  <2>1. f \in DOMAIN t /\ lvl[f] = k /\ k \in 1 .. 4
    BY <1>2, PathLevel
  <2>2. u[f] = t[f]
    BY <2>1
  <2> QED
    BY <2>2
<1> QED
  BY <1>1, <1>2, SameWalk

(* The entry of a PT for page w becomes e. *)
Writes(t, u, f, x, e) == u = [t EXCEPT ![f][x] = e]

LEMMA PteWalk ==
  ASSUME NEW t, NEW lvl, Shape(t, lvl), NEW w \in Virt, NEW f, OnPath(t, w, 1, f), NEW e \in EntryType,
         NEW u, Writes(t, u, f, IndexAt(w, 1), e)
  PROVE  /\ Shape(u, lvl) /\ DOMAIN u = DOMAIN t
         /\ \A g \in DOMAIN t : lvl[g] # 1 => u[g] = t[g]
         /\ TranslatedBy(u, w) = IF e.p THEN e.to ELSE 0
         /\ \A v \in Virt : v # w => TranslatedBy(u, v) = TranslatedBy(t, v)
         /\ \A v \in Virt : /\ CoveredBy(u, v) <=> CoveredBy(t, v)
                            /\ \A k, g : OnPath(u, v, k, g) <=> OnPath(t, v, k, g)
                            /\ Has1(u, v) <=> Has1(t, v)
<1> DEFINE x == IndexAt(w, 1)
<1>1. f \in DOMAIN t /\ lvl[f] = 1 /\ x \in Idx /\ x = w[4]
  BY PathLevel DEF IndexAt
<1>2. t \in [DOMAIN t -> [Idx -> EntryType]] /\ lvl \in [DOMAIN t -> 0 .. 4]
  BY DEF Shape
<1> HIDE DEF x
<1>3. /\ DOMAIN u = DOMAIN t /\ u \in [DOMAIN t -> [Idx -> EntryType]]
      /\ u[f][x] = e
      /\ \A g \in DOMAIN t, y \in Idx : g # f \/ y # x => u[g][y] = t[g][y]
      /\ \A g \in DOMAIN t : g # f => u[g] = t[g]
  <2>1. u = [t EXCEPT ![f] = [t[f] EXCEPT ![x] = e]]
    BY <1>1, <1>2 DEF x, Writes
  <2>2. t[f] \in [Idx -> EntryType] /\ [t[f] EXCEPT ![x] = e] \in [Idx -> EntryType]
    BY <1>1, <1>2
  <2>3. [t[f] EXCEPT ![x] = e][x] = e /\ \A y \in Idx : y # x => [t[f] EXCEPT ![x] = e][y] = t[f][y]
    BY <1>1, <2>2
  <2> QED
    BY <1>1, <1>2, <2>1, <2>2, <2>3
<1>4. \A g \in DOMAIN t : lvl[g] # 1 => u[g] = t[g]
  BY <1>1, <1>3
<1>5. Shape(u, lvl)
  <2>1. \A g \in DOMAIN t : lvl[g] >= 2 => u[g] = t[g]
    BY <1>2, <1>4
  <2> QED
    BY ONLY <1>3, <2>1, Shape(t, lvl), OutsideShape
<1>6. ASSUME NEW v \in Virt
      PROVE  /\ E4(u, v) = E4(t, v) /\ (Has3(u, v) <=> Has3(t, v)) /\ (Has2(u, v) <=> Has2(t, v))
             /\ Has3(t, v) => E3(u, v) = E3(t, v)
             /\ Has2(t, v) => E2(u, v) = E2(t, v)
             /\ Has1(u, v) <=> Has1(t, v)
  <2>1. E4(u, v) = E4(t, v) /\ (Has3(u, v) <=> Has3(t, v))
    <3>1. OnPath(t, v, 4, Root)
      BY DEF OnPath
    <3>2. u[Root] = t[Root]
      BY <1>4, <3>1, PathLevel
    <3> QED
      BY <3>2 DEF E4, Has3
  <2>2. Has3(t, v) => E3(u, v) = E3(t, v)
    <3>1. Has3(t, v) => OnPath(t, v, 3, E4(t, v).to)
      BY DEF OnPath
    <3>2. Has3(t, v) => u[E4(t, v).to] = t[E4(t, v).to]
      BY <1>4, <3>1, PathLevel
    <3> QED
      BY <2>1, <3>2 DEF E3
  <2>3. Has2(u, v) <=> Has2(t, v)
    BY <2>1, <2>2 DEF Has2
  <2>4. Has2(t, v) => E2(u, v) = E2(t, v)
    <3>1. Has2(t, v) => OnPath(t, v, 2, E3(t, v).to)
      BY DEF OnPath
    <3>2. Has2(t, v) => u[E3(t, v).to] = t[E3(t, v).to]
      BY <1>4, <3>1, PathLevel
    <3> QED
      BY <2>2, <3>2 DEF E2, Has2
  <2> QED
    BY <2>1, <2>2, <2>3, <2>4 DEF Has1
<1>7. ASSUME NEW v \in Virt PROVE ~E4(t, v).huge /\ ~E4(u, v).huge
  BY <1>5, RootSmall
<1>8. ASSUME NEW v \in Virt
      PROVE  /\ CoveredBy(u, v) <=> CoveredBy(t, v)
             /\ \A k, g : OnPath(u, v, k, g) <=> OnPath(t, v, k, g)
  <2>1. CoveredBy(u, v) <=> CoveredBy(t, v)
    BY <1>6, <1>7, CoverIs
  <2>2. \A k, g : OnPath(u, v, k, g) <=> OnPath(t, v, k, g)
    BY <1>6 DEF OnPath, Has1, Has2
  <2> QED
    BY <2>1, <2>2
<1>9. TranslatedBy(u, w) = IF e.p THEN e.to ELSE 0
  <2>1. Has1(t, w) /\ Has2(t, w) /\ f = E2(t, w).to
    BY DEF OnPath, Has1
  <2>2. Has1(u, w) /\ E2(u, w).to = f
    BY <1>6, <2>1
  <2>3. E1(u, w) = e
    BY <1>1, <1>3, <2>2 DEF E1
  <2> QED
    BY <1>7, <2>2, <2>3, WalkIs
<1>10. ASSUME NEW v \in Virt, v # w PROVE TranslatedBy(u, v) = TranslatedBy(t, v)
  <2>1. ASSUME NEW k, NEW g, OnPath(t, v, k, g) PROVE u[g][IndexAt(v, k)] = t[g][IndexAt(v, k)]
    <3>1. g \in DOMAIN t /\ lvl[g] = k /\ IndexAt(v, k) \in Idx
      BY <2>1, PathLevel
    <3>2. CASE g = f
      <4>1. k = 1
        BY <1>1, <3>1, <3>2
      <4>2. v[1] = w[1] /\ v[2] = w[2] /\ v[3] = w[3]
        BY <2>1, <3>2, <4>1, SamePath
      <4>3. v[4] # w[4]
        BY <1>10, <4>2, PageIs
      <4>4. IndexAt(v, k) # x
        BY <1>1, <4>1, <4>3 DEF IndexAt
      <4> QED
        BY <1>3, <3>1, <4>4
    <3> QED
      BY <1>3, <3>1, <3>2
  <2>2. ~E4(t, v).huge
    BY <1>7
  <2> QED
    BY ONLY <2>1, <2>2, SameWalk
<1> QED
  BY <1>3, <1>4, <1>5, <1>6, <1>8, <1>9, <1>10

(* u is t with the table in frame new, entered in place x of f. *)
Enters(t, u, f, x, new, table) ==
  /\ DOMAIN u = DOMAIN t /\ u \in [DOMAIN t -> [Idx -> EntryType]]
  /\ f \in DOMAIN t /\ x \in Idx /\ new \in DOMAIN t /\ new # f
  /\ u[new] = table /\ u[f][x] = Entry(new)
  /\ \A g \in DOMAIN t, y \in Idx : g # new /\ (g # f \/ y # x) => u[g][y] = t[g][y]
  /\ \A g \in DOMAIN t : g # new /\ g # f => u[g] = t[g]

LEMMA EnterShape ==
  ASSUME NEW t, NEW lvl, Shape(t, lvl), NEW u, NEW f, NEW x, NEW new, NEW table,
         Enters(t, u, f, x, new, table), lvl[f] \in 2 .. 4, lvl[new] = 0, ~Refers(t[f][x]),
         lvl[f] > 2 => table = EmptyTable
  PROVE  Shape(u, [lvl EXCEPT ![new] = lvl[f] - 1])
<1> DEFINE l == [lvl EXCEPT ![new] = lvl[f] - 1]
<1>1. /\ lvl \in [DOMAIN t -> 0 .. 4] /\ Root \in DOMAIN t /\ lvl[Root] = 4
      /\ \A g \in DOMAIN t : lvl[g] = 4 <=> g = Root
      /\ \A y \in Idx : ~t[Root][y].huge
  BY DEF Shape, TreeOf
<1>2. /\ \A g \in DOMAIN t, y \in Idx : lvl[g] >= 2 /\ Refers(t[g][y]) =>
           t[g][y].to \in DOMAIN t /\ lvl[t[g][y].to] = lvl[g] - 1
      /\ \A g, h \in DOMAIN t, y, z \in Idx :
           lvl[g] >= 2 /\ Refers(t[g][y]) /\ lvl[h] >= 2 /\ Refers(t[h][z]) /\ t[h][z].to = t[g][y].to
           => h = g /\ z = y
      /\ \A c \in DOMAIN t : lvl[c] \in 1 .. 3 =>
           \E g \in DOMAIN t, y \in Idx : lvl[g] = lvl[c] + 1 /\ t[g][y] = Entry(c)
  BY DEF Shape, TreeOf
<1>3. /\ DOMAIN u = DOMAIN t /\ u \in [DOMAIN t -> [Idx -> EntryType]]
      /\ f \in DOMAIN t /\ x \in Idx /\ new \in DOMAIN t /\ new # f
      /\ u[new] = table /\ u[f][x] = Entry(new)
      /\ \A g \in DOMAIN t, y \in Idx : g # new /\ (g # f \/ y # x) => u[g][y] = t[g][y]
  BY DEF Enters
<1>4. /\ l \in [DOMAIN t -> 0 .. 4] /\ l[new] = lvl[f] - 1 /\ \A g \in DOMAIN t : g # new => l[g] = lvl[g]
      /\ new # Root /\ l[f] = lvl[f] /\ l[new] \in 1 .. 3
  BY <1>1, <1>3
<1>5. Refers(Entry(new)) /\ Entry(new).to = new /\ ~Entry(new).huge
  BY DEF Refers, Entry
<1>6. ASSUME NEW y \in Idx, l[new] >= 2 PROVE ~Refers(u[new][y])
  <2>1. u[new] = EmptyTable
    BY <1>1, <1>3, <1>4, <1>6
  <2> QED
    BY <2>1 DEF EmptyTable, NotThere, Refers
<1> HIDE DEF l
(* A place that refers to a table is the new one or an old one. *)
<1>7. ASSUME NEW g \in DOMAIN t, NEW y \in Idx, l[g] >= 2, Refers(u[g][y])
      PROVE  \/ g = f /\ y = x /\ u[g][y].to = new
             \/ /\ g # new /\ u[g][y] = t[g][y] /\ lvl[g] >= 2 /\ Refers(t[g][y])
                /\ t[g][y].to \in DOMAIN t /\ t[g][y].to # new /\ lvl[t[g][y].to] = lvl[g] - 1
  <2>1. g # new
    BY <1>6, <1>7
  <2>2. CASE g = f /\ y = x
    BY <1>3, <1>5, <2>2
  <2>3. CASE ~(g = f /\ y = x)
    <3>1. u[g][y] = t[g][y] /\ lvl[g] >= 2 /\ Refers(t[g][y])
      BY <1>3, <1>4, <1>7, <2>1, <2>3
    <3>2. t[g][y].to \in DOMAIN t /\ lvl[t[g][y].to] = lvl[g] - 1
      BY <1>2, <3>1
    <3>3. t[g][y].to # new
      BY <1>1, <3>1, <3>2
    <3> QED
      BY <2>1, <3>1, <3>2, <3>3
  <2> QED
    BY <2>2, <2>3
<1>8. \A g \in DOMAIN t : l[g] = 4 <=> g = Root
  BY <1>1, <1>4
<1>9. \A y \in Idx : ~u[Root][y].huge
  BY <1>1, <1>3, <1>4, <1>5
<1>10. ASSUME NEW g \in DOMAIN t, NEW y \in Idx, l[g] >= 2, Refers(u[g][y])
       PROVE  /\ u[g][y].to \in DOMAIN t /\ l[u[g][y].to] = l[g] - 1
              /\ \A h \in DOMAIN t, z \in Idx :
                   l[h] >= 2 /\ Refers(u[h][z]) /\ u[h][z].to = u[g][y].to => h = g /\ z = y
  <2>1. u[g][y].to \in DOMAIN t /\ l[u[g][y].to] = l[g] - 1
    BY <1>3, <1>4, <1>7, <1>10
  <2>2. ASSUME NEW h \in DOMAIN t, NEW z \in Idx, l[h] >= 2, Refers(u[h][z]), u[h][z].to = u[g][y].to
        PROVE  h = g /\ z = y
    <3>1. CASE g = f /\ y = x /\ u[g][y].to = new
      BY <1>7, <2>2, <3>1
    <3>2. CASE u[g][y] = t[g][y] /\ lvl[g] >= 2 /\ Refers(t[g][y]) /\ t[g][y].to # new
      <4>1. u[h][z] = t[h][z] /\ lvl[h] >= 2 /\ Refers(t[h][z])
        BY <1>7, <2>2, <3>2
      <4> QED
        BY <1>2, <2>2, <3>2, <4>1
    <3> QED
      BY <1>7, <1>10, <3>1, <3>2
  <2> QED
    BY <2>1, <2>2
<1>11. ASSUME NEW c \in DOMAIN t, l[c] \in 1 .. 3
       PROVE  \E g \in DOMAIN t, y \in Idx : l[g] = l[c] + 1 /\ u[g][y] = Entry(c)
  <2>1. CASE c = new
    <3>1. l[f] = l[c] + 1
      BY <1>1, <1>3, <1>4, <2>1
    <3> QED
      BY <1>3, <2>1, <3>1
  <2>2. CASE c # new
    <3>1. lvl[c] \in 1 .. 3 /\ l[c] = lvl[c]
      BY <1>4, <1>11, <2>2
    <3>2. PICK g \in DOMAIN t, y \in Idx : lvl[g] = lvl[c] + 1 /\ t[g][y] = Entry(c)
      BY <1>2, <3>1
    <3>3. g # new /\ ~(g = f /\ y = x)
      BY <3>1, <3>2 DEF Refers, Entry
    <3> QED
      BY <1>3, <1>4, <3>1, <3>2, <3>3
  <2> QED
    BY <2>1, <2>2
<1>12. TreeOf(u, l)
  BY <1>3, <1>8, <1>9, <1>10, <1>11 DEF TreeOf
<1>13. Shape(u, l)
  BY <1>3, <1>4, <1>12 DEF Shape
<1> QED
  BY <1>13 DEF l

LEMMA EnterWalk ==
  ASSUME NEW t, NEW lvl, Shape(t, lvl), NEW u, NEW f, NEW x, NEW new, NEW table,
         Enters(t, u, f, x, new, table), lvl[f] \in 2 .. 4, lvl[new] = 0,
         \/ ~t[f][x].p /\ table = EmptyTable
         \/ lvl[f] = 2 /\ t[f][x].p /\ t[f][x].huge /\ table = SplitTable(t[f][x].to),
         NEW v \in Virt
  PROVE  /\ TranslatedBy(u, v) = TranslatedBy(t, v)
         /\ CoveredBy(u, v) => CoveredBy(t, v)
         /\ CoveredBy(t, v) => CoveredBy(u, v) \/ t[f][x].p
         /\ \A k, g : OnPath(t, v, k, g) => OnPath(u, v, k, g)
         /\ OnPath(t, v, lvl[f], f) /\ IndexAt(v, lvl[f]) = x => OnPath(u, v, lvl[f] - 1, new)
<1>1. /\ lvl \in [DOMAIN t -> 0 .. 4] /\ Root \in DOMAIN t /\ lvl[Root] = 4
      /\ \A g \in DOMAIN t : lvl[g] = 4 <=> g = Root
  BY DEF Shape, TreeOf
<1>2. /\ f \in DOMAIN t /\ x \in Idx /\ new \in DOMAIN t /\ new # f
      /\ u[new] = table /\ u[f][x] = Entry(new)
      /\ \A g \in DOMAIN t, y \in Idx : g # new /\ (g # f \/ y # x) => u[g][y] = t[g][y]
      /\ \A g \in DOMAIN t : g # new /\ g # f => u[g] = t[g]
  BY DEF Enters
<1>3. /\ v[1] \in Idx /\ v[2] \in Idx /\ v[3] \in Idx /\ v[4] \in Idx
      /\ IndexAt(v, 4) = v[1] /\ IndexAt(v, 3) = v[2] /\ IndexAt(v, 2) = v[3]
  BY PageIs DEF IndexAt
<1>4. ~E4(t, v).huge
  BY RootSmall
<1>5. /\ Refers(Entry(new)) /\ Entry(new).to = new /\ ~Entry(new).huge
      /\ \A y \in Idx : EmptyTable[y].p = FALSE /\ ~Refers(EmptyTable[y])
  BY DEF Refers, Entry, EmptyTable, NotThere
<1>6. /\ Has3(t, v) => E4(t, v).to \in DOMAIN t /\ lvl[E4(t, v).to] = 3
      /\ Has2(t, v) => E3(t, v).to \in DOMAIN t /\ lvl[E3(t, v).to] = 2
  <2>1. /\ Has3(t, v) => OnPath(t, v, 3, E4(t, v).to)
        /\ Has2(t, v) => OnPath(t, v, 2, E3(t, v).to)
    BY DEF OnPath
  <2> QED
    BY <2>1, PathLevel
<1>7. CASE ~(OnPath(t, v, lvl[f], f) /\ IndexAt(v, lvl[f]) = x)
  <2>1. ASSUME NEW k, NEW g, OnPath(t, v, k, g) PROVE u[g][IndexAt(v, k)] = t[g][IndexAt(v, k)]
    <3>1. g \in DOMAIN t /\ lvl[g] = k /\ k \in 1 .. 4 /\ IndexAt(v, k) \in Idx
      BY <2>1, PathLevel
    <3>2. g # new /\ (g # f \/ IndexAt(v, k) # x)
      BY <1>7, <2>1, <3>1
    <3> QED
      BY <1>2, <3>1, <3>2
  <2> QED
    BY <1>4, <1>7, <2>1, SameWalk
<1>8. CASE OnPath(t, v, 4, f) /\ lvl[f] = 4 /\ v[1] = x
  <2>1. f = Root /\ E4(t, v) = t[f][x] /\ ~t[f][x].p /\ table = EmptyTable
    BY <1>1, <1>2, <1>8 DEF E4
  <2>2. ~Has3(t, v) /\ ~Has2(t, v) /\ ~Has1(t, v)
    BY <2>1 DEF Has3, Has2, Has1, Refers
  <2>3. E4(u, v) = Entry(new)
    BY <1>2, <1>8, <2>1 DEF E4
  <2>4. Has3(u, v) /\ E3(u, v) = EmptyTable[v[2]]
    BY <1>2, <1>5, <2>1, <2>3 DEF Has3, E3
  <2>5. ~E3(u, v).p /\ ~Has2(u, v)
    BY <1>3, <1>5, <2>4 DEF Has2
  <2>6. TranslatedBy(u, v) = TranslatedBy(t, v) /\ ~CoveredBy(u, v) /\ ~CoveredBy(t, v)
    BY <1>4, <1>5, <2>2, <2>3, <2>4, <2>5, WalkIs, CoverIs
  <2>7. \A k, g : OnPath(t, v, k, g) => OnPath(u, v, k, g)
    BY <2>2 DEF OnPath
  <2>8. OnPath(u, v, 3, new)
    BY <1>5, <2>3, <2>4 DEF OnPath
  <2> QED
    BY <1>8, <2>6, <2>7, <2>8
<1>9. CASE OnPath(t, v, 3, f) /\ lvl[f] = 3 /\ v[2] = x
  <2>1. Has3(t, v) /\ f = E4(t, v).to /\ E3(t, v) = t[f][x] /\ ~t[f][x].p /\ table = EmptyTable
    BY <1>9 DEF OnPath, E3
  <2>2. ~Has2(t, v) /\ ~Has1(t, v)
    BY <2>1 DEF Has2, Has1, Refers
  <2>3. E4(u, v) = E4(t, v) /\ Has3(u, v)
    <3>1. u[Root] = t[Root]
      BY <1>1, <1>2, <1>9
    <3> QED
      BY <2>1, <3>1 DEF E4, Has3
  <2>4. E3(u, v) = Entry(new)
    BY <1>2, <1>9, <2>1, <2>3 DEF E3
  <2>5. Has2(u, v) /\ E2(u, v) = EmptyTable[v[3]]
    BY <1>2, <1>5, <2>1, <2>3, <2>4 DEF Has2, E2
  <2>6. ~E2(u, v).p /\ ~E3(u, v).huge
    BY <1>3, <1>5, <2>4, <2>5
  <2>7. TranslatedBy(u, v) = TranslatedBy(t, v) /\ ~CoveredBy(u, v) /\ ~CoveredBy(t, v)
    BY <1>4, <2>1, <2>2, <2>3, <2>5, <2>6, WalkIs, CoverIs
  <2>8. \A k, g : OnPath(t, v, k, g) => OnPath(u, v, k, g)
    BY <2>2, <2>3 DEF OnPath
  <2>9. OnPath(u, v, 2, new)
    BY <1>5, <2>4, <2>5 DEF OnPath
  <2> QED
    BY <1>9, <2>7, <2>8, <2>9
<1>10. CASE OnPath(t, v, 2, f) /\ lvl[f] = 2 /\ v[3] = x
  <2>1. Has3(t, v) /\ Has2(t, v) /\ f = E3(t, v).to /\ E2(t, v) = t[f][x] /\ ~Refers(t[f][x])
    BY <1>10 DEF OnPath, E2, Has2, Refers
  <2>2. ~Has1(t, v)
    BY <2>1 DEF Has1
  <2>3. E4(u, v) = E4(t, v) /\ Has3(u, v) /\ E3(u, v) = E3(t, v) /\ Has2(u, v)
    <3>1. u[Root] = t[Root]
      BY <1>1, <1>2, <1>10
    <3>2. E4(u, v) = E4(t, v) /\ Has3(u, v)
      BY <2>1, <3>1 DEF E4, Has3
    <3>3. u[E4(t, v).to] = t[E4(t, v).to]
      BY <1>2, <1>6, <1>10, <2>1
    <3> QED
      BY <2>1, <3>2, <3>3 DEF E3, Has2
  <2>4. E2(u, v) = Entry(new)
    BY <1>2, <1>10, <2>1, <2>3 DEF E2
  <2>5. Has1(u, v) /\ E1(u, v) = table[v[4]]
    BY <1>2, <1>5, <2>3, <2>4 DEF Has1, E1
  <2>6. ~E2(u, v).huge /\ ~E3(u, v).huge
    BY <1>5, <2>3, <2>4 DEF Has2, Refers
  <2>7. TranslatedBy(u, v) = TranslatedBy(t, v)
    <3>1. CASE ~t[f][x].p /\ table = EmptyTable
      <4>1. TranslatedBy(t, v) = 0
        BY <1>4, <2>1, <3>1, WalkIs
      <4>2. TranslatedBy(u, v) = 0
        BY <1>3, <1>4, <1>5, <2>3, <2>5, <3>1, WalkIs
      <4> QED
        BY <4>1, <4>2
    <3>2. CASE t[f][x].p /\ t[f][x].huge /\ table = SplitTable(t[f][x].to)
      <4>1. TranslatedBy(t, v) = t[f][x].to + v[4]
        BY <1>4, <2>1, <3>2, WalkIs
      <4>2. E1(u, v).p /\ E1(u, v).to = t[f][x].to + v[4]
        BY <1>3, <2>5, <3>2 DEF SplitTable, Entry
      <4>3. TranslatedBy(u, v) = E1(u, v).to
        BY <1>4, <2>3, <2>5, <4>2, WalkIs
      <4> QED
        BY <4>1, <4>2, <4>3
    <3> QED
      BY <1>10, <3>1, <3>2
  <2>8. ~CoveredBy(u, v) /\ (CoveredBy(t, v) => t[f][x].p)
    <3>1. ~E3(t, v).huge
      BY <2>1 DEF Has2, Refers
    <3> QED
      BY <1>4, <2>1, <2>3, <2>6, <3>1, CoverIs
  <2>9. \A k, g : OnPath(t, v, k, g) => OnPath(u, v, k, g)
    BY <2>2, <2>3 DEF OnPath
  <2>10. OnPath(u, v, 1, new)
    BY <1>5, <2>4, <2>5 DEF OnPath
  <2> QED
    BY <1>10, <2>7, <2>8, <2>9, <2>10
<1>11. lvl[f] = 4 \/ lvl[f] = 3 \/ lvl[f] = 2
  OBVIOUS
<1> QED
  BY <1>3, <1>7, <1>8, <1>9, <1>10, <1>11

----------------------------------------------------------------------------
(* The tree under every action *)

LEMMA HeadIs ==
  ASSUME NEW S, NEW s \in Seq(S), s # <<>>
  PROVE  Head(s) = s[1]
  OBVIOUS

LEMMA IdleIs ==
  /\ Idle.call = "none" /\ Idle.new = 0 /\ Idle.level = 4 /\ Idle.at = Root
  /\ Idle.virt = <<>> /\ Idle.phys = 0
  BY DEF Idle

(* The call under way, at a table. *)
LEMMA HereIs ==
  ASSUME NEW lvl, Tree(lvl), op # Idle
  PROVE  /\ op \in CallType /\ op.call \in {"map", "unmap", "apic"} /\ op.virt \in Virt /\ op.phys \in Nat
         /\ op.level \in 0 .. 4 /\ op.at \in DOMAIN tables /\ op.new \in DOMAIN tables \cup {0}
         /\ op.level >= 1 => /\ lvl[op.at] = op.level /\ IndexAt(op.virt, op.level) \in Idx
                             /\ OnPath(tables, op.virt, op.level, op.at)
                             /\ EntryHere \in EntryType
         /\ op.new # 0 => op.level >= 2 /\ op.call # "unmap"
<1>1. op \in CallType /\ Shape(tables, lvl) /\ (op.level >= 1 => OnPath(tables, op.virt, op.level, op.at))
  BY DEF Tree, OpInv
<1>2. /\ op.call \in {"map", "unmap", "apic"} /\ op.virt \in Virt /\ op.phys \in Nat
      /\ op.level \in 0 .. 4 /\ op.at \in DOMAIN tables /\ op.new \in DOMAIN tables \cup {0}
  BY <1>1 DEF CallType
<1>3. op.new # 0 => op.level >= 2 /\ op.call # "unmap"
  BY DEF Tree, OpInv
<1>4. op.level >= 1 => lvl[op.at] = op.level /\ IndexAt(op.virt, op.level) \in Idx
  BY <1>1, <1>2, PathLevel
<1>5. op.level >= 1 => EntryHere \in EntryType
  BY <1>1, <1>2, <1>4 DEF EntryHere, Shape
<1> QED
  BY <1>1, <1>2, <1>3, <1>4, <1>5

LEMMA StepDown ==
  ASSUME NEW t, NEW v, NEW k, NEW f, OnPath(t, v, k, f), k # 1, Refers(t[f][IndexAt(v, k)])
  PROVE  OnPath(t, v, k - 1, t[f][IndexAt(v, k)].to)
<1>1. IndexAt(v, 4) = v[1] /\ IndexAt(v, 3) = v[2] /\ IndexAt(v, 2) = v[3]
  BY DEF IndexAt
<1>2. CASE k = 4
  BY <1>1, <1>2 DEF OnPath, Has3, E4
<1>3. CASE k = 3
  BY <1>1, <1>3 DEF OnPath, Has2, E3
<1>4. CASE k = 2
  BY <1>1, <1>4 DEF OnPath, Has1, E2
<1> QED
  BY <1>2, <1>3, <1>4 DEF OnPath

(* The call goes down a level. *)
LEMMA DescendKeeps ==
  ASSUME NEW lvl, Tree(lvl), op # Idle, op.level > 1, op.new = 0, TableHere,
         op' = [op EXCEPT !.level = op.level - 1, !.at = EntryHere.to],
         UNCHANGED <<tables, free, heap_phys, pt_pool_idx>>
  PROVE  Tree(lvl)'
<1>1. /\ op \in CallType /\ op.level \in 2 .. 4 /\ op.at \in DOMAIN tables /\ lvl[op.at] = op.level
      /\ OnPath(tables, op.virt, op.level, op.at) /\ EntryHere = tables[op.at][IndexAt(op.virt, op.level)]
  BY HereIs DEF EntryHere
<1>2. OnPath(tables, op.virt, op.level - 1, EntryHere.to)
  BY <1>1, StepDown DEF TableHere, Refers
<1>3. EntryHere.to \in DOMAIN tables
  BY <1>1, <1>2, HereIs, PathLevel DEF Tree
<1>4. /\ op'.call = op.call /\ op'.virt = op.virt /\ op'.phys = op.phys /\ op'.new = 0
      /\ op'.level = op.level - 1 /\ op'.at = EntryHere.to
      /\ op' \in CallType
  <2>1. op.level - 1 \in 0 .. 4
    BY <1>1
  <2>2. op.new = 0 /\ op \in [call : {"map", "unmap", "apic"}, virt : Virt, phys : Nat, level : 0 .. 4,
                              at : DOMAIN tables, new : DOMAIN tables \cup {0}]
    BY <1>1 DEF CallType
  <2> QED
    BY <1>3, <2>1, <2>2 DEF CallType
<1>5. FramesInv(lvl)'
  BY <1>4 DEF Tree, FramesInv
<1>6. OpInv(lvl)'
  <2>1. op' \in CallType' /\ op'.level >= 1
    BY <1>1, <1>4 DEF CallType
  <2>2. op.call = "unmap" => op.phys = 0
    BY DEF Tree, OpInv
  <2> QED
    BY <1>1, <1>2, <1>4, <2>1, <2>2 DEF OpInv
<1>7. Shape(tables, lvl)'
  BY DEF Tree
<1> QED
  BY <1>5, <1>6, <1>7 DEF Tree

(* A call returns, or there is none. *)
LEMMA ReturnKeeps ==
  ASSUME NEW lvl, Tree(lvl), op.new = 0, op' = Idle, UNCHANGED <<tables, free, heap_phys, pt_pool_idx>>
  PROVE  Tree(lvl)'
<1>1. op'.new = op.new
  BY IdleIs
<1>2. FramesInv(lvl)'
  BY <1>1 DEF Tree, FramesInv
<1>3. OpInv(lvl)' /\ Shape(tables, lvl)'
  BY DEF Tree, OpInv
<1> QED
  BY <1>2, <1>3 DEF Tree

(* A call begins. *)
LEMMA CallKeeps ==
  ASSUME NEW lvl, Tree(lvl), op = Idle, UNCHANGED <<tables, pt_pool_idx>>,
         NEW c \in {"map", "unmap", "apic"}, NEW v \in Virt, NEW p \in Nat, c = "unmap" => p = 0,
         op' = [Idle EXCEPT !.call = c, !.virt = v, !.phys = p],
         \/ UNCHANGED <<free, heap_phys>>
         \/ free # <<>> /\ free' = Tail(free) /\ heap_phys' = Append(heap_phys, Head(free))
  PROVE  Tree(lvl)'
<1>1. /\ op'.call = c /\ op'.virt = v /\ op'.phys = p /\ op'.level = 4 /\ op'.at = Root /\ op'.new = 0
      /\ op.new = 0 /\ Shape(tables, lvl) /\ Root \in DOMAIN tables
  BY IdleIs DEF Idle, Tree, Shape
<1>2. op' \in CallType'
  <2>1. op' = [call |-> c, virt |-> v, phys |-> p, level |-> 4, at |-> Root, new |-> 0]
    BY DEF Idle
  <2> QED
    BY <1>1, <2>1 DEF CallType
<1>3. OnPath(tables, v, 4, Root)
  BY DEF OnPath
<1>4. OpInv(lvl)' /\ Shape(tables, lvl)'
  BY <1>1, <1>2, <1>3 DEF OpInv
<1>5. FramesInv(lvl)'
  <2>1. CASE UNCHANGED <<free, heap_phys>>
    BY <1>1, <2>1 DEF Tree, FramesInv
  <2>2. CASE free # <<>> /\ free' = Tail(free) /\ heap_phys' = Append(heap_phys, Head(free))
    <3>1. /\ free \in Seq(Members(Pool)) /\ Distinct(free) /\ heap_phys \in Seq(Members(Pool)) /\ Distinct(heap_phys)
          /\ \A m \in DOMAIN free, n \in DOMAIN heap_phys : free[m] # heap_phys[n]
          /\ \A f \in Members(free) \cup Members(heap_phys) : lvl[f] = 0
          /\ 0 \notin Members(Pool)
      BY <1>1 DEF Tree, FramesInv, Shape
    <3>2. /\ free' \in Seq(Members(Pool)) /\ Len(free) \in Nat /\ Len(free) > 0 /\ DOMAIN free = 1 .. Len(free)
          /\ DOMAIN free' = 1 .. Len(free) - 1
          /\ \A n \in DOMAIN free' : free'[n] = free[n + 1] /\ n + 1 \in DOMAIN free
      BY <2>2, <3>1, EmptySeq, HeadTailProperties, LenProperties
    <3>3. Head(free) = free[1] /\ 1 \in DOMAIN free /\ free[1] \in Members(Pool)
      <4>1. Head(free) = free[1]
        BY <2>2, <3>1, HeadIs
      <4>2. Head(free) \in Members(Pool)
        BY <2>2, <3>1, HeadTailProperties
      <4> QED
        BY <3>2, <4>1, <4>2
    <3>4. /\ heap_phys' \in Seq(Members(Pool)) /\ Len(heap_phys) \in Nat
          /\ DOMAIN heap_phys = 1 .. Len(heap_phys) /\ DOMAIN heap_phys' = 1 .. Len(heap_phys) + 1
          /\ \A n \in DOMAIN heap_phys : heap_phys'[n] = heap_phys[n]
          /\ heap_phys'[Len(heap_phys) + 1] = free[1]
      BY <2>2, <3>1, <3>3, AppendProperties, LenProperties
    <3>5. Distinct(free') /\ \A n \in DOMAIN free' : free'[n] # free[1]
      <4>1. \A m, n \in DOMAIN free : free[m] = free[n] => m = n
        BY <3>1 DEF Distinct
      <4>2. \A n \in DOMAIN free' : n \in Nat /\ n + 1 # 1 /\ n + 1 \in DOMAIN free /\ free'[n] = free[n + 1]
        BY <3>2
      <4>3. \A m, n \in DOMAIN free' : free'[m] = free'[n] => m = n
        BY <4>1, <4>2
      <4> QED
        BY <3>3, <4>1, <4>2, <4>3 DEF Distinct
    <3>6. Distinct(heap_phys')
      BY <3>1, <3>3, <3>4 DEF Distinct
    <3>7. \A m \in DOMAIN free', n \in DOMAIN heap_phys' : free'[m] # heap_phys'[n]
      BY <3>1, <3>2, <3>4, <3>5
    <3>8. Members(free') \cup Members(heap_phys') \subseteq Members(free) \cup Members(heap_phys)
      BY <3>2, <3>3, <3>4 DEF Members
    <3>9. Members(free') \cup Members(heap_phys') \subseteq Members(Pool)
      BY <3>2, <3>4 DEF Members
    <3> QED
      BY <1>1, <3>1, <3>2, <3>4, <3>5, <3>6, <3>7, <3>8, <3>9 DEF Tree, FramesInv
  <2> QED
    BY <2>1, <2>2
<1> QED
  BY <1>4, <1>5 DEF Tree

(* What steps do to the translations and to large pages. *)
SameMap    == \A v \in Virt : VirtToPhys(v)' = VirtToPhys(v)
NoNewCover == \A v \in Virt : CoveredBy(tables, v)' => CoveredBy(tables, v)
KeptCover  == \A v \in Virt : CoveredBy(tables, v) => CoveredBy(tables, v)'

LEMMA PoolIs ==
  /\ Members(Pool) \cap Members(PtPool) = {} /\ Len(PtPool) = 3 /\ DOMAIN PtPool = 1 .. 3
  /\ \A m, n \in 1 .. 3 : PtPool[m] = PtPool[n] => m = n
  /\ \A n \in 1 .. 3 : PtPool[n] \in Members(PtPool)
<1>1. /\ Members(Pool) \cap Members(PtPool) = {} /\ Len(PtPool) = 3 /\ PtPool \in Seq(Nat \ {0}) /\ Distinct(PtPool)
  BY MemInitAssumption DEF Apart
<1>2. DOMAIN PtPool = 1 .. 3
  BY <1>1
<1> QED
  BY <1>1, <1>2 DEF Distinct, Members

LEMMA EmptyTableType == EmptyTable \in [Idx -> EntryType]
  BY DEF EmptyTable, NotThere, EntryType

(* A frame of the list is cleared to become a table. *)
LEMMA AllocKeeps ==
  ASSUME NEW lvl, Tree(lvl), AllocTable, UNCHANGED initVars
  PROVE  Tree(lvl)' /\ SameMap /\ NoNewCover /\ KeptCover
<1> DEFINE f == Head(free)
<1>1. /\ op.call = "map" /\ op.level > 1 /\ op.new = 0 /\ ~EntryHere.p /\ free # <<>> /\ free' = Tail(free)
      /\ tables' = [tables EXCEPT ![f] = EmptyTable] /\ op' = [op EXCEPT !.new = f]
      /\ UNCHANGED <<heap_phys, pt_pool_idx>> /\ op # Idle
  BY IdleIs DEF AllocTable, initVars
<1>2. /\ free \in Seq(Members(Pool)) /\ Distinct(free) /\ heap_phys \in Seq(Members(Pool)) /\ Distinct(heap_phys)
      /\ \A m \in DOMAIN free, n \in DOMAIN heap_phys : free[m] # heap_phys[n]
      /\ \A g \in Members(free) \cup Members(heap_phys) : lvl[g] = 0
      /\ \A g \in Members(Pool) : lvl[g] = 0 => tables[g] = Garbage \/ g = op.new
      /\ pt_pool_idx \in 0 .. 3
      /\ \A n \in pt_pool_idx + 1 .. 3 : lvl[PtPool[n]] = 0 /\ tables[PtPool[n]] = EmptyTable
  BY DEF Tree, FramesInv
<1>3. /\ Shape(tables, lvl) /\ tables \in [DOMAIN tables -> [Idx -> EntryType]]
      /\ Members(Pool) \subseteq DOMAIN tables /\ Members(PtPool) \subseteq DOMAIN tables
      /\ 0 \notin DOMAIN tables /\ lvl \in [DOMAIN tables -> 0 .. 4]
  BY DEF Tree, Shape
<1>4. /\ free' \in Seq(Members(Pool)) /\ Len(free) \in Nat /\ Len(free) > 0 /\ DOMAIN free = 1 .. Len(free)
      /\ DOMAIN free' = 1 .. Len(free) - 1
      /\ \A n \in DOMAIN free' : n \in Nat /\ free'[n] = free[n + 1] /\ n + 1 \in DOMAIN free /\ n + 1 # 1
  BY <1>1, <1>2, EmptySeq, HeadTailProperties, LenProperties
<1>5. f = free[1] /\ 1 \in DOMAIN free /\ f \in Members(Pool) /\ f \in Members(free)
  <2>1. f = free[1]
    BY <1>1, <1>2, HeadIs
  <2>2. f \in Members(Pool)
    BY <1>1, <1>2, HeadTailProperties
  <2> QED
    BY <1>4, <2>1, <2>2 DEF Members
<1> HIDE DEF f
<1>6. f \in DOMAIN tables /\ lvl[f] = 0 /\ f # 0
  BY <1>2, <1>3, <1>5
<1>7. /\ DOMAIN tables' = DOMAIN tables /\ tables' \in [DOMAIN tables -> [Idx -> EntryType]]
      /\ tables'[f] = EmptyTable /\ \A g \in DOMAIN tables : g # f => tables'[g] = tables[g]
  BY <1>1, <1>3, <1>6, EmptyTableType
<1>8. Shape(tables', lvl)
  <2>1. \A g \in DOMAIN tables : lvl[g] >= 2 => tables'[g] = tables[g]
    BY <1>6, <1>7
  <2> QED
    BY ONLY <1>3, <1>7, <2>1, OutsideShape
<1>9. ASSUME NEW v \in Virt
      PROVE  /\ TranslatedBy(tables', v) = TranslatedBy(tables, v)
             /\ CoveredBy(tables', v) <=> CoveredBy(tables, v)
             /\ \A k, g : OnPath(tables', v, k, g) <=> OnPath(tables, v, k, g)
  <2>1. \A g \in DOMAIN tables : lvl[g] >= 1 => tables'[g] = tables[g]
    BY <1>6, <1>7
  <2>2. Shape(tables, lvl) /\ v \in Virt
    BY <1>3, <1>9
  <2> QED
    BY ONLY <2>1, <2>2, OutsideWalk
<1>10. /\ op'.call = "map" /\ op'.virt = op.virt /\ op'.phys = op.phys /\ op'.level = op.level /\ op'.at = op.at
       /\ op'.new = f /\ op' \in CallType /\ op.virt \in Virt
  <2>1. op \in [call : {"map", "unmap", "apic"}, virt : Virt, phys : Nat, level : 0 .. 4,
                at : DOMAIN tables, new : DOMAIN tables \cup {0}]
    BY <1>1, HereIs DEF CallType
  <2> QED
    BY <1>1, <1>6, <2>1 DEF CallType
<1>11. /\ op.level \in 2 .. 4 /\ op.at \in DOMAIN tables /\ lvl[op.at] = op.level
       /\ OnPath(tables, op.virt, op.level, op.at)
  BY <1>1, HereIs
<1>12. EntryHere' = EntryHere
  <2>1. tables'[op.at] = tables[op.at]
    BY <1>6, <1>7, <1>11
  <2> QED
    BY <1>10, <2>1 DEF EntryHere
<1>13. OpInv(lvl)'
  <2>1. op' \in CallType'
    BY <1>7, <1>10 DEF CallType
  <2>2. OnPath(tables', op'.virt, op'.level, op'.at)
    BY <1>9, <1>10, <1>11
  <2> QED
    BY <1>1, <1>5, <1>6, <1>7, <1>10, <1>11, <1>12, <2>1, <2>2 DEF OpInv
<1>14. FramesInv(lvl)'
  <2>1. \A m, n \in DOMAIN free : free[m] = free[n] => m = n
    BY <1>2 DEF Distinct
  <2>2. \A m, n \in DOMAIN free' : free'[m] = free'[n] => m = n
    BY <1>4, <2>1
  <2>3. \A n \in DOMAIN free' : free'[n] # f
    BY <1>4, <1>5, <2>1
  <2>4. \A n \in DOMAIN heap_phys : heap_phys[n] # f
    BY <1>2, <1>5
  <2>5. \A g \in Members(free') \cup Members(heap_phys) : g \in Members(free) \cup Members(heap_phys) /\ g # f
    BY <1>4, <2>3, <2>4 DEF Members
  <2>6. \A m \in DOMAIN free', n \in DOMAIN heap_phys : free'[m] # heap_phys[n]
    BY <1>2, <1>4
  <2>7. \A g \in Members(Pool) : lvl[g] = 0 => tables'[g] = Garbage \/ g = f
    BY <1>1, <1>2, <1>3, <1>7
  <2>8. \A n \in pt_pool_idx + 1 .. 3 :
          lvl[PtPool[n]] = 0 /\ tables'[PtPool[n]] = EmptyTable /\ PtPool[n] # f
    BY <1>2, <1>3, <1>5, <1>7, PoolIs
  <2> QED
    BY <1>1, <1>2, <1>4, <1>10, <2>2, <2>5, <2>6, <2>7, <2>8 DEF FramesInv, Distinct
<1>15. SameMap /\ NoNewCover /\ KeptCover
  BY <1>9 DEF SameMap, NoNewCover, KeptCover, VirtToPhys
<1> QED
  BY <1>8, <1>13, <1>14, <1>15 DEF Tree

(* A table, empty or the pieces of a large page, is entered at f: what     *)
(* follows for the frames that are not in the tree.                        *)
LEMMA EnterFrames ==
  ASSUME NEW lvl, Shape(tables, lvl), FramesInv(lvl), NEW f, NEW x, NEW new, NEW table, NEW l,
         Enters(tables, tables', f, x, new, table), lvl[f] \in 2 .. 4, lvl[new] = 0,
         l = [lvl EXCEPT ![new] = lvl[f] - 1],
         UNCHANGED <<free, heap_phys>>, op'.new \in {0, new}, op.new \in {0, new},
         \/ UNCHANGED pt_pool_idx /\ new = op.new
         \/ pt_pool_idx < 3 /\ pt_pool_idx' = pt_pool_idx + 1 /\ new = PtPool[pt_pool_idx + 1]
  PROVE  FramesInv(l)'
<1>1. /\ free \in Seq(Members(Pool)) /\ Distinct(free) /\ heap_phys \in Seq(Members(Pool)) /\ Distinct(heap_phys)
      /\ \A m \in DOMAIN free, n \in DOMAIN heap_phys : free[m] # heap_phys[n]
      /\ \A g \in Members(free) \cup Members(heap_phys) : lvl[g] = 0 /\ g # op.new
      /\ \A g \in Members(Pool) : lvl[g] = 0 => tables[g] = Garbage \/ g = op.new
      /\ pt_pool_idx \in 0 .. 3
      /\ \A n \in pt_pool_idx + 1 .. 3 :
           lvl[PtPool[n]] = 0 /\ tables[PtPool[n]] = EmptyTable /\ PtPool[n] # op.new
  BY DEF FramesInv
<1>2. /\ lvl \in [DOMAIN tables -> 0 .. 4] /\ 0 \notin DOMAIN tables
      /\ Members(Pool) \subseteq DOMAIN tables /\ Members(PtPool) \subseteq DOMAIN tables
  BY DEF Shape
<1>3. /\ f \in DOMAIN tables /\ new \in DOMAIN tables /\ new # f
      /\ \A g \in DOMAIN tables : g # new /\ g # f => tables'[g] = tables[g]
  BY DEF Enters
<1>4. /\ l[new] # 0 /\ \A g \in DOMAIN tables : g # new => l[g] = lvl[g]
      /\ \A g \in DOMAIN tables : lvl[g] = 0 /\ g # new => tables'[g] = tables[g]
  BY <1>2, <1>3
<1>5. Members(free) \cup Members(heap_phys) \subseteq Members(Pool)
  BY <1>1 DEF Members
<1>6. \A g \in Members(free) \cup Members(heap_phys) : g # new
  <2>1. CASE new = op.new
    BY <1>1, <2>1
  <2>2. CASE pt_pool_idx < 3 /\ new = PtPool[pt_pool_idx + 1]
    BY <1>1, <1>5, <2>2, PoolIs
  <2> QED
    BY <2>1, <2>2
<1>7. \A g \in Members(free) \cup Members(heap_phys) : l[g] = 0 /\ g # op'.new
  BY <1>1, <1>2, <1>4, <1>5, <1>6
<1>8. \A g \in Members(Pool) : l[g] = 0 => tables'[g] = Garbage
  BY <1>1, <1>2, <1>4
<1>9. pt_pool_idx' \in 0 .. 3 /\ \A n \in pt_pool_idx' + 1 .. 3 : n \in pt_pool_idx + 1 .. 3 /\ PtPool[n] # new
  <2>1. CASE UNCHANGED pt_pool_idx /\ new = op.new
    BY <1>1, <2>1
  <2>2. CASE pt_pool_idx < 3 /\ pt_pool_idx' = pt_pool_idx + 1 /\ new = PtPool[pt_pool_idx + 1]
    <3>1. pt_pool_idx + 1 \in 1 .. 3 /\ pt_pool_idx' \in 0 .. 3
      BY <1>1, <2>2
    <3>2. ASSUME NEW n \in pt_pool_idx' + 1 .. 3
          PROVE  n \in pt_pool_idx + 1 .. 3 /\ n \in 1 .. 3 /\ n # pt_pool_idx + 1
      BY <1>1, <2>2, <3>1
    <3> QED
      BY <2>2, <3>1, <3>2, PoolIs
  <2> QED
    BY <2>1, <2>2
<1>10. \A n \in pt_pool_idx' + 1 .. 3 :
         l[PtPool[n]] = 0 /\ tables'[PtPool[n]] = EmptyTable /\ PtPool[n] # op'.new
  <2>1. ASSUME NEW n \in pt_pool_idx' + 1 .. 3
        PROVE  l[PtPool[n]] = 0 /\ tables'[PtPool[n]] = EmptyTable /\ PtPool[n] # op'.new
    <3>1. n \in 1 .. 3 /\ n \in pt_pool_idx + 1 .. 3 /\ PtPool[n] # new
      BY <1>1, <1>9
    <3>2. PtPool[n] \in DOMAIN tables
      BY <1>2, <3>1, PoolIs
    <3> QED
      BY <1>1, <1>2, <1>4, <3>1, <3>2
  <2> QED
    BY <2>1
<1> QED
  BY <1>1, <1>7, <1>8, <1>9, <1>10 DEF FramesInv

LEMMA WriteEnters ==
  ASSUME NEW t, t \in [DOMAIN t -> [Idx -> EntryType]], NEW f \in DOMAIN t, NEW x \in Idx,
         NEW new \in DOMAIN t, new # f, new \in Nat, NEW u, u = [t EXCEPT ![f][x] = Entry(new)]
  PROVE  Enters(t, u, f, x, new, t[new])
<1>1. Entry(new) \in EntryType
  BY DEF Entry, EntryType
<1>2. u = [t EXCEPT ![f] = [t[f] EXCEPT ![x] = Entry(new)]]
  OBVIOUS
<1>3. t[f] \in [Idx -> EntryType] /\ [t[f] EXCEPT ![x] = Entry(new)] \in [Idx -> EntryType]
  BY <1>1
<1>4. /\ [t[f] EXCEPT ![x] = Entry(new)][x] = Entry(new)
      /\ \A y \in Idx : y # x => [t[f] EXCEPT ![x] = Entry(new)][y] = t[f][y]
  BY <1>3
<1> QED
  BY <1>2, <1>3, <1>4 DEF Enters

LEMMA FramesAreNat ==
  /\ Members(Pool) \subseteq Nat \ {0} /\ Members(PtPool) \subseteq Nat \ {0}
<1>1. Pool \in Seq(Nat \ {0}) /\ PtPool \in Seq(Nat \ {0})
  BY MemInitAssumption
<1> QED
  BY <1>1 DEF Members

(* The cleared frame is entered in the table above. *)
LEMMA LinkKeeps ==
  ASSUME NEW lvl, Tree(lvl), LinkTable, UNCHANGED initVars
  PROVE  TreeInv' /\ SameMap /\ NoNewCover /\ KeptCover
<1>1. PICK f, x, new, l : /\ f = op.at /\ x = IndexAt(op.virt, op.level) /\ new = op.new
                          /\ l = [lvl EXCEPT ![new] = lvl[f] - 1]
  OBVIOUS
<1>2. /\ op.call = "map" /\ op.new # 0 /\ op # Idle
      /\ tables' = [tables EXCEPT ![f][x] = Entry(new)]
      /\ op' = [op EXCEPT !.level = op.level - 1, !.at = new, !.new = 0]
      /\ UNCHANGED <<free, heap_phys, pt_pool_idx>>
  BY <1>1, IdleIs DEF LinkTable, initVars
<1>3. /\ op \in CallType /\ op.virt \in Virt /\ op.level \in 2 .. 4 /\ f \in DOMAIN tables /\ x \in Idx
      /\ lvl[f] = op.level /\ OnPath(tables, op.virt, op.level, f)
  BY <1>1, <1>2, HereIs
<1>4. /\ tables[new] = EmptyTable /\ lvl[new] = 0 /\ ~tables[f][x].p /\ new \in Members(Pool)
  BY <1>1, <1>2 DEF Tree, OpInv, EntryHere
<1>5. /\ Shape(tables, lvl) /\ FramesInv(lvl) /\ tables \in [DOMAIN tables -> [Idx -> EntryType]]
      /\ new \in DOMAIN tables /\ new # f /\ new \in Nat
  BY <1>3, <1>4, FramesAreNat DEF Tree, Shape
<1>6. Enters(tables, tables', f, x, new, EmptyTable)
  BY <1>2, <1>3, <1>4, <1>5, WriteEnters
<1>7. Shape(tables', l)
  <2>1. ~Refers(tables[f][x])
    BY <1>4 DEF Refers
  <2> QED
    BY <1>1, <1>3, <1>4, <1>5, <1>6, <2>1, EnterShape
<1>8. ASSUME NEW v \in Virt
      PROVE  /\ TranslatedBy(tables', v) = TranslatedBy(tables, v)
             /\ CoveredBy(tables', v) <=> CoveredBy(tables, v)
             /\ OnPath(tables, v, lvl[f], f) /\ IndexAt(v, lvl[f]) = x => OnPath(tables', v, lvl[f] - 1, new)
  BY <1>3, <1>4, <1>5, <1>6, EnterWalk
<1>9. /\ op'.call = "map" /\ op'.virt = op.virt /\ op'.phys = op.phys /\ op'.level = op.level - 1
      /\ op'.at = new /\ op'.new = 0 /\ op' \in CallType
  <2>1. op.level - 1 \in 0 .. 4
    BY <1>3
  <2>2. op \in [call : {"map", "unmap", "apic"}, virt : Virt, phys : Nat, level : 0 .. 4,
                at : DOMAIN tables, new : DOMAIN tables \cup {0}]
    BY <1>3 DEF CallType
  <2> QED
    BY <1>2, <1>5, <2>1, <2>2 DEF CallType
<1>10. OpInv(l)'
  <2>1. op' \in CallType'
    BY <1>6, <1>9 DEF CallType, Enters
  <2>2. OnPath(tables', op'.virt, op'.level, op'.at)
    BY <1>1, <1>3, <1>8, <1>9
  <2>3. op'.level # 0
    BY <1>3, <1>9
  <2> QED
    BY <1>9, <2>1, <2>2, <2>3 DEF OpInv
<1>11. FramesInv(l)'
  BY <1>1, <1>2, <1>3, <1>4, <1>5, <1>6, <1>9, EnterFrames
<1>12. SameMap /\ NoNewCover /\ KeptCover
  BY <1>8 DEF SameMap, NoNewCover, KeptCover, VirtToPhys
<1> QED
  BY <1>7, <1>10, <1>11, <1>12 DEF Tree, TreeInv

LEMMA PoolTableIs ==
  ASSUME NEW lvl, Tree(lvl), PoolLeft
  PROVE  /\ pt_pool_idx \in 0 .. 2 /\ PoolTable = PtPool[pt_pool_idx + 1]
         /\ PoolTable \in DOMAIN tables /\ PoolTable \in Nat \ {0}
         /\ lvl[PoolTable] = 0 /\ tables[PoolTable] = EmptyTable
<1>1. pt_pool_idx \in 0 .. 3 /\ pt_pool_idx < 3
  BY PoolIs DEF Tree, FramesInv, PoolLeft
<1>2. pt_pool_idx + 1 \in pt_pool_idx + 1 .. 3 /\ pt_pool_idx + 1 \in 1 .. 3
  BY <1>1
<1>3. PoolTable = PtPool[pt_pool_idx + 1] /\ PoolTable \in Members(PtPool)
  BY <1>2, PoolIs DEF PoolTable
<1>4. PoolTable \in DOMAIN tables /\ PoolTable \in Nat \ {0}
  BY <1>3, FramesAreNat DEF Tree, Shape
<1>5. lvl[PoolTable] = 0 /\ tables[PoolTable] = EmptyTable
  BY <1>2, <1>3 DEF Tree, FramesInv
<1> QED
  BY <1>1, <1>3, <1>4, <1>5

(* apic_init enters a table of pt_pool ... *)
LEMMA ApicLinkKeeps ==
  ASSUME NEW lvl, Tree(lvl), ApicLink
  PROVE  TreeInv' /\ SameMap /\ NoNewCover /\ KeptCover
<1>1. PICK f, x, new, l : /\ f = op.at /\ x = IndexAt(op.virt, op.level) /\ new = PoolTable
                          /\ l = [lvl EXCEPT ![new] = lvl[f] - 1]
  OBVIOUS
<1>2. /\ op.call = "apic" /\ op.level > 1 /\ op.new = 0 /\ op # Idle /\ ~EntryHere.p /\ PoolLeft
      /\ tables' = [tables EXCEPT ![f][x] = Entry(new)]
      /\ op' = [op EXCEPT !.new = new] /\ pt_pool_idx' = pt_pool_idx + 1
      /\ UNCHANGED <<free, heap_phys>>
  BY <1>1, IdleIs DEF ApicLink, ApicWalks
<1>3. /\ op \in CallType /\ op.virt \in Virt /\ op.level \in 2 .. 4 /\ f \in DOMAIN tables /\ x \in Idx
      /\ lvl[f] = op.level /\ OnPath(tables, op.virt, op.level, f) /\ ~tables[f][x].p
  BY <1>1, <1>2, HereIs DEF EntryHere
<1>4. /\ pt_pool_idx \in 0 .. 2 /\ new = PtPool[pt_pool_idx + 1] /\ new \in DOMAIN tables
      /\ new \in Nat \ {0} /\ lvl[new] = 0 /\ tables[new] = EmptyTable /\ new # f
  BY <1>1, <1>2, <1>3, PoolTableIs
<1>5. Shape(tables, lvl) /\ FramesInv(lvl) /\ tables \in [DOMAIN tables -> [Idx -> EntryType]]
  BY DEF Tree, Shape
<1>6. Enters(tables, tables', f, x, new, EmptyTable)
  BY <1>2, <1>3, <1>4, <1>5, WriteEnters
<1>7. Shape(tables', l)
  <2>1. ~Refers(tables[f][x])
    BY <1>3 DEF Refers
  <2> QED
    BY <1>1, <1>3, <1>4, <1>5, <1>6, <2>1, EnterShape
<1>8. ASSUME NEW v \in Virt
      PROVE  /\ TranslatedBy(tables', v) = TranslatedBy(tables, v)
             /\ CoveredBy(tables', v) <=> CoveredBy(tables, v)
             /\ \A k, g : OnPath(tables, v, k, g) => OnPath(tables', v, k, g)
  BY <1>3, <1>4, <1>5, <1>6, EnterWalk
<1>9. /\ op'.call = "apic" /\ op'.virt = op.virt /\ op'.phys = op.phys /\ op'.level = op.level
      /\ op'.at = f /\ op'.new = new /\ op' \in CallType
  <2>1. op \in [call : {"map", "unmap", "apic"}, virt : Virt, phys : Nat, level : 0 .. 4,
                at : DOMAIN tables, new : DOMAIN tables \cup {0}]
    BY <1>3 DEF CallType
  <2> QED
    BY <1>1, <1>2, <1>4, <2>1 DEF CallType
<1>10. OpInv(l)'
  <2>1. op' \in CallType'
    BY <1>6, <1>9 DEF CallType, Enters
  <2>2. OnPath(tables', op'.virt, op'.level, op'.at)
    BY <1>3, <1>8, <1>9
  <2>3. tables'[new] = EmptyTable /\ EntryHere' = Entry(new)
    BY <1>1, <1>6, <1>9 DEF Enters, EntryHere
  <2> QED
    BY <1>3, <1>4, <1>9, <2>1, <2>2, <2>3 DEF OpInv
<1>11. FramesInv(l)'
  <2>1. /\ op'.new \in {0, new} /\ op.new \in {0, new} /\ UNCHANGED <<free, heap_phys>>
        /\ pt_pool_idx < 3 /\ pt_pool_idx' = pt_pool_idx + 1 /\ new = PtPool[pt_pool_idx + 1]
    BY <1>2, <1>4, <1>9
  <2>2. /\ Shape(tables, lvl) /\ FramesInv(lvl) /\ lvl[f] \in 2 .. 4 /\ lvl[new] = 0
        /\ l = [lvl EXCEPT ![new] = lvl[f] - 1]
    BY <1>1, <1>3, <1>4, <1>5
  <2> QED
    BY ONLY <1>6, <2>1, <2>2, EnterFrames
<1>12. SameMap /\ NoNewCover /\ KeptCover
  BY <1>8 DEF SameMap, NoNewCover, KeptCover, VirtToPhys
<1> QED
  BY <1>7, <1>10, <1>11, <1>12 DEF Tree, TreeInv

(* ... which is empty already when apic_init clears it. *)
LEMMA ApicClearKeeps ==
  ASSUME NEW lvl, Tree(lvl), ApicClear
  PROVE  Tree(lvl)' /\ UNCHANGED tables
<1>1. /\ op.call = "apic" /\ op.new # 0 /\ op # Idle
      /\ tables' = [tables EXCEPT ![op.new] = EmptyTable]
      /\ op' = [op EXCEPT !.level = op.level - 1, !.at = op.new, !.new = 0]
      /\ UNCHANGED <<free, heap_phys, pt_pool_idx>>
  BY IdleIs DEF ApicClear, initVars
<1>2. /\ tables[op.new] = EmptyTable /\ EntryHere = Entry(op.new) /\ op \in CallType
      /\ op.virt \in Virt /\ op.level \in 2 .. 4 /\ OnPath(tables, op.virt, op.level, op.at)
      /\ op.new \in DOMAIN tables
  BY <1>1, HereIs DEF Tree, OpInv
<1>3. Shape(tables, lvl) /\ 0 \notin DOMAIN tables /\ tables \in [DOMAIN tables -> [Idx -> EntryType]]
  BY DEF Tree, Shape
<1>4. UNCHANGED tables
  BY <1>1, <1>2, <1>3
<1>5. OnPath(tables, op.virt, op.level - 1, op.new)
  <2>1. Refers(Entry(op.new)) /\ Entry(op.new).to = op.new
    BY DEF Refers, Entry
  <2> QED
    BY <1>2, <2>1, StepDown DEF EntryHere
<1>6. lvl[op.new] = op.level - 1 /\ lvl[op.new] # 0
  BY <1>2, <1>3, <1>5, PathLevel
<1>7. /\ op'.call = "apic" /\ op'.virt = op.virt /\ op'.phys = op.phys /\ op'.level = op.level - 1
      /\ op'.at = op.new /\ op'.new = 0 /\ op' \in CallType
  <2>1. op.level - 1 \in 0 .. 4
    BY <1>2
  <2>2. op \in [call : {"map", "unmap", "apic"}, virt : Virt, phys : Nat, level : 0 .. 4,
                at : DOMAIN tables, new : DOMAIN tables \cup {0}]
    BY <1>2 DEF CallType
  <2> QED
    BY <1>1, <1>2, <2>1, <2>2 DEF CallType
<1>8. OpInv(lvl)'
  <2>1. op' \in CallType' /\ op'.level # 0
    BY <1>2, <1>4, <1>7 DEF CallType
  <2> QED
    BY <1>4, <1>5, <1>7, <2>1 DEF OpInv
<1>9. FramesInv(lvl)'
  <2>1. Members(Pool) \subseteq Nat \ {0} /\ \A n \in 1 .. 3 : PtPool[n] # 0
    BY FramesAreNat, PoolIs
  <2>2. /\ free \in Seq(Members(Pool)) /\ Distinct(free) /\ heap_phys \in Seq(Members(Pool)) /\ Distinct(heap_phys)
        /\ \A m \in DOMAIN free, n \in DOMAIN heap_phys : free[m] # heap_phys[n]
        /\ \A f \in Members(free) \cup Members(heap_phys) : lvl[f] = 0
        /\ \A f \in Members(Pool) : lvl[f] = 0 => tables[f] = Garbage
        /\ pt_pool_idx \in 0 .. 3
        /\ \A n \in pt_pool_idx + 1 .. 3 : lvl[PtPool[n]] = 0 /\ tables[PtPool[n]] = EmptyTable
    BY <1>6 DEF Tree, FramesInv
  <2>3. \A n \in pt_pool_idx + 1 .. 3 : n \in 1 .. 3
    BY <2>2
  <2>4. Members(free) \cup Members(heap_phys) \subseteq Members(Pool)
    BY <2>2 DEF Members
  <2> QED
    BY <1>1, <1>4, <1>7, <2>1, <2>2, <2>3, <2>4 DEF FramesInv
<1> QED
  BY <1>3, <1>4, <1>8, <1>9 DEF Tree

(* A large page is split: its pieces are entered in its place. *)
LEMMA ApicSplitKeeps ==
  ASSUME NEW lvl, Tree(lvl), ApicSplit
  PROVE  TreeInv' /\ SameMap /\ NoNewCover
<1>1. PICK f, x, new, l, to :
        /\ f = op.at /\ x = IndexAt(op.virt, op.level) /\ new = PoolTable
        /\ l = [lvl EXCEPT ![new] = lvl[f] - 1] /\ to = EntryHere.to
  OBVIOUS
<1>2. /\ op.call = "apic" /\ op.level = 2 /\ op.new = 0 /\ op # Idle /\ HugeHere /\ PoolLeft
      /\ tables' = [tables EXCEPT ![new] = SplitTable(to), ![f][x] = Entry(new)]
      /\ op' = [op EXCEPT !.level = 1, !.at = new] /\ pt_pool_idx' = pt_pool_idx + 1
      /\ UNCHANGED <<free, heap_phys>>
  BY <1>1, IdleIs DEF ApicSplit, ApicWalks
<1>3. /\ op \in CallType /\ op.virt \in Virt /\ f \in DOMAIN tables /\ x \in Idx /\ lvl[f] = 2
      /\ OnPath(tables, op.virt, 2, f) /\ tables[f][x] \in EntryType
      /\ tables[f][x].p /\ tables[f][x].huge /\ tables[f][x].to = to
  BY <1>1, <1>2, HereIs DEF EntryHere, HugeHere
<1>4. /\ pt_pool_idx \in 0 .. 2 /\ new = PtPool[pt_pool_idx + 1] /\ new \in DOMAIN tables
      /\ new \in Nat \ {0} /\ lvl[new] = 0 /\ new # f
  BY <1>1, <1>2, <1>3, PoolTableIs
<1>5. Shape(tables, lvl) /\ FramesInv(lvl) /\ tables \in [DOMAIN tables -> [Idx -> EntryType]]
  BY DEF Tree, Shape
<1>6. Enters(tables, tables', f, x, new, SplitTable(to))
  <2>1. to \in Nat /\ Idx \subseteq Nat
    BY <1>3, VmmAssumption DEF EntryType, Idx
  <2>2. SplitTable(to) \in [Idx -> EntryType]
    BY <2>1 DEF SplitTable, Entry, EntryType
  <2>3. PICK u : u = [tables EXCEPT ![new] = SplitTable(to)]
    OBVIOUS
  <2>4. /\ u \in [DOMAIN tables -> [Idx -> EntryType]] /\ DOMAIN u = DOMAIN tables
        /\ u[new] = SplitTable(to) /\ \A g \in DOMAIN tables : g # new => u[g] = tables[g]
    BY <1>4, <1>5, <2>2, <2>3
  <2>5. tables' = [u EXCEPT ![f][x] = Entry(new)]
    BY <1>2, <2>3
  <2>6. Enters(u, tables', f, x, new, u[new])
    <3>1. u \in [DOMAIN u -> [Idx -> EntryType]] /\ f \in DOMAIN u /\ new \in DOMAIN u /\ new \in Nat
      BY <1>3, <1>4, <2>4
    <3> QED
      BY ONLY <1>3, <1>4, <2>5, <3>1, WriteEnters
  <2> QED
    BY <2>4, <2>6 DEF Enters
<1>7. Shape(tables', l)
  <2>1. ~Refers(tables[f][x])
    BY <1>3 DEF Refers
  <2> QED
    <3>1. lvl[f] \in 2 .. 4 /\ ~(lvl[f] > 2) /\ lvl[new] = 0 /\ Shape(tables, lvl)
      BY <1>3, <1>4, <1>5
    <3>2. Shape(tables', [lvl EXCEPT ![new] = lvl[f] - 1])
      BY ONLY <1>6, <2>1, <3>1, EnterShape
    <3> QED
      BY ONLY <1>1, <3>2
<1>8. ASSUME NEW v \in Virt
      PROVE  /\ TranslatedBy(tables', v) = TranslatedBy(tables, v)
             /\ CoveredBy(tables', v) => CoveredBy(tables, v)
             /\ OnPath(tables, v, lvl[f], f) /\ IndexAt(v, lvl[f]) = x => OnPath(tables', v, lvl[f] - 1, new)
  BY <1>3, <1>4, <1>5, <1>6, EnterWalk
<1>9. /\ op'.call = "apic" /\ op'.virt = op.virt /\ op'.phys = op.phys /\ op'.level = 1
      /\ op'.at = new /\ op'.new = 0 /\ op' \in CallType
  <2>1. op \in [call : {"map", "unmap", "apic"}, virt : Virt, phys : Nat, level : 0 .. 4,
                at : DOMAIN tables, new : DOMAIN tables \cup {0}]
    BY <1>3 DEF CallType
  <2>2. op' = [op EXCEPT !.level = 1, !.at = new] /\ op.new = 0 /\ op.call = "apic" /\ 1 \in 0 .. 4
    BY <1>2
  <2> QED
    BY ONLY <1>4, <2>1, <2>2 DEF CallType
<1>10. OpInv(l)'
  <2>1. op' \in CallType'
    BY <1>6, <1>9 DEF CallType, Enters
  <2>2. OnPath(tables', op'.virt, op'.level, op'.at)
    <3>1. OnPath(tables', op.virt, 2 - 1, new)
      BY <1>1, <1>2, <1>3, <1>8
    <3> QED
      BY <1>9, <3>1
  <2> QED
    BY <1>9, <2>1, <2>2 DEF OpInv
<1>11. FramesInv(l)'
  <2>1. /\ op'.new \in {0, new} /\ op.new \in {0, new} /\ UNCHANGED <<free, heap_phys>>
        /\ pt_pool_idx < 3 /\ pt_pool_idx' = pt_pool_idx + 1 /\ new = PtPool[pt_pool_idx + 1]
    BY <1>2, <1>4, <1>9
  <2>2. /\ Shape(tables, lvl) /\ FramesInv(lvl) /\ lvl[f] \in 2 .. 4 /\ lvl[new] = 0
        /\ l = [lvl EXCEPT ![new] = lvl[f] - 1]
    BY <1>1, <1>3, <1>4, <1>5
  <2> QED
    BY ONLY <1>6, <2>1, <2>2, EnterFrames
<1>12. SameMap /\ NoNewCover
  BY <1>8 DEF SameMap, NoNewCover, VirtToPhys
<1> QED
  BY <1>7, <1>10, <1>11, <1>12 DEF Tree, TreeInv

(* The entry of the call's page is written. *)
LEMMA PteKeeps ==
  ASSUME NEW lvl, Tree(lvl), op # Idle, op.level = 1, NEW e \in EntryType,
         op.phys = IF e.p THEN e.to ELSE 0,
         tables' = [tables EXCEPT ![op.at][IndexAt(op.virt, 1)] = e], op' = [op EXCEPT !.level = 0],
         UNCHANGED <<free, heap_phys, pt_pool_idx>>
  PROVE  /\ Tree(lvl)' /\ NoNewCover /\ KeptCover
         /\ TranslatedBy(tables', op.virt) = op.phys
         /\ \A v \in Virt : v # op.virt => TranslatedBy(tables', v) = TranslatedBy(tables, v)
<1>1. PICK f, w : f = op.at /\ w = op.virt
  OBVIOUS
<1>2. /\ op \in CallType /\ w \in Virt /\ OnPath(tables, w, 1, f) /\ op.new = 0 /\ Shape(tables, lvl)
      /\ op.call = "unmap" => op.phys = 0
  BY <1>1, HereIs DEF Tree, OpInv
<1>3. Writes(tables, tables', f, IndexAt(w, 1), e)
  BY <1>1 DEF Writes
<1>4. /\ Shape(tables', lvl) /\ DOMAIN tables' = DOMAIN tables
      /\ \A g \in DOMAIN tables : lvl[g] # 1 => tables'[g] = tables[g]
      /\ TranslatedBy(tables', w) = IF e.p THEN e.to ELSE 0
      /\ \A v \in Virt : v # w => TranslatedBy(tables', v) = TranslatedBy(tables, v)
      /\ \A v \in Virt : CoveredBy(tables', v) <=> CoveredBy(tables, v)
  <2>1. e \in EntryType /\ Shape(tables, lvl) /\ w \in Virt /\ OnPath(tables, w, 1, f)
    BY <1>2
  <2> QED
    BY ONLY <1>3, <2>1, PteWalk
<1>5. TranslatedBy(tables', w) = op.phys
  BY <1>4
<1>6. /\ op'.call = op.call /\ op'.virt = w /\ op'.phys = op.phys /\ op'.level = 0 /\ op'.new = 0 /\ op' \in CallType
  <2>1. op \in [call : {"map", "unmap", "apic"}, virt : Virt, phys : Nat, level : 0 .. 4,
                at : DOMAIN tables, new : DOMAIN tables \cup {0}]
    BY <1>2 DEF CallType
  <2> QED
    BY <1>1, <1>2, <2>1 DEF CallType
<1>7. OpInv(lvl)'
  <2>1. op' \in CallType'
    BY <1>4, <1>6 DEF CallType
  <2> QED
    BY <1>2, <1>5, <1>6, <2>1 DEF OpInv, VirtToPhys
<1>8. FramesInv(lvl)'
  <2>1. /\ Members(Pool) \subseteq DOMAIN tables /\ \A n \in 1 .. 3 : PtPool[n] \in DOMAIN tables
    BY <1>2, PoolIs DEF Shape
  <2>2. pt_pool_idx \in 0 .. 3 /\ \A n \in pt_pool_idx + 1 .. 3 : n \in 1 .. 3
    BY DEF Tree, FramesInv
  <2>3. \A g \in DOMAIN tables : lvl[g] = 0 => tables'[g] = tables[g]
    BY <1>4
  <2> QED
    BY <1>2, <1>6, <2>1, <2>2, <2>3 DEF Tree, FramesInv
<1> QED
  BY <1>1, <1>4, <1>5, <1>7, <1>8 DEF Tree, NoNewCover, KeptCover

LEMMA WalkType ==
  ASSUME NEW t, NEW lvl, Shape(t, lvl), NEW v \in Virt
  PROVE  TranslatedBy(t, v) \in Nat
<1>1. /\ v[1] \in Idx /\ v[2] \in Idx /\ v[3] \in Idx /\ v[4] \in Idx /\ Idx \subseteq Nat /\ Fan \in Nat
  BY PageIs, VmmAssumption DEF Idx
<1>2. t \in [DOMAIN t -> [Idx -> EntryType]] /\ \A e \in EntryType : e.to \in Nat
  BY DEF Shape, EntryType
<1>3. \A f \in DOMAIN t, x \in Idx : t[f][x].to \in Nat
  BY <1>2
<1>4. ~E4(t, v).huge
  BY RootSmall
<1>5. ASSUME Has3(t, v) PROVE E3(t, v).to \in Nat
  BY <1>1, <1>3, <1>5, PathLevel DEF OnPath, E3
<1>6. ASSUME Has2(t, v) PROVE E2(t, v).to \in Nat
  BY <1>1, <1>3, <1>6, PathLevel DEF OnPath, E2
<1>7. ASSUME Has1(t, v) PROVE E1(t, v).to \in Nat
  BY <1>1, <1>3, <1>7, PathLevel DEF OnPath, E1
<1>8. CASE Has3(t, v) /\ E3(t, v).p /\ E3(t, v).huge
  <2>1. \A m, n \in Nat : m * n \in Nat
    OBVIOUS
  <2>2. v[3] \in Nat /\ v[4] \in Nat
    BY <1>1
  <2>3. PICK m : m = v[3] * Fan
    OBVIOUS
  <2>4. m \in Nat
    BY ONLY <1>1, <2>1, <2>2, <2>3
  <2>5. TranslatedBy(t, v) = E3(t, v).to + m + v[4]
    BY <1>4, <1>8, <2>3, WalkIs
  <2>6. E3(t, v).to \in Nat
    BY <1>5, <1>8
  <2> QED
    BY ONLY <2>2, <2>4, <2>5, <2>6
<1>9. CASE Has2(t, v) /\ E2(t, v).p /\ E2(t, v).huge
  <2>1. TranslatedBy(t, v) = E2(t, v).to + v[4]
    BY <1>4, <1>9, WalkIs
  <2>2. v[4] \in Nat /\ E2(t, v).to \in Nat
    BY <1>1, <1>6, <1>9
  <2> QED
    BY ONLY <2>1, <2>2
<1>10. CASE Has1(t, v)
  BY <1>4, <1>7, <1>10, WalkIs
<1> QED
  BY <1>4, <1>8, <1>9, <1>10, WalkIs, WalkCases

----------------------------------------------------------------------------
(* What a step can be, seen from the map and the TLB *)

Calling == op # Idle

(* Tables are built, a call begins or returns unchanged, or kmain goes on. *)
BuildStep ==
  /\ SameMap /\ tlb' = tlb
  /\ op = Idle \/ op.level # 0
  /\ op' = Idle \/ op'.level # 0
  /\ Calling /\ Calling' => op'.virt = op.virt /\ op'.phys = op.phys

(* The page of the call is changed ... *)
PteStep ==
  /\ Calling /\ op.level = 1 /\ Calling' /\ op'.level = 0 /\ op'.virt = op.virt /\ op'.phys = op.phys /\ tlb' = tlb
  /\ TranslatedBy(tables', op.virt) = op.phys
  /\ \A v \in Virt : v # op.virt => TranslatedBy(tables', v) = TranslatedBy(tables, v)

(* ... and the TLB forgets it. *)
FlushStep ==
  /\ Calling /\ op.level = 0 /\ op' = Idle /\ UNCHANGED tables
  /\ tlb' \in [Virt -> Nat] /\ tlb'[op.virt] = 0 /\ \A v \in Virt : tlb'[v] \in {0, tlb[v]}

(* The MMU reads the tables or forgets. *)
MmuStep ==
  /\ UNCHANGED <<tables, free, op, initVars>>
  /\ \/ tlb' = tlb
     \/ \E v \in Virt : tlb' = [tlb EXCEPT ![v] = 0] \/ tlb' = [tlb EXCEPT ![v] = VirtToPhys(v)]

StepKind == BuildStep \/ PteStep \/ FlushStep \/ MmuStep

LEMMA SameTables ==
  ASSUME UNCHANGED tables
  PROVE  SameMap /\ NoNewCover /\ KeptCover
  BY DEF SameMap, NoNewCover, KeptCover, VirtToPhys

(* The calls' own steps. *)
LEMMA VmmKinds ==
  ASSUME TreeInv, tlb \in [Virt -> Nat], VmmStep, UNCHANGED initVars
  PROVE  TreeInv' /\ StepKind /\ NoNewCover /\ KeptCover
<1>1. PICK lvl : Tree(lvl)
  BY DEF TreeInv
<1>2. /\ UNCHANGED <<heap_phys, pt_pool_idx>>
  BY DEF initVars
<1>3. CASE Descend
  <2>1. /\ op.call = "map" /\ op.level > 1 /\ op.new = 0 /\ TableHere /\ op # Idle
        /\ op' = [op EXCEPT !.level = op.level - 1, !.at = EntryHere.to] /\ UNCHANGED <<tables, free, tlb>>
    BY <1>3, IdleIs DEF Descend
  <2>2. Tree(lvl)'
    BY <1>1, <1>2, <2>1, DescendKeeps
  <2>3. op'.level # 0 /\ op'.virt = op.virt /\ op'.phys = op.phys /\ op.level # 0
    BY <1>1, <2>1, HereIs DEF CallType
  <2> QED
    BY <2>1, <2>2, <2>3, SameTables DEF TreeInv, StepKind, BuildStep
<1>4. CASE AllocTable
  <2>1. Tree(lvl)' /\ SameMap /\ NoNewCover /\ KeptCover
    BY <1>1, <1>4, AllocKeeps
  <2>2. /\ op.call = "map" /\ op.level > 1 /\ op # Idle /\ op' = [op EXCEPT !.new = Head(free)] /\ tlb' = tlb
    BY <1>4, IdleIs DEF AllocTable
  <2>3. op'.level = op.level /\ op'.virt = op.virt /\ op'.phys = op.phys /\ op.level # 0
    BY <1>1, <2>2, HereIs DEF CallType
  <2> QED
    BY <2>1, <2>2, <2>3 DEF TreeInv, StepKind, BuildStep
<1>5. CASE LinkTable
  <2>1. TreeInv' /\ SameMap /\ NoNewCover /\ KeptCover
    BY <1>1, <1>5, LinkKeeps
  <2>2. /\ op.call = "map" /\ op.new # 0 /\ op # Idle /\ tlb' = tlb
        /\ op' = [op EXCEPT !.level = op.level - 1, !.at = op.new, !.new = 0]
    BY <1>5, IdleIs DEF LinkTable
  <2>3. op'.level # 0 /\ op'.virt = op.virt /\ op'.phys = op.phys /\ op.level # 0
    BY <1>1, <2>2, HereIs DEF CallType
  <2> QED
    BY <2>1, <2>2, <2>3 DEF StepKind, BuildStep
<1>6. CASE MapRefused \/ UnmapNothing
  <2>1. /\ op.call \in {"map", "unmap"} /\ op.level > 1 /\ op # Idle /\ op' = Idle /\ UNCHANGED <<tables, free, tlb>>
        /\ op.call = "map" => op.new = 0
    BY <1>6, IdleIs DEF MapRefused, UnmapNothing
  <2>2. op.new = 0 /\ op.level # 0
    BY <1>1, <2>1, HereIs
  <2>3. Tree(lvl)'
    BY <1>1, <1>2, <2>1, <2>2, ReturnKeeps
  <2> QED
    BY <2>1, <2>2, <2>3, SameTables DEF TreeInv, StepKind, BuildStep, Calling
<1>7. CASE WritePte \/ UnmapPte
  <2>1. PICK e : /\ e \in EntryType /\ op.phys = IF e.p THEN e.to ELSE 0
                 /\ tables' = [tables EXCEPT ![op.at][IndexAt(op.virt, 1)] = e]
    <3>1. CASE WritePte
      <4>1. op.phys \in Nat
        BY <1>1, <3>1, HereIs, IdleIs DEF WritePte
      <4>2. Entry(op.phys) \in EntryType /\ Entry(op.phys).p /\ Entry(op.phys).to = op.phys
        BY <4>1 DEF Entry, EntryType
      <4> QED
        BY <3>1, <4>2 DEF WritePte
    <3>2. CASE UnmapPte
      <4>1. NotThere \in EntryType /\ ~NotThere.p
        BY DEF NotThere, EntryType
      <4>2. op.phys = 0
        BY <1>1, <3>2, IdleIs DEF UnmapPte, Tree, OpInv
      <4> QED
        BY <3>2, <4>1, <4>2 DEF UnmapPte
    <3> QED
      BY <1>7, <3>1, <3>2
  <2>2. /\ op.call \in {"map", "unmap"} /\ op.level = 1 /\ op # Idle /\ op' = [op EXCEPT !.level = 0]
        /\ UNCHANGED <<free, tlb>>
    BY <1>7, IdleIs DEF WritePte, UnmapPte
  <2>3. /\ Tree(lvl)' /\ NoNewCover /\ KeptCover
        /\ TranslatedBy(tables', op.virt) = op.phys
        /\ \A v \in Virt : v # op.virt => TranslatedBy(tables', v) = TranslatedBy(tables, v)
    BY <1>1, <1>2, <2>1, <2>2, PteKeeps
  <2>4. op'.level = 0 /\ op'.virt = op.virt /\ op'.phys = op.phys /\ op' # Idle
    BY <1>1, <2>2, HereIs, IdleIs DEF CallType
  <2> QED
    BY <2>2, <2>3, <2>4 DEF TreeInv, StepKind, PteStep, Calling
<1>8. CASE Invlpg
  <2>1. /\ op.call \in {"map", "unmap"} /\ op.level = 0 /\ op # Idle /\ op' = Idle /\ UNCHANGED <<tables, free>>
        /\ tlb' = [tlb EXCEPT ![op.virt] = 0]
    BY <1>8, IdleIs DEF Invlpg
  <2>2. op.new = 0 /\ op.virt \in Virt
    BY <1>1, <2>1, HereIs
  <2>3. Tree(lvl)'
    BY <1>1, <1>2, <2>1, <2>2, ReturnKeeps
  <2>4. tlb' \in [Virt -> Nat] /\ tlb'[op.virt] = 0 /\ \A v \in Virt : tlb'[v] \in {0, tlb[v]}
    BY <2>1, <2>2
  <2> QED
    BY <2>1, <2>3, <2>4, SameTables DEF TreeInv, StepKind, FlushStep, Calling
<1>9. CASE UnmapDescend
  <2>1. /\ op.call = "unmap" /\ op.level > 1 /\ TableHere /\ op # Idle
        /\ op' = [op EXCEPT !.level = op.level - 1, !.at = EntryHere.to] /\ UNCHANGED <<tables, free, tlb>>
    BY <1>9, IdleIs DEF UnmapDescend
  <2>2. op.new = 0
    BY <1>1, <2>1, HereIs
  <2>3. Tree(lvl)'
    BY <1>1, <1>2, <2>1, <2>2, DescendKeeps
  <2>4. op'.level # 0 /\ op'.virt = op.virt /\ op'.phys = op.phys /\ op.level # 0
    BY <1>1, <2>1, HereIs DEF CallType
  <2> QED
    BY <2>1, <2>3, <2>4, SameTables DEF TreeInv, StepKind, BuildStep
<1> QED
  BY <1>3, <1>4, <1>5, <1>6, <1>7, <1>8, <1>9 DEF VmmStep

LEMMA PagesAre ==
  /\ ApicPage \in Virt /\ ApicPhys \in Nat /\ ApicPhys # 0 /\ FbPhys \in Nat /\ UserPages \subseteq Virt /\ Phys \subseteq Nat
  /\ Len(FbPages) \in Nat /\ DOMAIN FbPages = 1 .. Len(FbPages)
  /\ Len(HeapPages) \in Nat /\ Len(HeapPages) >= 2 /\ DOMAIN HeapPages = 1 .. Len(HeapPages)
  /\ \A k \in 1 .. Len(FbPages) : FbPages[k] \in Virt
  /\ \A k \in 1 .. Len(HeapPages) : HeapPages[k] \in Virt
<1>1. /\ ApicPage \in Virt /\ UserPages \subseteq Virt /\ {ApicPhys, FbPhys} \subseteq Nat \ {0}
      /\ FbPages \in Seq(Virt) /\ HeapPages \in Seq(Virt) /\ Len(HeapPages) >= 2 /\ Phys \subseteq Nat
  BY MemInitAssumption, VmmAssumption
<1> QED
  BY <1>1

(* A call that begins. *)
LEMMA CallKind ==
  ASSUME TreeInv, op = Idle, UNCHANGED <<tables, pt_pool_idx, tlb>>,
         NEW c \in {"map", "unmap", "apic"}, NEW v \in Virt, NEW p \in Nat, c = "unmap" => p = 0,
         op' = [Idle EXCEPT !.call = c, !.virt = v, !.phys = p],
         \/ UNCHANGED <<free, heap_phys>>
         \/ free # <<>> /\ free' = Tail(free) /\ heap_phys' = Append(heap_phys, Head(free))
  PROVE  TreeInv' /\ BuildStep /\ NoNewCover /\ KeptCover
<1>1. PICK lvl : Tree(lvl)
  BY DEF TreeInv
<1>2. Tree(lvl)'
  BY <1>1, CallKeeps
<1>3. op'.level = 4
  BY DEF Idle
<1> QED
  BY <1>2, <1>3, SameTables DEF TreeInv, BuildStep, Calling

(* A step that leaves tables, lists and call alone. *)
LEMMA OtherKind ==
  ASSUME TreeInv, op = Idle, UNCHANGED <<tables, free, tlb, op, pt_pool_idx, heap_phys>>
  PROVE  TreeInv' /\ BuildStep /\ NoNewCover /\ KeptCover
<1>1. TreeInv'
  BY DEF TreeInv, Tree, Shape, FramesInv, OpInv, CallType, EntryHere, VirtToPhys
<1> QED
  BY <1>1, SameTables DEF BuildStep, Calling

(* kmain's steps. *)
LEMMA BootKinds ==
  ASSUME TreeInv, tlb \in [Virt -> Nat], i \in Nat, pc = "lint0" => op = Idle, BootStep
  PROVE  TreeInv' /\ StepKind /\ NoNewCover /\ (~ApicSplit => KeptCover)
<1>1. PICK lvl : Tree(lvl)
  BY DEF TreeInv
<1>2. CASE ApicCall
  BY <1>2, CallKind, PagesAre DEF ApicCall, initVars, StepKind
<1>3. CASE ApicDescend
  <2>1. /\ op.call = "apic" /\ op.level > 1 /\ op.new = 0 /\ TableHere /\ op # Idle
        /\ op' = [op EXCEPT !.level = op.level - 1, !.at = EntryHere.to]
        /\ UNCHANGED <<tables, free, tlb, heap_phys, pt_pool_idx>>
    BY <1>3, IdleIs DEF ApicDescend, ApicWalks, initVars
  <2>2. Tree(lvl)'
    BY <1>1, <2>1, DescendKeeps
  <2>3. op'.level # 0 /\ op'.virt = op.virt /\ op'.phys = op.phys /\ op.level # 0
    BY <1>1, <2>1, HereIs DEF CallType
  <2> QED
    BY <2>1, <2>2, <2>3, SameTables DEF TreeInv, StepKind, BuildStep
<1>4. CASE ApicLink
  <2>1. TreeInv' /\ SameMap /\ NoNewCover /\ KeptCover
    BY <1>1, <1>4, ApicLinkKeeps
  <2>2. /\ op.call = "apic" /\ op.level > 1 /\ op # Idle /\ op' = [op EXCEPT !.new = PoolTable] /\ tlb' = tlb
    BY <1>4, IdleIs DEF ApicLink, ApicWalks
  <2>3. op'.level = op.level /\ op'.virt = op.virt /\ op'.phys = op.phys /\ op.level # 0
    BY <1>1, <2>2, HereIs DEF CallType
  <2> QED
    BY <2>1, <2>2, <2>3 DEF StepKind, BuildStep
<1>5. CASE ApicClear
  <2>1. Tree(lvl)' /\ UNCHANGED tables
    BY <1>1, <1>5, ApicClearKeeps
  <2>2. /\ op.call = "apic" /\ op.new # 0 /\ op # Idle /\ tlb' = tlb
        /\ op' = [op EXCEPT !.level = op.level - 1, !.at = op.new, !.new = 0]
    BY <1>5, IdleIs DEF ApicClear
  <2>3. op'.level # 0 /\ op'.virt = op.virt /\ op'.phys = op.phys /\ op.level # 0
    BY <1>1, <2>2, HereIs DEF CallType
  <2> QED
    BY <2>1, <2>2, <2>3, SameTables DEF TreeInv, StepKind, BuildStep
<1>6. CASE ApicSplit
  <2>1. TreeInv' /\ SameMap /\ NoNewCover
    BY <1>1, <1>6, ApicSplitKeeps
  <2>2. /\ op.call = "apic" /\ op.level = 2 /\ op # Idle /\ tlb' = tlb
        /\ op' = [op EXCEPT !.level = 1, !.at = PoolTable]
    BY <1>6, IdleIs DEF ApicSplit, ApicWalks
  <2>3. op'.level # 0 /\ op'.virt = op.virt /\ op'.phys = op.phys /\ op.level # 0
    BY <1>1, <2>2, HereIs DEF CallType
  <2> QED
    BY <1>6, <2>1, <2>2, <2>3 DEF StepKind, BuildStep
<1>7. CASE ApicFails
  <2>1. /\ op.call = "apic" /\ op.level > 1 /\ op.new = 0 /\ op # Idle /\ op' = Idle
        /\ UNCHANGED <<tables, free, tlb, heap_phys, pt_pool_idx>>
    BY <1>7, IdleIs DEF ApicFails, ApicWalks
  <2>2. op.level # 0
    BY <1>1, <2>1, HereIs
  <2>3. Tree(lvl)'
    BY <1>1, <2>1, ReturnKeeps
  <2> QED
    BY <2>1, <2>2, <2>3, SameTables DEF TreeInv, StepKind, BuildStep, Calling
<1>8. CASE ApicPte
  <2>1. /\ op.call = "apic" /\ op.level = 1 /\ op # Idle /\ op' = [op EXCEPT !.level = 0]
        /\ tables' = [tables EXCEPT ![op.at][IndexAt(op.virt, 1)] = Entry(op.phys)]
        /\ UNCHANGED <<free, tlb, heap_phys, pt_pool_idx>>
    BY <1>8, IdleIs DEF ApicPte, initVars
  <2>2. op.phys \in Nat
    BY <1>1, <2>1, HereIs
  <2>3. Entry(op.phys) \in EntryType /\ Entry(op.phys).p /\ Entry(op.phys).to = op.phys
    BY <2>2 DEF Entry, EntryType
  <2>4. PICK e : e = Entry(op.phys)
    OBVIOUS
  <2>5. /\ e \in EntryType /\ op.phys = IF e.p THEN e.to ELSE 0
        /\ tables' = [tables EXCEPT ![op.at][IndexAt(op.virt, 1)] = e]
    BY <2>1, <2>3, <2>4
  <2>6. /\ Tree(lvl)' /\ NoNewCover /\ KeptCover
        /\ TranslatedBy(tables', op.virt) = op.phys
        /\ \A v \in Virt : v # op.virt => TranslatedBy(tables', v) = TranslatedBy(tables, v)
    BY <1>1, <2>1, <2>5, PteKeeps
  <2>7. op'.level = 0 /\ op'.virt = op.virt /\ op'.phys = op.phys /\ op' # Idle
    BY <1>1, <2>1, HereIs, IdleIs DEF CallType
  <2> QED
    BY <2>1, <2>6, <2>7 DEF TreeInv, StepKind, PteStep, Calling
<1>9. CASE ApicFlush
  <2>1. /\ op.call = "apic" /\ op.level = 0 /\ op # Idle /\ op' = Idle /\ tlb' = [v \in Virt |-> 0]
        /\ UNCHANGED <<tables, free, heap_phys, pt_pool_idx>>
    BY <1>9, IdleIs DEF ApicFlush
  <2>2. op.new = 0 /\ op.virt \in Virt
    BY <1>1, <2>1, HereIs
  <2>3. Tree(lvl)'
    BY <1>1, <2>1, <2>2, ReturnKeeps
  <2>4. tlb' \in [Virt -> Nat] /\ tlb'[op.virt] = 0 /\ \A v \in Virt : tlb'[v] \in {0, tlb[v]}
    BY <2>1, <2>2
  <2> QED
    BY <2>1, <2>3, <2>4, SameTables DEF TreeInv, StepKind, FlushStep, Calling
<1>10. CASE WriteLint0 \/ FbReady \/ HeapGivesUp \/ HeapReady
  <2>1. op = Idle /\ UNCHANGED <<tables, free, tlb, op, pt_pool_idx, heap_phys>>
    BY <1>10 DEF WriteLint0, FbReady, HeapGivesUp, HeapReady
  <2> QED
    BY <2>1, OtherKind DEF StepKind
<1>11. CASE FbMapNext
  <2>1. i + 1 \in 1 .. Len(FbPages) /\ FbPhys + i \in Nat
    BY <1>11, PagesAre DEF FbMapNext
  <2>2. FbPages[i + 1] \in Virt
    BY <2>1, PagesAre
  <2> QED
    BY <1>11, <2>1, <2>2, CallKind DEF FbMapNext, MapCall, StepKind
<1>12. CASE HeapMapNext
  <2>1. i + 1 \in 1 .. Len(HeapPages)
    BY <1>12, PagesAre DEF HeapMapNext
  <2>2. HeapPages[i + 1] \in Virt
    BY <2>1, PagesAre
  <2>3. Head(free) \in Nat
    <3>1. free \in Seq(Members(Pool)) /\ free # <<>>
      BY <1>1, <1>12 DEF Tree, FramesInv, HeapMapNext
    <3> QED
      BY <3>1, HeadTailProperties, FramesAreNat
  <2> QED
    BY <1>12, <2>2, <2>3, CallKind DEF HeapMapNext, StepKind
<1> QED
  BY <1>2, <1>3, <1>4, <1>5, <1>6, <1>7, <1>8, <1>9, <1>10, <1>11, <1>12 DEF BootStep

LEMMA Kinds ==
  ASSUME TreeInv, tlb \in [Virt -> Nat], i \in Nat, pc = "lint0" => op = Idle, [InitNext]_<<vars, initVars>>
  PROVE  TreeInv' /\ StepKind /\ NoNewCover /\ (~ApicSplit => KeptCover)
<1>1. CASE BootStep
  BY <1>1, BootKinds
<1>2. CASE VmmStep /\ UNCHANGED initVars
  BY <1>2, VmmKinds
<1>3. CASE UserCall
  <2>1. PICK v \in UserPages : UnmapCall(v) \/ \E p \in Phys : MapCall(v, p)
    BY <1>3 DEF UserCall
  <2>2. v \in Virt /\ Phys \subseteq Nat /\ UNCHANGED <<pt_pool_idx, heap_phys>>
    BY <1>3, PagesAre DEF UserCall, initVars
  <2>3. CASE UnmapCall(v)
    <3>1. op = Idle /\ UNCHANGED <<tables, free, tlb>> /\ op' = [Idle EXCEPT !.call = "unmap", !.virt = v, !.phys = 0]
      <4>1. PICK q : q = [Idle EXCEPT !.call = "unmap", !.virt = v, !.phys = 0]
        OBVIOUS
      <4>2. q = [call |-> "unmap", virt |-> v, phys |-> 0, level |-> 4, at |-> Root, new |-> 0]
        BY <4>1 DEF Idle
      <4>3. op' = [Idle EXCEPT !.call = "unmap", !.virt = v] /\ op = Idle /\ UNCHANGED <<tables, free, tlb>>
        BY <2>3 DEF UnmapCall
      <4>4. op' = [call |-> "unmap", virt |-> v, phys |-> 0, level |-> 4, at |-> Root, new |-> 0]
        BY <4>3 DEF Idle
      <4> QED
        BY <4>1, <4>2, <4>3, <4>4
    <3> QED
      BY <2>2, <3>1, CallKind DEF StepKind
  <2>4. CASE \E p \in Phys : MapCall(v, p)
    BY <2>2, <2>4, CallKind DEF MapCall, StepKind
  <2> QED
    BY <2>1, <2>3, <2>4
<1>4. CASE (Mmu /\ UNCHANGED initVars) \/ UNCHANGED <<vars, initVars>>
  <2>1. UNCHANGED <<tables, free, op, initVars>>
    BY <1>4 DEF Mmu, TlbFill, TlbEvict, vars
  <2>2. TreeInv'
    BY <2>1 DEF TreeInv, Tree, Shape, FramesInv, OpInv, CallType, EntryHere, VirtToPhys, initVars
  <2>3. MmuStep
    BY <1>4, <2>1 DEF MmuStep, Mmu, TlbFill, TlbEvict, vars
  <2> QED
    BY <2>1, <2>2, <2>3, SameTables DEF StepKind
<1> QED
  BY <1>1, <1>2, <1>3, <1>4 DEF InitNext

(* The TLB under a step of each kind. *)
LEMMA TlbStep ==
  ASSUME TreeInv, TlbInv, StepKind, TreeInv'
  PROVE  TlbInv'
<1>1. /\ tlb \in [Virt -> Nat]
      /\ \A v \in Virt : tlb[v] \in {0, TranslatedBy(tables, v)} \/ (op # Idle /\ op.virt = v /\ op.level = 0)
  BY DEF TlbInv, VirtToPhys
<1>2. SUFFICES /\ tlb' \in [Virt -> Nat]
               /\ \A v \in Virt : \/ tlb'[v] \in {0, TranslatedBy(tables', v)}
                                  \/ op' # Idle /\ op'.virt = v /\ op'.level = 0
  BY DEF TlbInv, VirtToPhys
<1>3. CASE BuildStep
  BY <1>1, <1>3 DEF BuildStep, SameMap, VirtToPhys
<1>4. CASE PteStep
  BY <1>1, <1>4 DEF PteStep, Calling
<1>5. CASE FlushStep
  BY <1>1, <1>5 DEF FlushStep, Calling
<1>6. CASE MmuStep
  <2>1. \A v \in Virt : VirtToPhys(v) \in Nat
    BY WalkType DEF TreeInv, Tree, VirtToPhys
  <2>2. CASE tlb' = tlb
    BY <1>1, <1>6, <2>2 DEF MmuStep
  <2>3. CASE \E v \in Virt : tlb' = [tlb EXCEPT ![v] = 0] \/ tlb' = [tlb EXCEPT ![v] = VirtToPhys(v)]
    <3>1. PICK w \in Virt : tlb' = [tlb EXCEPT ![w] = 0] \/ tlb' = [tlb EXCEPT ![w] = VirtToPhys(w)]
      BY <2>3
    <3>2. tlb' \in [Virt -> Nat] /\ \A v \in Virt : tlb'[v] \in {0, tlb[v], TranslatedBy(tables, v)}
      BY <1>1, <2>1, <3>1 DEF VirtToPhys
    <3>3. UNCHANGED <<tables, op>>
      BY <1>6 DEF MmuStep
    <3> QED
      BY ONLY <1>1, <3>2, <3>3
  <2> QED
    BY <1>6, <2>2, <2>3 DEF MmuStep
<1> QED
  BY <1>3, <1>4, <1>5, <1>6 DEF StepKind

----------------------------------------------------------------------------
(* Callers *)

(* A step changes at most the page of the call under way. *)
LEMMA OtherPages ==
  ASSUME StepKind, NEW v \in Virt, op = Idle \/ op.virt # v
  PROVE  VirtToPhys(v)' = VirtToPhys(v)
  BY DEF StepKind, BuildStep, PteStep, FlushStep, MmuStep, SameMap, VirtToPhys, Calling

(* What a caller sees of a call. *)
LEMMA CallSeen ==
  ASSUME TreeInv, VmmStep
  PROVE  /\ op # Idle /\ op.call \in {"map", "unmap"} /\ op.virt \in Virt
         /\ op' = Idle \/ (op' # Idle /\ op'.call = op.call /\ op'.virt = op.virt /\ op'.phys = op.phys)
         /\ free = <<>> => free' = <<>>
         /\ op' = Idle => /\ UNCHANGED <<tables, free>>
                          /\ \/ VirtToPhys(op.virt) = op.phys
                             \/ op.call = "unmap"
                             \/ op.level > 1 /\ Blocked
<1>1. PICK lvl : Tree(lvl)
  BY DEF TreeInv
<1>2. op.call \in {"map", "unmap"} /\ op # Idle
  BY IdleIs DEF VmmStep, Descend, AllocTable, LinkTable, MapRefused, WritePte, Invlpg,
                UnmapDescend, UnmapNothing, UnmapPte
<1>3. op \in CallType /\ op.virt \in Virt
  BY <1>1, <1>2, HereIs
<1>4. CASE Descend \/ AllocTable \/ LinkTable \/ WritePte \/ UnmapDescend \/ UnmapPte
  <2>1. op'.call = op.call /\ op'.virt = op.virt /\ op'.phys = op.phys
    BY <1>3, <1>4 DEF Descend, AllocTable, LinkTable, WritePte, UnmapDescend, UnmapPte, CallType
  <2>2. op' # Idle
    BY <1>2, <2>1, IdleIs
  <2>3. free = <<>> => free' = <<>>
    BY <1>4 DEF Descend, AllocTable, LinkTable, WritePte, UnmapDescend, UnmapPte
  <2> QED
    BY <1>2, <1>3, <2>1, <2>2, <2>3
<1>5. CASE Invlpg
  <2>1. VirtToPhys(op.virt) = op.phys
    BY <1>1, <1>2, <1>5 DEF Invlpg, Tree, OpInv
  <2> QED
    BY <1>2, <1>3, <1>5, <2>1 DEF Invlpg
<1>6. CASE MapRefused \/ UnmapNothing
  BY <1>2, <1>3, <1>6 DEF MapRefused, UnmapNothing
<1> QED
  BY <1>4, <1>5, <1>6 DEF VmmStep

(* Where no large page is in the way, a call is refused only for want of a *)
(* frame, and not if the PT is there.                                      *)
LEMMA RefusedIs ==
  ASSUME TreeInv, SizeIsPresent(tables), op # Idle, op.level > 1, Blocked, ~CoveredBy(tables, op.virt)
  PROVE  free = <<>> /\ ~Has1(tables, op.virt)
<1>1. PICK lvl : Tree(lvl)
  BY DEF TreeInv
<1>2. /\ op.virt \in Virt /\ op.level \in 2 .. 4 /\ OnPath(tables, op.virt, op.level, op.at)
      /\ Shape(tables, lvl)
  BY <1>1, HereIs DEF Tree
<1>3. ~E4(tables, op.virt).huge
  BY <1>2, RootSmall
<1>4. EntryHere.huge => EntryHere.p
  <2>1. op.at \in DOMAIN tables /\ IndexAt(op.virt, op.level) \in Idx
    BY <1>1, HereIs
  <2> QED
    BY <2>1 DEF SizeIsPresent, EntryHere
<1>5. CASE op.level = 4
  <2>1. EntryHere = E4(tables, op.virt)
    BY <1>2, <1>5 DEF OnPath, EntryHere, E4, IndexAt
  <2> QED
    BY <1>3, <2>1 DEF Blocked, Has1, Has2, Has3, Refers
<1>6. CASE op.level = 3
  <2>1. EntryHere = E3(tables, op.virt) /\ Has3(tables, op.virt)
    BY <1>2, <1>6 DEF OnPath, EntryHere, E3, IndexAt
  <2> QED
    BY <1>3, <1>4, <2>1, CoverIs DEF Blocked, Has1, Has2, Refers
<1>7. CASE op.level = 2
  <2>1. EntryHere = E2(tables, op.virt) /\ Has2(tables, op.virt)
    BY <1>2, <1>7 DEF OnPath, EntryHere, E2, IndexAt
  <2> QED
    BY <1>3, <1>4, <2>1, CoverIs DEF Blocked, Has1, Refers
<1> QED
  BY <1>2, <1>5, <1>6, <1>7

(* A page that is mapped and not part of a large one has a PT. *)
LEMMA MappedHasPt ==
  ASSUME TreeInv, NEW v \in Virt, ~CoveredBy(tables, v), VirtToPhys(v) # 0
  PROVE  Has1(tables, v)
<1>1. ~E4(tables, v).huge
  BY RootSmall DEF TreeInv, Tree
<1> QED
  BY <1>1, WalkIs, WalkCases, CoverIs DEF VirtToPhys

LEMMA SamePt ==
  ASSUME NEW t, NEW v, NEW w, v[1] = w[1], v[2] = w[2], v[3] = w[3], Has1(t, v)
  PROVE  Has1(t, w)
  BY DEF Has1, Has2, Has3, E2, E3, E4

(* apic_init's steps but the first and the last. *)
LEMMA ApicSeen ==
  ASSUME TreeInv, CallerInv,
         ApicDescend \/ ApicLink \/ ApicClear \/ ApicSplit \/ ApicPte
  PROVE  /\ pc = "apic" /\ op # Idle /\ op' # Idle
         /\ op'.call = op.call /\ op'.virt = op.virt /\ op'.phys = op.phys
         /\ UNCHANGED <<free, pc, i, lint0_at, fb_ptr, heap_head, heap_phys>>
<1>1. PICK lvl : Tree(lvl)
  BY DEF TreeInv
<1>2. op.call = "apic" /\ op # Idle
  BY IdleIs DEF ApicDescend, ApicLink, ApicClear, ApicSplit, ApicPte, ApicWalks
<1>3. pc = "apic"
  BY <1>2 DEF CallerInv
<1>4. op \in CallType
  BY <1>1, <1>2, HereIs
<1>5. op'.call = op.call /\ op'.virt = op.virt /\ op'.phys = op.phys
  BY <1>4 DEF ApicDescend, ApicLink, ApicClear, ApicSplit, ApicPte, CallType
<1>6. op' # Idle
  BY <1>2, <1>5, IdleIs
<1>7. UNCHANGED <<free, pc, i, lint0_at, fb_ptr, heap_head, heap_phys>>
  BY DEF ApicDescend, ApicLink, ApicClear, ApicSplit, ApicPte, initVars
<1> QED
  BY <1>2, <1>3, <1>5, <1>6, <1>7

(* The other steps, as far as the callers go. *)
LEMMA StepCases ==
  ASSUME TreeInv, CallerInv, [InitNext]_<<vars, initVars>>
  PROVE  \/ ApicCall
         \/ ApicDescend \/ ApicLink \/ ApicClear \/ ApicSplit \/ ApicPte
         \/ ApicFails \/ ApicFlush \/ WriteLint0
         \/ FbMapNext \/ FbReady \/ HeapMapNext \/ HeapGivesUp \/ HeapReady
         \/ VmmStep /\ UNCHANGED initVars
         \/ UserCall
         \/ UNCHANGED <<tables, free, op, initVars>>
  BY DEF InitNext, BootStep, Mmu, TlbFill, TlbEvict, vars

LEMMA CallerStep ==
  ASSUME TreeInv, CallerInv, ApicInv, HeapPagesInv, FbInv, [InitNext]_<<vars, initVars>>
  PROVE  CallerInv'
<1>1. CASE ApicCall
  <2>1. /\ pc = "apic" /\ op'.call = "apic" /\ op'.virt = ApicPage /\ op'.phys = ApicPhys /\ UNCHANGED <<pc, i>>
    BY <1>1 DEF ApicCall, initVars, Idle
  <2> QED
    BY <2>1 DEF CallerInv
<1>2. CASE ApicDescend \/ ApicLink \/ ApicClear \/ ApicSplit \/ ApicPte
  BY <1>2, ApicSeen DEF CallerInv
<1>3. CASE ApicFails \/ ApicFlush
  <2>1. op' = Idle /\ pc' \in {"fb", "lint0"} /\ UNCHANGED i
    BY <1>3 DEF ApicFails, ApicFlush
  <2> QED
    BY <2>1 DEF CallerInv
<1>4. CASE WriteLint0
  BY <1>4 DEF WriteLint0, CallerInv
<1>5. CASE FbMapNext
  <2>1. /\ pc = "fb" /\ i < Len(FbPages) /\ i' = i + 1 /\ i \in Nat /\ UNCHANGED <<pc, heap_phys>>
        /\ op'.call = "map" /\ op'.virt = FbPages[i + 1] /\ op'.phys = FbPhys + i
    BY <1>5 DEF FbMapNext, MapCall, Idle, CallerInv
  <2>2. i' \in DOMAIN FbPages /\ i' \in Nat /\ FbPhys + i = FbPhys + i' - 1
    BY <2>1, PagesAre
  <2> QED
    BY <2>1, <2>2 DEF CallerInv
<1>6. CASE FbReady \/ HeapGivesUp \/ HeapReady
  <2>1. op' = Idle /\ pc' \in {"heap", "done"} /\ i' \in {0, i}
    BY <1>6 DEF FbReady, HeapGivesUp, HeapReady
  <2> QED
    BY <2>1 DEF CallerInv
<1>7. CASE HeapMapNext
  <2>1. /\ pc = "heap" /\ i < Len(HeapPages) /\ i' = i + 1 /\ i \in Nat /\ UNCHANGED pc
        /\ op'.call = "map" /\ op'.virt = HeapPages[i + 1] /\ op'.phys = Head(free)
        /\ heap_phys' = Append(heap_phys, Head(free)) /\ i = Len(heap_phys)
    BY <1>7 DEF HeapMapNext, Idle, CallerInv, HeapPagesInv
  <2>2. i' \in DOMAIN HeapPages /\ i' \in Nat
    BY <2>1, PagesAre
  <2>3. heap_phys'[i'] = Head(free)
    <3>1. PICK S : heap_phys \in Seq(S)
      BY DEF TreeInv, Tree, FramesInv
    <3> QED
      BY <2>1, <3>1
  <2> QED
    BY <2>1, <2>2, <2>3 DEF CallerInv
<1>8. CASE VmmStep /\ UNCHANGED initVars
  <2>1. /\ UNCHANGED <<pc, i, heap_phys>> /\ op # Idle
        /\ op' = Idle \/ (op'.call = op.call /\ op'.virt = op.virt /\ op'.phys = op.phys)
    BY <1>8, CallSeen DEF initVars
  <2> QED
    BY <2>1 DEF CallerInv
<1>9. CASE UserCall
  <2>1. /\ pc = "done" /\ UNCHANGED <<pc, i>> /\ op'.call # "apic" /\ op'.virt \in UserPages
    BY <1>9 DEF UserCall, UnmapCall, MapCall, initVars, Idle
  <2> QED
    BY <2>1 DEF CallerInv
<1>10. CASE UNCHANGED <<tables, free, op, initVars>>
  BY <1>10 DEF CallerInv, initVars
<1> QED
  BY <1>1, <1>2, <1>3, <1>4, <1>5, <1>6, <1>7, <1>8, <1>9, <1>10, StepCases

(* The bound on pt_pool along apic_init's walk, the large page that alone  *)
(* stops it, and where LINT0 is written.                                   *)
LEMMA ApicStep ==
  ASSUME TreeInv, TlbInv, CallerInv, ApicInv, [InitNext]_<<vars, initVars>>, StepKind, ~ApicSplit => KeptCover
  PROVE  ApicInv'
<1>1. PICK lvl : Tree(lvl)
  BY DEF TreeInv
<1>2. pt_pool_idx \in 0 .. 3 /\ Len(PtPool) = 3
  BY <1>1, PoolIs DEF Tree, FramesInv
<1>3. CASE ApicCall
  <2>1. /\ pc = "apic" /\ op = Idle /\ op' # Idle /\ op'.level = 4 /\ op'.new = 0
        /\ UNCHANGED <<pc, i, pt_pool_idx, lint0_at>>
    BY <1>3 DEF ApicCall, initVars, Idle
  <2>2. pt_pool_idx = 0 /\ lint0_at = 0 /\ i = 0
    BY <2>1 DEF ApicInv
  <2> QED
    BY <2>1, <2>2 DEF ApicInv
<1>4. CASE ApicDescend \/ ApicLink \/ ApicClear \/ ApicSplit \/ ApicPte
  <2>1. pc = "apic" /\ op # Idle /\ op' # Idle /\ UNCHANGED <<pc, i, lint0_at>>
    BY <1>4, ApicSeen
  <2>2. /\ pt_pool_idx <= (IF op.new = 0 THEN 4 ELSE 5) - op.level
        /\ lint0_at = 0 /\ i = 0
    BY <2>1 DEF ApicInv
  <2>3. op \in CallType /\ op.level \in 0 .. 4
    BY <1>1, <2>1, HereIs
  <2>4. pt_pool_idx' <= (IF op'.new = 0 THEN 4 ELSE 5) - op'.level
    <3>1. CASE ApicDescend
      <4>1. op'.new = op.new /\ op'.level = op.level - 1 /\ pt_pool_idx' = pt_pool_idx
        BY <2>3, <3>1 DEF ApicDescend, CallType, initVars
      <4> QED
        BY <1>2, <2>2, <2>3, <4>1
    <3>2. CASE ApicPte
      <4>1. op'.new = op.new /\ op'.level = 0 /\ op.level = 1 /\ pt_pool_idx' = pt_pool_idx
        BY <2>3, <3>2 DEF ApicPte, CallType, initVars
      <4> QED
        BY <1>2, <2>2, <2>3, <4>1
    <3>3. CASE ApicLink
      <4>1. op.new = 0 /\ op'.new = PoolTable /\ op'.level = op.level /\ pt_pool_idx' = pt_pool_idx + 1 /\ PoolTable # 0
        BY <1>1, <2>3, <3>3, PoolTableIs DEF ApicLink, ApicWalks, CallType
      <4> QED
        BY <1>2, <2>2, <2>3, <4>1
    <3>4. CASE ApicClear
      <4>1. op.new # 0 /\ op'.new = 0 /\ op'.level = op.level - 1 /\ pt_pool_idx' = pt_pool_idx
        BY <2>3, <3>4 DEF ApicClear, CallType, initVars
      <4> QED
        BY <1>2, <2>2, <2>3, <4>1
    <3>5. CASE ApicSplit
      <4>1. op.new = 0 /\ op'.new = 0 /\ op.level = 2 /\ op'.level = 1 /\ pt_pool_idx' = pt_pool_idx + 1
        BY <2>3, <3>5 DEF ApicSplit, ApicWalks, CallType
      <4> QED
        BY <1>2, <2>2, <4>1
    <3> QED
      BY <1>4, <3>1, <3>3, <3>4, <3>5, <3>2
  <2> QED
    BY <2>1, <2>2, <2>4 DEF ApicInv
<1>5. CASE ApicFails
  <2>1. /\ op.call = "apic" /\ op.level > 1 /\ op.new = 0 /\ op # Idle /\ pc' = "fb"
        /\ UNCHANGED <<tables, lint0_at>>
    BY <1>5, IdleIs DEF ApicFails, ApicWalks
  <2>2. pc = "apic" /\ op.virt = ApicPage
    BY <2>1 DEF CallerInv
  <2>3. pt_pool_idx <= 4 - op.level /\ lint0_at = 0
    BY <2>1, <2>2 DEF ApicInv
  <2>4. op.level \in 2 .. 4 /\ OnPath(tables, op.virt, op.level, op.at) /\ op.virt \in Virt
    BY <1>1, <2>1, HereIs
  <2>5. PoolLeft
    BY <1>2, <2>3, <2>4 DEF PoolLeft
  <2>6. op.level = 3 /\ HugeHere
    BY <1>5, <2>5 DEF ApicFails
  <2>7. EntryHere = E3(tables, op.virt) /\ Has3(tables, op.virt)
    BY <2>4, <2>6 DEF OnPath, EntryHere, E3, IndexAt
  <2>8. ~E4(tables, op.virt).huge
    BY <1>1, <2>4, RootSmall DEF Tree
  <2>9. CoveredBy(tables, ApicPage)
    BY <2>2, <2>6, <2>7, <2>8, CoverIs DEF HugeHere
  <2>10. CoveredBy(tables, ApicPage)'
    BY <2>1, <2>9
  <2> QED
    BY <2>1, <2>3, <2>10 DEF ApicInv
<1>6. CASE ApicFlush
  <2>1. op.call = "apic" /\ op.level = 0 /\ op # Idle /\ pc' = "lint0" /\ UNCHANGED <<tables, lint0_at, i>>
    BY <1>6, IdleIs DEF ApicFlush
  <2>2. pc = "apic" /\ op.virt = ApicPage /\ op.phys = ApicPhys
    BY <2>1 DEF CallerInv
  <2>3. VirtToPhys(ApicPage) = ApicPhys
    BY <1>1, <2>1, <2>2 DEF Tree, OpInv
  <2>4. VirtToPhys(ApicPage)' = ApicPhys
    BY <2>1, <2>3 DEF VirtToPhys
  <2> QED
    BY <2>1, <2>2, <2>4 DEF ApicInv
<1>7. CASE WriteLint0
  <2>1. /\ pc = "lint0" /\ op = Idle /\ pc' = "fb" /\ VirtToPhys(ApicPage) = ApicPhys /\ ApicPage \in Virt
        /\ lint0_at' = IF tlb[ApicPage] # 0 THEN tlb[ApicPage] ELSE VirtToPhys(ApicPage)
    BY <1>7, PagesAre DEF WriteLint0, CallerInv, ApicInv
  <2>2. tlb[ApicPage] \in {0, ApicPhys}
    BY <2>1 DEF TlbInv
  <2>3. lint0_at' = ApicPhys
    BY <2>1, <2>2
  <2> QED
    BY <2>1, <2>3 DEF ApicInv
<1>8. CASE /\ pc \in {"fb", "heap", "done"} /\ pc' \in {"fb", "heap", "done"} /\ UNCHANGED lint0_at
  <2>1. KeptCover
    BY <1>4, <1>8, ApicSeen
  <2>2. CoveredBy(tables, ApicPage) => CoveredBy(tables, ApicPage)'
    BY <2>1, PagesAre DEF KeptCover
  <2> QED
    BY <1>8, <2>2 DEF ApicInv
<1>9. CASE UNCHANGED <<tables, free, op, initVars>>
  BY <1>9 DEF ApicInv, initVars, VirtToPhys
<1>10. CASE FbMapNext \/ FbReady \/ HeapMapNext \/ HeapGivesUp \/ HeapReady \/ UserCall
  <2>1. pc \in {"fb", "heap", "done"} /\ pc' \in {"fb", "heap", "done"} /\ UNCHANGED lint0_at
    BY <1>10 DEF FbMapNext, FbReady, HeapMapNext, HeapGivesUp, HeapReady, UserCall, initVars
  <2> QED
    BY <1>8, <2>1
<1>11. CASE VmmStep /\ UNCHANGED initVars
  <2>1. op # Idle /\ op.call # "apic" /\ UNCHANGED <<pc, lint0_at>>
    BY <1>11, CallSeen DEF initVars
  <2>2. pc \in {"fb", "heap", "done"}
    BY <2>1 DEF CallerInv
  <2> QED
    BY <1>8, <2>1, <2>2
<1> QED
  BY <1>3, <1>4, <1>5, <1>6, <1>7, <1>9, <1>10, <1>11, StepCases

LEMMA PagesApart ==
  /\ \A k \in DOMAIN FbPages : FbPages[k] \in Virt /\ FbPages[k] # ApicPage /\ FbPages[k] \notin UserPages
  /\ \A k \in DOMAIN HeapPages : HeapPages[k] \in Virt /\ HeapPages[k] # ApicPage /\ HeapPages[k] \notin UserPages
  /\ \A k \in DOMAIN FbPages, m \in DOMAIN HeapPages : FbPages[k] # HeapPages[m]
  /\ \A k, m \in DOMAIN FbPages : FbPages[k] = FbPages[m] => k = m
  /\ \A k, m \in DOMAIN HeapPages : HeapPages[k] = HeapPages[m] => k = m
<1>1. /\ Distinct(FbPages) /\ Distinct(HeapPages)
      /\ Members(FbPages) \cap Members(HeapPages) = {} /\ ApicPage \notin Members(FbPages) \cup Members(HeapPages)
      /\ UserPages \cap ({ApicPage} \cup Members(FbPages) \cup Members(HeapPages)) = {}
  BY MemInitAssumption DEF Apart
<1>2. /\ \A k \in DOMAIN FbPages : FbPages[k] \in Members(FbPages)
      /\ \A k \in DOMAIN HeapPages : HeapPages[k] \in Members(HeapPages)
  BY DEF Members
<1> QED
  BY <1>1, <1>2, PagesAre DEF Distinct

(* A page of the framebuffer that is mapped stays so, while another page   *)
(* has a call; the same of the heap.                                       *)
LEMMA KeptMapped ==
  ASSUME StepKind
  PROVE  /\ \A k \in DOMAIN FbPages : FbMapped(k) /\ (op = Idle \/ op.virt # FbPages[k]) => FbMapped(k)'
         /\ \A k \in DOMAIN HeapPages : HeapMapped(k) /\ (op = Idle \/ op.virt # HeapPages[k])
                                        /\ heap_phys'[k] = heap_phys[k] => HeapMapped(k)'
  BY OtherPages, PagesApart DEF FbMapped, HeapMapped

LEMMA FreeStaysEmpty ==
  ASSUME TreeInv, CallerInv, [InitNext]_<<vars, initVars>>, free = <<>>
  PROVE  free' = <<>> /\ heap_phys' = heap_phys
<1>1. CASE ApicDescend \/ ApicLink \/ ApicClear \/ ApicSplit \/ ApicPte
  BY <1>1, ApicSeen
<1>2. CASE VmmStep /\ UNCHANGED initVars
  BY <1>2, CallSeen DEF initVars
<1>3. CASE UserCall
  BY <1>3 DEF UserCall, UnmapCall, MapCall, initVars
<1> QED
  BY <1>1, <1>2, <1>3, StepCases
     DEF ApicCall, ApicFails, ApicFlush, WriteLint0, FbMapNext, MapCall, FbReady, HeapMapNext, HeapGivesUp,
         HeapReady, initVars

LEMMA FbStep ==
  ASSUME TreeInv, SizeIsPresent(tables), CallerInv, ApicInv, FbInv, HeapPagesInv,
         [InitNext]_<<vars, initVars>>, StepKind
  PROVE  FbInv'
<1>1. /\ pc = "fb" => /\ i \in 0 .. Len(FbPages)
                      /\ \A k \in 1 .. i : (k < i \/ op = Idle) => FbMapped(k) \/ free = <<>>
      /\ pc \in {"apic", "lint0", "fb"} => heap_phys = <<>> /\ ~fb_ptr
      /\ fb_ptr => \/ \A k \in DOMAIN FbPages : FbMapped(k)
                   \/ free = <<>> /\ heap_phys = <<>>
      /\ fb_ptr \in BOOLEAN
  BY DEF FbInv
<1>2. free = <<>> => free' = <<>> /\ heap_phys' = heap_phys
  BY FreeStaysEmpty
(* Unless a call for one of them is under way, what is mapped stays so. *)
<1>3. ASSUME op = Idle \/ pc # "fb"
      PROVE  \A k \in DOMAIN FbPages : FbMapped(k) => FbMapped(k)'
  <2>1. ASSUME NEW k \in DOMAIN FbPages PROVE op = Idle \/ op.virt # FbPages[k]
    BY <1>3, PagesApart DEF CallerInv
  <2> QED
    BY <2>1, KeptMapped
<1>4. CASE pc \in {"apic", "lint0"} /\ pc' \in {"apic", "lint0", "fb"} /\ UNCHANGED <<i, fb_ptr, heap_phys>>
  <2>1. i = 0 /\ Len(FbPages) \in Nat
    BY <1>4, PagesAre DEF ApicInv
  <2>2. pc' = "fb" => /\ i' \in 0 .. Len(FbPages)
                      /\ \A k \in 1 .. i' : (k < i' \/ op' = Idle) => FbMapped(k)' \/ free' = <<>>
    BY <1>4, <2>1
  <2> QED
    BY <1>1, <1>4, <2>2 DEF FbInv
<1>5. CASE pc \in {"heap", "done"} /\ pc' \in {"heap", "done"} /\ UNCHANGED fb_ptr
  BY <1>1, <1>2, <1>3, <1>5 DEF FbInv
<1>6. CASE FbMapNext
  <2>1. /\ pc = "fb" /\ pc' = "fb" /\ op = Idle /\ i < Len(FbPages) /\ i' = i + 1
        /\ UNCHANGED <<fb_ptr, heap_phys, free>> /\ op' # Idle /\ Len(FbPages) \in Nat
        /\ DOMAIN FbPages = 1 .. Len(FbPages)
    BY <1>6, PagesAre DEF FbMapNext, MapCall, Idle
  <2>2. i' \in 0 .. Len(FbPages) /\ i \in Nat
    BY <1>1, <2>1
  <2>3. ASSUME NEW k \in 1 .. i', k < i' PROVE FbMapped(k)' \/ free' = <<>>
    <3>1. k \in 1 .. i /\ k \in DOMAIN FbPages
      BY <2>1, <2>2, <2>3
    <3> QED
      BY <1>1, <1>2, <1>3, <2>1, <3>1
  <2> QED
    BY <1>1, <2>1, <2>2, <2>3 DEF FbInv
<1>7. CASE FbReady
  <2>1. /\ pc = "fb" /\ pc' = "heap" /\ op = Idle /\ (i = 0 \/ i = Len(FbPages)) /\ fb_ptr' = (i > 0)
        /\ UNCHANGED <<heap_phys, free>> /\ DOMAIN FbPages = 1 .. Len(FbPages)
    BY <1>7, PagesAre DEF FbReady
  <2>2. ASSUME i > 0
        PROVE  \/ \A k \in DOMAIN FbPages : FbMapped(k)'
               \/ free' = <<>> /\ heap_phys' = <<>>
    <3>1. \A k \in DOMAIN FbPages : FbMapped(k) \/ free = <<>>
      BY <1>1, <2>1, <2>2
    <3> QED
      BY <1>1, <1>3, <2>1, <3>1
  <2> QED
    BY <2>1, <2>2 DEF FbInv
<1>8. CASE VmmStep /\ UNCHANGED initVars /\ pc = "fb"
  <2>1. /\ op # Idle /\ op.call = "map" /\ i \in DOMAIN FbPages /\ op.virt = FbPages[i] /\ op.phys = FbPhys + i - 1
        /\ UNCHANGED <<pc, i, fb_ptr, heap_phys>>
    BY <1>8, CallSeen DEF CallerInv, initVars
  <2>2. DOMAIN FbPages = 1 .. Len(FbPages) /\ Len(FbPages) \in Nat
    BY PagesAre
  <2>3. ASSUME NEW k \in 1 .. i, k < i PROVE FbMapped(k)' \/ free' = <<>>
    <3>1. k \in DOMAIN FbPages /\ k # i
      BY <2>1, <2>2, <2>3
    <3>2. op.virt # FbPages[k]
      BY <2>1, <3>1, PagesApart
    <3> QED
      BY <1>1, <1>2, <1>8, <2>3, <3>1, <3>2, KeptMapped
  <2>4. ASSUME op' = Idle PROVE FbMapped(i)' \/ free' = <<>>
    <3>1. UNCHANGED <<tables, free>> /\ (VirtToPhys(op.virt) = op.phys \/ (op.level > 1 /\ Blocked))
      BY <1>8, <2>1, <2>4, CallSeen
    <3>2. CASE VirtToPhys(op.virt) = op.phys
      BY <2>1, <3>1, <3>2 DEF FbMapped, VirtToPhys
    <3>3. CASE op.level > 1 /\ Blocked
      <4>1. ~CoveredBy(tables, op.virt)
        BY <2>1 DEF HeapPagesInv, Members
      <4> QED
        BY <2>1, <3>1, <3>3, <4>1, RefusedIs
    <3> QED
      BY <3>1, <3>2, <3>3
  <2>5. \A k \in 1 .. i : k < i \/ k = i
    BY <2>1, <2>2
  <2> QED
    BY <1>1, <1>8, <2>1, <2>3, <2>4, <2>5 DEF FbInv
<1>9. CASE VmmStep /\ UNCHANGED initVars /\ pc # "fb"
  <2>1. op # Idle /\ op.call \in {"map", "unmap"} /\ UNCHANGED <<pc, fb_ptr>>
    BY <1>9, CallSeen DEF initVars
  <2>2. pc \in {"heap", "done"}
    BY <1>9, <2>1 DEF CallerInv
  <2> QED
    BY <1>5, <2>1, <2>2
<1>10. CASE ApicDescend \/ ApicLink \/ ApicClear \/ ApicSplit \/ ApicPte
  BY <1>4, <1>10, ApicSeen
<1>11. CASE ApicCall \/ ApicFails \/ ApicFlush \/ WriteLint0
  <2>1. /\ pc \in {"apic", "lint0"} /\ pc' \in {"apic", "lint0", "fb"} /\ UNCHANGED <<i, fb_ptr, heap_phys>>
    BY <1>11, IdleIs DEF ApicCall, ApicFails, ApicWalks, ApicFlush, WriteLint0, CallerInv, initVars
  <2> QED
    BY <1>4, <2>1
<1>12. CASE HeapMapNext \/ HeapGivesUp \/ HeapReady \/ UserCall
  <2>1. pc \in {"heap", "done"} /\ pc' \in {"heap", "done"} /\ UNCHANGED fb_ptr
    BY <1>12 DEF HeapMapNext, HeapGivesUp, HeapReady, UserCall, initVars
  <2> QED
    BY <1>5, <2>1
<1>13. CASE UNCHANGED <<tables, free, op, initVars>>
  BY <1>1, <1>13 DEF FbInv, FbMapped, VirtToPhys, initVars
<1> QED
  BY <1>6, <1>7, <1>8, <1>9, <1>10, <1>11, <1>12, <1>13, StepCases

LEMMA HeapStep ==
  ASSUME TreeInv, SizeIsPresent(tables), CallerInv, FbInv, HeapPagesInv,
         [InitNext]_<<vars, initVars>>, StepKind, NoNewCover
  PROVE  HeapPagesInv'
<1>1. /\ pc \in {"apic", "lint0", "fb", "heap"} => ~heap_head
      /\ pc = "heap" => /\ i = Len(heap_phys) /\ i \in 0 .. Len(HeapPages)
                        /\ \/ \A k \in 1 .. i : (k < i \/ op = Idle) => HeapMapped(k)
                           \/ i = 1 /\ op = Idle /\ free = <<>>
      /\ heap_head => Len(heap_phys) = Len(HeapPages) /\ \A k \in DOMAIN HeapPages : HeapMapped(k)
      /\ heap_head \in BOOLEAN
  BY DEF HeapPagesInv
<1>2. \A v \in Members(FbPages) \cup Members(HeapPages) : ~CoveredBy(tables, v) /\ ~CoveredBy(tables, v)'
  <2>1. Members(FbPages) \cup Members(HeapPages) \subseteq Virt
    BY PagesApart DEF Members
  <2> QED
    BY <2>1 DEF HeapPagesInv, NoNewCover
<1>3. DOMAIN HeapPages = 1 .. Len(HeapPages) /\ Len(HeapPages) \in Nat /\ Len(HeapPages) >= 2
  BY PagesAre
<1>4. CASE pc \in {"apic", "lint0", "fb"} /\ pc' \in {"apic", "lint0", "fb"} /\ UNCHANGED heap_head
  BY <1>1, <1>2, <1>4 DEF HeapPagesInv
<1>5. CASE FbReady
  <2>1. pc = "fb" /\ pc' = "heap" /\ i' = 0 /\ heap_phys' = <<>> /\ UNCHANGED heap_head
    BY <1>5 DEF FbReady, FbInv
  <2> QED
    BY <1>1, <1>2, <1>3, <2>1 DEF HeapPagesInv
<1>6. CASE HeapMapNext
  <2>1. /\ pc = "heap" /\ pc' = "heap" /\ op = Idle /\ op' # Idle /\ i < Len(HeapPages) /\ free # <<>>
        /\ i' = i + 1 /\ heap_phys' = Append(heap_phys, Head(free)) /\ UNCHANGED <<tables, heap_head>>
    BY <1>6 DEF HeapMapNext, Idle
  <2>2. i = Len(heap_phys) /\ i \in 0 .. Len(HeapPages) /\ \A k \in 1 .. i : HeapMapped(k)
    BY <1>1, <2>1
  <2>3. PICK S : heap_phys \in Seq(S)
    BY DEF TreeInv, Tree, FramesInv
  <2>4. Len(heap_phys') = i + 1 /\ \A k \in 1 .. i : heap_phys'[k] = heap_phys[k]
    BY <2>1, <2>2, <2>3
  <2>5. \A k \in 1 .. i : HeapMapped(k)'
    BY <2>1, <2>2, <2>4 DEF HeapMapped, VirtToPhys
  <2>6. i' \in 0 .. Len(HeapPages) /\ \A k \in 1 .. i' : k < i' => k \in 1 .. i
    BY <1>3, <2>1, <2>2
  <2> QED
    BY <1>1, <1>2, <2>1, <2>4, <2>5, <2>6 DEF HeapPagesInv
<1>7. CASE HeapReady
  <2>1. /\ pc = "heap" /\ pc' = "done" /\ op = Idle /\ i = Len(HeapPages) /\ heap_head' = TRUE
        /\ UNCHANGED <<tables, heap_phys>>
    BY <1>7 DEF HeapReady
  <2>2. Len(heap_phys) = Len(HeapPages) /\ \A k \in DOMAIN HeapPages : HeapMapped(k)
    BY <1>1, <1>3, <2>1
  <2>3. \A k \in DOMAIN HeapPages : HeapMapped(k)'
    BY <2>1, <2>2 DEF HeapMapped, VirtToPhys
  <2> QED
    BY <1>2, <2>1, <2>2, <2>3 DEF HeapPagesInv
<1>8. CASE HeapGivesUp
  <2>1. pc = "heap" /\ pc' = "done" /\ UNCHANGED heap_head
    BY <1>8 DEF HeapGivesUp
  <2> QED
    BY <1>1, <1>2, <2>1 DEF HeapPagesInv
<1>9. CASE pc = "done" /\ pc' = "done" /\ UNCHANGED <<heap_head, heap_phys>>
  <2>1. ASSUME NEW k \in DOMAIN HeapPages PROVE op = Idle \/ op.virt # HeapPages[k]
    BY <1>9, PagesApart DEF CallerInv
  <2>2. \A k \in DOMAIN HeapPages : HeapMapped(k) => HeapMapped(k)'
    BY <1>9, <2>1, KeptMapped
  <2> QED
    BY <1>1, <1>2, <1>9, <2>2 DEF HeapPagesInv
<1>10. CASE VmmStep /\ UNCHANGED initVars /\ pc = "heap"
  <2>1. /\ op # Idle /\ op.call = "map" /\ i \in DOMAIN HeapPages /\ op.virt = HeapPages[i] /\ op.phys = heap_phys[i]
        /\ UNCHANGED <<pc, i, heap_head, heap_phys>>
    BY <1>10, CallSeen DEF CallerInv, initVars
  <2>2. \A k \in 1 .. i : k < i => HeapMapped(k)
    BY <1>1, <1>10, <2>1
  <2>3. ASSUME NEW k \in 1 .. i, k < i PROVE HeapMapped(k)'
    <3>1. k \in DOMAIN HeapPages /\ k # i
      BY <1>3, <2>1, <2>3
    <3>2. op.virt # HeapPages[k]
      BY <2>1, <3>1, PagesApart
    <3> QED
      BY <2>1, <2>2, <2>3, <3>1, <3>2, KeptMapped
  <2>4. ASSUME op' = Idle PROVE HeapMapped(i)' \/ (i = 1 /\ free' = <<>>)
    <3>1. UNCHANGED <<tables, free>> /\ (VirtToPhys(op.virt) = op.phys \/ (op.level > 1 /\ Blocked))
      BY <1>10, <2>1, <2>4, CallSeen
    <3>2. CASE VirtToPhys(op.virt) = op.phys
      BY <2>1, <3>1, <3>2 DEF HeapMapped, VirtToPhys
    <3>3. CASE op.level > 1 /\ Blocked
      <4>1. ~CoveredBy(tables, op.virt) /\ HeapPages[1] \in Members(HeapPages) /\ op.virt \in Members(HeapPages)
        BY <1>2, <1>3, <2>1 DEF Members
      <4>2. free = <<>> /\ ~Has1(tables, op.virt)
        BY <2>1, <3>3, <4>1, RefusedIs
      <4>3. CASE i # 1
        <5>1. 1 \in 1 .. i /\ 1 < i /\ 1 \in DOMAIN HeapPages
          BY <1>3, <2>1, <4>3
        <5>2. VirtToPhys(HeapPages[1]) = heap_phys[1]
          BY <2>2, <5>1 DEF HeapMapped
        <5>3. heap_phys[1] # 0
          <6>1. heap_phys \in Seq(Members(Pool)) /\ i = Len(heap_phys)
            BY <1>1, <1>10 DEF TreeInv, Tree, FramesInv
          <6>2. heap_phys[1] \in Members(Pool)
            BY <5>1, <6>1
          <6> QED
            BY <6>2, FramesAreNat
        <5>4. HeapPages[1] \in Virt /\ ~CoveredBy(tables, HeapPages[1])
          BY <1>2, <4>1, <5>1, PagesApart
        <5>5. Has1(tables, HeapPages[1])
          BY <5>2, <5>3, <5>4, MappedHasPt
        <5>6. /\ HeapPages[1][1] = op.virt[1] /\ HeapPages[1][2] = op.virt[2]
              /\ HeapPages[1][3] = op.virt[3]
          BY <4>1, MemInitAssumption
        <5> QED
          BY <4>2, <5>5, <5>6, SamePt
      <4> QED
        BY <3>1, <4>2, <4>3
    <3> QED
      BY <3>1, <3>2, <3>3
  <2>5. \A k \in 1 .. i : k < i \/ k = i
    BY <1>3, <2>1
  <2>6. \/ \A k \in 1 .. i' : (k < i' \/ op' = Idle) => HeapMapped(k)'
        \/ i' = 1 /\ op' = Idle /\ free' = <<>>
    BY <2>1, <2>3, <2>4, <2>5
  <2> QED
    BY <1>1, <1>2, <1>10, <2>1, <2>6 DEF HeapPagesInv
<1>11. CASE VmmStep /\ UNCHANGED initVars /\ pc # "heap"
  <2>1. /\ op # Idle /\ op.call # "apic" /\ UNCHANGED <<pc, heap_head, heap_phys>>
    BY <1>11, CallSeen DEF initVars
  <2>2. pc \in {"fb", "done"}
    BY <1>11, <2>1 DEF CallerInv
  <2> QED
    BY <1>4, <1>9, <2>1, <2>2
<1>12. CASE ApicDescend \/ ApicLink \/ ApicClear \/ ApicSplit \/ ApicPte
  BY <1>4, <1>12, ApicSeen
<1>13. CASE ApicCall \/ ApicFails \/ ApicFlush \/ WriteLint0 \/ FbMapNext
  <2>1. /\ pc \in {"apic", "lint0", "fb"} /\ pc' \in {"apic", "lint0", "fb"} /\ UNCHANGED heap_head
    BY <1>13, IdleIs
       DEF ApicCall, ApicFails, ApicWalks, ApicFlush, WriteLint0, FbMapNext, CallerInv, initVars
  <2> QED
    BY <1>4, <2>1
<1>14. CASE UserCall
  BY <1>9, <1>14 DEF UserCall, initVars
<1>15. CASE UNCHANGED <<tables, free, op, initVars>>
  BY <1>1, <1>2, <1>15 DEF HeapPagesInv, HeapMapped, VirtToPhys, initVars
<1> QED
  BY <1>5, <1>6, <1>7, <1>8, <1>10, <1>11, <1>12, <1>13, <1>14, <1>15, StepCases

----------------------------------------------------------------------------
(* No step sets the page size bit. *)
LEMMA EntryKeepsSize ==
  ASSUME NEW t, NEW f, NEW x, NEW e, t \in [DOMAIN t -> [Idx -> EntryType]], SizeIsPresent(t), ~e.huge
  PROVE  SizeIsPresent([t EXCEPT ![f][x] = e])
<1> DEFINE u == [t EXCEPT ![f][x] = e]
<1>1. DOMAIN u = DOMAIN t
  OBVIOUS
<1>2. \A g \in DOMAIN t, y \in Idx : u[g][y] = t[g][y] \/ u[g][y] = e
  OBVIOUS
<1> HIDE DEF u
<1>3. SizeIsPresent(u)
  BY <1>1, <1>2 DEF SizeIsPresent
<1> QED
  BY <1>3 DEF u

LEMMA TableKeepsSize ==
  ASSUME NEW t, NEW f, NEW r, SizeIsPresent(t), \A x \in Idx : ~r[x].huge
  PROVE  SizeIsPresent([t EXCEPT ![f] = r])
<1> DEFINE u == [t EXCEPT ![f] = r]
<1>1. DOMAIN u = DOMAIN t /\ \A g \in DOMAIN t : u[g] = t[g] \/ u[g] = r
  OBVIOUS
<1> HIDE DEF u
<1>2. SizeIsPresent(u)
  BY <1>1 DEF SizeIsPresent
<1> QED
  BY <1>2 DEF u

LEMMA SizeStep ==
  ASSUME TreeInv, CallerInv, SizeIsPresent(tables), [InitNext]_<<vars, initVars>>
  PROVE  SizeIsPresent(tables)'
<1>1. /\ tables \in [DOMAIN tables -> [Idx -> EntryType]]
      /\ \A f : ~Entry(f).huge
      /\ \A x \in Idx : ~EmptyTable[x].huge
  BY DEF TreeInv, Tree, Shape, Entry, EmptyTable, NotThere
<1>2. ~NotThere.huge
  BY DEF NotThere
<1>3. CASE LinkTable \/ WritePte \/ ApicLink \/ ApicPte
  BY <1>1, <1>3, EntryKeepsSize DEF LinkTable, WritePte, ApicLink, ApicPte
<1>4. CASE UnmapPte
  BY <1>1, <1>2, <1>4, EntryKeepsSize DEF UnmapPte
<1>5. CASE AllocTable \/ ApicClear
  <2>1. PICK f : tables' = [tables EXCEPT ![f] = EmptyTable]
    BY <1>5, Zenon DEF AllocTable, ApicClear
  <2>2. SizeIsPresent([tables EXCEPT ![f] = EmptyTable])
    BY <1>1, TableKeepsSize
  <2> QED
    BY <2>1, <2>2
<1>6. CASE ApicSplit
  <2> DEFINE t == [tables EXCEPT ![PoolTable] = SplitTable(EntryHere.to)]
  <2>1. \A x \in Idx : ~SplitTable(EntryHere.to)[x].huge
    BY <1>1 DEF SplitTable
  <2>2. SizeIsPresent(t)
    BY <2>1, TableKeepsSize
  <2>3. SplitTable(EntryHere.to) \in [Idx -> EntryType]
    <3>1. op # Idle /\ op.level = 2
      BY <1>6, IdleIs DEF ApicSplit, ApicWalks
    <3>2. EntryHere.to \in Nat
      BY <3>1, HereIs DEF TreeInv, EntryType
    <3> QED
      BY <3>2, VmmAssumption DEF SplitTable, Entry, EntryType, Idx
  <2>4. DOMAIN t = DOMAIN tables /\ t \in [DOMAIN tables -> [Idx -> EntryType]]
    BY <1>1, <2>3
  <2>5. tables' = [t EXCEPT ![op.at][IndexAt(op.virt, 2)] = Entry(PoolTable)]
    BY <1>6 DEF ApicSplit
  <2> HIDE DEF t
  <2>6. SizeIsPresent([t EXCEPT ![op.at][IndexAt(op.virt, 2)] = Entry(PoolTable)])
    BY <1>1, <2>2, <2>4, EntryKeepsSize
  <2> QED
    BY <2>5, <2>6
<1>7. CASE UNCHANGED tables
  BY <1>7
<1>8. VmmStep => \/ LinkTable \/ WritePte \/ UnmapPte \/ AllocTable \/ UNCHANGED tables
  BY DEF VmmStep, Descend, MapRefused, Invlpg, UnmapDescend, UnmapNothing
<1> QED
  BY <1>3, <1>4, <1>5, <1>6, <1>7, <1>8, StepCases
     DEF ApicCall, ApicDescend, ApicFails, ApicFlush, WriteLint0, FbMapNext, MapCall, FbReady, HeapMapNext,
         HeapGivesUp, HeapReady, UserCall, UnmapCall

----------------------------------------------------------------------------
(* The beginning: the frames outside the boot loader's tree have level 0. *)
LEMMA StartInv ==
  ASSUME Start
  PROVE  MemInv
<1>1. PICK b \in BootTables :
        tables = [f \in DOMAIN b \cup Members(Pool) \cup Members(PtPool) |->
                    IF f \in DOMAIN b THEN b[f]
                    ELSE IF f \in Members(PtPool) THEN EmptyTable ELSE Garbage]
  BY DEF Start
<1>2. /\ free \in Pools /\ tlb = [v \in Virt |-> 0] /\ op = Idle /\ pc = "apic" /\ i = 0 /\ pt_pool_idx = 0
      /\ lint0_at = 0 /\ fb_ptr = FALSE /\ heap_head = FALSE /\ heap_phys = <<>>
  BY DEF Start
<1>3. /\ Root \in DOMAIN b /\ b \in [DOMAIN b -> [Idx -> EntryType]] /\ Root \in Nat
      /\ DOMAIN b \cap (Members(Pool) \cup Members(PtPool) \cup {0}) = {}
  BY VmmAssumption, MemInitAssumption DEF Apart
<1>4. PICK bl \in [DOMAIN b -> 1 .. 4] : TreeOf(b, bl)
  BY VmmAssumption
<1>5. PICK lvl : lvl = [f \in DOMAIN tables |-> IF f \in DOMAIN b THEN bl[f] ELSE 0]
  OBVIOUS
<1>6. /\ DOMAIN tables = DOMAIN b \cup Members(Pool) \cup Members(PtPool)
      /\ \A f \in DOMAIN b : f \in DOMAIN tables /\ tables[f] = b[f]
      /\ \A f \in Members(PtPool) : tables[f] = EmptyTable
      /\ \A f \in Members(Pool) : tables[f] = Garbage
  <2>1. Members(Pool) \cap Members(PtPool) = {}
    BY PoolIs
  <2> QED
    BY <1>1, <1>3, <2>1
<1>7. /\ lvl \in [DOMAIN tables -> 0 .. 4]
      /\ \A f \in DOMAIN tables : lvl[f] # 0 <=> f \in DOMAIN b
      /\ \A f \in DOMAIN b : lvl[f] = bl[f]
  <2>1. \A f \in DOMAIN b : bl[f] \in 0 .. 4 /\ bl[f] # 0
    BY <1>4
  <2> QED
    BY <1>5, <1>6, <2>1
<1>8. tables \in [DOMAIN tables -> [Idx -> EntryType]]
  <2>1. Garbage \in [Idx -> EntryType]
    BY <1>3 DEF Garbage, Entry, EntryType
  <2>2. \A f \in DOMAIN tables : tables[f] \in [Idx -> EntryType]
    BY <1>3, <1>6, <2>1, EmptyTableType
  <2> QED
    BY <1>1, <2>2
<1>9. TreeOf(tables, lvl)
  <2>1. /\ \A f \in DOMAIN b : bl[f] = 4 <=> f = Root
        /\ \A x \in Idx : ~b[Root][x].huge
        /\ \A f \in DOMAIN b, x \in Idx :
             bl[f] >= 2 /\ Refers(b[f][x]) => b[f][x].to \in DOMAIN b /\ bl[b[f][x].to] = bl[f] - 1
        /\ \A f, g \in DOMAIN b, x, y \in Idx :
             bl[f] >= 2 /\ Refers(b[f][x]) /\ bl[g] >= 2 /\ Refers(b[g][y]) /\ b[g][y].to = b[f][x].to
             => g = f /\ y = x
        /\ \A c \in DOMAIN b :
             bl[c] \in 1 .. 3 => \E f \in DOMAIN b, x \in Idx : bl[f] = bl[c] + 1 /\ b[f][x] = Entry(c)
    BY <1>4 DEF TreeOf
  <2>2. \A f \in DOMAIN tables : lvl[f] >= 1 => f \in DOMAIN b
    BY <1>7
  <2>3. \A f \in DOMAIN tables : lvl[f] = 4 <=> f = Root
    BY <1>3, <1>6, <1>7, <2>1, <2>2
  <2>4. \A x \in Idx : ~tables[Root][x].huge
    BY <1>3, <1>6, <2>1
  <2>5. ASSUME NEW f \in DOMAIN tables, NEW x \in Idx, lvl[f] >= 2, Refers(tables[f][x])
        PROVE  /\ tables[f][x].to \in DOMAIN tables /\ lvl[tables[f][x].to] = lvl[f] - 1
               /\ \A g \in DOMAIN tables, y \in Idx :
                    lvl[g] >= 2 /\ Refers(tables[g][y]) /\ tables[g][y].to = tables[f][x].to => g = f /\ y = x
    <3>1. f \in DOMAIN b /\ tables[f] = b[f] /\ lvl[f] = bl[f]
      BY <1>6, <1>7, <2>2, <2>5
    <3>2. b[f][x].to \in DOMAIN b /\ bl[b[f][x].to] = bl[f] - 1
      BY <2>1, <2>5, <3>1
    <3>3. ASSUME NEW g \in DOMAIN tables, NEW y \in Idx,
                 lvl[g] >= 2, Refers(tables[g][y]), tables[g][y].to = tables[f][x].to
          PROVE  g = f /\ y = x
      <4>1. g \in DOMAIN b /\ tables[g] = b[g] /\ lvl[g] = bl[g]
        BY <1>6, <1>7, <2>2, <3>3
      <4> QED
        BY <2>1, <2>5, <3>1, <3>3, <4>1
    <3> QED
      BY <1>6, <1>7, <3>1, <3>2, <3>3
  <2>6. ASSUME NEW c \in DOMAIN tables, lvl[c] \in 1 .. 3
        PROVE  \E f \in DOMAIN tables, x \in Idx : lvl[f] = lvl[c] + 1 /\ tables[f][x] = Entry(c)
    <3>1. c \in DOMAIN b /\ lvl[c] = bl[c]
      BY <1>7, <2>2, <2>6
    <3>2. PICK f \in DOMAIN b, x \in Idx : bl[f] = bl[c] + 1 /\ b[f][x] = Entry(c)
      BY <2>1, <2>6, <3>1
    <3> QED
      BY <1>6, <1>7, <3>1, <3>2
  <2> QED
    BY <2>3, <2>4, <2>5, <2>6 DEF TreeOf
<1>10. Shape(tables, lvl)
  <2>1. 0 \notin DOMAIN tables
    BY <1>3, <1>6, FramesAreNat
  <2> QED
    BY <1>3, <1>6, <1>7, <1>8, <1>9, <2>1 DEF Shape
<1>11. FramesInv(lvl)
  <2>1. free \in Seq(Members(Pool)) /\ Distinct(free)
    BY <1>2, MemInitAssumption
  <2>2. heap_phys \in Seq(Members(Pool)) /\ DOMAIN heap_phys = {}
    BY <1>2
  <2>3. Members(free) \subseteq Members(Pool) /\ Members(heap_phys) = {}
    BY <2>1, <2>2 DEF Members
  <2>4. \A f \in Members(Pool) : f \in DOMAIN tables /\ lvl[f] = 0 /\ f # 0
    BY <1>3, <1>6, <1>7, FramesAreNat
  <2>5. \A f \in Members(PtPool) : f \in DOMAIN tables /\ lvl[f] = 0 /\ f # 0
    BY <1>3, <1>6, <1>7, FramesAreNat
  <2>6. op.new = 0
    BY <1>2, IdleIs
  <2>7. \A n \in pt_pool_idx + 1 .. 3 : PtPool[n] \in Members(PtPool)
    BY <1>2, PoolIs
  <2> QED
    BY <1>2, <1>6, <2>1, <2>2, <2>3, <2>4, <2>5, <2>6, <2>7 DEF FramesInv, Distinct
<1>12. OpInv(lvl)
  BY <1>2 DEF OpInv
<1>13. TreeInv
  BY <1>10, <1>11, <1>12 DEF TreeInv, Tree
<1>14. ASSUME NEW v \in Members(FbPages) \cup Members(HeapPages) PROVE ~CoveredBy(tables, v)
  <2>1. v \in Virt
    BY PagesApart DEF Members
  <2>2. ~CoveredBy(b, v)
    BY MemInitAssumption
  <2>3. ASSUME NEW k, NEW f, OnPath(tables, v, k, f) PROVE b[f][IndexAt(v, k)] = tables[f][IndexAt(v, k)]
    <3>1. f \in DOMAIN tables /\ lvl[f] = k /\ k \in 1 .. 4
      BY <1>10, <2>1, <2>3, PathLevel
    <3>2. f \in DOMAIN b
      BY <1>7, <3>1
    <3> QED
      BY <1>6, <3>2
  <2>4. ~E4(tables, v).huge
    BY <1>10, <2>1, RootSmall
  <2>5. CoveredBy(b, v) <=> CoveredBy(tables, v)
    BY ONLY <2>3, <2>4, SameWalk
  <2> QED
    BY <2>2, <2>5
<1>15. TlbInv
  BY <1>2 DEF TlbInv
<1>16. CallerInv /\ ApicInv
  BY <1>2, IdleIs DEF CallerInv, ApicInv
<1>17. FbInv /\ HeapPagesInv
  BY <1>2, <1>14 DEF FbInv, HeapPagesInv
<1>18. SizeIsPresent(tables)
  <2>1. SizeIsPresent(b)
    BY VmmAssumption
  <2>2. \A x \in Idx : ~Garbage[x].huge /\ ~EmptyTable[x].huge
    BY DEF Garbage, Entry, EmptyTable, NotThere
  <2> QED
    BY <1>6, <2>1, <2>2 DEF SizeIsPresent
<1> QED
  BY <1>13, <1>15, <1>16, <1>17, <1>18 DEF MemInv

(* The invariant is inductive. *)
LEMMA MemInvStep ==
  ASSUME MemInv, [InitNext]_<<vars, initVars>>
  PROVE  MemInv' /\ StepKind
<1>1. TreeInv' /\ StepKind /\ NoNewCover /\ (~ApicSplit => KeptCover)
  BY Kinds DEF MemInv, TlbInv, CallerInv
<1>2. TlbInv'
  BY <1>1, TlbStep DEF MemInv
<1>3. CallerInv'
  BY CallerStep DEF MemInv
<1>4. ApicInv'
  BY <1>1, ApicStep DEF MemInv
<1>5. FbInv' /\ HeapPagesInv'
  BY <1>1, FbStep, HeapStep DEF MemInv
<1>6. SizeIsPresent(tables)'
  BY SizeStep DEF MemInv
<1> QED
  BY <1>1, <1>2, <1>3, <1>4, <1>5, <1>6 DEF MemInv

LEMMA MemInvHolds == InitSpec => []MemInv
<1>1. Start => MemInv
  BY StartInv
<1>2. MemInv /\ [InitNext]_<<vars, initVars>> => MemInv'
  BY MemInvStep
<1> QED
  BY <1>1, <1>2, PTL DEF InitSpec

----------------------------------------------------------------------------
(* Results *)

(* If apic_init writes LINT0, it writes to the local APIC: whatever tables *)
(* the boot loader left and whatever the TLB held.  Only a 1 GB page stops *)
(* it; the three tables of pt_pool always are enough.                      *)
THEOREM ApicReached == InitSpec => []Lint0ReachesApic
<1>1. MemInv => Lint0ReachesApic
  BY DEF MemInv, ApicInv, Lint0ReachesApic
<1> QED
  BY <1>1, MemInvHolds, PTL

LEMMA DistinctCount ==
  ASSUME NEW S, NEW s \in Seq(S), Distinct(s)
  PROVE  Cardinality(Members(s)) = Len(s)
<1>1. Len(s) \in Nat /\ DOMAIN s = 1 .. Len(s)
  OBVIOUS
<1>2. s \in Bijection(1 .. Len(s), Members(s))
  <2>1. s \in [1 .. Len(s) -> Members(s)]
    BY <1>1 DEF Members
  <2> QED
    BY <1>1, <2>1 DEF Bijection, Injection, Surjection, IsInjective, Distinct, Members
<1>3. IsFiniteSet(1 .. Len(s)) /\ Cardinality(1 .. Len(s)) = Len(s)
  BY <1>1, FS_Interval
<1>4. ExistsBijection(1 .. Len(s), Members(s))
  BY <1>2 DEF ExistsBijection
<1> QED
  BY <1>3, <1>4, FS_Bijection

(* A heap that kmain announces is mapped, page for page, to frames of its  *)
(* own; if the framebuffer is announced too, so are its pages.             *)
THEOREM HeapIsUsable == InitSpec => []HeapUsable
<1>1. ASSUME MemInv PROVE HeapUsable
  <2>1. SUFFICES ASSUME heap_head
                 PROVE  /\ Len(heap_phys) = Len(HeapPages)
                        /\ \A k \in DOMAIN HeapPages : VirtToPhys(HeapPages[k]) = heap_phys[k]
                        /\ Cardinality(Members(heap_phys)) = Len(HeapPages)
                        /\ Members(heap_phys) \cap Members(free) = {}
                        /\ fb_ptr => \A k \in DOMAIN FbPages : VirtToPhys(FbPages[k]) = FbPhys + k - 1
    BY DEF HeapUsable
  <2>2. Len(heap_phys) = Len(HeapPages) /\ \A k \in DOMAIN HeapPages : HeapMapped(k)
    BY <1>1, <2>1 DEF MemInv, HeapPagesInv
  <2>3. /\ heap_phys \in Seq(Members(Pool)) /\ Distinct(heap_phys)
        /\ \A m \in DOMAIN free, n \in DOMAIN heap_phys : free[m] # heap_phys[n]
    BY <1>1 DEF MemInv, TreeInv, Tree, FramesInv
  <2>4. Cardinality(Members(heap_phys)) = Len(HeapPages)
    BY <2>2, <2>3, DistinctCount
  <2>5. Members(heap_phys) \cap Members(free) = {}
    BY <2>3 DEF Members
  <2>6. fb_ptr => \A k \in DOMAIN FbPages : FbMapped(k)
    <3>1. heap_phys # <<>>
      BY <2>2, PagesAre
    <3> QED
      BY <1>1, <3>1 DEF MemInv, FbInv
  <2> QED
    BY <2>2, <2>4, <2>5, <2>6 DEF HeapMapped, FbMapped
<1> QED
  BY <1>1, MemInvHolds, PTL

(* The tables of a level are those the level above refers to. *)
LEMMA ChildrenAre ==
  ASSUME NEW lvl, Shape(tables, lvl), NEW n \in 1 .. 3, NEW fs, fs = {f \in DOMAIN tables : lvl[f] = n + 1}
  PROVE  Children(fs) = {f \in DOMAIN tables : lvl[f] = n}
<1>1. /\ lvl \in [DOMAIN tables -> 0 .. 4]
      /\ \A f \in DOMAIN tables, x \in Idx :
           lvl[f] >= 2 /\ Refers(tables[f][x]) =>
             tables[f][x].to \in DOMAIN tables /\ lvl[tables[f][x].to] = lvl[f] - 1
      /\ \A c \in DOMAIN tables : lvl[c] \in 1 .. 3 =>
           \E f \in DOMAIN tables, x \in Idx : lvl[f] = lvl[c] + 1 /\ tables[f][x] = Entry(c)
  BY DEF Shape, TreeOf
<1> DEFINE R == [p : {TRUE}, huge : {FALSE}, to : DOMAIN tables]
           A == {tables[f][x] : f \in fs, x \in Idx}
<1>2. Children(fs) = {e.to : e \in A \cap R}
  BY DEF Children
<1>3. \A e \in R : Refers(e)
  BY DEF Refers
<1>4. \A e : e \in A <=> \E f \in fs, x \in Idx : e = tables[f][x]
  OBVIOUS
<1> HIDE DEF R, A
<1>5. ASSUME NEW c \in Children(fs) PROVE c \in DOMAIN tables /\ lvl[c] = n
  <2>1. PICK e \in A \cap R : c = e.to
    BY <1>5, <1>2
  <2>2. PICK f \in fs, x \in Idx : e = tables[f][x]
    BY <1>4, <2>1
  <2>3. f \in DOMAIN tables /\ lvl[f] = n + 1
    BY <2>2
  <2>4. lvl[f] >= 2 /\ lvl[f] - 1 = n
    BY <2>3
  <2> QED
    BY <1>1, <1>3, <2>1, <2>2, <2>3, <2>4
<1>6. ASSUME NEW c \in DOMAIN tables, lvl[c] = n PROVE c \in Children(fs)
  <2>1. PICK f \in DOMAIN tables, x \in Idx : lvl[f] = lvl[c] + 1 /\ tables[f][x] = Entry(c)
    BY <1>1, <1>6
  <2>2. Entry(c) \in A
    BY <1>6, <1>4, <2>1
  <2>3. Entry(c) \in R /\ Entry(c).to = c
    BY DEF Entry, R
  <2> QED
    BY <1>2, <2>2, <2>3
<1> QED
  BY <1>5, <1>6

LEMMA LevelsAre ==
  ASSUME NEW lvl, Shape(tables, lvl)
  PROVE  /\ Level3 \cup Level2 \cup Level1 = {f \in DOMAIN tables : lvl[f] \in 1 .. 3}
         /\ Upper = {f \in DOMAIN tables : lvl[f] >= 2}
         /\ Upper \cup Level1 = {f \in DOMAIN tables : lvl[f] # 0}
<1>1. /\ lvl \in [DOMAIN tables -> 0 .. 4] /\ {Root} = {f \in DOMAIN tables : lvl[f] = 3 + 1}
  <2>1. lvl \in [DOMAIN tables -> 0 .. 4] /\ Root \in DOMAIN tables
    BY DEF Shape
  <2>2. \A f \in DOMAIN tables : lvl[f] = 4 <=> f = Root
    BY DEF Shape, TreeOf
  <2> QED
    BY <2>1, <2>2
<1>2. Level3 = {f \in DOMAIN tables : lvl[f] = 3}
  BY <1>1, ChildrenAre DEF Level3
<1>3. Level2 = {f \in DOMAIN tables : lvl[f] = 2}
  BY <1>2, ChildrenAre DEF Level2
<1>4. Level1 = {f \in DOMAIN tables : lvl[f] = 1}
  BY <1>3, ChildrenAre DEF Level1
<1>5. \A f \in DOMAIN tables : lvl[f] \in 0 .. 4
  BY <1>1
<1> QED
  BY <1>1, <1>2, <1>3, <1>4, <1>5 DEF Upper

(* Tables form a tree that holds no free frame and none of the heap: from  *)
(* every boot loader's tree, however calls run out of frames half way.     *)
THEOREM TablesStayTree == InitSpec => []TablesAreTree
<1>1. ASSUME MemInv PROVE TablesAreTree
  <2>1. PICK lvl : Tree(lvl)
    BY <1>1 DEF MemInv, TreeInv
  <2>2. Shape(tables, lvl) /\ lvl \in [DOMAIN tables -> 0 .. 4] /\ 0 \notin DOMAIN tables
    BY <2>1 DEF Tree, Shape
  <2>3. /\ Level3 \cup Level2 \cup Level1 = {f \in DOMAIN tables : lvl[f] \in 1 .. 3}
        /\ Upper = {f \in DOMAIN tables : lvl[f] >= 2}
        /\ Upper \cup Level1 = {f \in DOMAIN tables : lvl[f] # 0}
    BY <2>2, LevelsAre
  <2>4. (Upper \cup Level1) \cap (Members(free) \cup Members(heap_phys)) = {}
    BY <2>1, <2>3 DEF Tree, FramesInv
  <2>5. op.call = "map" => op.new \notin Upper \cup Level1
    <3>1. CASE op.call = "map" /\ op.new # 0
      BY <2>1, <2>3, <3>1, IdleIs DEF Tree, OpInv
    <3> QED
      BY <2>2, <2>3, <3>1
  <2>6. ASSUME NEW c \in Level3 \cup Level2 \cup Level1
        PROVE  Cardinality({q \in Upper \X Idx : tables[q[1]][q[2]] = Entry(c)}) = 1
    <3>1. /\ \A f \in DOMAIN tables, x \in Idx :
               lvl[f] >= 2 /\ Refers(tables[f][x]) =>
                 \A g \in DOMAIN tables, y \in Idx :
                   lvl[g] >= 2 /\ Refers(tables[g][y]) /\ tables[g][y].to = tables[f][x].to => g = f /\ y = x
          /\ \A d \in DOMAIN tables : lvl[d] \in 1 .. 3 =>
               \E f \in DOMAIN tables, x \in Idx : lvl[f] = lvl[d] + 1 /\ tables[f][x] = Entry(d)
      BY <2>2 DEF Shape, TreeOf
    <3>2. c \in DOMAIN tables /\ lvl[c] \in 1 .. 3
      BY <2>3
    <3>3. PICK f \in DOMAIN tables, x \in Idx : lvl[f] = lvl[c] + 1 /\ tables[f][x] = Entry(c)
      BY <3>1, <3>2
    <3>4. lvl[f] >= 2
      BY <3>2, <3>3
    <3>5. Refers(Entry(c)) /\ Entry(c).to = c
      BY DEF Refers, Entry
    <3>6. \A g \in DOMAIN tables, y \in Idx : lvl[g] >= 2 /\ tables[g][y] = Entry(c) => g = f /\ y = x
      BY <3>1, <3>3, <3>4, <3>5
    <3>7. {q \in Upper \X Idx : tables[q[1]][q[2]] = Entry(c)} = {<<f, x>>}
      BY <2>3, <3>3, <3>4, <3>6
    <3> QED
      BY <3>7, FS_Singleton
  <2>7. \A f \in Members(Pool) : tables[f] # Garbage => f \in Upper \cup Level1 \cup {op.new}
    BY <2>1, <2>2, <2>3 DEF Tree, FramesInv, Shape
  <2> QED
    BY <2>4, <2>5, <2>6, <2>7 DEF TablesAreTree
<1> QED
  BY <1>1, MemInvHolds, PTL

(* Page tables, free list and TLB implement the map of AddressSpace: every *)
(* table that is made, split or entered is a stuttering step, a call       *)
(* changes its page once, and no stale entry outlives it.                  *)
THEOREM MemImplementsAddressSpace == InitSpec => ImplementsAddressSpace
<1> DEFINE map == [v \in Virt |-> VirtToPhys(v)]
           call == IF op = Idle THEN <<>> ELSE <<op.virt, op.phys>>
<1>1. ASSUME Start PROVE AS!Init
  <2>1. MemInv /\ tlb = [v \in Virt |-> 0] /\ op = Idle
    BY <1>1, StartInv DEF Start
  <2>2. \A v \in Virt : VirtToPhys(v) \in Nat
    BY <2>1, WalkType DEF MemInv, TreeInv, Tree, VirtToPhys
  <2> QED
    BY <2>1, <2>2 DEF AS!Init
<1>2. ASSUME MemInv, MemInv', StepKind, [InitNext]_<<vars, initVars>> PROVE [AS!Next]_AS!vars
  <2>1. \A v \in Virt : map[v] = TranslatedBy(tables, v) /\ map'[v] = TranslatedBy(tables', v)
    BY DEF VirtToPhys
  <2>2. PICK lvl : Tree(lvl)
    BY <1>2 DEF MemInv, TreeInv
  <2>3. op # Idle => op.virt \in Virt /\ op.phys \in Nat /\ call = <<op.virt, op.phys>>
    BY <2>2, HereIs
  <2>4. op' # Idle => op'.virt \in Virt /\ op'.phys \in Nat /\ call' = <<op'.virt, op'.phys>>
    <3>1. op' # Idle => op' \in CallType'
      BY <1>2 DEF MemInv, TreeInv, Tree, OpInv, Idle
    <3> QED
      BY <3>1 DEF CallType, Idle
  <2>5. tlb \in [Virt -> Nat] /\ \A v \in Virt : tlb[v] \in {0, map[v]} \/ (op # Idle /\ op.virt = v /\ op.level = 0)
    BY <1>2 DEF MemInv, TlbInv
  <2>6. op = Idle => call = <<>>
    OBVIOUS
  <2>7. op' = Idle => call' = <<>>
    BY DEF Idle
  <2>8. CASE BuildStep
    <3>1. map' = map /\ tlb' = tlb
      BY <2>8 DEF BuildStep, SameMap
    <3>2. CASE op = Idle /\ op' = Idle
      BY <2>6, <2>7, <3>1, <3>2 DEF AS!vars
    <3>3. CASE op = Idle /\ op' # Idle
      BY <2>4, <2>6, <3>1, <3>3 DEF AS!Next, AS!Call
    <3>4. CASE op # Idle /\ op' = Idle
      <4>1. tlb[op.virt] \in {0, map[op.virt]}
        BY <2>3, <2>5, <2>8, <3>4 DEF BuildStep
      <4> QED
        BY <2>3, <2>5, <2>7, <3>1, <3>4, <4>1 DEF AS!Next, AS!Return
    <3>5. CASE op # Idle /\ op' # Idle
      BY <2>3, <2>4, <2>8, <3>1, <3>5 DEF AS!vars, BuildStep, Calling
    <3> QED
      BY <3>2, <3>3, <3>4, <3>5
  <2>9. CASE PteStep
    <3>1. map' = [map EXCEPT ![op.virt] = op.phys]
      BY <2>1, <2>3, <2>9 DEF PteStep, Calling
    <3> QED
      BY <2>3, <2>4, <2>9, <3>1 DEF AS!Next, AS!Change, PteStep, Calling
  <2>10. CASE FlushStep
    BY <2>3, <2>7, <2>10 DEF AS!Next, AS!Return, FlushStep, Calling, VirtToPhys
  <2>11. CASE MmuStep
    <3>1. map' = map /\ call' = call
      BY <2>11 DEF MmuStep, VirtToPhys, Idle
    <3>2. CASE tlb' = tlb
      BY <3>1, <3>2 DEF AS!vars
    <3>3. CASE \E v \in Virt : tlb' = [tlb EXCEPT ![v] = 0]
      BY <3>1, <3>3 DEF AS!Next, AS!Forget
    <3>4. CASE \E v \in Virt : tlb' = [tlb EXCEPT ![v] = VirtToPhys(v)]
      BY <3>1, <3>4 DEF AS!Next, AS!Believe
    <3> QED
      BY <2>11, <3>2, <3>3, <3>4 DEF MmuStep
  <2> QED
    BY <1>2, <2>8, <2>9, <2>10, <2>11 DEF StepKind
<1>3. MemInv /\ [InitNext]_<<vars, initVars>> => StepKind /\ MemInv'
  BY MemInvStep
<1> QED
  BY <1>1, <1>2, <1>3, MemInvHolds, PTL DEF InitSpec, ImplementsAddressSpace, AS!Spec

=============================================================================
