-------------------------------- MODULE Vmm --------------------------------
(***************************************************************************)
(* src/kernel/memory/vmm.c: the page tables of the address space the boot  *)
(* loader made, the frames new tables come from, and the TLB.              *)
(* MemInit runs it.                                                        *)
(*                                                                         *)
(* A page is the tuple of its indices in PML4, PDPT, PD and PT.  The MMU   *)
(* loads and drops TLB entries between any two steps of the kernel, so a   *)
(* call is one step per table, one for the entry it is made for and one    *)
(* for invlpg.                                                             *)
(***************************************************************************)
EXTENDS Integers, Sequences, FiniteSets

CONSTANTS
  Fan,         \* entries of a table
  Root,        \* the frame cr3 names
  Pool,        \* frames pmm_alloc can hand out, in its order
  BootTables,  \* the tables the boot loader may have made
  Virt,        \* pages considered
  Phys         \* frames callers map

VARIABLES
  tables,  \* tables[f]: the entries in frame f
  free,    \* the pmm's free list
  tlb,     \* tlb[v]: the frame cached for page v, or 0
  op       \* the call under way

vars == <<tables, free, tlb, op>>

Idx == 0 .. Fan - 1

Members(list) == {list[n] : n \in DOMAIN list}

(* Present, page size and frame of an entry. *)
Entry(f)  == [p |-> TRUE, huge |-> FALSE, to |-> f]
Huge(f)   == [p |-> TRUE, huge |-> TRUE, to |-> f]
NotThere  == [p |-> FALSE, huge |-> FALSE, to |-> 0]
EmptyTable == [x \in Idx |-> NotThere]

(* What is left in a frame nobody cleared. *)
Garbage == [x \in Idx |-> Entry(Root)]

EntryType == [p : BOOLEAN, huge : BOOLEAN, to : Nat]

Refers(e) == e.p /\ ~e.huge

(* t holds a tree of tables below Root: lvl[f] is the level of the table   *)
(* in frame f, 0 if f holds none; every table but Root is entered once.    *)
TreeOf(t, lvl) ==
  /\ \A f \in DOMAIN t : lvl[f] = 4 <=> f = Root
  /\ \A x \in Idx : ~t[Root][x].huge
  /\ \A f \in DOMAIN t, x \in Idx :
       lvl[f] >= 2 /\ Refers(t[f][x]) =>
         /\ t[f][x].to \in DOMAIN t /\ lvl[t[f][x].to] = lvl[f] - 1
         /\ \A g \in DOMAIN t, y \in Idx :
              lvl[g] >= 2 /\ Refers(t[g][y]) /\ t[g][y].to = t[f][x].to => g = f /\ y = x
  /\ \A c \in DOMAIN t :
       lvl[c] \in 1 .. 3 => \E f \in DOMAIN t, x \in Idx : lvl[f] = lvl[c] + 1 /\ t[f][x] = Entry(c)

(* A 1 GB or 2 MB page of the tables t covers v. *)
CoveredBy(t, v) ==
  LET e4 == t[Root][v[1]]
      e3 == t[e4.to][v[2]]
      e2 == t[e3.to][v[3]]
  IN e4.p /\ e3.p /\ (e3.huge \/ (e2.p /\ e2.huge))

(* Only present entries carry the page size bit, which vmm_map_page reads  *)
(* without looking at the present bit.                                     *)
SizeIsPresent(t) == \A f \in DOMAIN t, x \in Idx : t[f][x].huge => t[f][x].p

(* The boot loader's tables are such a tree; it clears a table before it   *)
(* enters anything.                                                        *)
ASSUME VmmAssumption ==
  /\ Fan \in Nat /\ Root \in Nat
  /\ Virt \subseteq Idx \X Idx \X Idx \X Idx /\ Phys \subseteq Nat
  /\ \A b \in BootTables :
       /\ Root \in DOMAIN b /\ b \in [DOMAIN b -> [Idx -> EntryType]]
       /\ SizeIsPresent(b)
       /\ \E lvl \in [DOMAIN b -> 1 .. 4] : TreeOf(b, lvl)

(* level is that of the table at, 0 when only invlpg is left; phys is what *)
(* the page shall have, 0 for vmm_unmap_page.                              *)
Idle == [call |-> "none", virt |-> <<>>, phys |-> 0, level |-> 4, at |-> Root, new |-> 0]

----------------------------------------------------------------------------
(* vmm_virt_to_phys, which walks the tables as the MMU does. *)
IndexAt(v, level) == v[5 - level]

TranslatedBy(t, v) ==
  LET e4 == t[Root][v[1]]
      e3 == t[e4.to][v[2]]
      e2 == t[e3.to][v[3]]
      e1 == t[e2.to][v[4]]
  IN CASE ~e4.p                       -> 0
       [] e4.p /\ ~e3.p               -> 0
       [] e4.p /\ e3.p /\ e3.huge     -> e3.to + v[3] * Fan + v[4]
       [] e4.p /\ e3.p /\ ~e3.huge /\ ~e2.p -> 0
       [] e4.p /\ e3.p /\ ~e3.huge /\ e2.p /\ e2.huge -> e2.to + v[4]
       [] OTHER                       -> IF e1.p THEN e1.to ELSE 0

VirtToPhys(v) == TranslatedBy(tables, v)

----------------------------------------------------------------------------
(* vmm_map_page *)
MapCall(v, p) ==
  /\ op = Idle
  /\ op' = [Idle EXCEPT !.call = "map", !.virt = v, !.phys = p]
  /\ UNCHANGED <<tables, free, tlb>>

EntryHere == tables[op.at][IndexAt(op.virt, op.level)]

TableHere == EntryHere.p /\ ~EntryHere.huge

(* The next table is there. *)
Descend ==
  /\ op.call = "map" /\ op.level > 1 /\ op.new = 0
  /\ TableHere
  /\ op' = [op EXCEPT !.level = @ - 1, !.at = EntryHere.to]
  /\ UNCHANGED <<tables, free, tlb>>

(* ensure_table: allocate and clear a frame ... *)
AllocTable ==
  /\ op.call = "map" /\ op.level > 1 /\ op.new = 0
  /\ ~EntryHere.p /\ ~EntryHere.huge
  /\ free # <<>> /\ free' = Tail(free)
  /\ tables' = [tables EXCEPT ![Head(free)] = EmptyTable]
  /\ op' = [op EXCEPT !.new = Head(free)]
  /\ UNCHANGED tlb

(* Mutant of LinkTable: the new table is forgotten by the one above. *)
LinkTable_Lost ==
  /\ op.call = "map" /\ op.new # 0
  /\ op' = [op EXCEPT !.level = @ - 1, !.at = op.new, !.new = 0]
  /\ UNCHANGED <<tables, free, tlb>>

(* ... and enter it in the table above. *)
LinkTable ==
  /\ op.call = "map" /\ op.new # 0
  /\ tables' = [tables EXCEPT ![op.at][IndexAt(op.virt, op.level)] = Entry(op.new)]
  /\ op' = [op EXCEPT !.level = @ - 1, !.at = op.new, !.new = 0]
  /\ UNCHANGED <<free, tlb>>

(* No frame for a table, or the page size bit set, present or not: the     *)
(* call returns and says nothing.                                          *)
Blocked == EntryHere.huge \/ (~EntryHere.p /\ free = <<>>)

MapRefused ==
  /\ op.call = "map" /\ op.level > 1 /\ op.new = 0
  /\ Blocked
  /\ op' = Idle
  /\ UNCHANGED <<tables, free, tlb>>

WritePte ==
  /\ op.call = "map" /\ op.level = 1
  /\ tables' = [tables EXCEPT ![op.at][IndexAt(op.virt, 1)] = Entry(op.phys)]
  /\ op' = [op EXCEPT !.level = 0]
  /\ UNCHANGED <<free, tlb>>

(* Mutant of Invlpg: left out. *)
Invlpg_None ==
  /\ op.call \in {"map", "unmap"} /\ op.level = 0
  /\ op' = Idle
  /\ UNCHANGED <<tables, free, tlb>>

Invlpg ==
  /\ op.call \in {"map", "unmap"} /\ op.level = 0
  /\ tlb' = [tlb EXCEPT ![op.virt] = 0]
  /\ op' = Idle
  /\ UNCHANGED <<tables, free>>

(* vmm_unmap_page: nothing to do if no PT covers the page; else clear the  *)
(* entry and invlpg.                                                       *)
UnmapCall(v) ==
  /\ op = Idle
  /\ op' = [Idle EXCEPT !.call = "unmap", !.virt = v]
  /\ UNCHANGED <<tables, free, tlb>>

UnmapDescend ==
  /\ op.call = "unmap" /\ op.level > 1
  /\ TableHere
  /\ op' = [op EXCEPT !.level = @ - 1, !.at = EntryHere.to]
  /\ UNCHANGED <<tables, free, tlb>>

UnmapNothing ==
  /\ op.call = "unmap" /\ op.level > 1
  /\ ~TableHere
  /\ op' = Idle
  /\ UNCHANGED <<tables, free, tlb>>

UnmapPte ==
  /\ op.call = "unmap" /\ op.level = 1
  /\ tables' = [tables EXCEPT ![op.at][IndexAt(op.virt, 1)] = NotThere]
  /\ op' = [op EXCEPT !.level = 0]
  /\ UNCHANGED <<free, tlb>>

VmmStep ==
  \/ Descend \/ AllocTable \/ LinkTable \/ MapRefused \/ WritePte \/ Invlpg
  \/ UnmapDescend \/ UnmapNothing \/ UnmapPte

----------------------------------------------------------------------------
(* The MMU; it caches only what is present. *)
TlbFill(v) ==
  /\ VirtToPhys(v) # 0
  /\ tlb' = [tlb EXCEPT ![v] = VirtToPhys(v)]
  /\ UNCHANGED <<tables, free, op>>

TlbEvict(v) ==
  /\ tlb' = [tlb EXCEPT ![v] = 0]
  /\ UNCHANGED <<tables, free, op>>

Mmu == \E v \in Virt : TlbFill(v) \/ TlbEvict(v)

----------------------------------------------------------------------------
(* The tables a set of tables refers to. *)
Children(fs) ==
  {e.to : e \in {tables[f][x] : f \in fs, x \in Idx} \cap [p : {TRUE}, huge : {FALSE}, to : DOMAIN tables]}

Level3 == Children({Root})
Level2 == Children(Level3)
Level1 == Children(Level2)

Upper == {Root} \cup Level3 \cup Level2

AS == INSTANCE AddressSpace WITH
  Phys <- Nat,
  map  <- [v \in Virt |-> VirtToPhys(v)],
  seen <- tlb,
  call <- IF op = Idle THEN <<>> ELSE <<op.virt, op.phys>>

(* The tables, the frames they are made of and the TLB together are the    *)
(* simple map of AddressSpace: building tables changes no translation, and *)
(* the page a call changed is never seen stale after it returned.          *)
ImplementsAddressSpace == AS!Spec

=============================================================================
