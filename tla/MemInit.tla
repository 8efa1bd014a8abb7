------------------------------ MODULE MemInit ------------------------------
(***************************************************************************)
(* The part of kmain that changes the address space, over Vmm: apic_init   *)
(* with its own tables and no pmm, fb_init and heap_init; then the calls   *)
(* of vmm_map_page and vmm_unmap_page that others make for other pages.    *)
(***************************************************************************)
EXTENDS Vmm

CONSTANTS
  PtPool,     \* frames of pt_pool, three tables in .bss
  ApicPage,   \* 0xFFFFFFFFFEE00000
  ApicPhys,   \* the frame of the local APIC's registers
  FbPages,    \* pages from 0xFFFFFFFF82000000 that hold the framebuffer
  FbPhys,     \* its first frame
  HeapPages,  \* pages from 0xFFFFFFFF81000000, all below one PT
  Pools,      \* free lists pmm_init may leave
  UserPages   \* pages that are mapped and unmapped after boot

Distinct(list) == \A m, n \in DOMAIN list : list[m] = list[n] => m = n

Apart(s, t) == s \cap t = {}

(* The frames of the boot loader's tables, of the pmm and of pt_pool are   *)
(* different ones; the pages of the three users are, too.  No large page   *)
(* lies where the framebuffer and the heap go.                             *)
ASSUME MemInitAssumption ==
  /\ Pool \in Seq(Nat \ {0}) /\ PtPool \in Seq(Nat \ {0}) /\ Distinct(PtPool)
  /\ Len(PtPool) = 3 /\ Apart(Members(Pool), Members(PtPool))
  /\ \A list \in Pools : list \in Seq(Members(Pool)) /\ Distinct(list)
  /\ ApicPage \in Virt /\ UserPages \subseteq Virt
  /\ FbPages \in Seq(Virt) /\ HeapPages \in Seq(Virt) /\ Distinct(FbPages) /\ Distinct(HeapPages)
  /\ Apart(Members(FbPages), Members(HeapPages)) /\ ApicPage \notin Members(FbPages) \cup Members(HeapPages)
  /\ Apart(UserPages, {ApicPage} \cup Members(FbPages) \cup Members(HeapPages))
  /\ Len(HeapPages) >= 2
  /\ \A v, w \in Members(HeapPages) : v[1] = w[1] /\ v[2] = w[2] /\ v[3] = w[3]
  /\ {ApicPhys, FbPhys} \subseteq Nat \ {0}
  /\ \A b \in BootTables :
       /\ Apart(DOMAIN b, Members(Pool) \cup Members(PtPool) \cup {0})
       /\ \A v \in Members(FbPages) \cup Members(HeapPages) : ~CoveredBy(b, v)

VARIABLES
  pc, i,         \* place in kmain and loop counter
  pt_pool_idx,
  lint0_at,      \* the frame apic_init wrote LINT0 to; 0 if it gave up
  fb_ptr, heap_head,   \* set
  heap_phys      \* frames heap_init took

initVars == <<pc, i, pt_pool_idx, lint0_at, fb_ptr, heap_head, heap_phys>>

Start ==
  /\ \E b \in BootTables :
       tables = [f \in DOMAIN b \cup Members(Pool) \cup Members(PtPool) |->
                   IF f \in DOMAIN b THEN b[f]
                   ELSE IF f \in Members(PtPool) THEN EmptyTable ELSE Garbage]
  /\ free \in Pools
  /\ tlb = [v \in Virt |-> 0]
  /\ op = Idle
  /\ pc = "apic" /\ i = 0 /\ pt_pool_idx = 0 /\ lint0_at = 0
  /\ fb_ptr = FALSE /\ heap_head = FALSE /\ heap_phys = <<>>

----------------------------------------------------------------------------
(* apic_init *)
ApicCall ==
  /\ pc = "apic" /\ op = Idle
  /\ op' = [Idle EXCEPT !.call = "apic", !.virt = ApicPage, !.phys = ApicPhys]
  /\ UNCHANGED <<tables, free, tlb, initVars>>

HugeHere == EntryHere.p /\ EntryHere.huge

ApicWalks == op.call = "apic" /\ op.level > 1 /\ op.new = 0

ApicDescend ==
  /\ ApicWalks /\ TableHere
  /\ op' = [op EXCEPT !.level = @ - 1, !.at = EntryHere.to]
  /\ UNCHANGED <<tables, free, tlb, initVars>>

PoolLeft == pt_pool_idx < Len(PtPool)
PoolTable == PtPool[pt_pool_idx + 1]

(* Enter a table of pt_pool, then clear it. *)
ApicLink ==
  /\ ApicWalks /\ ~EntryHere.p /\ PoolLeft
  /\ pt_pool_idx' = pt_pool_idx + 1
  /\ tables' = [tables EXCEPT ![op.at][IndexAt(op.virt, op.level)] = Entry(PoolTable)]
  /\ op' = [op EXCEPT !.new = PoolTable]
  /\ UNCHANGED <<free, tlb, pc, i, lint0_at, fb_ptr, heap_head, heap_phys>>

ApicClear ==
  /\ op.call = "apic" /\ op.new # 0
  /\ tables' = [tables EXCEPT ![op.new] = EmptyTable]
  /\ op' = [op EXCEPT !.level = @ - 1, !.at = op.new, !.new = 0]
  /\ UNCHANGED <<free, tlb, initVars>>

SplitTable(base) == [x \in Idx |-> Entry(base + x)]

(* A 2 MB page is replaced by a table of its 4 KB pages. *)
ApicSplit ==
  /\ ApicWalks /\ op.level = 2 /\ HugeHere /\ PoolLeft
  /\ pt_pool_idx' = pt_pool_idx + 1
  /\ tables' = [tables EXCEPT ![PoolTable] = SplitTable(EntryHere.to),
                              ![op.at][IndexAt(op.virt, 2)] = Entry(PoolTable)]
  /\ op' = [op EXCEPT !.level = 1, !.at = PoolTable]
  /\ UNCHANGED <<free, tlb, pc, i, lint0_at, fb_ptr, heap_head, heap_phys>>

(* A 1 GB page, or no table left. *)
ApicFails ==
  /\ ApicWalks
  /\ \/ op.level = 3 /\ HugeHere
     \/ ~TableHere /\ ~PoolLeft
  /\ op' = Idle /\ pc' = "fb"
  /\ UNCHANGED <<tables, free, tlb, i, pt_pool_idx, lint0_at, fb_ptr, heap_head, heap_phys>>

(* Mutant of ApicPte: an entry that is there is kept. *)
ApicPte_IfAbsent ==
  /\ op.call = "apic" /\ op.level = 1
  /\ tables' = IF EntryHere.p THEN tables
               ELSE [tables EXCEPT ![op.at][IndexAt(op.virt, 1)] = Entry(op.phys)]
  /\ op' = [op EXCEPT !.level = 0]
  /\ UNCHANGED <<free, tlb, initVars>>

ApicPte ==
  /\ op.call = "apic" /\ op.level = 1
  /\ tables' = [tables EXCEPT ![op.at][IndexAt(op.virt, 1)] = Entry(op.phys)]
  /\ op' = [op EXCEPT !.level = 0]
  /\ UNCHANGED <<free, tlb, initVars>>

ApicFlush ==
  /\ op.call = "apic" /\ op.level = 0
  /\ tlb' = [v \in Virt |-> 0]
  /\ op' = Idle /\ pc' = "lint0"
  /\ UNCHANGED <<tables, free, i, pt_pool_idx, lint0_at, fb_ptr, heap_head, heap_phys>>

(* The write to LINT0, where the MMU takes it. *)
WriteLint0 ==
  /\ pc = "lint0"
  /\ lint0_at' = IF tlb[ApicPage] # 0 THEN tlb[ApicPage] ELSE VirtToPhys(ApicPage)
  /\ pc' = "fb"
  /\ UNCHANGED <<tables, free, tlb, op, i, pt_pool_idx, fb_ptr, heap_head, heap_phys>>

----------------------------------------------------------------------------
(* fb_init, if the boot loader reports a framebuffer. *)
FbMapNext ==
  /\ pc = "fb" /\ i < Len(FbPages)
  /\ MapCall(FbPages[i + 1], FbPhys + i)
  /\ i' = i + 1
  /\ UNCHANGED <<pc, pt_pool_idx, lint0_at, fb_ptr, heap_head, heap_phys>>

FbReady ==
  /\ pc = "fb" /\ op = Idle
  /\ i = 0 \/ i = Len(FbPages)
  /\ fb_ptr' = (i > 0)
  /\ pc' = "heap" /\ i' = 0
  /\ UNCHANGED <<tables, free, tlb, op, pt_pool_idx, lint0_at, heap_head, heap_phys>>

(* heap_init: a frame, then its page; it does not learn whether the page   *)
(* was mapped.                                                             *)
HeapMapNext ==
  /\ pc = "heap" /\ op = Idle /\ i < Len(HeapPages)
  /\ free # <<>> /\ free' = Tail(free)
  /\ heap_phys' = Append(heap_phys, Head(free))
  /\ op' = [Idle EXCEPT !.call = "map", !.virt = HeapPages[i + 1], !.phys = Head(free)]
  /\ i' = i + 1
  /\ UNCHANGED <<tables, tlb, pc, pt_pool_idx, lint0_at, fb_ptr, heap_head>>

(* Mutant of HeapGivesUp: heap_head is set in any case. *)
HeapGivesUp_Anyway ==
  /\ pc = "heap" /\ op = Idle /\ i < Len(HeapPages)
  /\ free = <<>>
  /\ pc' = "done" /\ heap_head' = TRUE
  /\ UNCHANGED <<tables, free, tlb, op, i, pt_pool_idx, lint0_at, fb_ptr, heap_phys>>

HeapGivesUp ==
  /\ pc = "heap" /\ op = Idle /\ i < Len(HeapPages)
  /\ free = <<>>
  /\ pc' = "done"
  /\ UNCHANGED <<tables, free, tlb, op, i, pt_pool_idx, lint0_at, fb_ptr, heap_head, heap_phys>>

HeapReady ==
  /\ pc = "heap" /\ op = Idle /\ i = Len(HeapPages)
  /\ heap_head' = TRUE /\ pc' = "done"
  /\ UNCHANGED <<tables, free, tlb, op, i, pt_pool_idx, lint0_at, fb_ptr, heap_phys>>

BootStep ==
  \/ ApicCall \/ ApicDescend \/ ApicLink \/ ApicClear \/ ApicSplit \/ ApicFails
  \/ ApicPte \/ ApicFlush \/ WriteLint0
  \/ FbMapNext \/ FbReady \/ HeapMapNext \/ HeapGivesUp \/ HeapReady

UserCall ==
  /\ pc = "done"
  /\ \E v \in UserPages : UnmapCall(v) \/ \E p \in Phys : MapCall(v, p)
  /\ UNCHANGED initVars

InitNext ==
  \/ BootStep
  \/ VmmStep /\ UNCHANGED initVars
  \/ UserCall
  \/ Mmu /\ UNCHANGED initVars

InitSpec == Start /\ [][InitNext]_<<vars, initVars>>

----------------------------------------------------------------------------
(* Tables form a tree: no frame serves in two places, at two levels, as a  *)
(* page of the heap or while it is free, so that clearing one or handing   *)
(* it out cannot change a page elsewhere.  And a frame that vmm_map_page   *)
(* made a table stays one: a call that runs out of frames half way leaves  *)
(* tables that later calls use.                                            *)
TablesAreTree ==
  /\ (Upper \cup Level1) \cap (Members(free) \cup Members(heap_phys)) = {}
  /\ op.call = "map" => op.new \notin Upper \cup Level1
  /\ \A c \in (Level3 \cup Level2 \cup Level1) :
       Cardinality({q \in Upper \X Idx : tables[q[1]][q[2]] = Entry(c)}) = 1
  /\ \A f \in Members(Pool) : tables[f] # Garbage => f \in Upper \cup Level1 \cup {op.new}

(* If apic_init wrote LINT0 it reached the local APIC, not the frame that  *)
(* was there before; it gives up only over a 1 GB page: pt_pool, with one  *)
(* table per level, is never too small.                                    *)
Lint0ReachesApic ==
  pc \in {"fb", "heap", "done"} => lint0_at = ApicPhys \/ (lint0_at = 0 /\ CoveredBy(tables, ApicPage))

(* A heap that is announced can be used: heap_init and fb_init do not see  *)
(* a page that could not be mapped, yet every page of the heap has a frame *)
(* of its own that is not free, and all of the framebuffer is mapped too.  *)
HeapUsable ==
  heap_head =>
    /\ Len(heap_phys) = Len(HeapPages)
    /\ \A k \in DOMAIN HeapPages : VirtToPhys(HeapPages[k]) = heap_phys[k]
    /\ Cardinality(Members(heap_phys)) = Len(HeapPages)
    /\ Members(heap_phys) \cap Members(free) = {}
    /\ fb_ptr => \A k \in DOMAIN FbPages : VirtToPhys(FbPages[k]) = FbPhys + k - 1

=============================================================================
