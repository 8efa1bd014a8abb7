-------------------------------- MODULE Pmm --------------------------------
(***************************************************************************)
(* The physical memory manager, src/kernel/memory/pmm.c: a free list whose *)
(* links are kept in the first word of the free frames themselves, built   *)
(* by pmm_init from the boot loader's memory map.                          *)
(*                                                                         *)
(* mem[a] is the 64-bit word at physical address a, which the code reaches *)
(* through the HHDM.  Whoever owns a frame may write anything into it, and *)
(* so into the word that was a link.                                       *)
(***************************************************************************)
EXTENDS Integers, Sequences

CONSTANTS
  PAGE,      \* 0x1000
  MaxAddr,   \* physical addresses are below this one
  KStart,    \* _kernel_start and _kernel_end, page aligned: the linker's
  KEnd,      \*   (virtual) addresses, as the code compares them
  MemMaps    \* the memory maps the boot loader may report

Addr  == 0 .. MaxAddr - 1
Frame == Addr \ {0}

Entry == [type : {"usable", "other"}, base : Addr, length : 1 .. MaxAddr]

Top(e) == e.base + e.length

(* What Limine guarantees of a memory map: usable ranges lie within the    *)
(* address space, do not overlap and never contain the first page.         *)
MemMapOK(m) ==
  /\ m \in Seq(Entry)
  /\ \A i \in DOMAIN m : m[i].type = "usable" =>
       /\ m[i].base >= PAGE
       /\ Top(m[i]) <= MaxAddr
       /\ \A j \in DOMAIN m : m[j].type = "usable" /\ i # j =>
            Top(m[i]) <= m[j].base \/ Top(m[j]) <= m[i].base

ASSUME PmmAssumption ==
  /\ PAGE \in Nat \ {0}
  /\ MaxAddr \in Nat \ {0}
  /\ KStart \in Nat /\ KEnd \in Nat /\ KStart <= KEnd
  /\ \A m \in MemMaps : MemMapOK(m)

VARIABLES
  memmap,          \* the memory map of this boot; fixed
  entry,           \* index of pmm_init's outer loop (from 1)
  page, top,       \* pmm_init's inner loop: page goes up to top
  phase,           \* "entry", "pages": inside pmm_init; "ready": returned
  free_list_head,  \* first frame of the free list, 0 when it is empty
  free_count,
  mem,
  owned,           \* frames pmm_alloc returned and pmm_free did not get back
  found,           \* frames pmm_init has put on the list
  ret              \* what the last pmm_alloc returned

initVars == <<memmap, entry, page, top, phase, found>>
listVars == <<free_list_head, free_count, mem>>
vars == <<initVars, listVars, owned, ret>>

Avail == found \ owned

----------------------------------------------------------------------------
(* x & ~0xFFF and (x + 0xFFF) & ~0xFFF *)
RoundDown(x) == x - (x % PAGE)

(* Mutant of RoundUp: the mask alone, without the addition. *)
RoundUp_Mask(x) == RoundDown(x)

RoundUp(x)   == RoundDown(x + (PAGE - 1))

(* pmm_init's attempt to keep the kernel image out of the list. *)
ClipBase(base, tp) ==
  IF base < KEnd /\ tp > KStart
  THEN LET below == IF base < KStart THEN KEnd ELSE base
       IN IF tp > KEnd /\ below <= KStart THEN KEnd ELSE below
  ELSE base

(* A null response is an empty map: pmm_init returns at once. *)
Init ==
  /\ memmap \in MemMaps
  /\ entry = 1
  /\ page = 0 /\ top = 0
  /\ phase = "entry"
  /\ free_list_head = 0
  /\ free_count = 0
  /\ mem \in [Addr -> {0}]
  /\ owned = {} /\ found = {}
  /\ ret = 0

(* The outer loop: an entry that is not usable, or that nothing is left    *)
(* of, is skipped.                                                         *)
BeginEntry ==
  /\ phase = "entry"
  /\ entry \in DOMAIN memmap
  /\ LET e    == memmap[entry]
         base == ClipBase(e.base, Top(e))
     IN IF e.type = "usable" /\ base < Top(e)
        THEN /\ phase' = "pages"
             /\ page' = RoundUp(base)
             /\ top' = RoundDown(Top(e))
             /\ UNCHANGED entry
        ELSE /\ entry' = entry + 1
             /\ UNCHANGED <<phase, page, top>>
  /\ UNCHANGED <<memmap, found, listVars, owned, ret>>

(* Mutant of Push: the head is assigned before the link is stored. *)
Push_HeadFirst(p) ==
  /\ mem' = [mem EXCEPT ![p] = p]
  /\ free_list_head' = p
  /\ free_count' = free_count + 1

(* Link a frame in at the head of the list. *)
Push(p) ==
  /\ mem' = [mem EXCEPT ![p] = free_list_head]
  /\ free_list_head' = p
  /\ free_count' = free_count + 1

(* The inner loop. *)
PushPage ==
  /\ phase = "pages"
  /\ page < top
  /\ Push(page)
  /\ found' = found \cup {page}
  /\ page' = page + PAGE
  /\ UNCHANGED <<memmap, entry, top, phase, owned, ret>>

EndEntry ==
  /\ phase = "pages"
  /\ page >= top
  /\ phase' = "entry"
  /\ entry' = entry + 1
  /\ UNCHANGED <<memmap, page, top, found, listVars, owned, ret>>

InitReturns ==
  /\ phase = "entry"
  /\ entry \notin DOMAIN memmap
  /\ phase' = "ready"
  /\ UNCHANGED <<memmap, entry, page, top, found, listVars, owned, ret>>

----------------------------------------------------------------------------
(* Mutant of PmmAlloc: the page to return is read after the head has been  *)
(* advanced.                                                               *)
PmmAlloc_HeadFirst ==
  /\ phase = "ready"
  /\ free_list_head # 0
  /\ ret' = mem[free_list_head]
  /\ free_list_head' = mem[free_list_head]
  /\ free_count' = free_count - 1
  /\ owned' = owned \cup ({mem[free_list_head]} \ {0})
  /\ UNCHANGED <<initVars, mem>>

(* pmm_alloc on a list that is not empty, and on an empty one. *)
PmmAlloc ==
  /\ phase = "ready"
  /\ free_list_head # 0
  /\ ret' = free_list_head
  /\ free_list_head' = mem[free_list_head]
  /\ free_count' = free_count - 1
  /\ owned' = owned \cup {free_list_head}
  /\ UNCHANGED <<initVars, mem>>

PmmAllocFails ==
  /\ phase = "ready"
  /\ free_list_head = 0
  /\ ret' = 0
  /\ UNCHANGED <<initVars, listVars, owned>>

(* pmm_free of a frame by its owner; pmm_free(0) does nothing.  The code   *)
(* has no defence against a second free of the same frame.                 *)
PmmFree(p) ==
  /\ phase = "ready"
  /\ p \in owned
  /\ Push(p)
  /\ owned' = owned \ {p}
  /\ UNCHANGED <<initVars, ret>>

(* The owner of a frame writes to its first word. *)
OwnerWrites(p, v) ==
  /\ p \in owned
  /\ mem' = [mem EXCEPT ![p] = v]
  /\ UNCHANGED <<initVars, free_list_head, free_count, owned, ret>>

Next ==
  \/ BeginEntry \/ PushPage \/ EndEntry \/ InitReturns
  \/ PmmAlloc \/ PmmAllocFails
  \/ \E p \in Frame : PmmFree(p)
  \/ \E p \in Frame, v \in Addr : OwnerWrites(p, v)

Spec == Init /\ [][Next]_vars

----------------------------------------------------------------------------
(* Every variable has its type. *)
TypeOK ==
  /\ memmap \in MemMaps
  /\ entry \in Nat \ {0}
  /\ page \in Nat /\ top \in Nat
  /\ phase \in {"entry", "pages", "ready"}
  /\ free_list_head \in Addr
  /\ free_count \in Nat
  /\ mem \in [Addr -> Addr]
  /\ owned \in SUBSET Frame /\ found \in SUBSET Frame
  /\ ret \in Addr

(* pos numbers the frames of the list from its end: the head has number    *)
(* free_count, every link leads to the frame numbered one less and the     *)
(* last one is 0.                                                          *)
Numbers(pos) ==
  /\ \A f, g \in Avail : pos[f] = pos[g] => f = g
  /\ \A n \in 1 .. free_count : \E f \in Avail : pos[f] = n
  /\ free_count = 0 => free_list_head = 0
  /\ free_count > 0 => free_list_head \in Avail /\ pos[free_list_head] = free_count
  /\ \A f \in Avail : pos[f] = 1 => mem[f] = 0
  /\ \A f \in Avail : pos[f] > 1 => mem[f] \in Avail /\ pos[mem[f]] = pos[f] - 1

(* The list is whole: following the links from free_list_head visits every *)
(* frame that is not handed out exactly once, in free_count steps, and     *)
(* ends at 0, whatever the owners of the other frames wrote into them.     *)
FreeListWhole == \E pos \in [Avail -> 1 .. free_count] : Numbers(pos)

(* The whole pages inside the usable ranges. *)
UsablePages ==
  {p \in Frame : /\ p % PAGE = 0
                 /\ \E i \in DOMAIN memmap :
                      /\ memmap[i].type = "usable"
                      /\ memmap[i].base <= p /\ p + PAGE <= Top(memmap[i])}

(* pmm_init puts exactly the whole usable pages on the list: none is lost  *)
(* at the edges of an unaligned range and none sticks out of one.          *)
InitFindsUsable == phase = "ready" => found = UsablePages

FA == INSTANCE FrameAllocator WITH avail <- Avail

(* The free list implements the pool of frames: no frame is handed to two  *)
(* owners, and pmm_alloc returns 0 only when every frame is handed out.    *)
ImplementsPool == FA!Spec

=============================================================================
