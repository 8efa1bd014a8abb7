----------------------------- MODULE PmmProofs -----------------------------
(***************************************************************************)
(* Proofs about Pmm, for every page size, address space and memory map     *)
(* that keeps the boot loader's guarantees: the free list stays whole, and *)
(* so the allocator implements the pool of frames of FrameAllocator.       *)
(*                                                                         *)
(* pmm_init must not put a frame on the list twice.  Scanned says where    *)
(* the frames found so far come from: ranges before the current one, or    *)
(* the part of the current one below page; the ranges being disjoint, page *)
(* is new.  FoundInv is the converse: no whole page of a range that was    *)
(* passed is missing.                                                      *)
(***************************************************************************)
EXTENDS Pmm, TLAPS

InRange(f, i) ==
  /\ memmap[i].type = "usable"
  /\ memmap[i].base <= f /\ f < Top(memmap[i])

(* The position of pmm_init's loops. *)
LoopPosition ==
  phase = "pages" =>
    /\ entry \in DOMAIN memmap
    /\ memmap[entry].type = "usable"
    /\ memmap[entry].base <= page
    /\ top <= Top(memmap[entry])

(* Where the frames on the list come from. *)
Scanned ==
  \A f \in found :
    \E i \in DOMAIN memmap :
      /\ InRange(f, i)
      /\ i < entry \/ (i = entry /\ phase = "pages" /\ f < page)

Ownership ==
  /\ owned \subseteq found
  /\ phase # "ready" => owned = {}

PmmInv ==
  /\ TypeOK
  /\ LoopPosition
  /\ Scanned
  /\ Ownership
  /\ FreeListWhole

----------------------------------------------------------------------------
(* x & ~0xFFF is at most x, and rounding up at least x. *)
LEMMA Rounding ==
  ASSUME NEW x \in Nat
  PROVE  /\ RoundDown(x) \in Nat /\ RoundDown(x) <= x
         /\ RoundUp(x) \in Nat /\ x <= RoundUp(x)
<1>1. \A y \in Nat : y % PAGE \in 0 .. PAGE - 1 /\ y % PAGE <= y
  BY PmmAssumption
<1>2. PAGE \in Nat /\ PAGE >= 1 /\ x + (PAGE - 1) \in Nat
  BY PmmAssumption
<1> QED
  BY <1>1, <1>2 DEF RoundDown, RoundUp

(* Keeping the kernel out of a range only ever moves its start up. *)
LEMMA Clipping ==
  ASSUME NEW base \in Nat, NEW tp \in Nat
  PROVE  ClipBase(base, tp) \in Nat /\ base <= ClipBase(base, tp)
  BY PmmAssumption DEF ClipBase

(* What the boot loader guarantees of the entry pmm_init looks at. *)
LEMMA EntryFacts ==
  ASSUME TypeOK, NEW i \in DOMAIN memmap
  PROVE  /\ i \in Nat
         /\ memmap[i].base \in Nat /\ Top(memmap[i]) \in Nat
         /\ memmap[i].type = "usable" =>
              /\ memmap[i].base >= PAGE
              /\ Top(memmap[i]) <= MaxAddr
              /\ \A j \in DOMAIN memmap : memmap[j].type = "usable" /\ i # j =>
                   Top(memmap[i]) <= memmap[j].base \/ Top(memmap[j]) <= memmap[i].base
<1>1. MemMapOK(memmap) /\ memmap \in Seq(Entry)
  BY PmmAssumption DEF TypeOK, MemMapOK
<1>2. memmap[i] \in Entry /\ i \in Nat
  BY <1>1
<1>3. memmap[i].base \in Nat /\ Top(memmap[i]) \in Nat
  BY <1>2, PmmAssumption DEF Entry, Top, Addr
<1> QED
  BY <1>1, <1>2, <1>3 DEF MemMapOK

(* The page the inner loop is about to link in is a frame, and new. *)
LEMMA PageIsNew ==
  ASSUME PmmInv, phase = "pages", page < top
  PROVE  page \in Frame /\ page \notin found
<1>1. /\ entry \in DOMAIN memmap
      /\ memmap[entry].type = "usable"
      /\ memmap[entry].base <= page
      /\ page < Top(memmap[entry])
      /\ page \in Nat
  <2>1. page \in Nat /\ top \in Nat /\ entry \in DOMAIN memmap /\ top <= Top(memmap[entry])
    BY DEF PmmInv, TypeOK, LoopPosition
  <2>2. Top(memmap[entry]) \in Nat
    BY <2>1, EntryFacts DEF PmmInv
  <2> QED
    BY <2>1, <2>2 DEF PmmInv, LoopPosition
<1>2. page \in Frame
  <2>1. memmap[entry].base >= PAGE /\ Top(memmap[entry]) <= MaxAddr
        /\ memmap[entry].base \in Nat /\ Top(memmap[entry]) \in Nat
    BY <1>1, EntryFacts DEF PmmInv
  <2> QED
    BY <1>1, <2>1, PmmAssumption DEF Frame, Addr
<1>3. ASSUME page \in found PROVE FALSE
  <2>1. PICK i \in DOMAIN memmap : InRange(page, i) /\ i # entry
    BY <1>3, <1>1 DEF PmmInv, Scanned, TypeOK
  <2>2. Top(memmap[i]) <= memmap[entry].base \/ Top(memmap[entry]) <= memmap[i].base
    BY <1>1, <2>1, EntryFacts DEF PmmInv, InRange
  <2>3. /\ memmap[i].base \in Nat /\ Top(memmap[i]) \in Nat
        /\ memmap[entry].base \in Nat /\ Top(memmap[entry]) \in Nat
    BY <1>1, EntryFacts DEF PmmInv
  <2> QED
    BY <1>1, <2>1, <2>2, <2>3 DEF InRange
<1> QED
  BY <1>2, <1>3

----------------------------------------------------------------------------
(* Linking a new frame in at the head numbers it one past the old head. *)
LEMMA PushKeepsWhole ==
  ASSUME TypeOK, FreeListWhole, NEW p \in Frame, p \notin Avail, Push(p),
         Avail' = Avail \cup {p}
  PROVE  FreeListWhole'
<1>1. PICK pos \in [Avail -> 1 .. free_count] : Numbers(pos)
  BY DEF FreeListWhole
<1>2. /\ free_count \in Nat /\ free_count' = free_count + 1
      /\ free_list_head' = p
      /\ mem'[p] = free_list_head
      /\ \A f \in Avail : mem'[f] = mem[f]
      /\ Avail \subseteq Addr /\ p \in Addr
  BY DEF TypeOK, Push, Avail, Frame
<1>3. PICK new \in [Avail' -> 1 .. free_count'] :
        /\ new[p] = free_count + 1
        /\ \A f \in Avail : new[f] = pos[f] /\ pos[f] \in 1 .. free_count
  <2> DEFINE extended == [f \in Avail' |-> IF f = p THEN free_count + 1 ELSE pos[f]]
  <2>1. /\ extended \in [Avail' -> 1 .. free_count']
        /\ extended[p] = free_count + 1
        /\ \A f \in Avail : extended[f] = pos[f] /\ pos[f] \in 1 .. free_count
    BY <1>1, <1>2
  <2> QED
    BY <2>1
<1>4. \A f, g \in Avail' : new[f] = new[g] => f = g
  BY <1>1, <1>2, <1>3 DEF Numbers
<1>5. \A n \in 1 .. free_count' : \E f \in Avail' : new[f] = n
  <2> SUFFICES ASSUME NEW n \in 1 .. free_count' PROVE \E f \in Avail' : new[f] = n
    OBVIOUS
  <2>1. CASE n = free_count + 1
    BY <2>1, <1>3
  <2>2. CASE n # free_count + 1
    <3>1. n \in 1 .. free_count
      BY <2>2, <1>2
    <3> QED
      BY <3>1, <1>1, <1>3 DEF Numbers
  <2> QED
    BY <2>1, <2>2
<1>6. free_list_head' \in Avail' /\ new[free_list_head'] = free_count' /\ free_count' > 0
  BY <1>2, <1>3
<1>7. \A f \in Avail' : /\ new[f] = 1 => mem'[f] = 0
                        /\ new[f] > 1 => mem'[f] \in Avail' /\ new[mem'[f]] = new[f] - 1
  <2>1. /\ new[p] = 1 => mem'[p] = 0
        /\ new[p] > 1 => mem'[p] \in Avail' /\ new[mem'[p]] = new[p] - 1
    BY <1>1, <1>2, <1>3 DEF Numbers
  <2>2. ASSUME NEW f \in Avail
        PROVE  /\ new[f] = 1 => mem'[f] = 0
               /\ new[f] > 1 => mem'[f] \in Avail' /\ new[mem'[f]] = new[f] - 1
    BY <1>1, <1>2, <1>3 DEF Numbers
  <2> QED
    BY <2>1, <2>2
<1>8. Numbers(new)'
  BY <1>4, <1>5, <1>6, <1>7 DEF Numbers
<1> QED
  BY <1>3, <1>8 DEF FreeListWhole

(* The head of a list that is not empty is a frame of the pool, and an     *)
(* empty list means that the pool is empty.                                *)
LEMMA HeadOfList ==
  ASSUME TypeOK, FreeListWhole
  PROVE  /\ free_list_head # 0 => free_list_head \in Avail /\ free_count > 0
         /\ free_list_head = 0 => free_count = 0 /\ Avail = {}
<1>1. PICK pos \in [Avail -> 1 .. free_count] : Numbers(pos)
  BY DEF FreeListWhole
<1>2. free_count \in Nat /\ 0 \notin Avail
  BY DEF TypeOK, Avail, Frame
<1> QED
  BY <1>1, <1>2 DEF Numbers

(* Taking the head off leaves the rest numbered as it was. *)
LEMMA AllocKeepsWhole ==
  ASSUME TypeOK, FreeListWhole, free_list_head # 0,
         free_list_head' = mem[free_list_head], free_count' = free_count - 1, mem' = mem,
         Avail' = Avail \ {free_list_head}
  PROVE  FreeListWhole'
<1>1. PICK pos \in [Avail -> 1 .. free_count] : Numbers(pos)
  BY DEF FreeListWhole
<1>2. PICK h \in Avail : h = free_list_head
  BY HeadOfList
<1>3. free_count \in Nat /\ free_count > 0 /\ pos[h] = free_count
  BY <1>1, <1>2, HeadOfList DEF TypeOK, Numbers
<1>4. \A f \in Avail' : f \in Avail /\ f # h /\ pos[f] \in 1 .. free_count'
  BY <1>1, <1>2, <1>3 DEF Numbers
<1>5. PICK new \in [Avail' -> 1 .. free_count'] : \A f \in Avail' : new[f] = pos[f]
  <2>1. [f \in Avail' |-> pos[f]] \in [Avail' -> 1 .. free_count']
    BY <1>4
  <2> QED
    BY <2>1
<1>6. \A f, g \in Avail' : new[f] = new[g] => f = g
  BY <1>1, <1>4, <1>5 DEF Numbers
<1>7. \A n \in 1 .. free_count' : \E f \in Avail' : new[f] = n
  <2> SUFFICES ASSUME NEW n \in 1 .. free_count' PROVE \E f \in Avail' : new[f] = n
    OBVIOUS
  <2>1. PICK f \in Avail : pos[f] = n
    BY <1>1, <1>3 DEF Numbers
  <2>2. f # h
    BY <1>3, <2>1
  <2> QED
    BY <1>2, <1>4, <1>5, <2>1, <2>2
<1>8. /\ free_count' = 0 => free_list_head' = 0
      /\ free_count' > 0 => free_list_head' \in Avail' /\ new[free_list_head'] = free_count'
  <2>1. CASE free_count = 1
    BY <1>1, <1>2, <1>3, <2>1 DEF Numbers
  <2>2. CASE free_count > 1
    <3>1. mem[h] \in Avail /\ pos[mem[h]] = free_count - 1 /\ mem[h] # h
      BY <1>1, <1>3, <2>2 DEF Numbers
    <3> QED
      BY <1>2, <1>3, <1>4, <1>5, <2>2, <3>1
  <2> QED
    BY <1>3, <2>1, <2>2
<1>9. \A f \in Avail' : /\ new[f] = 1 => mem'[f] = 0
                        /\ new[f] > 1 => mem'[f] \in Avail' /\ new[mem'[f]] = new[f] - 1
  <2> SUFFICES ASSUME NEW f \in Avail'
               PROVE  /\ new[f] = 1 => mem'[f] = 0
                      /\ new[f] > 1 => mem'[f] \in Avail' /\ new[mem'[f]] = new[f] - 1
    OBVIOUS
  <2>1. f \in Avail /\ new[f] = pos[f] /\ pos[f] \in 1 .. free_count - 1
    BY <1>4, <1>5
  <2>2. CASE new[f] = 1
    <3>1. mem[f] = 0
      BY <1>1, <2>1, <2>2 DEF Numbers
    <3> QED
      BY <2>2, <3>1
  <2>3. CASE new[f] > 1
    <3>1. mem[f] \in Avail /\ pos[mem[f]] = pos[f] - 1
      BY <1>1, <2>1, <2>3 DEF Numbers
    <3>2. mem[f] # h
      BY <1>3, <2>1, <3>1
    <3> QED
      BY <1>2, <1>4, <1>5, <2>1, <2>3, <3>1, <3>2
  <2> QED
    BY <2>1, <2>2, <2>3
<1>10. Numbers(new)'
  BY <1>6, <1>7, <1>8, <1>9 DEF Numbers
<1> QED
  BY <1>5, <1>10 DEF FreeListWhole

(* The list does not depend on anything an owner may write. *)
LEMMA WritesKeepWhole ==
  ASSUME FreeListWhole, UNCHANGED <<free_list_head, free_count, found, owned>>,
         \A f \in Avail : mem'[f] = mem[f]
  PROVE  FreeListWhole'
<1>1. PICK pos \in [Avail -> 1 .. free_count] : Numbers(pos)
  BY DEF FreeListWhole
<1>2. Avail' = Avail
  BY DEF Avail
<1>3. Numbers(pos)'
  BY <1>1, <1>2 DEF Numbers
<1> QED
  BY <1>1, <1>2, <1>3 DEF FreeListWhole

----------------------------------------------------------------------------
LEMMA PmmInvInit == Init => PmmInv
<1> SUFFICES ASSUME Init PROVE PmmInv
  OBVIOUS
<1>1. TypeOK
  BY PmmAssumption DEF Init, TypeOK, Addr, Frame
<1>2. LoopPosition /\ Scanned /\ Ownership
  BY DEF Init, LoopPosition, Scanned, Ownership
<1>3. Avail = {} /\ free_count = 0 /\ free_list_head = 0
  BY DEF Init, Avail
<1>4. FreeListWhole
  <2>1. PICK pos \in [Avail -> 1 .. free_count] : TRUE
    <3>1. [f \in Avail |-> 1] \in [Avail -> 1 .. free_count]
      BY <1>3
    <3> QED
      BY <3>1
  <2>2. Numbers(pos)
    BY <1>3 DEF Numbers
  <2> QED
    BY <2>1, <2>2 DEF FreeListWhole
<1> QED
  BY <1>1, <1>2, <1>4 DEF PmmInv

LEMMA PmmInvBeginEntry ==
  ASSUME PmmInv, BeginEntry
  PROVE  PmmInv'
<1> DEFINE e == memmap[entry]
           b == ClipBase(e.base, Top(e))
<1>1. /\ entry \in DOMAIN memmap /\ entry \in Nat \ {0} /\ phase = "entry"
      /\ UNCHANGED <<memmap, found, free_list_head, free_count, mem, owned, ret>>
  BY DEF PmmInv, TypeOK, BeginEntry, listVars
<1>2. e.base \in Nat /\ Top(e) \in Nat
  BY <1>1, EntryFacts DEF PmmInv
<1>3. b \in Nat /\ e.base <= b
  BY <1>2, Clipping
<1>4. RoundUp(b) \in Nat /\ b <= RoundUp(b) /\ RoundDown(Top(e)) \in Nat /\ RoundDown(Top(e)) <= Top(e)
  BY <1>2, <1>3, Rounding
<1>5. \/ /\ e.type = "usable" /\ phase' = "pages" /\ entry' = entry
         /\ page' = RoundUp(b) /\ top' = RoundDown(Top(e))
      \/ entry' = entry + 1 /\ UNCHANGED <<phase, page, top>>
  BY DEF BeginEntry
<1>6. TypeOK'
  BY <1>1, <1>4, <1>5 DEF PmmInv, TypeOK
<1>7. LoopPosition'
  <2>1. CASE entry' = entry + 1 /\ UNCHANGED <<phase, page, top>>
    BY <1>1, <2>1 DEF LoopPosition
  <2>2. CASE e.type = "usable" /\ phase' = "pages" /\ entry' = entry
             /\ page' = RoundUp(b) /\ top' = RoundDown(Top(e))
    <3>1. e.base <= RoundUp(b)
      BY <1>2, <1>3, <1>4
    <3> QED
      BY <1>1, <1>4, <2>2, <3>1 DEF LoopPosition, Top
  <2> QED
    BY <1>5, <2>1, <2>2
<1>8. Scanned'
  <2> SUFFICES ASSUME NEW f \in found
               PROVE  \E i \in DOMAIN memmap : InRange(f, i) /\ i < entry'
    BY <1>1 DEF Scanned, InRange, Top
  <2>1. PICK i \in DOMAIN memmap : InRange(f, i) /\ i < entry
    BY <1>1 DEF PmmInv, Scanned
  <2>2. i \in Nat
    BY EntryFacts DEF PmmInv
  <2>3. i < entry'
    BY <1>1, <1>5, <2>1, <2>2
  <2> QED
    BY <2>1, <2>3
<1>9. Ownership'
  BY <1>1 DEF PmmInv, Ownership
<1>10. FreeListWhole'
  BY <1>1, WritesKeepWhole DEF PmmInv
<1> QED
  BY <1>6, <1>7, <1>8, <1>9, <1>10 DEF PmmInv

LEMMA PmmInvPushPage ==
  ASSUME PmmInv, PushPage
  PROVE  PmmInv' /\ FA!Discover(page)
<1>1. /\ phase = "pages" /\ page < top
      /\ found' = found \cup {page} /\ page' = page + PAGE /\ Push(page)
      /\ UNCHANGED <<memmap, entry, top, phase, owned, ret>>
      /\ owned = {}
  BY DEF PushPage, PmmInv, Ownership
<1>2. page \in Frame /\ page \notin found
  BY <1>1, PageIsNew
<1>3. page \in Nat /\ PAGE \in Nat /\ PAGE > 0 /\ page \in Addr
  BY <1>2, PmmAssumption DEF PmmInv, TypeOK, Frame
<1>4. TypeOK'
  BY <1>1, <1>2, <1>3 DEF PmmInv, TypeOK, Push
<1>5. LoopPosition'
  <2>1. entry \in DOMAIN memmap
    BY <1>1 DEF PmmInv, LoopPosition
  <2>2. memmap[entry].base \in Nat
    BY <2>1, EntryFacts DEF PmmInv
  <2>3. memmap[entry].base <= page + PAGE
    BY <1>1, <1>3, <2>2 DEF PmmInv, LoopPosition
  <2> QED
    BY <1>1, <2>3 DEF PmmInv, LoopPosition, Top
<1>6. Scanned'
  <2> SUFFICES ASSUME NEW f \in found'
               PROVE  \E i \in DOMAIN memmap :
                        InRange(f, i) /\ (i < entry \/ (i = entry /\ f < page + PAGE))
    BY <1>1 DEF Scanned, InRange, Top
  <2>1. CASE f = page
    <3>1. entry \in DOMAIN memmap /\ top \in Nat
      BY <1>1 DEF PmmInv, LoopPosition, TypeOK
    <3>2. Top(memmap[entry]) \in Nat
      BY <3>1, EntryFacts DEF PmmInv
    <3>3. InRange(page, entry)
      BY <1>1, <1>3, <3>1, <3>2 DEF PmmInv, LoopPosition, InRange
    <3>4. page < page + PAGE
      BY <1>3
    <3> QED
      BY <2>1, <3>1, <3>3, <3>4
  <2>2. CASE f \in found
    <3>1. PICK i \in DOMAIN memmap : InRange(f, i) /\ (i < entry \/ (i = entry /\ f < page))
      BY <2>2 DEF PmmInv, Scanned
    <3>2. f \in Nat
      BY <2>2, PmmAssumption DEF PmmInv, TypeOK, Frame, Addr
    <3>3. f < page => f < page + PAGE
      BY <1>3, <3>2
    <3> QED
      BY <3>1, <3>3
  <2> QED
    BY <1>1, <2>1, <2>2
<1>7. Ownership'
  BY <1>1 DEF PmmInv, Ownership
<1>8. Avail' = Avail \cup {page} /\ page \notin Avail
  BY <1>1, <1>2 DEF Avail
<1>9. FreeListWhole'
  BY <1>1, <1>2, <1>8, PushKeepsWhole DEF PmmInv
<1>10. FA!Discover(page)
  BY <1>1, <1>2, <1>8 DEF FA!Discover
<1> QED
  BY <1>4, <1>5, <1>6, <1>7, <1>9, <1>10 DEF PmmInv

LEMMA PmmInvEndEntry ==
  ASSUME PmmInv, EndEntry \/ InitReturns
  PROVE  PmmInv'
<1>1. /\ UNCHANGED <<memmap, page, top, found, free_list_head, free_count, mem, owned, ret>>
      /\ entry \in Nat \ {0} /\ entry' \in {entry, entry + 1}
      /\ phase' \in {"entry", "ready"}
      /\ phase = "pages" => entry' = entry + 1
      /\ phase # "ready"
  BY DEF PmmInv, TypeOK, EndEntry, InitReturns, listVars
<1>2. TypeOK' /\ LoopPosition' /\ Ownership'
  BY <1>1 DEF PmmInv, TypeOK, LoopPosition, Ownership
<1>3. Scanned'
  <2> SUFFICES ASSUME NEW f \in found
               PROVE  \E i \in DOMAIN memmap : InRange(f, i) /\ i < entry'
    BY <1>1 DEF Scanned, InRange, Top
  <2>1. PICK i \in DOMAIN memmap :
          InRange(f, i) /\ (i < entry \/ (i = entry /\ phase = "pages"))
    BY DEF PmmInv, Scanned
  <2>2. i \in Nat
    BY EntryFacts DEF PmmInv
  <2>3. i < entry'
    BY <1>1, <2>1, <2>2
  <2> QED
    BY <2>1, <2>3
<1>4. FreeListWhole'
  BY <1>1, WritesKeepWhole DEF PmmInv
<1> QED
  BY <1>2, <1>3, <1>4 DEF PmmInv

----------------------------------------------------------------------------
(* Once pmm_init has returned, its loop variables are history. *)
LEMMA InitVarsKeep ==
  ASSUME PmmInv, UNCHANGED initVars
  PROVE  LoopPosition' /\ Scanned'
  BY DEF initVars, PmmInv, LoopPosition, Scanned, InRange, Top

LEMMA PmmInvAlloc ==
  ASSUME PmmInv, PmmAlloc
  PROVE  PmmInv' /\ FA!Alloc(free_list_head)
<1>1. /\ phase = "ready" /\ free_list_head # 0
      /\ ret' = free_list_head /\ free_list_head' = mem[free_list_head]
      /\ free_count' = free_count - 1 /\ mem' = mem
      /\ owned' = owned \cup {free_list_head}
      /\ UNCHANGED initVars
      /\ UNCHANGED <<memmap, entry, page, top, phase, found>>
  BY DEF PmmAlloc, initVars
<1>2. free_list_head \in Avail /\ free_count > 0
  BY <1>1, HeadOfList DEF PmmInv
<1>3. free_list_head \in found /\ free_list_head \in Frame
  BY <1>2 DEF Avail, PmmInv, TypeOK
<1>4. TypeOK'
  BY <1>1, <1>2, <1>3 DEF PmmInv, TypeOK
<1>5. Ownership'
  BY <1>1, <1>3 DEF PmmInv, Ownership
<1>6. Avail' = Avail \ {free_list_head}
  BY <1>1 DEF Avail
<1>7. FreeListWhole'
  BY <1>1, <1>6, AllocKeepsWhole DEF PmmInv
<1>8. FA!Alloc(free_list_head)
  BY <1>1, <1>2, <1>6 DEF FA!Alloc
<1> QED
  BY <1>1, <1>4, <1>5, <1>7, <1>8, InitVarsKeep DEF PmmInv

LEMMA PmmInvAllocFails ==
  ASSUME PmmInv, PmmAllocFails
  PROVE  PmmInv' /\ FA!AllocFails
<1>1. /\ free_list_head = 0 /\ ret' = 0
      /\ UNCHANGED initVars
      /\ UNCHANGED <<memmap, entry, page, top, phase, found>>
      /\ UNCHANGED <<free_list_head, free_count, mem, owned>>
  BY DEF PmmAllocFails, initVars, listVars
<1>2. TypeOK' /\ Ownership'
  BY <1>1, PmmAssumption DEF PmmInv, TypeOK, Ownership, Addr
<1>3. FreeListWhole'
  BY <1>1, WritesKeepWhole DEF PmmInv
<1>4. Avail = {} /\ Avail' = Avail
  BY <1>1, HeadOfList DEF PmmInv, Avail
<1>5. FA!AllocFails
  BY <1>1, <1>4 DEF FA!AllocFails
<1> QED
  BY <1>1, <1>2, <1>3, <1>5, InitVarsKeep DEF PmmInv

LEMMA PmmInvFree ==
  ASSUME PmmInv, NEW p \in Frame, PmmFree(p)
  PROVE  PmmInv' /\ FA!Free(p)
<1>1. /\ phase = "ready" /\ p \in owned /\ Push(p)
      /\ owned' = owned \ {p} /\ ret' = ret
      /\ UNCHANGED initVars
      /\ UNCHANGED <<memmap, entry, page, top, phase, found>>
  BY DEF PmmFree, initVars
<1>2. TypeOK'
  BY <1>1 DEF PmmInv, TypeOK, Push, Frame
<1>3. Ownership'
  BY <1>1 DEF PmmInv, Ownership
<1>4. Avail' = Avail \cup {p} /\ p \notin Avail
  BY <1>1 DEF PmmInv, Ownership, Avail
<1>5. FreeListWhole'
  BY <1>1, <1>4, PushKeepsWhole DEF PmmInv
<1>6. FA!Free(p)
  BY <1>1, <1>4 DEF FA!Free
<1> QED
  BY <1>1, <1>2, <1>3, <1>5, <1>6, InitVarsKeep DEF PmmInv

LEMMA PmmInvOwnerWrites ==
  ASSUME PmmInv, NEW p \in Frame, NEW v \in Addr, OwnerWrites(p, v)
  PROVE  PmmInv' /\ UNCHANGED FA!vars
<1>1. /\ p \in owned /\ mem' = [mem EXCEPT ![p] = v]
      /\ UNCHANGED initVars
      /\ UNCHANGED <<memmap, entry, page, top, phase, found>>
      /\ UNCHANGED <<free_list_head, free_count, owned, ret>>
  BY DEF OwnerWrites, initVars
<1>2. TypeOK' /\ Ownership'
  BY <1>1 DEF PmmInv, TypeOK, Ownership
<1>3. \A f \in Avail : mem'[f] = mem[f]
  BY <1>1 DEF PmmInv, TypeOK, Avail, Frame
<1>4. FreeListWhole'
  BY <1>1, <1>3, WritesKeepWhole DEF PmmInv
<1>5. UNCHANGED FA!vars
  BY <1>1 DEF FA!vars, Avail
<1> QED
  BY <1>1, <1>2, <1>4, <1>5, InitVarsKeep DEF PmmInv

(* Every step keeps the invariant and is a step of the pool. *)
LEMMA PmmStep == PmmInv /\ [Next]_vars => PmmInv' /\ [FA!Next]_(FA!vars)
<1> SUFFICES ASSUME PmmInv, [Next]_vars PROVE PmmInv' /\ [FA!Next]_(FA!vars)
  OBVIOUS
<1>1. CASE BeginEntry
  <2>1. UNCHANGED FA!vars
    BY <1>1 DEF BeginEntry, FA!vars, Avail
  <2> QED
    BY <1>1, <2>1, PmmInvBeginEntry
<1>2. CASE PushPage
  <2>1. page \in Frame
    BY <1>2, PageIsNew DEF PushPage
  <2> QED
    BY <1>2, <2>1, PmmInvPushPage DEF FA!Next
<1>3. CASE EndEntry \/ InitReturns
  <2>1. UNCHANGED FA!vars
    BY <1>3 DEF EndEntry, InitReturns, FA!vars, Avail
  <2> QED
    BY <1>3, <2>1, PmmInvEndEntry
<1>4. CASE PmmAlloc
  <2>1. free_list_head \in Frame
    BY <1>4 DEF PmmAlloc, PmmInv, TypeOK, Frame
  <2> QED
    BY <1>4, <2>1, PmmInvAlloc DEF FA!Next
<1>5. CASE PmmAllocFails
  BY <1>5, PmmInvAllocFails DEF FA!Next
<1>6. ASSUME NEW p \in Frame, PmmFree(p) PROVE PmmInv' /\ [FA!Next]_(FA!vars)
  BY <1>6, PmmInvFree DEF FA!Next
<1>7. ASSUME NEW p \in Frame, NEW v \in Addr, OwnerWrites(p, v)
      PROVE  PmmInv' /\ [FA!Next]_(FA!vars)
  BY <1>7, PmmInvOwnerWrites
<1>8. CASE UNCHANGED vars
  <2>1. /\ UNCHANGED initVars
        /\ UNCHANGED <<memmap, entry, page, top, phase, found>>
        /\ UNCHANGED <<free_list_head, free_count, mem, owned, ret>>
    BY <1>8 DEF vars, initVars, listVars
  <2>2. TypeOK' /\ Ownership'
    BY <2>1 DEF PmmInv, TypeOK, Ownership
  <2>3. FreeListWhole'
    BY <2>1, WritesKeepWhole DEF PmmInv
  <2>4. UNCHANGED FA!vars
    BY <2>1 DEF FA!vars, Avail
  <2> QED
    BY <2>1, <2>2, <2>3, <2>4, InitVarsKeep DEF PmmInv
<1> QED
  BY <1>1, <1>2, <1>3, <1>4, <1>5, <1>6, <1>7, <1>8 DEF Next

LEMMA PmmInvariant == Spec => []PmmInv
  BY PmmInvInit, PmmStep, PTL DEF Spec

----------------------------------------------------------------------------
(* Type correctness of the allocator: free_list_head is always an address  *)
(* below the end of memory and free_count never goes below zero.           *)
THEOREM PmmTypeCorrect == Spec => []TypeOK
<1>1. PmmInv => TypeOK
  BY DEF PmmInv
<1> QED
  BY <1>1, PmmInvariant, PTL

(* The in-band free list is whole in every reachable state: its links lead *)
(* through every frame that is not handed out, once, in free_count steps,  *)
(* whatever the owners of the others write.                                *)
THEOREM FreeListStaysWhole == Spec => []FreeListWhole
<1>1. PmmInv => FreeListWhole
  BY DEF PmmInv
<1> QED
  BY <1>1, PmmInvariant, PTL

(* pmm_init, pmm_alloc and pmm_free implement a pool of distinct frames:   *)
(* no frame has two owners and an allocation fails only when the pool is   *)
(* empty.                                                                  *)
THEOREM PmmImplementsPool == Spec => ImplementsPool
<1>1. Init => FA!Init
  BY DEF Init, FA!Init, Avail
<1> QED
  BY <1>1, PmmInvariant, PmmStep, PTL DEF Spec, ImplementsPool, FA!Spec

----------------------------------------------------------------------------
(* Which pages pmm_init finds. *)

(* The whole pages of entry k. *)
PagesOf(k) ==
  {p \in Frame : /\ p % PAGE = 0 /\ memmap[k].type = "usable"
                 /\ memmap[k].base <= p /\ p + PAGE <= Top(memmap[k])}

(* The part of the entries pmm_init has gone through. *)
Looked(p, k) == k < entry \/ (k = entry /\ phase = "pages" /\ p < page)

FoundInv ==
  /\ \A p \in found : \E k \in DOMAIN memmap : p \in PagesOf(k)
  /\ \A k \in DOMAIN memmap : \A p \in PagesOf(k) : Looked(p, k) => p \in found
  /\ phase = "pages" => /\ page % PAGE = 0 /\ top % PAGE = 0
                        /\ top = RoundDown(Top(memmap[entry]))
  /\ phase = "ready" => entry \notin DOMAIN memmap

LEMMA Multiples ==
  ASSUME NEW a \in Nat, NEW b \in Nat, a % PAGE = 0, b % PAGE = 0
  PROVE  /\ (a + PAGE) % PAGE = 0
         /\ a < b => a + PAGE <= b
<1>1. PAGE \in Nat /\ PAGE >= 1
  BY PmmAssumption
<1> DEFINE m == a \div PAGE
           n == b \div PAGE
<1>2. m \in Nat /\ n \in Nat /\ a = PAGE * m /\ b = PAGE * n
  BY <1>1
<1> HIDE DEF m, n
<1>3. (a + PAGE) % PAGE = 0
  <2>1. a + PAGE = PAGE * (m + 1)
    BY <1>1, <1>2
  <2> QED
    BY <1>1, <1>2, <2>1
<1>4. ASSUME a < b PROVE a + PAGE <= b
  <2>1. m + 1 <= n
    BY <1>1, <1>2, <1>4
  <2>2. PAGE * (m + 1) <= PAGE * n
    BY <1>1, <1>2, <2>1
  <2> QED
    BY <1>1, <1>2, <2>2
<1> QED
  BY <1>3, <1>4

(* x & ~0xFFF is the last multiple of the page size up to x. *)
LEMMA RoundedDown ==
  ASSUME NEW x \in Nat
  PROVE  /\ RoundDown(x) \in Nat /\ RoundDown(x) % PAGE = 0
         /\ \A p \in Nat : p % PAGE = 0 /\ p <= x => p <= RoundDown(x)
<1>1. PAGE \in Nat /\ PAGE >= 1
  BY PmmAssumption
<1> DEFINE q == x \div PAGE
           r == x % PAGE
           d == RoundDown(x)
<1>2. q \in Nat /\ r \in 0 .. PAGE - 1 /\ x = PAGE * q + r /\ d = x - r
  BY <1>1 DEF RoundDown
<1> HIDE DEF q, r, d
<1>3. d \in Nat /\ d = PAGE * q
  BY <1>1, <1>2
<1>4. d % PAGE = 0
  BY <1>1, <1>2, <1>3
<1>5. ASSUME NEW p \in Nat, p % PAGE = 0, p <= x PROVE p <= d
  <2>1. d < p => d + PAGE <= p
    BY <1>3, <1>4, <1>5, Multiples
  <2> QED
    BY <1>1, <1>2, <1>3, <1>5, <2>1
<1> QED
  BY <1>3, <1>4, <1>5 DEF d

(* (x + 0xFFF) & ~0xFFF is the first multiple of the page size from x on.  *)
LEMMA RoundedUp ==
  ASSUME NEW x \in Nat
  PROVE  /\ RoundUp(x) \in Nat /\ RoundUp(x) % PAGE = 0
         /\ \A p \in Nat : p % PAGE = 0 /\ x <= p => RoundUp(x) <= p
<1>1. PAGE \in Nat /\ PAGE >= 1 /\ x + (PAGE - 1) \in Nat
  BY PmmAssumption
<1> DEFINE u == RoundUp(x)
<1>2. u \in Nat /\ u % PAGE = 0
  BY <1>1, RoundedDown DEF RoundUp
<1>3. u <= x + (PAGE - 1)
  BY <1>1, Rounding DEF RoundUp
<1> HIDE DEF u
<1>4. ASSUME NEW p \in Nat, p % PAGE = 0, x <= p PROVE u <= p
  <2>1. p < u => p + PAGE <= u
    BY <1>2, <1>4, Multiples
  <2> QED
    BY <1>1, <1>2, <1>3, <1>4, <2>1
<1> QED
  BY <1>2, <1>4 DEF u

LEMMA FoundStep ==
  ASSUME KStart >= MaxAddr, PmmInv, FoundInv, Next
  PROVE  FoundInv'
<1>1. memmap' = memmap /\ entry \in Nat \ {0} /\ page \in Nat /\ top \in Nat /\ PAGE \in Nat /\ PAGE >= 1
  BY PmmAssumption DEF PmmInv, TypeOK, Next, BeginEntry, PushPage, EndEntry, InitReturns, PmmAlloc, PmmAllocFails,
     PmmFree, OwnerWrites, initVars
<1>2. \A k \in DOMAIN memmap : k \in Nat
  BY EntryFacts DEF PmmInv
<1>3. \A k : PagesOf(k)' = PagesOf(k)
  BY <1>1 DEF PagesOf, Top
<1>4. ASSUME NEW k \in DOMAIN memmap, NEW p \in PagesOf(k)
      PROVE  /\ p \in Nat /\ p % PAGE = 0 /\ memmap[k].type = "usable" /\ memmap[k].base <= p
             /\ p + PAGE <= Top(memmap[k]) /\ memmap[k].base \in Nat /\ Top(memmap[k]) \in Nat
  BY <1>4, EntryFacts DEF PagesOf, PmmInv, Frame, Addr
<1>5. CASE BeginEntry
  <2> DEFINE e == memmap[entry]
             b == ClipBase(e.base, Top(e))
  <2>1. phase = "entry" /\ entry \in DOMAIN memmap /\ found' = found
    BY <1>5 DEF BeginEntry
  <2>2. e.base \in Nat /\ Top(e) \in Nat /\ (e.type = "usable" => Top(e) <= MaxAddr)
    BY <2>1, EntryFacts DEF PmmInv
  <2>3. e.type = "usable" => b = e.base
    BY <2>2, PmmAssumption DEF ClipBase
  <2>4. CASE e.type = "usable" /\ b < Top(e)
    <3>1. phase' = "pages" /\ page' = RoundUp(e.base) /\ top' = RoundDown(Top(e)) /\ entry' = entry
      BY <1>5, <2>3, <2>4 DEF BeginEntry
    <3>2. page' % PAGE = 0 /\ top' % PAGE = 0
      BY <2>2, <3>1, RoundedUp, RoundedDown
    <3>3. ASSUME NEW k \in DOMAIN memmap, NEW p \in PagesOf(k), Looked(p, k)' PROVE p \in found
      <4>1. CASE k < entry
        BY <4>1 DEF FoundInv, Looked
      <4>2. CASE k = entry
        <5>1. p < RoundUp(e.base) /\ p \in Nat /\ p % PAGE = 0 /\ e.base <= p
          BY <1>1, <1>2, <1>4, <3>1, <3>3, <4>2 DEF Looked
        <5>2. RoundUp(e.base) <= p /\ RoundUp(e.base) \in Nat
          BY <2>2, <5>1, RoundedUp
        <5> QED
          BY <5>1, <5>2
      <4> QED
        BY <3>1, <3>3, <4>1, <4>2 DEF Looked
    <3>4. (top = RoundDown(Top(memmap[entry])))'
      BY <1>1, <3>1 DEF Top
    <3> QED
      BY <1>1, <1>3, <2>1, <3>1, <3>2, <3>3, <3>4 DEF FoundInv
  <2>5. CASE ~(e.type = "usable" /\ b < Top(e))
    <3>1. entry' = entry + 1 /\ phase' = "entry"
      BY <1>5, <2>1, <2>5 DEF BeginEntry
    <3>2. ASSUME NEW k \in DOMAIN memmap, NEW p \in PagesOf(k), Looked(p, k)' PROVE p \in found
      <4>1. CASE k < entry
        BY <4>1 DEF FoundInv, Looked
      <4>2. CASE k = entry
        <5>1. e.type = "usable" /\ e.base <= p /\ p + PAGE <= Top(e) /\ p \in Nat
          BY <1>4, <4>2
        <5> QED
          BY <1>1, <2>2, <2>3, <2>5, <5>1
      <4> QED
        BY <1>1, <1>2, <3>1, <3>2, <4>1, <4>2 DEF Looked
    <3> QED
      BY <1>1, <1>3, <2>1, <3>1, <3>2 DEF FoundInv
  <2> QED
    BY <2>4, <2>5
<1>6. CASE PushPage
  <2>1. /\ phase = "pages" /\ phase' = phase /\ page < top /\ found' = found \cup {page} /\ page' = page + PAGE
        /\ entry' = entry /\ top' = top
    BY <1>6 DEF PushPage
  <2>2. /\ page % PAGE = 0 /\ top % PAGE = 0 /\ top = RoundDown(Top(memmap[entry]))
    BY <2>1 DEF FoundInv
  <2>3. /\ entry \in DOMAIN memmap /\ memmap[entry].type = "usable" /\ memmap[entry].base <= page
        /\ top <= Top(memmap[entry])
    BY <2>1 DEF PmmInv, LoopPosition
  <2>4. page \in Frame
    BY <2>1, PageIsNew
  <2>5. page + PAGE <= top /\ (page + PAGE) % PAGE = 0
    BY <1>1, <2>1, <2>2, Multiples
  <2>6. page \in PagesOf(entry)
    <3>1. Top(memmap[entry]) \in Nat
      BY <2>3, EntryFacts DEF PmmInv
    <3>2. page + PAGE <= Top(memmap[entry])
      BY <1>1, <2>3, <2>5, <3>1
    <3> QED
      BY <2>2, <2>3, <2>4, <3>2 DEF PagesOf
  <2>7. ASSUME NEW k \in DOMAIN memmap, NEW p \in PagesOf(k), Looked(p, k)' PROVE p \in found'
    <3>1. CASE Looked(p, k)
      BY <2>1, <3>1 DEF FoundInv
    <3>2. CASE ~Looked(p, k)
      <4>1. p \in Nat /\ p % PAGE = 0 /\ ~(p < page) /\ p < page + PAGE
        BY <1>4, <2>1, <2>7, <3>2 DEF Looked
      <4>2. page < p => page + PAGE <= p
        BY <1>1, <2>2, <4>1, Multiples
      <4>3. p = page
        BY <1>1, <4>1, <4>2
      <4> QED
        BY <2>1, <4>3
    <3> QED
      BY <3>1, <3>2
  <2>8. \A p \in found' : \E k \in DOMAIN memmap : p \in PagesOf(k)
    BY <2>1, <2>3, <2>6 DEF FoundInv
  <2>9. (top = RoundDown(Top(memmap[entry])))'
    BY <1>1, <2>1, <2>2 DEF Top
  <2> QED
    BY <1>1, <1>3, <2>1, <2>2, <2>5, <2>7, <2>8, <2>9 DEF FoundInv
<1>7. CASE EndEntry
  <2>1. phase = "pages" /\ page >= top /\ phase' = "entry" /\ entry' = entry + 1 /\ found' = found
    BY <1>7 DEF EndEntry
  <2>2. top = RoundDown(Top(memmap[entry])) /\ entry \in DOMAIN memmap
    BY <2>1 DEF FoundInv, PmmInv, LoopPosition
  <2>3. ASSUME NEW k \in DOMAIN memmap, NEW p \in PagesOf(k), Looked(p, k)' PROVE p \in found
    <3>1. CASE k < entry
      BY <3>1 DEF FoundInv, Looked
    <3>2. CASE k = entry
      <4>1. p \in Nat /\ p % PAGE = 0 /\ p + PAGE <= Top(memmap[entry]) /\ Top(memmap[entry]) \in Nat
        BY <1>4, <3>2
      <4>2. p + PAGE \in Nat /\ (p + PAGE) % PAGE = 0
        BY <1>1, <4>1, Multiples
      <4>3. p + PAGE <= top
        BY <2>2, <4>1, <4>2, RoundedDown
      <4>4. p < page
        BY <1>1, <2>1, <4>1, <4>3
      <4> QED
        BY <2>1, <3>2, <4>4 DEF FoundInv, Looked
    <3> QED
      BY <1>1, <1>2, <2>1, <2>3, <3>1, <3>2 DEF Looked
  <2> QED
    BY <1>1, <1>3, <2>1, <2>3 DEF FoundInv
<1>8. CASE InitReturns
  <2>1. phase = "entry" /\ phase' = "ready" /\ UNCHANGED <<entry, found>> /\ entry \notin DOMAIN memmap
    BY <1>8 DEF InitReturns
  <2> QED
    BY <1>1, <1>3, <2>1 DEF FoundInv, Looked
<1>9. CASE PmmAlloc \/ PmmAllocFails \/ (\E p \in Frame : PmmFree(p)) \/ (\E p \in Frame, v \in Addr : OwnerWrites(p, v))
  <2>1. UNCHANGED <<memmap, entry, page, top, phase, found>>
    BY <1>9 DEF PmmAlloc, PmmAllocFails, PmmFree, OwnerWrites, initVars
  <2> QED
    BY <1>3, <2>1 DEF FoundInv, Looked, Top
<1> QED
  BY <1>5, <1>6, <1>7, <1>8, <1>9 DEF Next

(* With the kernel linked above all physical addresses, as linker.ld does, *)
(* pmm_init puts exactly the whole pages of the usable ranges on the list, *)
(* for every page size and every memory map.                               *)
THEOREM PmmFindsUsable == ASSUME KStart >= MaxAddr PROVE Spec => []InitFindsUsable
<1>1. Init => FoundInv
  <2> SUFFICES ASSUME Init PROVE FoundInv
    OBVIOUS
  <2>1. entry = 1 /\ phase = "entry" /\ found = {} /\ memmap \in Seq(Entry)
    BY PmmAssumption DEF Init, MemMapOK
  <2>2. \A k \in DOMAIN memmap : ~(k < entry)
    BY <2>1
  <2> QED
    BY <2>1, <2>2 DEF FoundInv, Looked
<1>2. PmmInv /\ FoundInv /\ [Next]_vars => FoundInv'
  <2>1. ASSUME FoundInv, UNCHANGED vars PROVE FoundInv'
    BY <2>1 DEF FoundInv, Looked, PagesOf, Top, vars, initVars
  <2> QED
    BY <2>1, FoundStep
<1>3. PmmInv /\ FoundInv => InitFindsUsable
  <2> SUFFICES ASSUME PmmInv, FoundInv, phase = "ready" PROVE found = UsablePages
    BY DEF InitFindsUsable
  <2>1. \A p : p \in UsablePages <=> \E k \in DOMAIN memmap : p \in PagesOf(k)
    BY DEF UsablePages, PagesOf
  <2>2. \A k \in DOMAIN memmap : k < entry
    <3>1. memmap \in Seq(Entry) /\ entry \in Nat \ {0} /\ entry \notin DOMAIN memmap
      BY PmmAssumption DEF PmmInv, TypeOK, MemMapOK, FoundInv
    <3> QED
      BY <3>1
  <2> QED
    BY <2>1, <2>2 DEF FoundInv, Looked
<1> QED
  BY <1>1, <1>2, <1>3, PmmInvariant, PTL DEF Spec

=============================================================================
