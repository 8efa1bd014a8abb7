-------------------------------- MODULE Heap --------------------------------
(***************************************************************************)
(* src/kernel/memory/heap.c: first fit over a list of blocks, each behind  *)
(* its header, in one arena.  kmalloc and kfree are called from one place  *)
(* at a time; callers free what they were given, once.  The pass of kfree  *)
(* over the list takes a step for every block it looks at.                 *)
(***************************************************************************)
EXTENDS Integers, Sequences, SequencesExt

CONSTANTS
  WORD,      \* 2^64: the modulus of size_t
  ALIGN,     \* 8
  HEADER,    \* sizeof(heap_block_t), a multiple of ALIGN
  SPARE,     \* 16: a remainder not larger than this stays with the block
  Arena,     \* HEAP_PAGES * 0x1000
  Sizes      \* sizes callers ask for

ASSUME HeapAssumption ==
  /\ {WORD, ALIGN, HEADER, SPARE, Arena} \subseteq Nat \ {0}
  /\ HEADER % ALIGN = 0 /\ Arena % ALIGN = 0 /\ WORD % ALIGN = 0 /\ Arena > HEADER
  /\ Sizes \subseteq 0 .. WORD - 1

VARIABLES
  blocks,  \* the list from heap_head on; <<>> if heap_init gave up
  live,    \* what callers hold: the address and the size they asked for
  b        \* kfree: the place in the list of its local b; 0 outside kfree

vars == <<blocks, live, b>>

Block(at, size, free) == [at |-> at, size |-> size, free |-> free]

(* heap_init, or a boot with too few frames. *)
Init ==
  /\ blocks \in {<<>>, << Block(0, Arena - HEADER, TRUE) >>}
  /\ live = {}
  /\ b = 0

----------------------------------------------------------------------------
(* Mutant of Rounded: rounds down. *)
Rounded_Down(size) == size - (size % ALIGN)

Rounded(size) == LET s == (size + ALIGN - 1) % WORD IN s - (s % ALIGN)

Fits(block, size) == block.free /\ block.size >= size

(* The block the loop of kmalloc stops at. *)
FirstFit(n, size) ==
  /\ n \in DOMAIN blocks
  /\ Fits(blocks[n], size)
  /\ \A m \in 1 .. n - 1 : ~Fits(blocks[m], size)

(* The list after block n was reserved, and its end cut off if that is     *)
(* worth it.                                                               *)
Reserved(n) == ReplaceAt(blocks, n, Block(blocks[n].at, blocks[n].size, FALSE))

(* Mutant of Split: the new block's own header is not paid for. *)
Split_NoHeader(n, size) ==
  InsertAt(ReplaceAt(blocks, n, Block(blocks[n].at, size, FALSE)), n + 1,
           Block(blocks[n].at + HEADER + size, blocks[n].size - size, TRUE))

Split(n, size) ==
  InsertAt(ReplaceAt(blocks, n, Block(blocks[n].at, size, FALSE)), n + 1,
           Block(blocks[n].at + HEADER + size, blocks[n].size - size - HEADER, TRUE))

Kmalloc(request) ==
  /\ b = 0 /\ request # 0
  /\ \E n \in DOMAIN blocks :
       LET size == Rounded(request)
       IN /\ FirstFit(n, size)
          /\ blocks' = IF blocks[n].size > size + HEADER + SPARE THEN Split(n, size) ELSE Reserved(n)
          /\ live' = live \cup {[at |-> blocks[n].at + HEADER, size |-> request]}
  /\ UNCHANGED b

Kfree(a) ==
  /\ b = 0 /\ b' = 1
  /\ live' = live \ {a}
  /\ blocks' = [n \in DOMAIN blocks |->
                  IF blocks[n].at = a.at - HEADER THEN Block(blocks[n].at, blocks[n].size, TRUE) ELSE blocks[n]]

(* Mutant of Merge: the pass ends with the first pair it merges. *)
Merge_Ends ==
  /\ b \in 1 .. Len(blocks) - 1 /\ blocks[b].free /\ blocks[b + 1].free
  /\ blocks' = RemoveAt(ReplaceAt(blocks, b, Block(blocks[b].at, blocks[b].size + HEADER + blocks[b + 1].size, TRUE)),
                        b + 1)
  /\ b' = Len(blocks)
  /\ UNCHANGED live

(* The pass over the list in kfree.  Two free neighbours are merged, then  *)
(* b moves to the block behind them: what has just grown is not looked at  *)
(* again.                                                                  *)
Merge ==
  /\ b \in 1 .. Len(blocks) - 1 /\ blocks[b].free /\ blocks[b + 1].free
  /\ blocks' = RemoveAt(ReplaceAt(blocks, b, Block(blocks[b].at, blocks[b].size + HEADER + blocks[b + 1].size, TRUE)),
                        b + 1)
  /\ b' = b + 1
  /\ UNCHANGED live

StepPast ==
  /\ b \in 1 .. Len(blocks) - 1 /\ ~(blocks[b].free /\ blocks[b + 1].free)
  /\ b' = b + 1
  /\ UNCHANGED <<blocks, live>>

KfreeReturns ==
  /\ b # 0 /\ b >= Len(blocks)
  /\ b' = 0
  /\ UNCHANGED <<blocks, live>>

Next ==
  \/ \E request \in Sizes : Kmalloc(request)
  \/ \E a \in live : Kfree(a)
  \/ Merge \/ StepPast \/ KfreeReturns

Spec == Init /\ [][Next]_vars

----------------------------------------------------------------------------
End(block) == block.at + HEADER + block.size

(* The blocks tile the arena: whatever the order of calls, the next one    *)
(* starts where one ends and the last ends with the arena.                 *)
BlocksTile ==
  blocks # <<>> =>
    /\ blocks[1].at = 0
    /\ \A n \in 1 .. Len(blocks) - 1 : blocks[n + 1].at = End(blocks[n])
    /\ End(blocks[Len(blocks)]) = Arena
    /\ \A n \in DOMAIN blocks : blocks[n].size >= 0

(* Every pointer a caller holds is aligned and has a block of its own, not *)
(* free and as large as the caller asked for, unless size + 7 wrapped; and *)
(* every block that is not free is a caller's: none is lost.               *)
LiveIsReserved ==
  /\ \A a \in live :
       /\ a.at % ALIGN = 0
       /\ \E n \in DOMAIN blocks :
            /\ blocks[n].at = a.at - HEADER /\ ~blocks[n].free
            /\ blocks[n].size >= a.size \/ a.size + ALIGN - 1 >= WORD
       /\ \A other \in live \ {a} : other.at # a.at
  /\ \A n \in DOMAIN blocks : ~blocks[n].free => \E a \in live : a.at = blocks[n].at + HEADER

Pairs == {n \in 1 .. Len(blocks) - 1 : blocks[n].free /\ blocks[n + 1].free}

(* One pass can leave two free neighbours apart, for it does not look back *)
(* at what it has grown; but never a second pair, since the next pass      *)
(* merges the one that was left: fragmentation does not build up.          *)
AtMostOnePair == b = 0 => \A m, n \in Pairs : m = n

=============================================================================
