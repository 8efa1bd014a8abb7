----------------------------- MODULE HeapProofs -----------------------------
(***************************************************************************)
(* Proofs about the heap: for every arena, alignment, header and sequence  *)
(* of calls the blocks tile the arena, every caller has a block of its own *)
(* and a pass of kfree leaves at most one pair of free neighbours.         *)
(***************************************************************************)
EXTENDS Heap, SequenceTheorems, TLAPS

(* The helpers on sequences, cell by cell. *)
LEMMA RemoveAtIs ==
  ASSUME NEW S, NEW s \in Seq(S), NEW i \in 1 .. Len(s)
  PROVE  /\ RemoveAt(s, i) \in Seq(S) /\ Len(RemoveAt(s, i)) = Len(s) - 1
         /\ \A n \in 1 .. Len(s) - 1 : RemoveAt(s, i)[n] = IF n < i THEN s[n] ELSE s[n + 1]
<1> DEFINE left  == SubSeq(s, 1, i - 1)
           right == SubSeq(s, i + 1, Len(s))
<1>1. Len(s) \in Nat /\ i \in Nat /\ 1 <= i /\ i <= Len(s)
  BY LenProperties
<1>2. left \in Seq(S) /\ Len(left) = i - 1 /\ \A n \in 1 .. i - 1 : left[n] = s[n]
  <2>1. \A n \in 1 .. i - 1 : s[n] \in S
    BY <1>1
  <2> QED
    BY <1>1, <2>1
<1>3. right \in Seq(S) /\ Len(right) = Len(s) - i /\ \A n \in 1 .. Len(s) - i : right[n] = s[n + i]
  <2>1. \A n \in i + 1 .. Len(s) : s[n] \in S
    BY <1>1
  <2> QED
    BY <1>1, <2>1
<1> HIDE DEF left, right
<1>4. /\ left \o right \in Seq(S) /\ Len(left \o right) = Len(left) + Len(right)
      /\ \A n \in 1 .. Len(left) + Len(right) :
           (left \o right)[n] = IF n <= Len(left) THEN left[n] ELSE right[n - Len(left)]
  BY <1>2, <1>3, ConcatProperties
<1>5. RemoveAt(s, i) = left \o right
  BY DEF RemoveAt, left, right
<1>6. ASSUME NEW n \in 1 .. Len(s) - 1 PROVE (left \o right)[n] = IF n < i THEN s[n] ELSE s[n + 1]
  <2>1. CASE n < i
    <3>1. n \in 1 .. Len(left) + Len(right) /\ n <= Len(left) /\ n \in 1 .. i - 1
      BY <1>1, <1>2, <1>3, <2>1
    <3> QED
      BY <1>2, <1>4, <2>1, <3>1
  <2>2. CASE ~(n < i)
    <3>1. /\ n \in 1 .. Len(left) + Len(right) /\ ~(n <= Len(left))
          /\ n - Len(left) \in 1 .. Len(s) - i /\ (n - Len(left)) + i = n + 1
      BY <1>1, <1>2, <1>3, <2>2
    <3> QED
      BY <1>3, <1>4, <2>2, <3>1
  <2> QED
    BY <2>1, <2>2
<1>7. Len(left) + Len(right) = Len(s) - 1
  BY <1>1, <1>2, <1>3
<1> QED
  BY <1>4, <1>5, <1>6, <1>7

LEMMA InsertAtIs ==
  ASSUME NEW S, NEW s \in Seq(S), NEW i \in 1 .. Len(s) + 1, NEW e \in S
  PROVE  /\ InsertAt(s, i, e) \in Seq(S) /\ Len(InsertAt(s, i, e)) = Len(s) + 1
         /\ \A n \in 1 .. Len(s) + 1 :
              InsertAt(s, i, e)[n] = IF n < i THEN s[n] ELSE IF n = i THEN e ELSE s[n - 1]
<1> DEFINE left  == SubSeq(s, 1, i - 1)
           one   == <<e>>
           right == SubSeq(s, i, Len(s))
           front == left \o one
<1>1. Len(s) \in Nat /\ i \in Nat /\ 1 <= i /\ i <= Len(s) + 1
  BY LenProperties
<1>2. left \in Seq(S) /\ Len(left) = i - 1 /\ \A n \in 1 .. i - 1 : left[n] = s[n]
  <2>1. \A n \in 1 .. i - 1 : s[n] \in S
    BY <1>1
  <2> QED
    BY <1>1, <2>1
<1>3. right \in Seq(S) /\ Len(right) = Len(s) - i + 1 /\ \A n \in 1 .. Len(s) - i + 1 : right[n] = s[n + i - 1]
  <2>1. \A n \in i .. Len(s) : s[n] \in S
    BY <1>1
  <2> QED
    BY <1>1, <2>1
<1>4. one \in Seq(S) /\ Len(one) = 1 /\ one[1] = e
  OBVIOUS
<1> HIDE DEF left, right, one
<1>5. /\ front \in Seq(S) /\ Len(front) = i
      /\ \A n \in 1 .. i : front[n] = IF n < i THEN s[n] ELSE e
  <2>1. /\ left \o one \in Seq(S) /\ Len(left \o one) = Len(left) + Len(one)
        /\ \A n \in 1 .. Len(left) + Len(one) :
             (left \o one)[n] = IF n <= Len(left) THEN left[n] ELSE one[n - Len(left)]
    BY <1>2, <1>4, ConcatProperties
  <2>2. Len(left) + Len(one) = i
    BY <1>1, <1>2, <1>4
  <2>3. ASSUME NEW n \in 1 .. i PROVE front[n] = IF n < i THEN s[n] ELSE e
    <3>1. CASE n < i
      <4>1. n <= Len(left) /\ n \in 1 .. i - 1 /\ n \in 1 .. Len(left) + Len(one)
        BY <1>1, <1>2, <2>2, <3>1
      <4> QED
        BY <1>2, <2>1, <3>1, <4>1
    <3>2. CASE ~(n < i)
      <4>1. ~(n <= Len(left)) /\ n - Len(left) = 1 /\ n \in 1 .. Len(left) + Len(one)
        BY <1>1, <1>2, <2>2, <3>2
      <4> QED
        BY <1>4, <2>1, <3>2, <4>1
    <3> QED
      BY <3>1, <3>2
  <2> QED
    BY <2>1, <2>2, <2>3
<1> HIDE DEF front
<1>6. /\ front \o right \in Seq(S) /\ Len(front \o right) = Len(front) + Len(right)
      /\ \A n \in 1 .. Len(front) + Len(right) :
           (front \o right)[n] = IF n <= Len(front) THEN front[n] ELSE right[n - Len(front)]
  BY <1>3, <1>5, ConcatProperties
<1>7. InsertAt(s, i, e) = front \o right
  BY DEF InsertAt, front, left, right, one
<1>8. ASSUME NEW n \in 1 .. Len(s) + 1
      PROVE  (front \o right)[n] = IF n < i THEN s[n] ELSE IF n = i THEN e ELSE s[n - 1]
  <2>1. CASE n <= i
    <3>1. n \in 1 .. Len(front) + Len(right) /\ n <= Len(front) /\ n \in 1 .. i
      BY <1>1, <1>3, <1>5, <2>1
    <3>2. n < i \/ n = i
      BY <1>1, <2>1
    <3> QED
      BY <1>5, <1>6, <3>1, <3>2
  <2>2. CASE ~(n <= i)
    <3>1. /\ n \in 1 .. Len(front) + Len(right) /\ ~(n <= Len(front)) /\ ~(n < i) /\ n # i
          /\ n - Len(front) \in 1 .. Len(s) - i + 1 /\ (n - Len(front)) + i - 1 = n - 1
      BY <1>1, <1>3, <1>5, <2>2
    <3> QED
      BY <1>3, <1>6, <3>1
  <2> QED
    BY <2>1, <2>2
<1>9. Len(front) + Len(right) = Len(s) + 1
  BY <1>1, <1>3, <1>5
<1> QED
  BY <1>6, <1>7, <1>8, <1>9

(* Sums and differences of multiples. *)
LEMMA Multiples ==
  ASSUME NEW x \in Int, NEW y \in Int, x % ALIGN = 0, y % ALIGN = 0
  PROVE  (x + y) % ALIGN = 0 /\ (x - y) % ALIGN = 0
<1>1. ALIGN \in Nat /\ ALIGN > 0
  BY HeapAssumption
<1>2. PICK j \in Int : x = ALIGN * j
  BY <1>1
<1>3. PICK k \in Int : y = ALIGN * k
  BY <1>1
<1>4. x + y = ALIGN * (j + k) /\ x - y = ALIGN * (j - k) /\ j + k \in Int /\ j - k \in Int
  BY <1>1, <1>2, <1>3
<1>5. \A q \in Int : (ALIGN * q) % ALIGN = 0
  BY <1>1
<1> QED
  BY <1>4, <1>5

(* A size is rounded up to a multiple of the alignment, unless it wraps. *)
LEMMA RoundedUp ==
  ASSUME NEW size \in Sizes
  PROVE  /\ Rounded(size) \in Nat /\ Rounded(size) % ALIGN = 0
         /\ Rounded(size) >= size \/ size + ALIGN - 1 >= WORD
<1>1. ALIGN \in Nat /\ ALIGN > 0 /\ WORD \in Nat /\ WORD > 0 /\ size \in Nat
  BY HeapAssumption
<1> DEFINE s == (size + ALIGN - 1) % WORD
<1>2. s \in Nat /\ (size + ALIGN - 1 < WORD => s = size + ALIGN - 1)
  BY <1>1
<1>3. Rounded(size) = s - (s % ALIGN)
  BY DEF Rounded
<1> HIDE DEF s
<1>4. s % ALIGN \in 0 .. ALIGN - 1 /\ s = ALIGN * (s \div ALIGN) + (s % ALIGN) /\ s \div ALIGN \in Nat
  BY <1>1, <1>2
<1>5. \A q \in Nat : (ALIGN * q) % ALIGN = 0 /\ ALIGN * q \in Nat
  BY <1>1
<1>6. s - (s % ALIGN) = ALIGN * (s \div ALIGN)
  <2>1. \A u, v, w \in Int : u = v + w => u - w = v
    OBVIOUS
  <2> QED
    BY <1>2, <1>4, <1>5, <2>1
<1>7. s - (s % ALIGN) > s - ALIGN
  BY <1>1, <1>2, <1>4
<1>8. size + ALIGN - 1 < WORD => Rounded(size) >= size
  <2> SUFFICES ASSUME size + ALIGN - 1 < WORD PROVE Rounded(size) >= size
    OBVIOUS
  <2>1. s - ALIGN = size - 1
    BY <1>1, <1>2
  <2>2. Rounded(size) \in Int /\ Rounded(size) > size - 1
    BY <1>3, <1>4, <1>5, <1>6, <1>7, <2>1
  <2> QED
    BY <1>1, <2>2
<1>9. Rounded(size) >= size \/ size + ALIGN - 1 >= WORD
  BY <1>1, <1>8
<1>10. Rounded(size) \in Nat /\ Rounded(size) % ALIGN = 0
  BY <1>3, <1>4, <1>5, <1>6
<1> QED
  BY <1>9, <1>10

----------------------------------------------------------------------------
BlockType == [at : Nat, size : Nat, free : BOOLEAN]

(* The list is in the order of the addresses and aligned. *)
ListOK ==
  /\ blocks \in Seq(BlockType)
  /\ BlocksTile
  /\ \A m, n \in DOMAIN blocks : m < n => End(blocks[m]) <= blocks[n].at
  /\ \A n \in DOMAIN blocks : blocks[n].at % ALIGN = 0 /\ blocks[n].size % ALIGN = 0

(* Places the pass has yet to come to where three free blocks follow each  *)
(* other: the first two will be merged and the third stay apart.           *)
Triples == {n \in Pairs : n >= b /\ n + 1 \in Pairs}

(* During a pass: behind b at most one pair was left, and what lies ahead  *)
(* will leave at most one, none if there is one already.                   *)
PassInv ==
  b # 0 =>
    /\ \A m, n \in Pairs : m < b /\ n < b => m = n
    /\ \A m, n \in Triples : m <= n + 1
    /\ \A m \in Pairs, n \in Triples : m >= b

HeapInv ==
  /\ ListOK
  /\ b \in Nat
  /\ live \subseteq [at : Nat, size : Nat]
  /\ LiveIsReserved
  /\ AtMostOnePair
  /\ PassInv

LEMMA HeapInvInit == Init => HeapInv
<1> SUFFICES ASSUME Init PROVE HeapInv
  OBVIOUS
<1> DEFINE whole == Block(0, Arena - HEADER, TRUE)
<1>1. /\ Arena \in Nat /\ HEADER \in Nat /\ Arena - HEADER \in Nat /\ ALIGN \in Nat /\ ALIGN > 0
      /\ HEADER % ALIGN = 0 /\ Arena % ALIGN = 0
  BY HeapAssumption
<1>2. 0 % ALIGN = 0 /\ (Arena - HEADER) % ALIGN = 0
  <2>1. Arena \in Int /\ HEADER \in Int
    BY <1>1
  <2>2. (Arena - HEADER) % ALIGN = 0
    BY <1>1, <2>1, Multiples
  <2>3. 0 % ALIGN = 0
    BY <1>1
  <2> QED
    BY <2>2, <2>3
<1>3. whole \in BlockType /\ whole.at = 0 /\ whole.size = Arena - HEADER /\ whole.free
  BY <1>1 DEF BlockType, Block
<1> HIDE DEF whole
<1>4. CASE blocks = <<>>
  <2>1. blocks \in Seq(BlockType) /\ DOMAIN blocks = {} /\ Len(blocks) = 0
    BY <1>4
  <2>2. Pairs = {}
    BY <2>1 DEF Pairs
  <2> QED
    BY <1>4, <2>1, <2>2 DEF Init, HeapInv, ListOK, BlocksTile, LiveIsReserved, AtMostOnePair, PassInv
<1>5. CASE blocks = <<whole>>
  <2>1. blocks \in Seq(BlockType) /\ DOMAIN blocks = {1} /\ Len(blocks) = 1 /\ blocks[1] = whole
    BY <1>3, <1>5
  <2>2. Pairs = {}
    BY <2>1 DEF Pairs
  <2>3. End(whole) = Arena
    BY <1>1, <1>3 DEF End
  <2>4. ListOK
    BY <1>1, <1>2, <1>3, <2>1, <2>3 DEF ListOK, BlocksTile
  <2> QED
    BY <1>3, <2>1, <2>2, <2>4 DEF Init, HeapInv, LiveIsReserved, AtMostOnePair, PassInv
<1> QED
  BY <1>4, <1>5 DEF Init, whole

(* What the list is made of. *)
LEMMA ListFacts ==
  ASSUME ListOK
  PROVE  /\ Len(blocks) \in Nat /\ DOMAIN blocks = 1 .. Len(blocks)
         /\ \A n \in 1 .. Len(blocks) :
              /\ blocks[n] \in BlockType
              /\ blocks[n].at \in Nat /\ blocks[n].size \in Nat /\ blocks[n].free \in BOOLEAN
              /\ blocks[n].at % ALIGN = 0 /\ blocks[n].size % ALIGN = 0
              /\ End(blocks[n]) \in Nat /\ End(blocks[n]) = blocks[n].at + HEADER + blocks[n].size
         /\ HEADER \in Nat /\ HEADER > 0 /\ HEADER % ALIGN = 0 /\ Arena \in Nat /\ SPARE \in Nat
         /\ \A m, n \in 1 .. Len(blocks) : m < n => End(blocks[m]) <= blocks[n].at
         /\ \A m, n \in 1 .. Len(blocks) : blocks[m].at = blocks[n].at => m = n
<1>1. blocks \in Seq(BlockType) /\ Len(blocks) \in Nat /\ DOMAIN blocks = 1 .. Len(blocks)
  BY DEF ListOK
<1>2. HEADER \in Nat /\ HEADER > 0 /\ HEADER % ALIGN = 0 /\ Arena \in Nat /\ SPARE \in Nat
  BY HeapAssumption
<1>3. \A n \in 1 .. Len(blocks) : blocks[n] \in BlockType
  BY <1>1
<1>4. \A n \in 1 .. Len(blocks) :
        blocks[n].at \in Nat /\ blocks[n].size \in Nat /\ blocks[n].free \in BOOLEAN
  BY <1>3 DEF BlockType
<1>5. \A n \in 1 .. Len(blocks) :
        End(blocks[n]) \in Nat /\ End(blocks[n]) = blocks[n].at + HEADER + blocks[n].size
  BY <1>2, <1>4 DEF End
<1>6. \A m, n \in 1 .. Len(blocks) : m < n => End(blocks[m]) <= blocks[n].at
  BY <1>1 DEF ListOK
<1>7. \A m, n \in 1 .. Len(blocks) : blocks[m].at = blocks[n].at => m = n
  <2>1. ASSUME NEW m \in 1 .. Len(blocks), NEW n \in 1 .. Len(blocks), m < n
        PROVE  blocks[m].at # blocks[n].at
    <3>1. blocks[m].at + HEADER + blocks[m].size <= blocks[n].at
      BY <1>5, <1>6, <2>1
    <3>2. blocks[m].at \in Nat /\ blocks[m].size \in Nat /\ blocks[n].at \in Nat
      BY <1>4
    <3> QED
      BY <1>2, <3>1, <3>2
  <2> QED
    <3> TAKE m, n \in 1 .. Len(blocks)
    <3>1. m < n \/ n < m \/ m = n
      OBVIOUS
    <3> QED
      BY <2>1, <3>1
<1> QED
  BY <1>1, <1>2, <1>3, <1>4, <1>5, <1>6, <1>7 DEF ListOK

(* A list with other marks and the same blocks. *)
LEMMA SameShape ==
  ASSUME ListOK, blocks' \in Seq(BlockType), Len(blocks') = Len(blocks),
         \A n \in 1 .. Len(blocks) : blocks'[n].at = blocks[n].at /\ blocks'[n].size = blocks[n].size
  PROVE  ListOK'
<1>1. Len(blocks) \in Nat /\ DOMAIN blocks = 1 .. Len(blocks) /\ DOMAIN blocks' = 1 .. Len(blocks)
  BY ListFacts
<1>2. \A n \in 1 .. Len(blocks) : End(blocks'[n]) = End(blocks[n])
  BY DEF End
<1>3. BlocksTile'
  <2> SUFFICES ASSUME blocks' # <<>>
               PROVE  /\ blocks'[1].at = 0
                      /\ \A n \in 1 .. Len(blocks') - 1 : blocks'[n + 1].at = End(blocks'[n])
                      /\ End(blocks'[Len(blocks')]) = Arena
                      /\ \A n \in DOMAIN blocks' : blocks'[n].size >= 0
    BY DEF BlocksTile, End
  <2>1. blocks # <<>> /\ 1 \in 1 .. Len(blocks) /\ Len(blocks) \in 1 .. Len(blocks)
    BY <1>1
  <2>2. /\ blocks[1].at = 0
        /\ \A n \in 1 .. Len(blocks) - 1 : blocks[n + 1].at = End(blocks[n])
        /\ End(blocks[Len(blocks)]) = Arena
        /\ \A n \in DOMAIN blocks : blocks[n].size >= 0
    BY <2>1 DEF ListOK, BlocksTile
  <2>3. \A n \in 1 .. Len(blocks) - 1 : n \in 1 .. Len(blocks) /\ n + 1 \in 1 .. Len(blocks)
    BY <1>1
  <2> QED
    BY <1>1, <1>2, <2>1, <2>2, <2>3
<1> QED
  BY <1>1, <1>2, <1>3 DEF ListOK, End

(* The list after a merge. *)
LEMMA MergeIs ==
  ASSUME ListOK, Merge
  PROVE  /\ b \in 1 .. Len(blocks) - 1
         /\ blocks' \in Seq(BlockType) /\ Len(blocks') = Len(blocks) - 1
         /\ \A n \in 1 .. Len(blocks) - 1 :
              blocks'[n] = IF n < b THEN blocks[n]
                           ELSE IF n = b THEN Block(blocks[b].at, blocks[b].size + HEADER + blocks[b + 1].size, TRUE)
                           ELSE blocks[n + 1]
<1> DEFINE grown == Block(blocks[b].at, blocks[b].size + HEADER + blocks[b + 1].size, TRUE)
           list  == ReplaceAt(blocks, b, grown)
<1>1. Len(blocks) \in Nat /\ blocks \in Seq(BlockType) /\ b \in 1 .. Len(blocks) - 1
  BY ListFacts DEF ListOK, Merge
<1>2. b \in 1 .. Len(blocks) /\ b + 1 \in 1 .. Len(blocks)
  BY <1>1
<1>3. grown \in BlockType
  <2>1. blocks[b].at \in Nat /\ blocks[b].size \in Nat /\ blocks[b + 1].size \in Nat /\ HEADER \in Nat
    BY <1>2, ListFacts
  <2> QED
    BY <2>1 DEF Block, BlockType
<1> HIDE DEF grown
<1>4. /\ list \in Seq(BlockType) /\ Len(list) = Len(blocks) /\ list[b] = grown
      /\ \A n \in 1 .. Len(blocks) : n # b => list[n] = blocks[n]
  BY <1>1, <1>2, <1>3 DEF ReplaceAt
<1> HIDE DEF list
<1>5. blocks' = RemoveAt(list, b + 1)
  BY DEF Merge, list, grown
<1>6. /\ blocks' \in Seq(BlockType) /\ Len(blocks') = Len(list) - 1
      /\ \A n \in 1 .. Len(list) - 1 : blocks'[n] = IF n < b + 1 THEN list[n] ELSE list[n + 1]
  BY <1>2, <1>4, <1>5, RemoveAtIs
<1>7. ASSUME NEW n \in 1 .. Len(blocks) - 1
      PROVE  blocks'[n] = IF n < b THEN blocks[n] ELSE IF n = b THEN grown ELSE blocks[n + 1]
  <2>1. n \in 1 .. Len(blocks) /\ n + 1 \in 1 .. Len(blocks)
    BY <1>1
  <2>2. CASE n < b
    <3>1. n < b + 1 /\ n # b
      BY <1>1, <2>2
    <3> QED
      BY <1>4, <1>6, <2>1, <2>2, <3>1
  <2>3. CASE n = b
    <3>1. n < b + 1 /\ ~(n < b)
      BY <1>1, <2>3
    <3> QED
      BY <1>4, <1>6, <2>1, <2>3, <3>1
  <2>4. CASE n > b
    <3>1. ~(n < b + 1) /\ ~(n < b) /\ n # b /\ n + 1 # b
      BY <1>1, <2>4
    <3> QED
      BY <1>4, <1>6, <2>1, <3>1
  <2> QED
    BY <1>1, <2>2, <2>3, <2>4
<1> QED
  BY <1>1, <1>4, <1>6, <1>7 DEF grown

LEMMA MergeKeepsList == ASSUME ListOK, Merge PROVE ListOK'
<1> DEFINE grown == Block(blocks[b].at, blocks[b].size + HEADER + blocks[b + 1].size, TRUE)
           L     == Len(blocks)
<1>1. /\ b \in 1 .. L - 1
      /\ blocks' \in Seq(BlockType) /\ Len(blocks') = L - 1
      /\ \A n \in 1 .. L - 1 : blocks'[n] = IF n < b THEN blocks[n] ELSE IF n = b THEN grown ELSE blocks[n + 1]
  BY MergeIs
<1>2. /\ L \in Nat /\ HEADER \in Nat /\ HEADER > 0 /\ HEADER % ALIGN = 0
      /\ \A n \in 1 .. L :
           /\ blocks[n].at \in Nat /\ blocks[n].size \in Nat
           /\ blocks[n].at % ALIGN = 0 /\ blocks[n].size % ALIGN = 0
           /\ End(blocks[n]) \in Nat /\ End(blocks[n]) = blocks[n].at + HEADER + blocks[n].size
      /\ \A m, n \in 1 .. L : m < n => End(blocks[m]) <= blocks[n].at
  BY ListFacts
<1>3. b \in 1 .. L /\ b + 1 \in 1 .. L /\ blocks # <<>> /\ L >= 2
  BY <1>1, <1>2
<1>4. /\ blocks[1].at = 0
      /\ \A n \in 1 .. L - 1 : blocks[n + 1].at = End(blocks[n])
      /\ End(blocks[L]) = Arena
  BY <1>3 DEF ListOK, BlocksTile
<1>5. /\ grown.at = blocks[b].at /\ grown.size = blocks[b].size + HEADER + blocks[b + 1].size
      /\ grown.size \in Nat
  BY <1>2, <1>3 DEF Block
<1> HIDE DEF grown
<1>6. End(grown) = End(blocks[b + 1])
  <2>1. End(grown) = blocks[b].at + HEADER + (blocks[b].size + HEADER + blocks[b + 1].size)
    BY <1>5 DEF End
  <2>2. blocks[b + 1].at = blocks[b].at + HEADER + blocks[b].size
    BY <1>1, <1>2, <1>3, <1>4
  <2>3. End(blocks[b + 1]) = blocks[b + 1].at + HEADER + blocks[b + 1].size
    BY <1>2, <1>3
  <2>4. /\ blocks[b].at \in Int /\ blocks[b].size \in Int
        /\ blocks[b + 1].at \in Int /\ blocks[b + 1].size \in Int /\ HEADER \in Int
    BY <1>2, <1>3, SMTT(30)
  <2> QED
    BY <2>1, <2>2, <2>3, <2>4
<1>7. grown.at % ALIGN = 0 /\ grown.size % ALIGN = 0
  <2>0. /\ blocks[b].size \in Int /\ blocks[b].size % ALIGN = 0 /\ HEADER \in Int /\ HEADER % ALIGN = 0
        /\ blocks[b + 1].size \in Int /\ blocks[b + 1].size % ALIGN = 0
    BY <1>2, <1>3
  <2>1. (blocks[b].size + HEADER) % ALIGN = 0
    BY <2>0, Multiples
  <2>2. ((blocks[b].size + HEADER) + blocks[b + 1].size) % ALIGN = 0
    <3>1. blocks[b].size + HEADER \in Int
      BY <2>0
    <3> QED
      BY <2>0, <2>1, <3>1, Multiples
  <2> QED
    BY <1>2, <1>3, <1>5, <2>2
<1>8. \A n \in 1 .. L - 1 :
        /\ blocks'[n].at = (IF n <= b THEN blocks[n].at ELSE blocks[n + 1].at)
        /\ End(blocks'[n]) = (IF n < b THEN End(blocks[n]) ELSE End(blocks[n + 1]))
        /\ n \in 1 .. L /\ n + 1 \in 1 .. L
  <2> TAKE n \in 1 .. L - 1
  <2>0. n \in 1 .. L /\ n + 1 \in 1 .. L
    BY <1>2
  <2>1. CASE n < b
    <3>1. n <= b
      BY <1>1, <2>1
    <3> QED
      BY <1>1, <2>0, <2>1, <3>1
  <2>2. CASE n = b
    BY <1>1, <1>2, <1>5, <1>6, <2>0, <2>2, SMTT(30)
  <2>3. CASE n > b
    <3>1. ~(n < b) /\ n # b /\ ~(n <= b)
      BY <1>1, <2>3
    <3> QED
      BY <1>1, <2>0, <3>1
  <2> QED
    BY <1>1, <2>1, <2>2, <2>3
<1>9. BlocksTile'
  <2>1. blocks'[1].at = 0
    BY <1>1, <1>2, <1>3, <1>4, <1>8
  <2>2. ASSUME NEW n \in 1 .. (L - 1) - 1 PROVE blocks'[n + 1].at = End(blocks'[n])
    <3>1. n \in 1 .. L - 1 /\ n + 1 \in 1 .. L - 1
      BY <1>2
    <3>2. CASE n < b
      <4>1. n + 1 <= b
        BY <1>1, <3>2
      <4> QED
        BY <1>4, <1>8, <3>1, <3>2, <4>1
    <3>3. CASE n >= b
      <4>1. ~(n + 1 <= b) /\ ~(n < b)
        BY <1>1, <3>3
      <4> QED
        BY <1>4, <1>8, <3>1, <4>1
    <3> QED
      BY <1>1, <3>2, <3>3
  <2>3. End(blocks'[L - 1]) = Arena
    <3>1. L - 1 \in 1 .. L - 1 /\ ~(L - 1 < b) /\ (L - 1) + 1 = L
      BY <1>1, <1>2, <1>3
    <3> QED
      BY <1>4, <1>8, <3>1
  <2>4. \A n \in 1 .. L - 1 : blocks'[n].size >= 0
    <3>1. \A n \in 1 .. L - 1 : blocks'[n] \in BlockType
      BY <1>1
    <3> QED
      BY <3>1 DEF BlockType
  <2>5. DOMAIN blocks' = 1 .. L - 1
    BY <1>1
  <2> QED
    BY <1>1, <2>1, <2>2, <2>3, <2>4, <2>5 DEF BlocksTile, End
<1>10. ASSUME NEW m \in 1 .. L - 1, NEW n \in 1 .. L - 1, m < n PROVE End(blocks'[m]) <= blocks'[n].at
  <2>1. CASE n <= b
    <3>1. m < b
      BY <1>1, <1>10, <2>1
    <3> QED
      BY <1>2, <1>8, <1>10, <2>1, <3>1
  <2>2. CASE n > b /\ m < b
    <3>1. ~(n <= b) /\ m < n + 1
      BY <1>1, <1>10, <2>2
    <3> QED
      BY <1>2, <1>8, <2>2, <3>1
  <2>3. CASE n > b /\ m >= b
    <3>1. ~(n <= b) /\ ~(m < b) /\ m + 1 < n + 1
      BY <1>1, <1>10, <2>3
    <3> QED
      BY <1>2, <1>8, <3>1
  <2> QED
    BY <1>1, <2>1, <2>2, <2>3
<1>11. \A n \in 1 .. L - 1 : blocks'[n].at % ALIGN = 0 /\ blocks'[n].size % ALIGN = 0
  BY <1>1, <1>2, <1>7, <1>8
<1>12. DOMAIN blocks' = 1 .. L - 1
  BY <1>1
<1> QED
  BY <1>1, <1>9, <1>10, <1>11, <1>12 DEF ListOK, End

(* Callers keep what they have if the blocks that are not free stay. *)
LEMMA SameReserved ==
  ASSUME LiveIsReserved, live' = live,
         \A n \in DOMAIN blocks : ~blocks[n].free => \E m \in DOMAIN blocks' : blocks'[m] = blocks[n],
         \A n \in DOMAIN blocks' : ~blocks'[n].free => \E m \in DOMAIN blocks : blocks[m] = blocks'[n]
  PROVE  LiveIsReserved'
<1>1. ASSUME NEW a \in live
      PROVE  \E m \in DOMAIN blocks' :
               /\ blocks'[m].at = a.at - HEADER /\ ~blocks'[m].free
               /\ blocks'[m].size >= a.size \/ a.size + ALIGN - 1 >= WORD
  <2>1. PICK n \in DOMAIN blocks :
          /\ blocks[n].at = a.at - HEADER /\ ~blocks[n].free
          /\ blocks[n].size >= a.size \/ a.size + ALIGN - 1 >= WORD
    BY DEF LiveIsReserved
  <2>2. PICK m \in DOMAIN blocks' : blocks'[m] = blocks[n]
    BY <2>1
  <2> QED
    BY <2>1, <2>2
<1>2. ASSUME NEW n \in DOMAIN blocks', ~blocks'[n].free PROVE \E a \in live : a.at = blocks'[n].at + HEADER
  <2>1. PICK m \in DOMAIN blocks : blocks[m] = blocks'[n]
    BY <1>2
  <2> QED
    BY <1>2, <2>1 DEF LiveIsReserved
<1> QED
  BY <1>1, <1>2 DEF LiveIsReserved

LEMMA MergeKeeps == ASSUME HeapInv, Merge PROVE HeapInv'
<1> DEFINE L == Len(blocks)
           grown == Block(blocks[b].at, blocks[b].size + HEADER + blocks[b + 1].size, TRUE)
<1>1. /\ ListOK /\ b \in Nat /\ LiveIsReserved /\ PassInv /\ live \subseteq [at : Nat, size : Nat]
      /\ blocks[b].free /\ blocks[b + 1].free /\ b' = b + 1 /\ live' = live
  BY DEF HeapInv, Merge
<1>2. /\ b \in 1 .. L - 1
      /\ blocks' \in Seq(BlockType) /\ Len(blocks') = L - 1
      /\ \A n \in 1 .. L - 1 : blocks'[n] = IF n < b THEN blocks[n] ELSE IF n = b THEN grown ELSE blocks[n + 1]
  BY <1>1, MergeIs
<1>3. L \in Nat /\ DOMAIN blocks = 1 .. L /\ DOMAIN blocks' = 1 .. L - 1
  BY <1>1, <1>2, ListFacts
<1>4. grown.free
  BY DEF Block
<1> HIDE DEF grown
<1>5. ASSUME NEW n \in DOMAIN blocks, ~blocks[n].free PROVE \E m \in DOMAIN blocks' : blocks'[m] = blocks[n]
  <2>1. n # b /\ n # b + 1 /\ n \in 1 .. L
    BY <1>1, <1>3, <1>5
  <2>2. CASE n < b
    <3>1. n \in 1 .. L - 1
      BY <1>2, <1>3, <2>1, <2>2
    <3> QED
      BY <1>2, <1>3, <2>2, <3>1
  <2>3. CASE n > b + 1
    <3>1. n - 1 \in 1 .. L - 1 /\ ~(n - 1 < b) /\ n - 1 # b /\ (n - 1) + 1 = n
      BY <1>2, <1>3, <2>1, <2>3
    <3> QED
      BY <1>2, <1>3, <3>1
  <2> QED
    BY <1>2, <1>3, <2>1, <2>2, <2>3
<1>6. ASSUME NEW n \in DOMAIN blocks', ~blocks'[n].free PROVE \E m \in DOMAIN blocks : blocks[m] = blocks'[n]
  <2>1. n \in 1 .. L - 1 /\ n # b /\ n \in 1 .. L /\ n + 1 \in 1 .. L
    BY <1>2, <1>3, <1>4, <1>6
  <2> QED
    BY <1>2, <1>3, <2>1
<1>7. LiveIsReserved'
  BY <1>1, <1>5, <1>6, SameReserved
<1>8. ASSUME NEW n \in Pairs'
      PROVE  /\ n \in Int
             /\ n < b => n \in Pairs
             /\ n >= b => n + 1 \in Pairs
  <2>1. n \in 1 .. (L - 1) - 1 /\ blocks'[n].free /\ blocks'[n + 1].free
    BY <1>2 DEF Pairs
  <2>2. n \in 1 .. L - 1 /\ n + 1 \in 1 .. L - 1 /\ n \in Int /\ n + 2 \in 1 .. L
    BY <1>3, <2>1
  <2>3. CASE n < b
    <3>1. blocks[n].free
      BY <1>2, <2>1, <2>2, <2>3
    <3>2. blocks[n + 1].free
      <4>1. n + 1 < b \/ n + 1 = b
        BY <1>2, <2>2, <2>3
      <4> QED
        BY <1>1, <1>2, <2>1, <2>2, <4>1
    <3> QED
      BY <1>2, <2>2, <2>3, <3>1, <3>2 DEF Pairs
  <2>4. CASE n >= b
    <3>1. ~(n < b) /\ ~(n + 1 < b) /\ n + 1 # b /\ (n + 1) + 1 = n + 2
      BY <1>2, <2>2, <2>4
    <3>2. blocks[n + 2].free
      BY <1>2, <2>1, <2>2, <3>1
    <3>3. blocks[n + 1].free
      BY <1>1, <1>2, <2>1, <2>2, <3>1
    <3> QED
      BY <1>3, <2>2, <3>1, <3>2, <3>3 DEF Pairs
  <2> QED
    BY <1>2, <2>2, <2>3, <2>4
<1>9. b \in Pairs /\ b # 0 /\ b \in Int
  BY <1>1, <1>2 DEF Pairs
<1>10. /\ \A m, n \in Pairs : m < b /\ n < b => m = n
       /\ \A m, n \in Triples : m <= n + 1
       /\ \A m \in Pairs, n \in Triples : m >= b
  BY <1>1, <1>9 DEF PassInv
<1>11. \A n \in Triples' : n \in Pairs' /\ n + 1 \in Pairs' /\ n >= b + 1 /\ n \in Int /\ n + 1 \in Triples
  <2> TAKE n \in Triples'
  <2>1. n \in Pairs' /\ n + 1 \in Pairs' /\ n >= b + 1
    BY <1>1 DEF Triples
  <2>2. n \in Int /\ n >= b /\ n + 1 >= b
    BY <1>8, <1>9, <2>1
  <2>3. n + 1 \in Pairs /\ (n + 1) + 1 \in Pairs
    BY <1>8, <2>1, <2>2
  <2> QED
    BY <2>1, <2>2, <2>3 DEF Triples
<1>12. b \in Pairs' => b \in Triples
  <2>1. b \in Pairs' => b + 1 \in Pairs
    BY <1>8, <1>9
  <2> QED
    BY <1>9, <2>1 DEF Triples
<1>13. PassInv'
  <2>1. ASSUME NEW m \in Pairs', NEW n \in Pairs', m < b', n < b' PROVE m = n
    <3>1. m \in Int /\ n \in Int /\ (m < b \/ m = b) /\ (n < b \/ n = b)
      BY <1>1, <1>8, <1>9, <2>1
    <3>2. (m < b => m \in Pairs) /\ (n < b => n \in Pairs)
      BY <1>8
    <3>3. ASSUME b \in Pairs' PROVE \A k \in Pairs : ~(k < b)
      <4>1. \A k \in Pairs : k \in Int /\ k >= b
        BY <1>10, <1>12, <3>3 DEF Pairs
      <4> QED
        BY <1>9, <4>1
    <3>4. CASE m < b /\ n < b
      BY <1>10, <3>2, <3>4
    <3>5. CASE m = b \/ n = b
      BY <3>1, <3>2, <3>3, <3>5
    <3> QED
      BY <3>1, <3>4, <3>5
  <2>2. ASSUME NEW m \in Triples', NEW n \in Triples' PROVE m <= n + 1
    <3>1. m + 1 <= (n + 1) + 1 /\ m \in Int /\ n \in Int
      BY <1>10, <1>11
    <3> QED
      BY <3>1
  <2>3. ASSUME NEW m \in Pairs', NEW n \in Triples' PROVE m >= b'
    <3>1. n + 1 \in Triples /\ n >= b + 1 /\ n \in Int /\ m \in Int
      BY <1>8, <1>11
    <3>2. ~(m < b)
      BY <1>8, <1>9, <1>10, <3>1
    <3>3. m # b
      BY <1>9, <1>10, <1>12, <3>1
    <3> QED
      BY <1>1, <1>9, <3>1, <3>2, <3>3
  <2> QED
    BY <2>1, <2>2, <2>3 DEF PassInv
<1>14. AtMostOnePair' /\ b' \in Nat
  BY <1>1 DEF AtMostOnePair
<1> QED
  BY <1>1, <1>7, <1>13, <1>14, MergeKeepsList DEF HeapInv

LEMMA StepPastKeeps == ASSUME HeapInv, StepPast PROVE HeapInv'
<1>1. /\ UNCHANGED <<blocks, live>> /\ b' = b + 1 /\ b \in Nat /\ b # 0 /\ b \notin Pairs
  BY DEF HeapInv, StepPast, Pairs
<1>2. ListOK' /\ LiveIsReserved' /\ Pairs' = Pairs
  BY <1>1 DEF HeapInv, ListOK, BlocksTile, LiveIsReserved, End, Pairs
<1>3. \A n \in Pairs : n \in Int
  BY DEF Pairs
<1>4. Triples' \subseteq Triples
  BY <1>1, <1>2, <1>3 DEF Triples
<1>5. PassInv
  BY DEF HeapInv
<1>6. \A n \in Pairs : n < b' => n < b
  BY <1>1, <1>3
<1>7. \A n \in Pairs : n >= b => n >= b'
  BY <1>1, <1>3
<1>8. PassInv'
  BY <1>1, <1>2, <1>4, <1>5, <1>6, <1>7 DEF PassInv
<1>9. AtMostOnePair' /\ b' \in Nat
  BY <1>1 DEF AtMostOnePair
<1> QED
  BY <1>1, <1>2, <1>8, <1>9 DEF HeapInv

LEMMA KfreeReturnsKeeps == ASSUME HeapInv, KfreeReturns PROVE HeapInv'
<1>1. UNCHANGED <<blocks, live>> /\ b' = 0 /\ b \in Nat /\ b # 0 /\ b >= Len(blocks) /\ PassInv
  BY DEF HeapInv, KfreeReturns
<1>2. ListOK' /\ LiveIsReserved' /\ Pairs' = Pairs
  BY <1>1 DEF HeapInv, ListOK, BlocksTile, LiveIsReserved, End, Pairs
<1>3. Len(blocks) \in Nat
  BY ListFacts DEF HeapInv
<1>4. \A n \in Pairs : n < b
  BY <1>1, <1>3 DEF Pairs
<1>5. AtMostOnePair' /\ PassInv'
  BY <1>1, <1>2, <1>4 DEF AtMostOnePair, PassInv
<1> QED
  BY <1>1, <1>2, <1>5 DEF HeapInv

(* A list with block j marked free or not free. *)
LEMMA Marked ==
  ASSUME ListOK, NEW j \in 1 .. Len(blocks), NEW free \in BOOLEAN,
         blocks' = [blocks EXCEPT ![j] = Block(blocks[j].at, blocks[j].size, free)]
  PROVE  /\ ListOK' /\ Len(blocks') = Len(blocks) /\ DOMAIN blocks' = 1 .. Len(blocks)
         /\ blocks'[j] = Block(blocks[j].at, blocks[j].size, free)
         /\ blocks'[j].at = blocks[j].at /\ blocks'[j].size = blocks[j].size /\ blocks'[j].free = free
         /\ \A n \in 1 .. Len(blocks) : n # j => blocks'[n] = blocks[n]
<1> DEFINE marked == Block(blocks[j].at, blocks[j].size, free)
<1>1. blocks \in Seq(BlockType) /\ Len(blocks) \in Nat /\ DOMAIN blocks = 1 .. Len(blocks)
  BY ListFacts DEF ListOK
<1>2. marked \in BlockType /\ marked.at = blocks[j].at /\ marked.size = blocks[j].size /\ marked.free = free
  <2>1. blocks[j].at \in Nat /\ blocks[j].size \in Nat
    BY ListFacts
  <2> QED
    BY <2>1 DEF BlockType, Block
<1> HIDE DEF marked
<1>3. blocks' = [blocks EXCEPT ![j] = marked]
  BY DEF marked
<1>4. /\ blocks' \in Seq(BlockType) /\ Len(blocks') = Len(blocks) /\ blocks'[j] = marked
      /\ \A n \in 1 .. Len(blocks) : n # j => blocks'[n] = blocks[n]
  BY <1>1, <1>2, <1>3
<1>5. \A n \in 1 .. Len(blocks) : blocks'[n].at = blocks[n].at /\ blocks'[n].size = blocks[n].size
  BY <1>2, <1>4
<1>6. ListOK'
  BY <1>4, <1>5, SameShape
<1> QED
  BY <1>1, <1>2, <1>4, <1>6 DEF marked

LEMMA KfreeKeeps ==
  ASSUME HeapInv, NEW a \in live, Kfree(a) PROVE HeapInv'
<1> DEFINE L == Len(blocks)
<1>1. /\ ListOK /\ LiveIsReserved /\ AtMostOnePair /\ live \subseteq [at : Nat, size : Nat]
      /\ b = 0 /\ b' = 1 /\ live' = live \ {a}
  BY DEF HeapInv, Kfree
<1>2. L \in Nat /\ DOMAIN blocks = 1 .. L /\ \A m, n \in 1 .. L : blocks[m].at = blocks[n].at => m = n
  BY <1>1, ListFacts
<1>3. PICK j \in 1 .. L : blocks[j].at = a.at - HEADER /\ ~blocks[j].free
  BY <1>1, <1>2 DEF LiveIsReserved
<1>4. blocks' = [blocks EXCEPT ![j] = Block(blocks[j].at, blocks[j].size, TRUE)]
  <2>1. \A n \in 1 .. L : blocks[n].at = a.at - HEADER <=> n = j
    BY <1>2, <1>3
  <2>2. blocks \in Seq(BlockType)
    BY <1>1 DEF ListOK
  <2>3. blocks' = [n \in 1 .. L |-> IF blocks[n].at = a.at - HEADER THEN Block(blocks[n].at, blocks[n].size, TRUE)
                                    ELSE blocks[n]]
    BY <1>2 DEF Kfree
  <2>4. [blocks EXCEPT ![j] = Block(blocks[j].at, blocks[j].size, TRUE)]
          = [n \in 1 .. L |-> IF n = j THEN Block(blocks[j].at, blocks[j].size, TRUE) ELSE blocks[n]]
    BY <1>2, <2>2
  <2> QED
    BY <2>1, <2>3, <2>4
<1>5. /\ ListOK' /\ Len(blocks') = L /\ DOMAIN blocks' = 1 .. L
      /\ blocks'[j].at = blocks[j].at /\ blocks'[j].size = blocks[j].size /\ blocks'[j].free
      /\ \A n \in 1 .. L : n # j => blocks'[n] = blocks[n]
  BY <1>1, <1>4, Marked
<1>6. LiveIsReserved'
  <2>1. ASSUME NEW x \in live', NEW y \in live' \ {x} PROVE x.at % ALIGN = 0 /\ y.at # x.at
    BY <1>1 DEF LiveIsReserved
  <2>2. ASSUME NEW x \in live'
        PROVE  \E n \in DOMAIN blocks' :
                 /\ blocks'[n].at = x.at - HEADER /\ ~blocks'[n].free
                 /\ blocks'[n].size >= x.size \/ x.size + ALIGN - 1 >= WORD
    <3>1. PICK n \in 1 .. L :
                 /\ blocks[n].at = x.at - HEADER /\ ~blocks[n].free
                 /\ blocks[n].size >= x.size \/ x.size + ALIGN - 1 >= WORD
      BY <1>1, <1>2 DEF LiveIsReserved
    <3>2. x.at # a.at /\ x.at \in Nat /\ a.at \in Nat /\ HEADER \in Nat
      BY <1>1, HeapAssumption DEF LiveIsReserved
    <3>3. n # j
      BY <1>3, <3>1, <3>2
    <3> QED
      BY <1>5, <3>1, <3>3
  <2>3. ASSUME NEW n \in DOMAIN blocks', ~blocks'[n].free PROVE \E x \in live' : x.at = blocks'[n].at + HEADER
    <3>1. n \in 1 .. L /\ n # j /\ blocks'[n] = blocks[n]
      BY <1>5, <2>3
    <3>2. PICK x \in live : x.at = blocks[n].at + HEADER
      BY <1>1, <1>2, <2>3, <3>1 DEF LiveIsReserved
    <3>3. blocks[n].at \in Nat /\ blocks[j].at \in Nat /\ HEADER \in Nat /\ a.at \in Nat
      BY <1>1, <3>1, ListFacts
    <3>4. blocks[n].at # blocks[j].at
      BY <1>2, <3>1
    <3>5. x # a
      BY <1>3, <3>2, <3>3, <3>4
    <3> QED
      BY <1>1, <3>1, <3>2, <3>5
  <2>4. \A x \in live' : x.at % ALIGN = 0
    BY <1>1 DEF LiveIsReserved
  <2> QED
    BY <2>1, <2>2, <2>3, <2>4 DEF LiveIsReserved
<1>7. ASSUME NEW n \in Pairs' PROVE n \in Int /\ n >= 1 /\ (n \in Pairs \/ n = j \/ n = j - 1)
  <2>1. n \in 1 .. L - 1 /\ blocks'[n].free /\ blocks'[n + 1].free
    BY <1>5 DEF Pairs
  <2>2. n \in 1 .. L /\ n + 1 \in 1 .. L
    BY <1>2, <2>1
  <2>3. CASE n # j /\ n + 1 # j
    <3>1. n \in Pairs
      BY <1>5, <2>1, <2>2, <2>3 DEF Pairs
    <3> QED
      BY <2>1, <3>1
  <2> QED
    BY <2>1, <2>3
<1>8. \A m, n \in Pairs : m = n
  BY <1>1 DEF AtMostOnePair
<1>9. PassInv'
  <2>1. \A m, n \in Pairs' : m < b' /\ n < b' => m = n
    BY <1>1, <1>7
  <2>2. ASSUME NEW m \in Triples', NEW n \in Triples' PROVE m <= n + 1
    <3>1. m \in Pairs' /\ m + 1 \in Pairs' /\ n \in Pairs' /\ n + 1 \in Pairs'
      BY DEF Triples
    <3>2. /\ m \in Int /\ n \in Int
          /\ m \in Pairs \/ m = j \/ m = j - 1
          /\ m + 1 \in Pairs \/ m + 1 = j \/ m + 1 = j - 1
          /\ n \in Pairs \/ n = j \/ n = j - 1
          /\ n + 1 \in Pairs \/ n + 1 = j \/ n + 1 = j - 1
      BY <1>7, <3>1
    <3>3. m > n + 1 => m # n /\ m # n + 1 /\ m + 1 # n /\ m + 1 # n + 1 /\ m # m + 1 /\ n # n + 1
      BY <3>2
    <3> QED
      BY <1>8, <3>2, <3>3
  <2>3. \A m \in Pairs' : m >= b'
    BY <1>1, <1>7
  <2> QED
    BY <2>1, <2>2, <2>3 DEF PassInv
<1>10. AtMostOnePair' /\ b' \in Nat /\ live' \subseteq [at : Nat, size : Nat]
  BY <1>1 DEF AtMostOnePair
<1> QED
  BY <1>5, <1>6, <1>9, <1>10 DEF HeapInv

(* The list after a split. *)
LEMMA SplitIs ==
  ASSUME ListOK, NEW k \in 1 .. Len(blocks), NEW size \in Nat,
         blocks[k].size > size + HEADER + SPARE,
         blocks' = Split(k, size)
  PROVE  /\ blocks' \in Seq(BlockType) /\ Len(blocks') = Len(blocks) + 1
         /\ \A n \in 1 .. Len(blocks) + 1 :
              blocks'[n] = IF n < k THEN blocks[n]
                           ELSE IF n = k THEN Block(blocks[k].at, size, FALSE)
                           ELSE IF n = k + 1
                             THEN Block(blocks[k].at + HEADER + size, blocks[k].size - size - HEADER, TRUE)
                           ELSE blocks[n - 1]
         /\ blocks[k].size - size - HEADER \in Nat
<1> DEFINE taken == Block(blocks[k].at, size, FALSE)
           rest  == Block(blocks[k].at + HEADER + size, blocks[k].size - size - HEADER, TRUE)
           list  == ReplaceAt(blocks, k, taken)
<1>1. /\ Len(blocks) \in Nat /\ blocks \in Seq(BlockType) /\ HEADER \in Nat /\ SPARE \in Nat
      /\ blocks[k].at \in Nat /\ blocks[k].size \in Nat
  BY ListFacts DEF ListOK
<1>2. blocks[k].size - size - HEADER \in Nat /\ blocks[k].at + HEADER + size \in Nat
  BY <1>1, SMTT(30)
<1>3. taken \in BlockType /\ rest \in BlockType
  BY <1>1, <1>2 DEF Block, BlockType
<1> HIDE DEF taken, rest
<1>4. /\ list \in Seq(BlockType) /\ Len(list) = Len(blocks) /\ list[k] = taken
      /\ \A n \in 1 .. Len(blocks) : n # k => list[n] = blocks[n]
  BY <1>1, <1>3 DEF ReplaceAt
<1> HIDE DEF list
<1>5. blocks' = InsertAt(list, k + 1, rest)
  BY DEF Split, list, taken, rest
<1>6. k + 1 \in 1 .. Len(list) + 1
  BY <1>1, <1>4
<1>7. /\ blocks' \in Seq(BlockType) /\ Len(blocks') = Len(list) + 1
      /\ \A n \in 1 .. Len(list) + 1 :
           blocks'[n] = IF n < k + 1 THEN list[n] ELSE IF n = k + 1 THEN rest ELSE list[n - 1]
  <2>1. /\ InsertAt(list, k + 1, rest) \in Seq(BlockType)
        /\ Len(InsertAt(list, k + 1, rest)) = Len(list) + 1
        /\ \A n \in 1 .. Len(list) + 1 : InsertAt(list, k + 1, rest)[n] =
             IF n < k + 1 THEN list[n] ELSE IF n = k + 1 THEN rest ELSE list[n - 1]
    <3>1. list \in Seq(BlockType) /\ rest \in BlockType
      BY <1>3, <1>4
    <3> QED
      BY ONLY <1>6, <3>1, InsertAtIs
  <2> QED
    BY <1>5, <2>1
<1>8. ASSUME NEW n \in 1 .. Len(blocks) + 1
      PROVE  blocks'[n] = IF n < k THEN blocks[n] ELSE IF n = k THEN taken
                          ELSE IF n = k + 1 THEN rest ELSE blocks[n - 1]
  <2>1. CASE n < k
    <3>1. n < k + 1 /\ n # k /\ n \in 1 .. Len(blocks)
      BY <1>1, <2>1
    <3> QED
      BY <1>4, <1>7, <2>1, <3>1
  <2>2. CASE n = k
    <3>1. n < k + 1 /\ ~(n < k)
      BY <1>1, <2>2
    <3> QED
      BY <1>4, <1>7, <2>2, <3>1
  <2>3. CASE n = k + 1
    <3>1. ~(n < k + 1) /\ ~(n < k) /\ n # k
      BY <1>1, <2>3
    <3> QED
      BY <1>4, <1>7, <2>3, <3>1
  <2>4. CASE n > k + 1
    <3>1. ~(n < k + 1) /\ ~(n < k) /\ n # k /\ n # k + 1 /\ n - 1 \in 1 .. Len(blocks) /\ n - 1 # k
      BY <1>1, <2>4
    <3> QED
      BY <1>4, <1>7, <3>1
  <2> QED
    BY <1>1, <2>1, <2>2, <2>3, <2>4
<1> QED
  BY <1>2, <1>4, <1>7, <1>8 DEF taken, rest

LEMMA SplitArith ==
  ASSUME NEW at \in Nat, NEW h \in Nat, NEW sz \in Nat, NEW t \in Nat, sz - t - h \in Nat
  PROVE  /\ (at + h + t) + h + (sz - t - h) = at + h + sz
         /\ at + h + t <= at + h + sz
         /\ at <= at + h + t /\ at + h + t \in Nat
  OBVIOUS

LEMMA SplitKeepsList ==
  ASSUME ListOK, NEW k \in 1 .. Len(blocks), NEW size \in Nat, size % ALIGN = 0,
         blocks[k].size > size + HEADER + SPARE,
         blocks' = Split(k, size)
  PROVE  ListOK'
<1> DEFINE taken == Block(blocks[k].at, size, FALSE)
           rest  == Block(blocks[k].at + HEADER + size, blocks[k].size - size - HEADER, TRUE)
           L     == Len(blocks)
<1>1. /\ blocks' \in Seq(BlockType) /\ Len(blocks') = L + 1
      /\ \A n \in 1 .. L + 1 : blocks'[n] = IF n < k THEN blocks[n] ELSE IF n = k THEN taken
                                          ELSE IF n = k + 1 THEN rest ELSE blocks[n - 1]
      /\ blocks[k].size - size - HEADER \in Nat
  BY SplitIs
<1>2. /\ L \in Nat /\ HEADER \in Nat /\ HEADER > 0 /\ HEADER % ALIGN = 0
      /\ \A n \in 1 .. L :
           /\ blocks[n].at \in Nat /\ blocks[n].size \in Nat
           /\ blocks[n].at % ALIGN = 0 /\ blocks[n].size % ALIGN = 0
           /\ End(blocks[n]) \in Nat /\ End(blocks[n]) = blocks[n].at + HEADER + blocks[n].size
      /\ \A m, n \in 1 .. L : m < n => End(blocks[m]) <= blocks[n].at
  BY ListFacts
<1>3. blocks # <<>> /\ L >= 1 /\ k \in Int
  BY <1>2
<1>4. /\ blocks[1].at = 0
      /\ \A n \in 1 .. L - 1 : blocks[n + 1].at = End(blocks[n])
      /\ End(blocks[L]) = Arena
  BY <1>3 DEF ListOK, BlocksTile
<1>5. /\ taken.at = blocks[k].at /\ taken.size = size
      /\ rest.at = blocks[k].at + HEADER + size /\ rest.size = blocks[k].size - size - HEADER
      /\ blocks[k].at \in Nat /\ blocks[k].size \in Nat
  <2>1. blocks[k].at \in Nat /\ blocks[k].size \in Nat
    BY <1>2
  <2>2. taken.at = blocks[k].at /\ taken.size = size
    BY DEF Block
  <2>3. rest.at = blocks[k].at + HEADER + size /\ rest.size = blocks[k].size - size - HEADER
    BY DEF Block
  <2> QED
    BY <2>1, <2>2, <2>3
<1> HIDE DEF taken, rest
<1>6. /\ End(taken) = rest.at /\ End(rest) = End(blocks[k]) /\ rest.at \in Nat
      /\ End(taken) <= End(blocks[k]) /\ blocks[k].at <= rest.at
  <2>1. End(taken) = taken.at + HEADER + taken.size /\ End(rest) = rest.at + HEADER + rest.size
    BY DEF End
  <2>2. End(blocks[k]) = blocks[k].at + HEADER + blocks[k].size
    BY <1>2
  <2>3. /\ (blocks[k].at + HEADER + size) + HEADER + (blocks[k].size - size - HEADER)
              = blocks[k].at + HEADER + blocks[k].size
        /\ blocks[k].at + HEADER + size <= blocks[k].at + HEADER + blocks[k].size
        /\ blocks[k].at <= blocks[k].at + HEADER + size /\ blocks[k].at + HEADER + size \in Nat
    <3>1. blocks[k].at \in Nat /\ blocks[k].size \in Nat /\ HEADER \in Nat /\ size \in Nat
      BY <1>2, <1>5
    <3>2. blocks[k].size - size - HEADER \in Nat
      BY <1>1
    <3> DEFINE at == blocks[k].at
               sz == blocks[k].size
    <3>3. at \in Nat /\ sz \in Nat /\ sz - size - HEADER \in Nat
      BY <3>1, <3>2
    <3> HIDE DEF at, sz
    <3>4. /\ (at + HEADER + size) + HEADER + (sz - size - HEADER) = at + HEADER + sz
          /\ at + HEADER + size <= at + HEADER + sz
          /\ at <= at + HEADER + size /\ at + HEADER + size \in Nat
      BY <3>1, <3>3, SplitArith
    <3> QED
      BY <3>4 DEF at, sz
  <2> QED
    BY <1>5, <2>1, <2>2, <2>3
<1>7. /\ taken.at % ALIGN = 0 /\ taken.size % ALIGN = 0 /\ rest.at % ALIGN = 0 /\ rest.size % ALIGN = 0
  <2>0. /\ blocks[k].at \in Int /\ blocks[k].at % ALIGN = 0 /\ HEADER \in Int /\ HEADER % ALIGN = 0
        /\ blocks[k].size \in Int /\ blocks[k].size % ALIGN = 0 /\ size \in Int
    BY <1>2
  <2>1. (blocks[k].at + HEADER) % ALIGN = 0 /\ (blocks[k].size - size) % ALIGN = 0
    BY <2>0, Multiples
  <2>2. blocks[k].at + HEADER \in Int /\ blocks[k].size - size \in Int
    BY <2>0
  <2>3. ((blocks[k].at + HEADER) + size) % ALIGN = 0
    BY <2>0, <2>1, <2>2, Multiples
  <2>4. ((blocks[k].size - size) - HEADER) % ALIGN = 0
    BY <2>0, <2>1, <2>2, Multiples
  <2>5. rest.size = (blocks[k].size - size) - HEADER /\ rest.at = (blocks[k].at + HEADER) + size
    BY <1>5
  <2> QED
    BY <1>5, <2>0, <2>3, <2>4, <2>5
<1>8. \A n \in 1 .. L + 1 :
        /\ n <= k => n \in 1 .. L /\ blocks'[n].at = blocks[n].at
        /\ n < k => End(blocks'[n]) = End(blocks[n])
        /\ n = k => End(blocks'[n]) = rest.at
        /\ n = k + 1 => blocks'[n].at = rest.at
        /\ n > k => n - 1 \in 1 .. L /\ End(blocks'[n]) = End(blocks[n - 1])
        /\ n > k + 1 => n - 1 \in 1 .. L /\ blocks'[n].at = blocks[n - 1].at
  <2> TAKE n \in 1 .. L + 1
  <2>1. CASE n < k
    <3>1. n \in 1 .. L /\ ~(n > k) /\ ~(n > k + 1) /\ n # k /\ n # k + 1
      BY <1>2, <1>3, <2>1
    <3> QED
      BY <1>1, <2>1, <3>1
  <2>2. CASE n = k
    <3>1. n \in 1 .. L /\ ~(n > k) /\ ~(n > k + 1) /\ ~(n < k) /\ n # k + 1
      BY <1>2, <1>3, <2>2
    <3> QED
      BY <1>1, <1>5, <1>6, <2>2, <3>1
  <2>3. CASE n = k + 1
    <3>1. n - 1 = k /\ ~(n <= k) /\ ~(n > k + 1) /\ ~(n < k) /\ n # k
      BY <1>2, <1>3, <2>3
    <3> QED
      BY <1>1, <1>6, <2>3, <3>1
  <2>4. CASE n > k + 1
    <3>1. n - 1 \in 1 .. L /\ ~(n <= k) /\ ~(n < k) /\ n # k /\ n # k + 1
      BY <1>2, <1>3, <2>4
    <3> QED
      BY <1>1, <2>4, <3>1
  <2> QED
    BY <1>3, <2>1, <2>2, <2>3, <2>4
<1>9. BlocksTile'
  <2>1. blocks'[1].at = 0
    <3>1. 1 \in 1 .. L + 1 /\ 1 <= k
      BY <1>2, <1>3
    <3> QED
      BY <1>4, <1>8, <3>1
  <2>2. ASSUME NEW n \in 1 .. (L + 1) - 1 PROVE blocks'[n + 1].at = End(blocks'[n])
    <3>1. n \in 1 .. L + 1 /\ n + 1 \in 1 .. L + 1
      BY <1>2
    <3>2. CASE n < k
      <4>1. n + 1 <= k /\ n \in 1 .. L - 1
        BY <1>2, <1>3, <3>2
      <4> QED
        BY <1>4, <1>8, <3>1, <3>2, <4>1
    <3>3. CASE n = k
      BY <1>8, <3>1, <3>3
    <3>4. CASE n > k
      <4>1. n + 1 > k + 1 /\ n - 1 \in 1 .. L - 1 /\ (n + 1) - 1 = (n - 1) + 1
        BY <1>2, <1>3, <3>4
      <4>2. blocks'[n + 1].at = blocks[(n + 1) - 1].at
        BY <1>8, <3>1, <4>1
      <4>3. End(blocks'[n]) = End(blocks[n - 1])
        BY <1>8, <3>1, <3>4
      <4> QED
        BY <1>4, <4>1, <4>2, <4>3
    <3> QED
      BY <1>3, <3>2, <3>3, <3>4
  <2>3. End(blocks'[L + 1]) = Arena
    <3>1. L + 1 \in 1 .. L + 1 /\ L + 1 > k /\ (L + 1) - 1 = L
      BY <1>2, <1>3
    <3> QED
      BY <1>4, <1>8, <3>1
  <2>4. \A n \in 1 .. L + 1 : blocks'[n].size >= 0
    <3>1. \A n \in 1 .. L + 1 : blocks'[n] \in BlockType
      BY <1>1
    <3> QED
      BY <3>1 DEF BlockType
  <2>5. DOMAIN blocks' = 1 .. L + 1
    BY <1>1
  <2> QED
    BY <1>1, <2>1, <2>2, <2>3, <2>4, <2>5 DEF BlocksTile, End
<1>10. ASSUME NEW m \in 1 .. L + 1, NEW n \in 1 .. L + 1, m < n PROVE End(blocks'[m]) <= blocks'[n].at
  <2>1. CASE n <= k
    <3>1. m < k /\ m <= k
      BY <1>3, <1>10, <2>1
    <3> QED
      BY <1>2, <1>8, <1>10, <2>1, <3>1
  <2>2. CASE n = k + 1 /\ m < k
    <3>1. m \in 1 .. L /\ End(blocks'[m]) = End(blocks[m]) /\ blocks'[n].at = rest.at /\ End(blocks[m]) <= blocks[k].at
      BY <1>2, <1>3, <1>8, <2>2
    <3> QED
      BY <1>2, <1>5, <1>6, <3>1
  <2>3. CASE n = k + 1 /\ m = k
    BY <1>6, <1>8, <2>3
  <2>4. CASE n > k + 1 /\ m < k
    <3>1. m < n - 1 /\ m <= k
      BY <1>3, <2>4
    <3> QED
      BY <1>2, <1>8, <2>4, <3>1
  <2>5. CASE n > k + 1 /\ m = k
    <3>1. k < n - 1 /\ n - 1 \in 1 .. L /\ blocks'[n].at = blocks[n - 1].at /\ End(blocks'[m]) = rest.at
      BY <1>3, <1>8, <2>5
    <3>2. End(blocks[k]) <= blocks[n - 1].at /\ blocks[n - 1].at \in Nat /\ End(blocks[k]) \in Nat
      BY <1>2, <3>1
    <3> QED
      BY <1>6, <3>1, <3>2
  <2>6. CASE m > k
    <3>1. n > k + 1 /\ m - 1 < n - 1
      BY <1>3, <1>10, <2>6
    <3> QED
      BY <1>2, <1>8, <2>6, <3>1
  <2> QED
    BY <1>3, <1>10, <2>1, <2>2, <2>3, <2>4, <2>5, <2>6
<1>11. \A n \in 1 .. L + 1 : blocks'[n].at % ALIGN = 0 /\ blocks'[n].size % ALIGN = 0
  <2> TAKE n \in 1 .. L + 1
  <2>1. (n < k => n \in 1 .. L) /\ (n > k + 1 => n - 1 \in 1 .. L) /\ (n < k \/ n = k \/ n = k + 1 \/ n > k + 1)
    BY <1>2, <1>3
  <2>2. \A q \in 1 .. L : blocks[q].at % ALIGN = 0 /\ blocks[q].size % ALIGN = 0
    BY <1>2
  <2> QED
    BY <1>1, <1>7, <2>1, <2>2
<1>12. DOMAIN blocks' = 1 .. L + 1
  BY <1>1
<1> QED
  BY <1>1, <1>9, <1>10, <1>11, <1>12 DEF ListOK, End

(* A free block k becomes a new caller's, block j of the new list. *)
LEMMA NewReserved ==
  ASSUME ListOK, LiveIsReserved, live \subseteq [at : Nat, size : Nat],
         NEW k \in 1 .. Len(blocks), blocks[k].free, NEW request \in Nat,
         live' = live \cup {[at |-> blocks[k].at + HEADER, size |-> request]},
         NEW j \in DOMAIN blocks', ~blocks'[j].free, blocks'[j].at = blocks[k].at,
         blocks'[j].size >= request \/ request + ALIGN - 1 >= WORD,
         \A n \in DOMAIN blocks : ~blocks[n].free => \E m \in DOMAIN blocks' : blocks'[m] = blocks[n],
         \A n \in DOMAIN blocks' : ~blocks'[n].free /\ n # j => \E m \in DOMAIN blocks : blocks[m] = blocks'[n]
  PROVE  LiveIsReserved' /\ live' \subseteq [at : Nat, size : Nat]
<1> DEFINE new == [at |-> blocks[k].at + HEADER, size |-> request]
<1>1. /\ DOMAIN blocks = 1 .. Len(blocks) /\ blocks[k].at \in Nat /\ HEADER \in Nat
      /\ blocks[k].at % ALIGN = 0 /\ HEADER % ALIGN = 0
      /\ \A m, n \in 1 .. Len(blocks) : blocks[m].at = blocks[n].at => m = n
  BY ListFacts
<1>2. new \in [at : Nat, size : Nat] /\ new.at = blocks[k].at + HEADER /\ new.size = request
  BY <1>1
<1>3. live' = live \cup {new}
  OBVIOUS
<1> HIDE DEF new
<1>4. new.at % ALIGN = 0
  <2>1. blocks[k].at \in Int /\ HEADER \in Int
    BY <1>1
  <2>2. (blocks[k].at + HEADER) % ALIGN = 0
    BY <1>1, <2>1, Multiples
  <2> QED
    BY <1>2, <2>2
<1>5. ASSUME NEW a \in live PROVE a.at # new.at
  <2>1. PICK n \in DOMAIN blocks : blocks[n].at = a.at - HEADER /\ ~blocks[n].free
    BY DEF LiveIsReserved
  <2>2. n # k /\ n \in 1 .. Len(blocks)
    BY <1>1, <2>1
  <2>3. blocks[n].at # blocks[k].at
    BY <1>1, <2>2
  <2>4. a.at \in Nat
    OBVIOUS
  <2> QED
    BY <1>1, <1>2, <2>1, <2>3, <2>4
<1>6. ASSUME NEW a \in live'
      PROVE  \E m \in DOMAIN blocks' :
               /\ blocks'[m].at = a.at - HEADER /\ ~blocks'[m].free
               /\ blocks'[m].size >= a.size \/ a.size + ALIGN - 1 >= WORD
  <2>1. CASE a \in live
    <3>1. PICK n \in DOMAIN blocks :
            /\ blocks[n].at = a.at - HEADER /\ ~blocks[n].free
            /\ blocks[n].size >= a.size \/ a.size + ALIGN - 1 >= WORD
      BY <2>1 DEF LiveIsReserved
    <3>2. PICK m \in DOMAIN blocks' : blocks'[m] = blocks[n]
      BY <3>1
    <3> QED
      BY <3>1, <3>2
  <2>2. CASE a = new
    <3>1. blocks'[j].at = a.at - HEADER
      BY <1>1, <1>2, <2>2
    <3> QED
      BY <1>2, <2>2, <3>1
  <2> QED
    BY <1>3, <2>1, <2>2
<1>7. ASSUME NEW n \in DOMAIN blocks', ~blocks'[n].free PROVE \E a \in live' : a.at = blocks'[n].at + HEADER
  <2>1. CASE n = j
    BY <1>2, <1>3, <2>1
  <2>2. CASE n # j
    <3>1. PICK m \in DOMAIN blocks : blocks[m] = blocks'[n]
      BY <1>7, <2>2
    <3>2. PICK a \in live : a.at = blocks[m].at + HEADER
      BY <1>7, <3>1 DEF LiveIsReserved
    <3> QED
      BY <1>3, <3>1, <3>2
  <2> QED
    BY <2>1, <2>2
<1>8. \A a \in live' : a.at % ALIGN = 0
  BY <1>3, <1>4 DEF LiveIsReserved
<1>9. \A a \in live' : \A other \in live' \ {a} : other.at # a.at
  BY <1>3, <1>5 DEF LiveIsReserved
<1>10. LiveIsReserved'
  BY <1>6, <1>7, <1>8, <1>9 DEF LiveIsReserved
<1> QED
  BY <1>2, <1>3, <1>10

LEMMA KmallocKeeps ==
  ASSUME HeapInv, NEW request \in Sizes, Kmalloc(request) PROVE HeapInv'
<1> DEFINE L    == Len(blocks)
           size == Rounded(request)
<1>1. /\ ListOK /\ LiveIsReserved /\ live \subseteq [at : Nat, size : Nat]
      /\ b = 0 /\ b' = 0 /\ \A m, n \in Pairs : m = n
  BY DEF HeapInv, Kmalloc, AtMostOnePair
<1>2. /\ L \in Nat /\ DOMAIN blocks = 1 .. L
      /\ \A n \in 1 .. L : blocks[n].size \in Nat
  BY <1>1, ListFacts
<1>3. PICK k \in 1 .. L :
        /\ FirstFit(k, size)
        /\ blocks' = IF blocks[k].size > size + HEADER + SPARE THEN Split(k, size) ELSE Reserved(k)
        /\ live' = live \cup {[at |-> blocks[k].at + HEADER, size |-> request]}
  BY <1>2 DEF Kmalloc
<1>4. request \in Nat /\ size \in Nat /\ size % ALIGN = 0 /\ (size >= request \/ request + ALIGN - 1 >= WORD)
  BY RoundedUp, HeapAssumption
<1>5. blocks[k].free /\ blocks[k].size >= size /\ blocks[k].size \in Nat /\ k \in Int
  BY <1>2, <1>3 DEF FirstFit, Fits
<1> HIDE DEF size
<1>6. CASE blocks[k].size > size + HEADER + SPARE
  <2> DEFINE taken == Block(blocks[k].at, size, FALSE)
             rest  == Block(blocks[k].at + HEADER + size, blocks[k].size - size - HEADER, TRUE)
  <2>1. blocks' = Split(k, size)
    BY <1>3, <1>6
  <2>2. /\ blocks' \in Seq(BlockType) /\ Len(blocks') = L + 1
        /\ \A n \in 1 .. L + 1 : blocks'[n] = IF n < k THEN blocks[n] ELSE IF n = k THEN taken
                                            ELSE IF n = k + 1 THEN rest ELSE blocks[n - 1]
    <3>1. ListOK /\ k \in 1 .. Len(blocks) /\ size \in Nat /\ blocks[k].size > size + HEADER + SPARE
      BY <1>1, <1>4, <1>6
    <3> QED
      BY ONLY <2>1, <3>1, SplitIs
  <2>3. ListOK'
    BY <1>1, <1>4, <1>6, <2>1, SplitKeepsList
  <2>4. taken.at = blocks[k].at /\ taken.size = size /\ ~taken.free /\ rest.free
    BY DEF Block
  <2> HIDE DEF taken, rest
  <2>5. DOMAIN blocks' = 1 .. L + 1 /\ k \in 1 .. L + 1 /\ blocks'[k] = taken
    BY <1>2, <2>2
  <2>6. ASSUME NEW n \in DOMAIN blocks, ~blocks[n].free PROVE \E m \in DOMAIN blocks' : blocks'[m] = blocks[n]
    <3>1. n # k /\ n \in 1 .. L
      BY <1>2, <1>5, <2>6
    <3>2. CASE n < k
      <4>1. n \in 1 .. L + 1
        BY <1>2, <3>1
      <4> QED
        BY <2>2, <2>5, <3>2, <4>1
    <3>3. CASE n > k
      <4>1. n + 1 \in 1 .. L + 1 /\ ~(n + 1 < k) /\ n + 1 # k /\ n + 1 # k + 1 /\ (n + 1) - 1 = n
        BY <1>2, <1>5, <3>1, <3>3
      <4> QED
        BY <2>2, <2>5, <4>1
    <3> QED
      BY <1>5, <3>1, <3>2, <3>3
  <2>7. ASSUME NEW n \in DOMAIN blocks', ~blocks'[n].free, n # k PROVE \E m \in DOMAIN blocks : blocks[m] = blocks'[n]
    <3>1. n \in 1 .. L + 1 /\ n # k + 1
      BY <1>5, <2>2, <2>4, <2>5, <2>7
    <3>2. (n < k => n \in 1 .. L) /\ (n > k + 1 => n - 1 \in 1 .. L) /\ (n < k \/ n > k + 1)
      BY <1>2, <1>5, <2>7, <3>1
    <3>3. CASE n < k
      BY <1>2, <2>2, <3>1, <3>2, <3>3
    <3>4. CASE n > k + 1
      <4>1. ~(n < k)
        BY <1>5, <3>1, <3>4
      <4> QED
        BY <1>2, <2>2, <2>7, <3>1, <3>2, <3>4, <4>1
    <3> QED
      BY <3>2, <3>3, <3>4
  <2>8. LiveIsReserved' /\ live' \subseteq [at : Nat, size : Nat]
    BY <1>1, <1>3, <1>4, <1>5, <2>4, <2>5, <2>6, <2>7, NewReserved, SMTT(30)
  <2>9. k \notin Pairs'
    BY <2>4, <2>5 DEF Pairs
  <2>10. ASSUME NEW n \in Pairs'
         PROVE  n \in Int /\ (n <= k => n \in Pairs) /\ (n > k => n - 1 \in Pairs)
    <3>1. n \in 1 .. (L + 1) - 1 /\ blocks'[n].free /\ blocks'[n + 1].free
      BY <2>2 DEF Pairs
    <3>2. n \in 1 .. L + 1 /\ n + 1 \in 1 .. L + 1 /\ n \in Int /\ n # k /\ n + 1 # k
      BY <1>2, <2>4, <2>5, <3>1
    <3>3. CASE n < k
      <4>1. n + 1 < k /\ n \in 1 .. L - 1
        BY <1>2, <1>5, <3>2, <3>3
      <4>2. n \in Pairs
        BY <2>2, <3>1, <3>2, <3>3, <4>1 DEF Pairs
      <4> QED
        BY <1>5, <3>2, <3>3, <4>2
    <3>4. CASE n > k
      <4>1. /\ n - 1 \in 1 .. L - 1 /\ n - 1 >= k /\ (n + 1) - 1 = n /\ (n - 1) + 1 = n
            /\ ~(n + 1 < k) /\ n + 1 # k + 1 /\ ~(n < k)
        BY <1>2, <1>5, <3>1, <3>2, <3>4
      <4>2. blocks[n].free
        BY <2>2, <3>1, <3>2, <4>1
      <4>3. blocks[n - 1].free
        <5>1. CASE n = k + 1
          <6>1. n - 1 = k
            BY <1>5, <5>1
          <6> QED
            BY <1>5, <6>1
        <5>2. CASE n # k + 1
          BY <2>2, <3>1, <3>2, <4>1, <5>2
        <5> QED
          BY <5>1, <5>2
      <4>4. n - 1 \in Pairs
        BY <4>1, <4>2, <4>3 DEF Pairs
      <4> QED
        BY <1>5, <3>2, <3>4, <4>4
    <3> QED
      BY <1>5, <3>2, <3>3, <3>4
  <2>11. \A m, n \in Pairs' : m = n
    <3> SUFFICES ASSUME NEW m \in Pairs', NEW n \in Pairs' PROVE m = n
      OBVIOUS
    <3>1. /\ m \in Int /\ (m < k => m \in Pairs) /\ (m > k => m - 1 \in Pairs)
          /\ n \in Int /\ (n < k => n \in Pairs) /\ (n > k => n - 1 \in Pairs) /\ m # k /\ n # k
      BY <1>5, <2>9, <2>10
    <3> QED
      BY <1>1, <1>5, <3>1
  <2>12. AtMostOnePair' /\ PassInv' /\ b' \in Nat
    BY <1>1, <2>11 DEF AtMostOnePair, PassInv
  <2> QED
    BY <2>3, <2>8, <2>12 DEF HeapInv
<1>7. CASE ~(blocks[k].size > size + HEADER + SPARE)
  <2>1. blocks' = [blocks EXCEPT ![k] = Block(blocks[k].at, blocks[k].size, FALSE)]
    BY <1>3, <1>7 DEF Reserved, ReplaceAt
  <2>2. /\ ListOK' /\ Len(blocks') = L /\ DOMAIN blocks' = 1 .. L
        /\ blocks'[k].at = blocks[k].at /\ blocks'[k].size = blocks[k].size /\ blocks'[k].free = FALSE
        /\ \A n \in 1 .. L : n # k => blocks'[n] = blocks[n]
    BY <1>1, <2>1, Marked
  <2>3. \A n \in DOMAIN blocks : ~blocks[n].free => \E m \in DOMAIN blocks' : blocks'[m] = blocks[n]
    BY <1>2, <1>5, <2>2
  <2>4. \A n \in DOMAIN blocks' : ~blocks'[n].free /\ n # k => \E m \in DOMAIN blocks : blocks[m] = blocks'[n]
    BY <1>2, <2>2
  <2>5. blocks'[k].size >= request \/ request + ALIGN - 1 >= WORD
    BY <1>4, <1>5, <2>2
  <2>6. LiveIsReserved' /\ live' \subseteq [at : Nat, size : Nat]
    BY <1>1, <1>3, <1>4, <1>5, <2>2, <2>3, <2>4, <2>5, NewReserved
  <2>7. Pairs' \subseteq Pairs
    <3> SUFFICES ASSUME NEW n \in Pairs' PROVE n \in Pairs
      OBVIOUS
    <3>1. n \in 1 .. L - 1 /\ blocks'[n].free /\ blocks'[n + 1].free /\ n \in 1 .. L /\ n + 1 \in 1 .. L
      BY <1>2, <2>2 DEF Pairs
    <3> QED
      BY <2>2, <3>1 DEF Pairs
  <2>8. AtMostOnePair' /\ PassInv' /\ b' \in Nat
    BY <1>1, <2>7 DEF AtMostOnePair, PassInv
  <2> QED
    BY <2>2, <2>6, <2>8 DEF HeapInv
<1> QED
  BY <1>6, <1>7

----------------------------------------------------------------------------
LEMMA HeapStep == HeapInv /\ [Next]_vars => HeapInv'
<1> SUFFICES ASSUME HeapInv, [Next]_vars PROVE HeapInv'
  OBVIOUS
<1>1. CASE UNCHANGED vars
  BY <1>1 DEF vars, HeapInv, ListOK, BlocksTile, LiveIsReserved, AtMostOnePair, PassInv, Pairs, Triples, End
<1>2. CASE \E request \in Sizes : Kmalloc(request)
  BY <1>2, KmallocKeeps
<1>3. CASE \E a \in live : Kfree(a)
  BY <1>3, KfreeKeeps
<1>4. CASE Merge
  BY <1>4, MergeKeeps
<1>5. CASE StepPast
  BY <1>5, StepPastKeeps
<1>6. CASE KfreeReturns
  BY <1>6, KfreeReturnsKeeps
<1> QED
  BY <1>1, <1>2, <1>3, <1>4, <1>5, <1>6 DEF Next

(* heap.c: however kmalloc splits and kfree merges, also half way through  *)
(* the pass of kfree, the headers form one chain through the whole arena,  *)
(* without gap or overlap.                                                 *)
THEOREM HeapIsTiled == Spec => []BlocksTile
<1>1. HeapInv => BlocksTile
  BY DEF HeapInv, ListOK
<1> QED
  BY <1>1, HeapInvInit, HeapStep, PTL DEF Spec

(* heap.c: every pointer kmalloc returned stays aligned and its block      *)
(* nobody else's until it is freed, and no block is lost.                  *)
THEOREM CallersOwnTheirBlocks == Spec => []LiveIsReserved
<1>1. HeapInv => LiveIsReserved
  BY DEF HeapInv
<1> QED
  BY <1>1, HeapInvInit, HeapStep, PTL DEF Spec

(* heap.c:55: one pass per kfree that never looks back is enough to keep   *)
(* the heap from fragmenting further: between calls two free neighbours    *)
(* are found at one place at most, in a list of any length.                *)
THEOREM FragmentationBounded == Spec => []AtMostOnePair
<1>1. HeapInv => AtMostOnePair
  BY DEF HeapInv
<1> QED
  BY <1>1, HeapInvInit, HeapStep, PTL DEF Spec

=============================================================================
