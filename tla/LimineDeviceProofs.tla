------------------------- MODULE LimineDeviceProofs -------------------------
(***************************************************************************)
(* Proofs about the device layer of the installer: reads see what was      *)
(* written, and the cached device with its journal keeps the promise of    *)
(* JournaledDevice, for every block size, device, journal and pattern of   *)
(* failing I/O.                                                            *)
(***************************************************************************)
EXTENDS LimineDevice, SequenceTheorems, TLAPS

(* The cells of the cached block. *)
InCached(c) == c \in CellOf(cached_block, 0) .. CellOf(cached_block, BlockSize) - 1

(* A cell as the next read will see it: the cache wins if it is dirty. *)
Logical(c) ==
  IF cache_state = "dirty" /\ InCached(c) THEN cache[c - CellOf(cached_block, 0)] ELSE dev[c]

Entry   == [loc : Nat, data : Seq(Val)]
OpType  == [kind : {"none", "read", "save", "write", "retry"}, loc : Nat, count : Nat,
            data : Seq(Val), saved : Seq(Val), progress : Nat]

(* The cells the operation under way has written. *)
Reached == IF op.kind = "write" THEN Span(op.loc, op.progress) ELSE {}

Covers(i, c) == c \in Span(uninstall_data[i].loc, Len(uninstall_data[i].data))
SavedAt(i, c) == uninstall_data[i].data[c - uninstall_data[i].loc + 1]

(* No entry from the k-th on saved cell c. *)
Free(k, c) == \A i \in k .. Len(uninstall_data) : ~Covers(i, c)

(* The oldest entry of a cell holds what was there at first: while         *)
(* installing the first one in the list, later, reversed, the last.        *)
FirstIsOrig ==
  \A c \in Cells, i \in 1 .. Len(uninstall_data) :
    Covers(i, c) /\ (\A j \in 1 .. i - 1 : ~Covers(j, c)) => SavedAt(i, c) = orig[c]

LastIsOrig ==
  \A c \in Cells, i \in 1 .. Len(uninstall_data) :
    Covers(i, c) /\ Free(i + 1, c) => SavedAt(i, c) = orig[c]

TypeInv ==
  /\ dev \in [Cells -> Val] /\ cache \in [Offset -> Val]
  /\ cached_block \in -1 .. Blocks - 1 /\ cache_state \in {"clean", "dirty"}
  /\ cache_state = "dirty" => cached_block # -1
  /\ uninstall_data \in Seq(Entry)
  /\ op \in OpType /\ op.progress <= op.count
  /\ op.kind \in {"write", "retry"} => Len(op.data) = op.count
  /\ op.kind = "none" => op = Idle
  /\ phase \in {"install", "undo", "committed", "rejected", "exit"}
  /\ op.kind \in {"read", "save"} => phase = "install"
  /\ op.kind = "write" => phase \in {"install", "undo"}
  /\ op.kind = "retry" => phase = "undo"
  /\ next \in Nat \ {0} /\ retry \in BOOLEAN /\ ret \in BOOLEAN
  /\ want \in [Cells -> Val]

(* A clean block in the cache is what is on the device, except after a     *)
(* failed read, before uninstall forgets the cache or gives up.            *)
CacheInv ==
  cache_state = "clean" /\ cached_block # -1 /\ op.kind # "retry" /\ phase \in {"install", "undo"} /\ ret =>
    \A o \in Offset : cache[o] = dev[CellOf(cached_block, o)]

InstallInv ==
  phase = "install" =>
    /\ FirstIsOrig /\ torn = {} /\ ret
    /\ \A c \in Cells : Free(1, c) => want[c] = orig[c]
    /\ \A c \in Cells : Logical(c) = IF c \in Reached THEN op.data[c - op.loc + 1] ELSE want[c]
    /\ \A c \in Cells : Free(1, c) /\ c \notin Reached => dev[c] = orig[c]
    /\ Reached \subseteq Cells
    /\ op.kind \in {"read", "save"} => Len(op.saved) = op.progress
    /\ op.kind = "write" => Len(op.saved) = op.count
    /\ op.kind \in {"read", "save", "write"} =>
         \A n \in 1 .. Len(op.saved) : op.loc + n - 1 \in Cells /\ op.saved[n] = want[op.loc + n - 1]
    /\ op.kind \in {"save", "write"} => Len(uninstall_data) < UNINSTALL_DATA_MAX
    /\ op.kind = "save" => Len(op.data) = op.count

UndoInv ==
  phase = "undo" /\ ret =>
    /\ LastIsOrig
    /\ \A c \in Cells \ torn : Free(next, c) => Logical(c) = orig[c]
    /\ op.kind \in {"write", "retry"} =>
         /\ next <= Len(uninstall_data)
         /\ op.loc = uninstall_data[next].loc /\ op.data = uninstall_data[next].data
    /\ \A c \in Cells : c \in Reached => Logical(c) = op.data[c - op.loc + 1]

CommitInv ==
  phase = "committed" =>
    /\ LastIsOrig /\ torn = {} /\ ret /\ op = Idle
    /\ \A c \in Cells : Free(1, c) => dev[c] = orig[c]

DeviceInv == TypeInv /\ CacheInv /\ InstallInv /\ UndoInv /\ CommitInv

----------------------------------------------------------------------------
(* Cells and blocks *)

LEMMA Sizes ==
  /\ BlockSize \in Nat /\ BlockSize > 0 /\ Blocks \in Nat /\ Blocks > 0
  /\ UNINSTALL_DATA_MAX \in Nat /\ MaxLen \in Nat
  BY DeviceAssumption

(* A span extended by a second one that starts where it ends. *)
LEMMA SpanGrows ==
  ASSUME NEW loc \in Nat, NEW done \in Nat, NEW more \in Nat
  PROVE  \A c \in Int : c \in Span(loc, done + more) <=> c \in Span(loc, done) \/ c \in Span(loc + done, more)
BY DEF Span

LEMMA Joined ==
  ASSUME NEW s \in Seq(Val), NEW t \in Seq(Val)
  PROVE  /\ s \o t \in Seq(Val) /\ Len(s \o t) = Len(s) + Len(t)
         /\ \A n \in 1 .. Len(s) + Len(t) : (s \o t)[n] = IF n <= Len(s) THEN s[n] ELSE t[n - Len(s)]
BY ConcatProperties

LEMMA CellFacts ==
  ASSUME NEW b \in 0 .. Blocks - 1
  PROVE  /\ CellOf(b, 0) \in Nat /\ CellOf(b, BlockSize) = CellOf(b, 0) + BlockSize
         /\ CellOf(b, BlockSize) <= Blocks * BlockSize
         /\ \A o \in Int : CellOf(b, o) = CellOf(b, 0) + o
         /\ \A o \in Offset : CellOf(b, o) \in Cells
<1>1. b * BlockSize \in Nat /\ b \in Nat
  BY Sizes
<1>2. b * BlockSize + BlockSize <= Blocks * BlockSize
  <2>1. b + 1 <= Blocks
    BY Sizes
  <2>2. (b + 1) * BlockSize <= Blocks * BlockSize
    BY <1>1, <2>1, Sizes
  <2>3. (b + 1) * BlockSize = b * BlockSize + BlockSize
    BY <1>1, Sizes
  <2> QED
    BY <2>2, <2>3
<1>3. Blocks * BlockSize \in Nat
  BY Sizes
<1> QED
  BY <1>1, <1>2, <1>3, Sizes DEF CellOf, Cells, Offset

(* Where the cells of the cached block are in the cache. *)
LEMMA CachedCells ==
  ASSUME TypeInv, cached_block # -1
  PROVE  /\ cached_block \in 0 .. Blocks - 1 /\ CellOf(cached_block, 0) \in Nat
         /\ \A c \in Cells : InCached(c) =>
              /\ c - CellOf(cached_block, 0) \in Offset
              /\ CellOf(cached_block, c - CellOf(cached_block, 0)) = c
         /\ \A c \in Cells : InCached(c) <=> CellOf(cached_block, 0) <= c /\ c < CellOf(cached_block, 0) + BlockSize
<1>1. cached_block \in 0 .. Blocks - 1
  BY Sizes DEF TypeInv
<1>2. /\ CellOf(cached_block, 0) \in Nat /\ CellOf(cached_block, BlockSize) = CellOf(cached_block, 0) + BlockSize
      /\ \A o \in Int : CellOf(cached_block, o) = CellOf(cached_block, 0) + o
  BY <1>1, CellFacts
<1>3. \A c \in Cells : InCached(c) <=> CellOf(cached_block, 0) <= c /\ c < CellOf(cached_block, 0) + BlockSize
  BY <1>2, Sizes DEF InCached, Cells
<1>4. ASSUME NEW c \in Cells, InCached(c)
      PROVE  c - CellOf(cached_block, 0) \in Offset /\ CellOf(cached_block, c - CellOf(cached_block, 0)) = c
  <2>1. c \in Int /\ CellOf(cached_block, 0) <= c /\ c < CellOf(cached_block, 0) + BlockSize
    BY <1>3, <1>4 DEF Cells
  <2>2. c - CellOf(cached_block, 0) \in Offset /\ c - CellOf(cached_block, 0) \in Int
    BY <1>2, <2>1, Sizes DEF Offset
  <2>3. CellOf(cached_block, c - CellOf(cached_block, 0)) = CellOf(cached_block, 0) + (c - CellOf(cached_block, 0))
    BY <1>2, <2>2
  <2> QED
    BY <1>2, <2>1, <2>2, <2>3
<1> QED
  BY <1>1, <1>2, <1>3, <1>4

LEMMA LogicalType ==
  ASSUME TypeInv, NEW c \in Cells
  PROVE  Logical(c) \in Val
<1>1. dev[c] \in Val /\ \A o \in Offset : cache[o] \in Val
  BY DEF TypeInv
<1>2. cache_state = "dirty" /\ InCached(c) => c - CellOf(cached_block, 0) \in Offset
  BY CachedCells DEF TypeInv
<1> QED
  BY <1>1, <1>2 DEF Logical

(* A flush, complete or not, moves what is seen to the device. *)
LEMMA WrittenIs ==
  ASSUME TypeInv, cache_state = "dirty", NEW n \in 0 .. BlockSize
  PROVE  /\ Written(n) \in [Cells -> Val]
         /\ \A c \in Cells : ~InCached(c) => Written(n)[c] = dev[c]
         /\ \A c \in Cells : Written(n)[c] = dev[c] \/ Written(n)[c] = Logical(c)
         /\ n = BlockSize => \A c \in Cells : Written(n)[c] = Logical(c)
<1>1. cached_block \in 0 .. Blocks - 1 /\ CellOf(cached_block, 0) \in Nat /\ n \in Int /\ n <= BlockSize
  BY CachedCells, Sizes DEF TypeInv
<1>2. CellOf(cached_block, n) = CellOf(cached_block, 0) + n
  BY <1>1, CellFacts
<1>3. ASSUME NEW c \in Cells, c \in CellOf(cached_block, 0) .. CellOf(cached_block, n) - 1 PROVE InCached(c)
  <2>1. c \in Int /\ CellOf(cached_block, 0) <= c /\ c < CellOf(cached_block, 0) + BlockSize
    BY <1>1, <1>2, <1>3, Sizes DEF Cells
  <2> QED
    BY <2>1, CachedCells DEF TypeInv
<1>4. \A c \in Cells : Written(n)[c] = IF c \in CellOf(cached_block, 0) .. CellOf(cached_block, n) - 1
                                    THEN Logical(c) ELSE dev[c]
  BY <1>3 DEF Written, Logical
<1>5. \A c \in Cells : Written(n)[c] \in Val
  BY <1>4, LogicalType DEF TypeInv
<1>6. Written(n) \in [Cells -> Val]
  BY <1>5 DEF Written
<1>7. ASSUME n = BlockSize, NEW c \in Cells PROVE Written(n)[c] = Logical(c)
  <2>1. CASE InCached(c)
    BY <1>4, <1>7, <2>1 DEF InCached
  <2>2. CASE ~InCached(c)
    BY <1>3, <1>4, <2>2 DEF Logical
  <2> QED
    BY <2>1, <2>2
<1> QED
  BY <1>3, <1>4, <1>6, <1>7

(* One round of the loops stays within the buffer and the block. *)
LEMMA ChunkFacts ==
  ASSUME TypeInv, Hit
  PROVE  /\ cached_block \in 0 .. Blocks - 1 /\ cached_block # -1 /\ CellOf(cached_block, 0) \in Nat
         /\ ChunkOffset \in Offset /\ Chunk \in Nat \ {0}
         /\ ChunkOffset + Chunk <= BlockSize /\ op.progress + Chunk <= op.count
         /\ CellOf(cached_block, 0) + ChunkOffset = op.loc + op.progress
         /\ \A k \in 0 .. Chunk - 1 : op.loc + op.progress + k \in Cells
<1>1. /\ op.loc \in Nat /\ op.progress \in Nat /\ op.count \in Nat /\ op.progress < op.count
      /\ cached_block = (op.loc + op.progress) \div BlockSize /\ cached_block \in -1 .. Blocks - 1
  BY DEF TypeInv, OpType, Hit, Needs, Block
<1>2. /\ cached_block \in Nat /\ ChunkOffset \in 0 .. BlockSize - 1
      /\ op.loc + op.progress = BlockSize * cached_block + ChunkOffset
  <2> DEFINE x == op.loc + op.progress
  <2>1. x \in Nat /\ BlockSize \in Nat /\ BlockSize > 0
    BY <1>1, Sizes
  <2>2. cached_block = x \div BlockSize /\ ChunkOffset = x % BlockSize
    BY <1>1 DEF ChunkOffset
  <2> HIDE DEF x
  <2>3. x \div BlockSize \in Nat /\ x % BlockSize \in 0 .. BlockSize - 1
    BY <2>1
  <2>4. x = BlockSize * (x \div BlockSize) + (x % BlockSize)
    BY <2>1
  <2> QED
    BY <2>2, <2>3, <2>4 DEF x
<1>3. cached_block \in 0 .. Blocks - 1 /\ cached_block # -1
  BY <1>1, <1>2, Sizes
<1>4. /\ CellOf(cached_block, 0) \in Nat /\ CellOf(cached_block, BlockSize) = CellOf(cached_block, 0) + BlockSize
      /\ CellOf(cached_block, BlockSize) <= Blocks * BlockSize
  BY <1>3, CellFacts
<1>5. CellOf(cached_block, 0) = BlockSize * cached_block
  BY <1>2, Sizes DEF CellOf
<1>6. CellOf(cached_block, 0) + ChunkOffset = op.loc + op.progress
  BY <1>2, <1>5
<1>7. Chunk \in Nat \ {0} /\ ChunkOffset + Chunk <= BlockSize /\ op.progress + Chunk <= op.count
  BY <1>1, <1>2, Sizes DEF Chunk
<1>8. \A k \in 0 .. Chunk - 1 : op.loc + op.progress + k \in Cells
  <2>1. Blocks * BlockSize \in Nat
    BY Sizes
  <2> QED
    BY <1>1, <1>2, <1>4, <1>6, <1>7, <2>1, Sizes DEF Cells
<1> QED
  BY <1>2, <1>3, <1>4, <1>6, <1>7, <1>8 DEF Offset

(* What is cached is what is seen. *)
LEMMA CacheShows ==
  ASSUME TypeInv, CacheInv, cached_block # -1, op.kind # "retry", phase \in {"install", "undo"}, ret
  PROVE  \A o \in Offset : cache[o] = Logical(CellOf(cached_block, 0) + o)
<1> TAKE o \in Offset
<1> DEFINE c == CellOf(cached_block, 0) + o
<1>1. cached_block \in 0 .. Blocks - 1 /\ CellOf(cached_block, 0) \in Nat /\ o \in Int /\ 0 <= o /\ o < BlockSize
  BY CachedCells, Sizes DEF Offset
<1>2. c = CellOf(cached_block, o) /\ c \in Cells
  BY <1>1, CellFacts
<1>3. c - CellOf(cached_block, 0) = o /\ InCached(c)
  <2>1. CellOf(cached_block, 0) <= c /\ c < CellOf(cached_block, 0) + BlockSize /\ c - CellOf(cached_block, 0) = o
    BY <1>1, Sizes
  <2> HIDE DEF c
  <2> QED
    BY <1>2, <2>1, CachedCells
<1> HIDE DEF c
<1>4. ASSUME cache_state = "clean" PROVE cache[o] = Logical(c)
  <2>1. cache[o] = dev[CellOf(cached_block, o)]
    BY <1>4 DEF CacheInv
  <2> QED
    BY <1>2, <1>4, <2>1 DEF Logical
<1>5. ASSUME cache_state = "dirty" PROVE cache[o] = Logical(c)
  BY <1>3, <1>5 DEF Logical
<1>6. cache[o] = Logical(c)
  BY <1>4, <1>5 DEF TypeInv
<1> QED
  BY <1>6 DEF c

LEMMA DeviceInvInit == Init => DeviceInv
<1> SUFFICES ASSUME Init PROVE DeviceInv
  OBVIOUS
<1>1. /\ dev = [c \in Cells |-> 0] /\ orig = dev /\ want = dev /\ torn = {}
      /\ cache = [o \in Offset |-> dev[o]] /\ cached_block = 0 /\ cache_state = "clean"
      /\ uninstall_data = <<>> /\ op = Idle /\ phase = "install" /\ next = 1 /\ retry = FALSE /\ ret = TRUE
  BY DEF Init, DeviceInit
<1>2. 0 \in Val /\ 0 \in 0 .. Blocks - 1
  BY Sizes DEF Val
<1>3. \A o \in Offset : CellOf(0, o) = o /\ CellOf(0, o) \in Cells
  <2>1. \A o \in Offset : o \in Int
    BY DEF Offset
  <2>2. CellOf(0, 0) = 0
    BY Sizes DEF CellOf
  <2> QED
    BY <1>2, <2>1, <2>2, CellFacts
<1>4. Idle \in OpType /\ Idle.kind = "none" /\ Idle.progress = 0 /\ Idle.count = 0
  BY DEF Idle, OpType
<1>5. uninstall_data \in Seq(Entry) /\ Len(uninstall_data) = 0
  BY <1>1
<1>6. TypeInv
  <2>1. dev \in [Cells -> Val] /\ cache \in [Offset -> Val]
    BY <1>1, <1>2, <1>3
  <2>2. cached_block \in -1 .. Blocks - 1
    BY <1>1, <1>2
  <2>3. op \in OpType /\ op.progress <= op.count /\ op.kind = "none" /\ next \in Nat \ {0}
    BY <1>1, <1>4
  <2>4. retry \in BOOLEAN /\ ret \in BOOLEAN
    BY <1>1
  <2> QED
    BY <1>1, <1>5, <2>1, <2>2, <2>3, <2>4 DEF TypeInv
<1>7. CacheInv
  BY <1>1, <1>3 DEF CacheInv
<1>8. InstallInv
  BY <1>1, <1>4, <1>5 DEF InstallInv, FirstIsOrig, Reached, Logical
<1> QED
  BY <1>1, <1>6, <1>7, <1>8 DEF DeviceInv, UndoInv, CommitInv

----------------------------------------------------------------------------
(* Calls and returns *)

LEMMA ReadCallKeeps ==
  ASSUME DeviceInv, NEW loc \in Cells, NEW count \in 1 .. MaxLen, ReadCall(loc, count)
  PROVE  DeviceInv'
<1>1. /\ phase = "install" /\ op = Idle /\ Idle.kind = "none" /\ Idle.saved = <<>>
      /\ op' = [Idle EXCEPT !.kind = "read", !.loc = loc, !.count = count]
      /\ UNCHANGED <<dev, cacheVars, undoVars, file, faults, history>>
  BY DEF ReadCall, Busy, Idle
<1>2. /\ op'.kind = "read" /\ op'.loc = loc /\ op'.count = count /\ op'.progress = 0 /\ op'.saved = <<>>
      /\ op' \in OpType /\ op'.progress <= op'.count
  <2>1. loc \in Nat /\ count \in Nat
    BY Sizes DEF Cells
  <2>2. <<>> \in Seq(Val)
    OBVIOUS
  <2>3. op' = [kind |-> "read", loc |-> loc, count |-> count, data |-> <<>>, saved |-> <<>>, progress |-> 0]
    BY <1>1 DEF Idle
  <2> QED
    BY <2>1, <2>2, <2>3 DEF OpType
<1>3. Reached = {} /\ Reached' = {}
  BY <1>1, <1>2 DEF Reached
<1>4. \A c \in Cells : Logical(c)' = Logical(c)
  BY <1>1 DEF cacheVars, Logical, InCached, CellOf
<1>5. TypeInv'
  BY <1>1, <1>2 DEF DeviceInv, TypeInv, cacheVars, undoVars, history
<1>6. CacheInv'
  BY <1>1, <1>2 DEF DeviceInv, CacheInv, cacheVars, undoVars, CellOf
<1>7. InstallInv'
  <2>1. Len(op'.saved) = 0
    BY <1>2
  <2> QED
    BY <1>1, <1>2, <1>3, <1>4, <2>1 DEF DeviceInv, InstallInv, FirstIsOrig, Free, Covers, SavedAt, undoVars, history
<1> QED
  BY <1>1, <1>5, <1>6, <1>7 DEF DeviceInv, UndoInv, CommitInv, undoVars

LEMMA WriteCallKeeps ==
  ASSUME DeviceInv, NEW loc \in Cells, NEW count \in 1 .. MaxLen, WriteCall(loc, count)
  PROVE  DeviceInv'
<1> DEFINE data == [n \in 1 .. count |-> Len(uninstall_data) + 1]
<1>1. /\ phase = "install" /\ op = Idle /\ Idle.kind = "none"
      /\ Len(uninstall_data) < UNINSTALL_DATA_MAX
      /\ op' = [Idle EXCEPT !.kind = "save", !.loc = loc, !.count = count, !.data = data]
      /\ UNCHANGED <<dev, cacheVars, undoVars, file, faults, history>>
  BY DEF WriteCall, Busy, Idle
<1>2. loc \in Nat /\ count \in Nat
  BY Sizes DEF Cells
<1>3. data \in Seq(Val) /\ Len(data) = count
  <2>1. Len(uninstall_data) + 1 \in Val
    BY <1>1, Sizes DEF DeviceInv, TypeInv, Val
  <2> QED
    BY <1>2, <2>1
<1> HIDE DEF data
<1>4. /\ op'.kind = "save" /\ op'.loc = loc /\ op'.count = count /\ op'.progress = 0 /\ op'.saved = <<>>
      /\ op'.data = data /\ op' \in OpType /\ op'.progress <= op'.count
  <2>1. <<>> \in Seq(Val)
    OBVIOUS
  <2>2. op' = [kind |-> "save", loc |-> loc, count |-> count, data |-> data, saved |-> <<>>, progress |-> 0]
    BY <1>1 DEF Idle
  <2> QED
    BY <1>2, <1>3, <2>1, <2>2 DEF OpType
<1>5. Reached = {} /\ Reached' = {}
  BY <1>1, <1>4 DEF Reached
<1>6. \A c \in Cells : Logical(c)' = Logical(c)
  BY <1>1 DEF cacheVars, Logical, InCached, CellOf
<1>7. TypeInv'
  BY <1>1, <1>4 DEF DeviceInv, TypeInv, cacheVars, undoVars, history
<1>8. CacheInv'
  BY <1>1, <1>4 DEF DeviceInv, CacheInv, cacheVars, undoVars, CellOf
<1>9. InstallInv'
  <2>1. Len(op'.saved) = 0 /\ Len(op'.data) = op'.count
    BY <1>3, <1>4
  <2> QED
    BY <1>1, <1>4, <1>5, <1>6, <2>1
       DEF DeviceInv, InstallInv, FirstIsOrig, Free, Covers, SavedAt, undoVars, history
<1> QED
  BY <1>1, <1>7, <1>8, <1>9 DEF DeviceInv, UndoInv, CommitInv, undoVars

LEMMA CopyOutKeeps == ASSUME DeviceInv, CopyOut PROVE DeviceInv'
<1> DEFINE chunk == [n \in 1 .. Chunk |-> cache[(ChunkOffset + n - 1) % BlockSize]]
           saved == op.saved \o chunk
<1>1. /\ TypeInv /\ CacheInv /\ InstallInv /\ Hit /\ op.kind \in {"read", "save"} /\ phase = "install"
      /\ op' = [op EXCEPT !.saved = saved, !.progress = op.progress + Chunk]
      /\ UNCHANGED <<dev, cacheVars, undoVars, file, faults, history>>
  BY DEF DeviceInv, CopyOut, TypeInv
<1>2. /\ cached_block # -1 /\ CellOf(cached_block, 0) \in Nat
      /\ ChunkOffset \in Offset /\ Chunk \in Nat \ {0}
      /\ ChunkOffset + Chunk <= BlockSize /\ op.progress + Chunk <= op.count
      /\ CellOf(cached_block, 0) + ChunkOffset = op.loc + op.progress
      /\ \A k \in 0 .. Chunk - 1 : op.loc + op.progress + k \in Cells
  BY <1>1, ChunkFacts
<1>3. /\ op \in OpType /\ op.loc \in Nat /\ op.progress \in Nat /\ op.count \in Nat /\ op.saved \in Seq(Val)
      /\ Len(op.saved) = op.progress
      /\ \A n \in 1 .. Len(op.saved) : op.loc + n - 1 \in Cells /\ op.saved[n] = want[op.loc + n - 1]
      /\ \A c \in Cells : Logical(c) = want[c]
  BY <1>1 DEF TypeInv, OpType, InstallInv, Reached
<1>4. \A o \in Offset : cache[o] = Logical(CellOf(cached_block, 0) + o)
  BY <1>1, <1>2, CacheShows DEF InstallInv
<1>5. ASSUME NEW n \in 1 .. Chunk
      PROVE  /\ (ChunkOffset + n - 1) % BlockSize \in Offset
             /\ cache[(ChunkOffset + n - 1) % BlockSize] = want[op.loc + op.progress + (n - 1)]
             /\ op.loc + op.progress + (n - 1) \in Cells
  <2>1. ChunkOffset + n - 1 \in Offset /\ (ChunkOffset + n - 1) % BlockSize = ChunkOffset + n - 1
    BY <1>2, Sizes DEF Offset
  <2>2. n - 1 \in 0 .. Chunk - 1
    BY <1>2
  <2>3. CellOf(cached_block, 0) + (ChunkOffset + n - 1) = op.loc + op.progress + (n - 1)
    BY <1>2, <1>3 DEF Offset
  <2> QED
    BY <1>2, <1>3, <1>4, <2>1, <2>2, <2>3
<1>6. chunk \in Seq(Val) /\ Len(chunk) = Chunk /\ \A n \in 1 .. Chunk : chunk[n] = want[op.loc + op.progress + (n - 1)]
  <2>1. \A n \in 1 .. Chunk : cache[(ChunkOffset + n - 1) % BlockSize] \in Val
    BY <1>1, <1>5 DEF TypeInv
  <2>2. Chunk \in Nat
    BY <1>2
  <2> QED
    BY <1>5, <2>1, <2>2
<1> HIDE DEF chunk
<1>7. /\ op.saved \o chunk \in Seq(Val) /\ Len(op.saved \o chunk) = Len(op.saved) + Len(chunk)
      /\ \A n \in 1 .. Len(op.saved) + Len(chunk) :
           (op.saved \o chunk)[n] = IF n <= Len(op.saved) THEN op.saved[n] ELSE chunk[n - Len(op.saved)]
  BY <1>3, <1>6, Joined
<1>8. Len(saved) = op.progress + Chunk /\ saved \in Seq(Val)
  BY <1>3, <1>6, <1>7
<1>9. \A n \in 1 .. op.progress + Chunk : op.loc + n - 1 \in Cells /\ saved[n] = want[op.loc + n - 1]
  <2> TAKE n \in 1 .. op.progress + Chunk
  <2>1. CASE n <= op.progress
    <3>1. n \in 1 .. Len(op.saved) /\ n \in 1 .. Len(op.saved) + Len(chunk) /\ n <= Len(op.saved)
      BY <1>2, <1>3, <1>6, <2>1
    <3> QED
      BY <1>3, <1>7, <3>1
  <2>2. CASE n > op.progress
    <3>1. /\ n \in 1 .. Len(op.saved) + Len(chunk) /\ ~(n <= Len(op.saved))
          /\ n - Len(op.saved) \in 1 .. Chunk
          /\ op.loc + op.progress + ((n - Len(op.saved)) - 1) = op.loc + n - 1
      <4>1. n \in Int /\ n > op.progress /\ n <= op.progress + Chunk
        BY <1>2, <1>3, <2>2
      <4>2. Len(op.saved) = op.progress /\ Len(chunk) = Chunk /\ Chunk \in Nat /\ op.progress \in Nat /\ op.loc \in Nat
        BY <1>2, <1>3, <1>6
      <4> QED
        BY ONLY <4>1, <4>2, SMTT(30)
    <3>2. saved[n] = chunk[n - Len(op.saved)]
      BY <1>7, <3>1
    <3>3. chunk[n - Len(op.saved)] = want[op.loc + op.progress + ((n - Len(op.saved)) - 1)]
      BY <1>6, <3>1
    <3>4. op.loc + op.progress + ((n - Len(op.saved)) - 1) \in Cells
      BY <1>5, <3>1
    <3> QED
      BY <3>1, <3>2, <3>3, <3>4
  <2>3. n <= op.progress \/ n > op.progress
    <3>1. op.progress \in Int /\ op.progress + Chunk \in Int
      BY <1>2, <1>3
    <3> QED
      BY <3>1
  <2> QED
    BY <2>1, <2>2, <2>3
<1> HIDE DEF saved
<1>10. /\ op'.kind = op.kind /\ op'.loc = op.loc /\ op'.count = op.count /\ op'.data = op.data
       /\ op'.saved = saved /\ op'.progress = op.progress + Chunk /\ op' \in OpType
  <2>1. op.progress + Chunk \in Nat
    BY <1>2, <1>3
  <2>2. op' = [op EXCEPT !.saved = saved, !.progress = op.progress + Chunk]
    BY <1>1 DEF saved, chunk
  <2>3. op \in OpType /\ saved \in Seq(Val)
    BY <1>3, <1>8
  <2> QED
    BY ONLY <2>1, <2>2, <2>3 DEF OpType
<1>11. Reached = {} /\ Reached' = {}
  BY <1>1, <1>10 DEF Reached
<1>12. \A c \in Cells : Logical(c)' = Logical(c)
  BY <1>1 DEF cacheVars, Logical, InCached, CellOf
<1>13. TypeInv'
  BY <1>1, <1>2, <1>10 DEF TypeInv, cacheVars, undoVars, history
<1>14. CacheInv'
  BY <1>1, <1>10 DEF CacheInv, cacheVars, undoVars, CellOf
<1>15. InstallInv'
  BY <1>1, <1>8, <1>9, <1>10, <1>11, <1>12
     DEF InstallInv, FirstIsOrig, Free, Covers, SavedAt, undoVars, history
<1> QED
  BY <1>1, <1>13, <1>14, <1>15 DEF DeviceInv, UndoInv, CommitInv, undoVars

LEMMA ReadReturnsKeeps == ASSUME DeviceInv, ReadReturns PROVE DeviceInv'
<1>1. /\ TypeInv /\ CacheInv /\ InstallInv /\ op.kind = "read" /\ phase = "install" /\ op' = Idle
      /\ UNCHANGED <<dev, cacheVars, undoVars, file, faults, history>>
  BY DEF DeviceInv, ReadReturns, TypeInv
<1>2. Idle \in OpType /\ Idle.kind = "none" /\ Idle.progress = 0 /\ Idle.count = 0
  BY DEF Idle, OpType
<1>3. Reached = {} /\ Reached' = {}
  BY <1>1, <1>2 DEF Reached
<1>4. \A c \in Cells : Logical(c)' = Logical(c)
  BY <1>1 DEF cacheVars, Logical, InCached, CellOf
<1>5. TypeInv'
  BY <1>1, <1>2 DEF TypeInv, cacheVars, undoVars, history
<1>6. CacheInv'
  BY <1>1, <1>2 DEF CacheInv, cacheVars, undoVars, CellOf
<1>7. InstallInv'
  BY <1>1, <1>2, <1>3, <1>4 DEF InstallInv, FirstIsOrig, Free, Covers, SavedAt, undoVars, history
<1> QED
  BY <1>1, <1>5, <1>6, <1>7 DEF DeviceInv, UndoInv, CommitInv, undoVars

LEMMA SaveDoneKeeps == ASSUME DeviceInv, SaveDone PROVE DeviceInv'
<1>1. /\ TypeInv /\ CacheInv /\ InstallInv /\ op.kind = "save" /\ op.progress = op.count /\ phase = "install"
      /\ op' = [op EXCEPT !.kind = "write", !.progress = 0]
      /\ UNCHANGED <<dev, cacheVars, undoVars, file, faults, history>>
  BY DEF DeviceInv, SaveDone, TypeInv
<1>2. /\ op \in OpType /\ op.loc \in Nat /\ op.count \in Nat
      /\ op'.kind = "write" /\ op'.loc = op.loc /\ op'.count = op.count /\ op'.data = op.data
      /\ op'.saved = op.saved /\ op'.progress = 0 /\ op' \in OpType
  BY <1>1 DEF TypeInv, OpType
<1>3. Reached = {} /\ Reached' = {}
  BY <1>1, <1>2 DEF Reached, Span
<1>4. \A c \in Cells : Logical(c)' = Logical(c)
  BY <1>1 DEF cacheVars, Logical, InCached, CellOf
<1>5. TypeInv'
  BY <1>1, <1>2 DEF TypeInv, InstallInv, cacheVars, undoVars, history
<1>6. CacheInv'
  BY <1>1, <1>2 DEF CacheInv, cacheVars, undoVars, CellOf
<1>7. InstallInv'
  BY <1>1, <1>2, <1>3, <1>4 DEF InstallInv, FirstIsOrig, Free, Covers, SavedAt, undoVars, history
<1> QED
  BY <1>1, <1>5, <1>6, <1>7 DEF DeviceInv, UndoInv, CommitInv, undoVars

----------------------------------------------------------------------------
(* The cache *)

(* A dirty block is what is seen of its cells. *)
LEMMA DirtyShows ==
  ASSUME TypeInv, cache_state = "dirty"
  PROVE  \A o \in Offset : CellOf(cached_block, o) \in Cells /\ cache[o] = Logical(CellOf(cached_block, o))
<1> SUFFICES ASSUME NEW o \in Offset
             PROVE  CellOf(cached_block, o) \in Cells /\ cache[o] = Logical(CellOf(cached_block, o))
  OBVIOUS
<1> DEFINE c == CellOf(cached_block, o)
<1>1. cached_block # -1
  BY DEF TypeInv
<1>2. cached_block \in 0 .. Blocks - 1 /\ CellOf(cached_block, 0) \in Nat /\ o \in Int /\ 0 <= o /\ o < BlockSize
  BY <1>1, CachedCells, Sizes DEF Offset
<1>3. c = CellOf(cached_block, 0) + o /\ c \in Cells
  BY <1>2, CellFacts
<1> HIDE DEF c
<1>4. CellOf(cached_block, 0) <= c /\ c < CellOf(cached_block, 0) + BlockSize /\ c - CellOf(cached_block, 0) = o
  BY <1>2, <1>3, Sizes
<1>5. InCached(c)
  BY <1>1, <1>3, <1>4, CachedCells
<1>6. cache[o] = Logical(c)
  BY <1>4, <1>5 DEF Logical
<1> QED
  BY <1>3, <1>6 DEF c

LEMMA FlushDirtyKeeps == ASSUME DeviceInv, FlushDirty PROVE DeviceInv'
<1>1. /\ TypeInv /\ InstallInv /\ UndoInv /\ CommitInv /\ Needs /\ cache_state = "dirty" /\ cache_state' = "clean"
      /\ dev' = Written(BlockSize)
      /\ UNCHANGED <<cache, cached_block, undoVars, op, file, faults, history>>
  BY DEF DeviceInv, FlushDirty, Miss
<1>2. dev' \in [Cells -> Val] /\ \A c \in Cells : dev'[c] = Logical(c)
  <2>1. BlockSize \in 0 .. BlockSize
    BY Sizes
  <2> QED
    BY <1>1, <2>1, WrittenIs
<1>3. \A c \in Cells : Logical(c)' = Logical(c)
  BY <1>1, <1>2 DEF Logical
<1>4. op.kind # "none" /\ Idle.kind = "none"
  BY <1>1 DEF Needs, Idle
<1>5. TypeInv'
  BY <1>1, <1>2 DEF TypeInv, undoVars, history
<1>6. CacheInv'
  <2>1. \A o \in Offset : CellOf(cached_block, o) \in Cells /\ cache[o] = Logical(CellOf(cached_block, o))
    BY <1>1, DirtyShows
  <2>2. \A o \in Offset : cache'[o] = dev'[CellOf(cached_block', o)]
    BY <1>1, <1>2, <2>1
  <2> QED
    BY <2>2 DEF CacheInv, CellOf
<1>7. InstallInv'
  <2>1. ASSUME phase = "install", NEW c \in Cells, Free(1, c), c \notin Reached PROVE dev'[c] = orig[c]
    BY <1>1, <1>2, <2>1 DEF InstallInv
  <2> QED
    BY <1>1, <1>3, <2>1 DEF InstallInv, FirstIsOrig, Free, Covers, SavedAt, Reached, undoVars, history
<1>8. UndoInv'
  BY <1>1, <1>3 DEF UndoInv, LastIsOrig, Free, Covers, SavedAt, Reached, undoVars, history
<1>9. CommitInv'
  BY <1>1, <1>4 DEF CommitInv, undoVars
<1> QED
  BY <1>5, <1>6, <1>7, <1>8, <1>9 DEF DeviceInv

LEMMA LoadBlockKeeps == ASSUME DeviceInv, LoadBlock PROVE DeviceInv'
<1>1. /\ TypeInv /\ InstallInv /\ UndoInv /\ CommitInv /\ cache_state = "clean"
      /\ Block \in 0 .. Blocks - 1 /\ cache' = Filled(Block, BlockSize) /\ cached_block' = Block
      /\ UNCHANGED <<dev, cache_state, undoVars, op, file, faults, history>>
  BY DEF DeviceInv, LoadBlock, OnDevice
<1>2. \A o \in Offset : CellOf(Block, o) \in Cells /\ cache'[o] = dev[CellOf(Block, o)]
  <2>1. \A o \in Offset : CellOf(Block, o) \in Cells
    BY <1>1, CellFacts
  <2>2. \A o \in Offset : o < BlockSize
    BY Sizes DEF Offset
  <2> QED
    BY <1>1, <2>1, <2>2 DEF Filled
<1>3. cache' \in [Offset -> Val]
  <2>1. cache' = [o \in Offset |-> cache'[o]]
    BY <1>1 DEF Filled
  <2>2. \A o \in Offset : cache'[o] \in Val
    BY <1>1, <1>2 DEF TypeInv
  <2> QED
    BY <2>1, <2>2
<1>4. \A c \in Cells : Logical(c)' = Logical(c)
  BY <1>1 DEF Logical
<1>5. TypeInv'
  <2>1. cached_block' \in -1 .. Blocks - 1
    BY <1>1, Sizes
  <2> QED
    BY <1>1, <1>3, <2>1 DEF TypeInv, undoVars, history
<1>6. CacheInv'
  BY <1>1, <1>2 DEF CacheInv, CellOf
<1>7. InstallInv'
  BY <1>1, <1>4 DEF InstallInv, FirstIsOrig, Free, Covers, SavedAt, Reached, undoVars, history
<1>8. UndoInv'
  BY <1>1, <1>4 DEF UndoInv, LastIsOrig, Free, Covers, SavedAt, Reached, undoVars, history
<1>9. CommitInv'
  BY <1>1 DEF CommitInv, LastIsOrig, Free, Covers, SavedAt, undoVars, history
<1> QED
  BY <1>5, <1>6, <1>7, <1>8, <1>9 DEF DeviceInv

(* A round of the copying loop of _device_write changes the cells it is for. *)
LEMMA CopyInShows ==
  ASSUME TypeInv, CopyIn
  PROVE  /\ cache' \in [Offset -> Val]
         /\ \A c \in Span(op.loc + op.progress, Chunk) : c \in Cells /\ c - op.loc + 1 \in 1 .. Len(op.data)
         /\ CacheInv /\ ret => \A c \in Cells :
              Logical(c)' = IF c \in Span(op.loc + op.progress, Chunk) THEN op.data[c - op.loc + 1] ELSE Logical(c)
<1>1. /\ Hit /\ op.kind = "write" /\ cache_state' = "dirty" /\ UNCHANGED <<dev, cached_block>>
      /\ cache' = [o \in Offset |-> IF o \in ChunkOffset .. ChunkOffset + Chunk - 1
                                    THEN op.data[op.progress + o - ChunkOffset + 1] ELSE cache[o]]
  BY DEF CopyIn
<1> DEFINE base == CellOf(cached_block, 0)
           at   == op.loc + op.progress
<1>2. /\ cached_block # -1 /\ base \in Nat /\ ChunkOffset \in Offset /\ Chunk \in Nat /\ Chunk > 0
      /\ ChunkOffset + Chunk <= BlockSize /\ op.progress + Chunk <= op.count /\ base + ChunkOffset = at
      /\ \A k \in 0 .. Chunk - 1 : at + k \in Cells
  BY <1>1, ChunkFacts
<1>3. op.loc \in Nat /\ op.progress \in Nat /\ op.count \in Nat /\ op.data \in Seq(Val) /\ Len(op.data) = op.count
  BY <1>1 DEF TypeInv, OpType
<1>4. phase \in {"install", "undo"}
  BY <1>1 DEF TypeInv
<1>5. /\ ChunkOffset \in Int /\ 0 <= ChunkOffset /\ at \in Nat /\ at = op.loc + op.progress
      /\ op.loc \in Int /\ op.progress \in Int /\ 0 <= op.progress /\ base \in Int /\ base + ChunkOffset = at
      /\ Chunk \in Int /\ op.progress + Chunk <= Len(op.data) /\ Len(op.data) \in Int
  BY <1>2, <1>3, Sizes DEF Offset
<1> HIDE DEF base, at
<1>6. cache' \in [Offset -> Val]
  <2>1. ASSUME NEW o \in Offset, o \in ChunkOffset .. ChunkOffset + Chunk - 1
        PROVE  op.data[op.progress + o - ChunkOffset + 1] \in Val
    <3>1. op.progress + o - ChunkOffset + 1 \in 1 .. Len(op.data)
      <4>1. o \in Int /\ ChunkOffset <= o /\ o <= ChunkOffset + Chunk - 1
        BY <1>5, <2>1
      <4> QED
        BY ONLY <1>5, <4>1
    <3> QED
      BY <1>3, <3>1
  <2>2. \A o \in Offset : cache[o] \in Val
    BY DEF TypeInv
  <2> QED
    BY <1>1, <2>1, <2>2
<1>7. ASSUME NEW c \in Int, c \in Span(at, Chunk) PROVE c \in Cells /\ c - op.loc + 1 \in 1 .. Len(op.data)
  <2>1. at <= c /\ c <= at + Chunk - 1
    BY <1>5, <1>7 DEF Span
  <2>2. c - at \in 0 .. Chunk - 1 /\ at + (c - at) = c
    <3>1. at \in Int /\ Chunk \in Int
      BY <1>5
    <3> QED
      BY ONLY <2>1, <3>1
  <2>3. c \in Cells
    BY <1>2, <2>2
  <2>4. c - op.loc + 1 \in 1 .. Len(op.data)
    <3>1. at <= c /\ c <= at + Chunk - 1 /\ Chunk \in Int /\ at = op.loc + op.progress /\ op.loc \in Int
      BY <1>5, <2>1
    <3>2. op.progress \in Int /\ 0 <= op.progress /\ op.progress + Chunk <= Len(op.data) /\ Len(op.data) \in Int
      BY <1>5
    <3> DEFINE loc == op.loc
               len == Len(op.data)
               sofar == op.progress
               k == Chunk
    <3>3. at <= c /\ c <= at + k - 1 /\ k \in Int /\ at = loc + sofar /\ loc \in Int
      BY <3>1
    <3>4. sofar \in Int /\ 0 <= sofar /\ sofar + k <= len /\ len \in Int
      BY <3>2
    <3> HIDE DEF loc, len, sofar, k
    <3>5. c - loc + 1 \in 1 .. len
      BY ONLY <3>3, <3>4
    <3> QED
      BY <3>5 DEF loc, len
  <2> QED
    BY <2>3, <2>4
<1>8. ASSUME CacheInv, ret, NEW c \in Cells
      PROVE  Logical(c)' = IF c \in Span(at, Chunk) THEN op.data[c - op.loc + 1] ELSE Logical(c)
  <2> DEFINE o == c - base
  <2>1. c \in Int
    BY DEF Cells
  <2>2. c \in Span(at, Chunk) <=> o \in ChunkOffset .. ChunkOffset + Chunk - 1
    BY <1>2, <1>5, <2>1 DEF Span
  <2>3. CASE InCached(c)
    <3>1. o \in Offset
      BY <1>2, <2>3, CachedCells DEF base
    <3>2. Logical(c)' = cache'[o]
      BY <1>1, <2>3 DEF Logical, InCached, CellOf, base
    <3>3. cache[o] = Logical(c)
      <4>1. cache[o] = Logical(CellOf(cached_block, 0) + o)
        BY <1>1, <1>2, <1>4, <1>8, <3>1, CacheShows
      <4>2. CellOf(cached_block, 0) + o = c
        BY <1>2, <2>1 DEF base
      <4> QED
        BY <4>1, <4>2
    <3>4. op.progress + o - ChunkOffset + 1 = c - op.loc + 1
      BY ONLY <1>5, <2>1, SMTT(30)
    <3> HIDE DEF o
    <3>5. CASE c \in Span(at, Chunk)
      BY <1>1, <2>2, <3>1, <3>2, <3>4, <3>5
    <3>6. CASE c \notin Span(at, Chunk)
      BY <1>1, <2>2, <3>1, <3>2, <3>3, <3>6
    <3> QED
      BY <3>5, <3>6
  <2>4. CASE ~InCached(c)
    <3>1. Logical(c)' = dev[c] /\ Logical(c) = dev[c]
      BY <1>1, <2>4 DEF Logical, InCached, CellOf
    <3>2. ~(base <= c /\ c < base + BlockSize)
      BY <1>2, <2>4, CachedCells DEF base
    <3>3. c \notin Span(at, Chunk)
      BY <1>2, <1>5, <2>1, <3>2, Sizes DEF Span
    <3> QED
      BY <3>1, <3>3
  <2> QED
    BY <2>3, <2>4
<1>9. \A c \in Span(at, Chunk) : c \in Int
  BY <1>5 DEF Span
<1> QED
  BY <1>6, <1>7, <1>8, <1>9 DEF at

LEMMA CopyInKeeps == ASSUME DeviceInv, CopyIn PROVE DeviceInv'
<1> DEFINE span == Span(op.loc + op.progress, Chunk)
<1>1. /\ TypeInv /\ CacheInv /\ InstallInv /\ UndoInv /\ Hit /\ op.kind = "write" /\ phase \in {"install", "undo"}
      /\ cache_state' = "dirty" /\ op' = [op EXCEPT !.progress = op.progress + Chunk]
      /\ UNCHANGED <<dev, cached_block, undoVars, file, faults, history>>
  BY DEF DeviceInv, CopyIn, TypeInv
<1>2. /\ cache' \in [Offset -> Val] /\ \A c \in span : c \in Cells /\ c - op.loc + 1 \in 1 .. Len(op.data)
      /\ ret => \A c \in Cells : Logical(c)' = IF c \in span THEN op.data[c - op.loc + 1] ELSE Logical(c)
  BY <1>1, CopyInShows DEF DeviceInv
<1>3. cached_block # -1 /\ Chunk \in Nat /\ op.progress + Chunk <= op.count
  BY <1>1, ChunkFacts
<1>4. /\ op \in OpType /\ op.loc \in Nat /\ op.progress \in Nat /\ op.count \in Nat /\ Len(op.data) = op.count
  BY <1>1 DEF TypeInv, OpType
<1>5. /\ op'.kind = "write" /\ op'.loc = op.loc /\ op'.count = op.count /\ op'.data = op.data
      /\ op'.saved = op.saved /\ op'.progress = op.progress + Chunk /\ op' \in OpType
  <2>1. op.progress + Chunk \in Nat
    BY <1>3, <1>4
  <2> QED
    BY <1>1, <1>4, <2>1 DEF OpType
<1>6. Reached = Span(op.loc, op.progress) /\ Reached' = Span(op.loc, op.progress + Chunk)
  BY <1>1, <1>5 DEF Reached, Span
<1>7. \A c \in Int : c \in Reached' <=> c \in Reached \/ c \in span
  BY ONLY <1>3, <1>4, <1>6, SpanGrows
<1>8. \A c \in span : c \in Span(op.loc, op.count)
  BY ONLY <1>3, <1>4, SMTT(30) DEF Span
<1>9. \A c \in Cells : c \in Int
  BY DEF Cells
<1> HIDE DEF span
<1>10. TypeInv'
  BY <1>1, <1>2, <1>3, <1>4, <1>5 DEF TypeInv, undoVars, history
<1>11. CacheInv'
  BY <1>1 DEF CacheInv
<1>12. InstallInv'
  <2> SUFFICES ASSUME phase = "install" PROVE InstallInv'
    BY <1>1 DEF InstallInv, undoVars
  <2>1. ret
    BY <1>1 DEF InstallInv
  <2>2. \A c \in Cells : Logical(c)' = IF c \in Reached' THEN op.data[c - op.loc + 1] ELSE want[c]
    BY <1>1, <1>2, <1>7, <1>9, <2>1 DEF InstallInv
  <2>3. \A c \in Cells : Free(1, c) /\ c \notin Reached' => dev[c] = orig[c]
    BY <1>1, <1>7, <1>9 DEF InstallInv
  <2>4. Reached' \subseteq Cells
    <3>1. \A c \in Reached' : c \in Int
      BY <1>3, <1>4, <1>6 DEF Span
    <3>2. Reached \subseteq Cells
      BY <1>1 DEF InstallInv
    <3> QED
      BY <1>2, <1>7, <3>1, <3>2
  <2> QED
    BY <1>1, <1>5, <2>2, <2>3, <2>4 DEF InstallInv, FirstIsOrig, Free, Covers, SavedAt, undoVars, history
<1>13. UndoInv'
  <2> SUFFICES ASSUME phase = "undo", ret PROVE UndoInv'
    BY <1>1 DEF UndoInv, undoVars
  <2>1. /\ next <= Len(uninstall_data) /\ op.loc = uninstall_data[next].loc /\ op.data = uninstall_data[next].data
    BY <1>1 DEF UndoInv
  <2>2. next \in 1 .. Len(uninstall_data) /\ next \in next .. Len(uninstall_data)
    BY <1>1, <2>1 DEF TypeInv
  <2>3. ASSUME NEW c \in Cells, Free(next, c) PROVE c \notin span
    BY <1>4, <1>8, <2>1, <2>2, <2>3 DEF Free, Covers
  <2>4. \A c \in Cells \ torn : Free(next, c) => Logical(c)' = orig[c]
    BY <1>1, <1>2, <2>3 DEF UndoInv
  <2>5. \A c \in Cells : c \in Reached' => Logical(c)' = op.data[c - op.loc + 1]
    BY <1>1, <1>2, <1>7, <1>9 DEF UndoInv
  <2> QED
    BY <1>1, <1>5, <2>1, <2>4, <2>5 DEF UndoInv, LastIsOrig, Free, Covers, SavedAt, undoVars, history
<1> QED
  BY <1>1, <1>10, <1>11, <1>12, <1>13 DEF DeviceInv, CommitInv, undoVars

----------------------------------------------------------------------------
(* The journal *)

LEMMA IdleFacts ==
  /\ Idle \in OpType /\ Idle.kind = "none" /\ Idle.loc = 0 /\ Idle.count = 0 /\ Idle.progress = 0
  /\ Idle.data = <<>> /\ Idle.saved = <<>>
  BY DEF Idle, OpType

(* Reversed, the entry that was first of its cell is the last. *)
LEMMA ReversedJournal ==
  ASSUME uninstall_data \in Seq(Entry), uninstall_data' = Reverse(uninstall_data), orig' = orig
  PROVE  /\ uninstall_data' \in Seq(Entry) /\ Len(uninstall_data') = Len(uninstall_data)
         /\ FirstIsOrig => LastIsOrig'
         /\ \A c \in Cells : Free(1, c)' <=> Free(1, c)
<1>0. Len(uninstall_data) \in Nat
  BY LenProperties
<1>1. PICK len \in Nat : len = Len(uninstall_data)
  BY <1>0
<1>2. /\ uninstall_data' \in Seq(Entry) /\ Len(uninstall_data') = len
      /\ \A i \in 1 .. len : uninstall_data'[i] = uninstall_data[(len - i) + 1]
  <2>1. \A i \in 1 .. len : (len - i) + 1 \in 1 .. len
    BY <1>1
  <2>2. \A i \in 1 .. len : uninstall_data[(len - i) + 1] \in Entry
    BY <1>1, <2>1, ElementOfSeq
  <2>3. uninstall_data' = [i \in 1 .. len |-> uninstall_data[(len - i) + 1]]
    BY <1>1 DEF Reverse
  <2> QED
    BY <2>2, <2>3
<1>3. ASSUME NEW i \in 1 .. len, NEW c
      PROVE  /\ (len - i) + 1 \in 1 .. len /\ i \in Int
             /\ Covers(i, c)' <=> Covers((len - i) + 1, c)
             /\ SavedAt(i, c)' = SavedAt((len - i) + 1, c)
  BY <1>1, <1>2 DEF Covers, SavedAt
<1>4. ASSUME FirstIsOrig, NEW c \in Cells, NEW i \in 1 .. len, Covers(i, c)', Free(i + 1, c)'
      PROVE  SavedAt(i, c)' = orig[c]
  <2> DEFINE r == (len - i) + 1
  <2>1. r \in 1 .. len /\ i \in Int /\ Covers(r, c) /\ SavedAt(i, c)' = SavedAt(r, c)
    BY <1>3, <1>4
  <2>2. ASSUME NEW j \in 1 .. r - 1 PROVE ~Covers(j, c)
    <3>0. /\ j \in 1 .. len /\ (len - j) + 1 \in i + 1 .. len /\ (len - j) + 1 \in 1 .. len
          /\ (len - ((len - j) + 1)) + 1 = j
      BY <2>1
    <3>1. PICK q \in i + 1 .. len : q \in 1 .. len /\ (len - q) + 1 = j
      BY <3>0
    <3>2. ~Covers(q, c)'
      BY <1>2, <1>4, <3>1 DEF Free
    <3> QED
      BY <1>3, <3>1, <3>2
  <2> HIDE DEF r
  <2>3. SavedAt(r, c) = orig[c]
    BY <1>1, <1>4, <2>1, <2>2 DEF FirstIsOrig
  <2> QED
    BY <2>1, <2>3
<1>5. ASSUME NEW c \in Cells PROVE Free(1, c)' <=> Free(1, c)
  <2>1. ASSUME Free(1, c), NEW i \in 1 .. len PROVE ~Covers(i, c)'
    <3>1. (len - i) + 1 \in 1 .. len
      BY <1>3
    <3> QED
      BY <1>1, <1>3, <2>1, <3>1 DEF Free
  <2>2. ASSUME Free(1, c)', NEW i \in 1 .. len PROVE ~Covers(i, c)
    <3>1. PICK q \in 1 .. len : (len - q) + 1 = i
      <4>1. (len - i) + 1 \in 1 .. len /\ (len - ((len - i) + 1)) + 1 = i
        OBVIOUS
      <4> QED
        BY <4>1
    <3>2. ~Covers(q, c)'
      BY <1>2, <2>2, <3>1 DEF Free
    <3> QED
      BY <1>3, <3>1, <3>2
  <2> QED
    BY <1>1, <1>2, <2>1, <2>2 DEF Free
<1>6. FirstIsOrig => LastIsOrig'
  BY <1>2, <1>4 DEF LastIsOrig
<1> QED
  BY <1>1, <1>2, <1>5, <1>6

(* An entry joins the journal with what its cells held. *)
LEMMA AppendKeeps == ASSUME DeviceInv, WriteReturns, phase = "install" PROVE DeviceInv'
<1> DEFINE entry == [loc |-> op.loc, data |-> op.saved]
           span == Span(op.loc, op.count)
<1>0. Len(uninstall_data) \in Nat
  BY LenProperties DEF DeviceInv, TypeInv
<1> PICK len \in Nat : len = Len(uninstall_data)
  BY <1>0
<1>1. /\ TypeInv /\ CacheInv /\ InstallInv /\ op.kind = "write" /\ op.progress = op.count /\ op' = Idle
      /\ uninstall_data' = Append(uninstall_data, entry)
      /\ want' = [c \in Cells |-> IF c \in span THEN op.data[c - op.loc + 1] ELSE want[c]]
      /\ UNCHANGED <<next, retry, dev, cacheVars, phase, ret, file, faults, orig, torn>>
  BY DEF DeviceInv, WriteReturns
<1>2. /\ op.loc \in Nat /\ op.count \in Nat /\ op.saved \in Seq(Val) /\ op.data \in Seq(Val)
      /\ Len(op.data) = op.count /\ Len(op.saved) = op.count /\ uninstall_data \in Seq(Entry)
  BY <1>1 DEF TypeInv, OpType, InstallInv
<1>3. entry \in Entry /\ entry.loc = op.loc /\ entry.data = op.saved
  BY <1>2 DEF Entry
<1> HIDE DEF entry
<1>4. /\ uninstall_data' \in Seq(Entry) /\ Len(uninstall_data') = len + 1 /\ uninstall_data'[len + 1] = entry
      /\ \A i \in 1 .. len : uninstall_data'[i] = uninstall_data[i]
  BY <1>1, <1>2, <1>3, AppendProperties
<1>5. ASSUME NEW c \in span PROVE c \in Int /\ c - op.loc + 1 \in 1 .. op.count /\ op.loc + (c - op.loc + 1) - 1 = c
  <2> DEFINE loc == op.loc
             count == op.count
  <2>1. loc \in Int /\ count \in Int /\ c \in loc .. loc + count - 1
    BY <1>2 DEF Span
  <2> HIDE DEF loc, count
  <2>2. c \in Int /\ c - loc + 1 \in 1 .. count /\ loc + (c - loc + 1) - 1 = c
    BY ONLY <2>1
  <2> QED
    BY <2>2 DEF loc, count
<1>6. Reached = span /\ Reached' = {}
  BY <1>1, IdleFacts DEF Reached
<1> HIDE DEF span
<1>7. ASSUME NEW i \in 1 .. len, NEW c PROVE (Covers(i, c)' <=> Covers(i, c)) /\ SavedAt(i, c)' = SavedAt(i, c)
  BY <1>4 DEF Covers, SavedAt
<1>8. ASSUME NEW c PROVE (Covers(len + 1, c)' <=> c \in span) /\ SavedAt(len + 1, c)' = op.saved[c - op.loc + 1]
  BY <1>2, <1>3, <1>4 DEF Covers, SavedAt, span
<1>9. \A c \in Cells : Free(1, c)' => Free(1, c) /\ c \notin span
  <2> SUFFICES ASSUME NEW c \in Cells, Free(1, c)' PROVE Free(1, c) /\ c \notin span
    OBVIOUS
  <2>1. \A i \in 1 .. len + 1 : ~Covers(i, c)'
    BY <1>4 DEF Free
  <2>2. len + 1 \in 1 .. len + 1 /\ \A i \in 1 .. len : i \in 1 .. len + 1
    BY <1>2
  <2> QED
    BY <1>7, <1>8, <2>1, <2>2 DEF Free
<1>10. FirstIsOrig'
  <2> SUFFICES ASSUME NEW c \in Cells, NEW i \in 1 .. len + 1, Covers(i, c)', \A j \in 1 .. i - 1 : ~Covers(j, c)'
               PROVE  SavedAt(i, c)' = orig[c]
    BY <1>1, <1>4 DEF FirstIsOrig
  <2>1. CASE i \in 1 .. len
    <3>1. \A j \in 1 .. i - 1 : j \in 1 .. len
      BY <1>2, <2>1
    <3> QED
      BY <1>1, <1>7, <2>1, <3>1 DEF InstallInv, FirstIsOrig
  <2>2. CASE i = len + 1
    <3>1. Free(1, c)
      <4>1. \A j \in 1 .. len : j \in 1 .. i - 1
        BY <1>2, <2>2
      <4> QED
        BY <1>7, <4>1 DEF Free
    <3>2. c \in span
      BY <1>8, <2>2
    <3>3. op.saved[c - op.loc + 1] = want[c]
      <4> DEFINE n == c - op.loc + 1
      <4>1. n \in 1 .. Len(op.saved) /\ op.loc + n - 1 = c
        BY <1>2, <1>5, <3>2
      <4> HIDE DEF n
      <4>2. op.saved[n] = want[op.loc + n - 1]
        BY <1>1, <4>1 DEF InstallInv
      <4> QED
        BY <4>1, <4>2 DEF n
    <3> QED
      BY <1>1, <1>8, <2>2, <3>1, <3>3 DEF InstallInv
  <2>3. i \in 1 .. len \/ i = len + 1
    BY <1>2
  <2> QED
    BY <2>1, <2>2, <2>3
<1>11. \A c \in Cells : Logical(c)' = want'[c]
  <2>1. \A c \in Cells : Logical(c)' = Logical(c)
    BY <1>1 DEF cacheVars, Logical, InCached, CellOf
  <2> QED
    BY <1>1, <1>6, <2>1 DEF InstallInv
<1>12. TypeInv'
  <2>1. want' \in [Cells -> Val]
    <3>1. \A c \in span : op.data[c - op.loc + 1] \in Val
      <4> SUFFICES ASSUME NEW c \in span PROVE op.data[c - op.loc + 1] \in Val
        OBVIOUS
      <4>1. c - op.loc + 1 \in 1 .. Len(op.data)
        BY <1>2, <1>5
      <4> QED
        BY <1>2, <4>1, ElementOfSeq
    <3>2. \A c \in Cells : want[c] \in Val
      BY <1>1 DEF TypeInv
    <3> QED
      BY <1>1, <3>1, <3>2
  <2> QED
    BY <1>1, <1>4, <2>1, IdleFacts DEF TypeInv, cacheVars
<1>13. CacheInv'
  BY <1>1, IdleFacts DEF CacheInv, cacheVars, CellOf
<1>14. InstallInv'
  <2>1. \A c \in Cells : Free(1, c)' => want'[c] = orig'[c]
    BY <1>1, <1>9 DEF InstallInv
  <2>2. \A c \in Cells : Free(1, c)' => dev'[c] = orig'[c]
    BY <1>1, <1>6, <1>9 DEF InstallInv
  <2>3. torn' = {} /\ ret'
    BY <1>1 DEF InstallInv
  <2> QED
    BY <1>1, <1>6, <1>10, <1>11, <2>1, <2>2, <2>3, IdleFacts DEF InstallInv
<1> QED
  BY <1>1, <1>12, <1>13, <1>14 DEF DeviceInv, UndoInv, CommitInv

(* An entry restored: its cells are original unless a later entry saved them too. *)
LEMMA RestoredKeeps == ASSUME DeviceInv, WriteReturns, phase = "undo" PROVE DeviceInv'
<1>1. /\ TypeInv /\ CacheInv /\ UndoInv /\ op.kind = "write" /\ op.progress = op.count /\ op' = Idle
      /\ next' = next + 1 /\ retry' = FALSE
      /\ UNCHANGED <<uninstall_data, want, dev, cacheVars, phase, ret, file, faults, orig, torn>>
  BY DEF DeviceInv, WriteReturns
<1>2. next \in Nat \ {0} /\ Len(uninstall_data) \in Nat /\ Len(op.data) = op.count
  BY <1>1, LenProperties DEF TypeInv
<1>3. Reached = Span(op.loc, op.count) /\ Reached' = {}
  BY <1>1, IdleFacts DEF Reached
<1>4. \A c \in Cells : Logical(c)' = Logical(c)
  BY <1>1 DEF cacheVars, Logical, InCached, CellOf
<1>5. TypeInv'
  <2>1. next + 1 \in Nat \ {0}
    BY <1>2
  <2>2. retry' \in BOOLEAN
    BY <1>1
  <2> QED
    BY <1>1, <2>1, <2>2, IdleFacts DEF TypeInv, cacheVars
<1>6. CacheInv'
  BY <1>1, IdleFacts DEF CacheInv, cacheVars, CellOf
<1>7. UndoInv'
  <2> SUFFICES ASSUME ret PROVE UndoInv'
    BY <1>1 DEF UndoInv
  <2>1. next <= Len(uninstall_data) /\ op.loc = uninstall_data[next].loc /\ op.data = uninstall_data[next].data
    BY <1>1 DEF UndoInv
  <2>2. next \in 1 .. Len(uninstall_data)
    BY <1>2, <2>1
  <2>3. ASSUME NEW c \in Cells \ torn, Free(next + 1, c) PROVE Logical(c) = orig[c]
    <3>1. CASE Covers(next, c)
      <4>1. c \in Reached
        BY <1>2, <1>3, <2>1, <3>1 DEF Covers
      <4>2. Logical(c) = SavedAt(next, c)
        BY <1>1, <2>1, <4>1 DEF UndoInv, SavedAt
      <4> QED
        BY <1>1, <2>2, <2>3, <3>1, <4>2 DEF UndoInv, LastIsOrig
    <3>2. CASE ~Covers(next, c)
      <4>1. \A i \in next .. Len(uninstall_data) : i = next \/ i \in next + 1 .. Len(uninstall_data)
        BY <1>2
      <4>2. Free(next, c)
        BY <2>3, <3>2, <4>1 DEF Free
      <4> QED
        BY <1>1, <4>2 DEF UndoInv
    <3> QED
      BY <3>1, <3>2
  <2>4. \A c \in Cells \ torn' : Free(next, c)' => Logical(c)' = orig'[c]
    BY <1>1, <1>4, <2>3 DEF Free, Covers
  <2>5. LastIsOrig'
    BY <1>1 DEF UndoInv, LastIsOrig, Free, Covers, SavedAt
  <2> QED
    BY <1>1, <1>3, <2>4, <2>5, IdleFacts DEF UndoInv
<1> QED
  BY <1>1, <1>5, <1>6, <1>7 DEF DeviceInv, InstallInv, CommitInv

LEMMA RestoreEntryKeeps == ASSUME DeviceInv, RestoreEntry PROVE DeviceInv'
<1>1. /\ TypeInv /\ CacheInv /\ UndoInv /\ phase = "undo" /\ op = Idle /\ next <= Len(uninstall_data)
      /\ op' = [Idle EXCEPT !.kind = "write", !.loc = uninstall_data[next].loc,
                            !.count = Len(uninstall_data[next].data), !.data = uninstall_data[next].data]
      /\ UNCHANGED <<dev, cacheVars, undoVars, file, faults, history>>
  BY DEF DeviceInv, RestoreEntry, Busy
<1>2. uninstall_data[next] \in Entry
  <2>1. next \in 1 .. Len(uninstall_data)
    BY <1>1, LenProperties DEF TypeInv
  <2> QED
    BY <1>1, <2>1, ElementOfSeq DEF TypeInv
<1> DEFINE data == uninstall_data[next].data
           loc  == uninstall_data[next].loc
<1>3. data \in Seq(Val) /\ Len(data) \in Nat /\ loc \in Nat
  BY <1>2, LenProperties DEF Entry
<1>4. /\ op'.kind = "write" /\ op'.loc = loc /\ op'.data = data /\ op'.count = Len(data) /\ op'.progress = 0
      /\ op' \in OpType /\ op'.progress <= op'.count
  <2>1. <<>> \in Seq(Val)
    OBVIOUS
  <2>2. op' = [kind |-> "write", loc |-> loc, count |-> Len(data), data |-> data, saved |-> <<>>, progress |-> 0]
    BY <1>1 DEF Idle
  <2> HIDE DEF data, loc
  <2> QED
    BY <1>3, <2>1, <2>2 DEF OpType
<1>5. Reached' = {}
  BY <1>3, <1>4 DEF Reached, Span
<1>6. \A c \in Cells : Logical(c)' = Logical(c)
  BY <1>1 DEF cacheVars, Logical, InCached, CellOf
<1>7. TypeInv'
  BY <1>1, <1>4 DEF TypeInv, cacheVars, undoVars, history
<1>8. CacheInv'
  BY <1>1, IdleFacts DEF CacheInv, cacheVars, undoVars, CellOf
<1>9. UndoInv'
  BY <1>1, <1>4, <1>5, <1>6 DEF UndoInv, LastIsOrig, Free, Covers, SavedAt, undoVars, history
<1> QED
  BY <1>1, <1>7, <1>8, <1>9 DEF DeviceInv, InstallInv, CommitInv, undoVars

(* device_flush_cache as uninstall calls it. *)
LEMMA FlushCountedIs ==
  ASSUME TypeInv, FlushCounted
  PROVE  /\ dev' \in [Cells -> Val] /\ (ret' = ret \/ ret' = FALSE)
         /\ ret' => ret /\ \A c \in Cells : dev'[c] = Logical(c)
<1>1. CASE cache_state = "clean" /\ UNCHANGED <<dev, ret, faults>>
  BY <1>1 DEF TypeInv, Logical
<1>2. CASE cache_state = "dirty" /\ dev' = Written(BlockSize) /\ UNCHANGED <<ret, faults>>
  <2>1. BlockSize \in 0 .. BlockSize
    BY Sizes
  <2> QED
    BY <1>2, <2>1, WrittenIs
<1>3. CASE cache_state = "dirty" /\ Fault /\ ret' = FALSE /\ \E n \in Offset : dev' = Written(n)
  <2>1. \A n \in Offset : n \in 0 .. BlockSize
    BY Sizes DEF Offset
  <2> QED
    BY <1>3, <2>1, WrittenIs
<1> QED
  BY <1>1, <1>2, <1>3 DEF FlushCounted

LEMMA RetryKeeps == ASSUME DeviceInv, Retry PROVE DeviceInv'
<1>1. /\ TypeInv /\ UndoInv /\ op.kind = "retry" /\ phase = "undo" /\ FlushCounted
      /\ cache_state' = "clean" /\ cached_block' = -1 /\ retry' = TRUE
      /\ op' = [op EXCEPT !.kind = "write", !.progress = 0]
      /\ UNCHANGED <<cache, uninstall_data, phase, next, file, history>>
  BY DEF DeviceInv, Retry, Restart, TypeInv
<1>2. /\ dev' \in [Cells -> Val] /\ (ret' = ret \/ ret' = FALSE)
      /\ ret' => ret /\ \A c \in Cells : dev'[c] = Logical(c)
  BY <1>1, FlushCountedIs
<1>3. /\ op \in OpType /\ op.loc \in Nat /\ op.count \in Nat
      /\ op'.kind = "write" /\ op'.loc = op.loc /\ op'.count = op.count /\ op'.data = op.data
      /\ op'.saved = op.saved /\ op'.progress = 0 /\ op' \in OpType /\ op'.progress <= op'.count
  <2>1. op \in OpType /\ op' = [op EXCEPT !.kind = "write", !.progress = 0]
    BY <1>1 DEF TypeInv
  <2>2. /\ op'.kind = "write" /\ op'.loc = op.loc /\ op'.count = op.count /\ op'.data = op.data
        /\ op'.saved = op.saved /\ op'.progress = 0 /\ op' \in OpType
    BY ONLY <2>1 DEF OpType
  <2>3. op.loc \in Nat /\ op.count \in Nat
    BY ONLY <2>1 DEF OpType
  <2> QED
    BY <2>1, <2>2, <2>3
<1>4. Reached' = {}
  BY <1>3 DEF Reached, Span
<1>5. ret' => \A c \in Cells : Logical(c)' = Logical(c)
  BY <1>1, <1>2 DEF Logical
<1>6. TypeInv'
  <2>1. cached_block' \in -1 .. Blocks - 1
    BY <1>1, Sizes
  <2>2. ret' \in BOOLEAN /\ retry' \in BOOLEAN
    BY <1>1, <1>2 DEF TypeInv
  <2> QED
    BY <1>1, <1>2, <1>3, <2>1, <2>2 DEF TypeInv, history
<1>7. CacheInv'
  BY <1>1 DEF CacheInv
<1>8. UndoInv'
  <2> SUFFICES ASSUME ret' PROVE UndoInv'
    BY DEF UndoInv
  <2>1. ret /\ \A c \in Cells : Logical(c)' = Logical(c)
    BY <1>2, <1>5
  <2> QED
    BY <1>1, <1>3, <1>4, <2>1 DEF UndoInv, LastIsOrig, Free, Covers, SavedAt, history
<1> QED
  BY <1>1, <1>6, <1>7, <1>8 DEF DeviceInv, InstallInv, CommitInv

LEMMA UninstallReturnsKeeps == ASSUME DeviceInv, UninstallReturns PROVE DeviceInv'
<1>1. /\ TypeInv /\ FlushCounted /\ phase' = "exit" /\ op = Idle
      /\ UNCHANGED <<cacheVars, uninstall_data, next, retry, op, file, history>>
  BY DEF DeviceInv, UninstallReturns, Busy
<1>2. dev' \in [Cells -> Val] /\ (ret' = ret \/ ret' = FALSE)
  BY <1>1, FlushCountedIs
<1>3. ret' \in BOOLEAN
  BY <1>1, <1>2 DEF TypeInv
<1>4. TypeInv'
  BY <1>1, <1>2, <1>3, IdleFacts DEF TypeInv, cacheVars, history
<1> QED
  BY <1>1, <1>4 DEF DeviceInv, CacheInv, InstallInv, UndoInv, CommitInv

LEMMA InstallSucceedsKeeps == ASSUME DeviceInv, InstallSucceeds PROVE DeviceInv' /\ dev' = want
<1>1. /\ TypeInv /\ InstallInv /\ phase = "install" /\ op = Idle /\ cache_state' = "clean"
      /\ dev' = IF cache_state = "dirty" THEN Written(BlockSize) ELSE dev
      /\ uninstall_data' = Reverse(uninstall_data) /\ phase' = "committed"
      /\ UNCHANGED <<cache, cached_block, next, retry, ret, op, faults, history>>
  BY DEF DeviceInv, InstallSucceeds, Busy
<1>2. dev' \in [Cells -> Val] /\ \A c \in Cells : dev'[c] = Logical(c)
  <2>1. BlockSize \in 0 .. BlockSize
    BY Sizes
  <2>2. CASE cache_state = "dirty"
    BY <1>1, <2>1, <2>2, WrittenIs
  <2>3. CASE cache_state # "dirty"
    BY <1>1, <2>3 DEF TypeInv, Logical
  <2> QED
    BY <2>2, <2>3
<1>3. Reached = {}
  BY <1>1, IdleFacts DEF Reached
<1>4. \A c \in Cells : dev'[c] = want[c] /\ (Free(1, c) => want[c] = orig[c])
  BY <1>1, <1>2, <1>3 DEF InstallInv
<1>5. want \in [Cells -> Val] /\ uninstall_data \in Seq(Entry) /\ orig' = orig
  BY <1>1 DEF TypeInv, history
<1>6. dev' = want
  BY <1>2, <1>4, <1>5
<1>7. /\ uninstall_data' \in Seq(Entry) /\ (FirstIsOrig => LastIsOrig')
      /\ \A c \in Cells : Free(1, c)' <=> Free(1, c)
  BY <1>1, <1>5, ReversedJournal
<1>8. TypeInv'
  BY <1>1, <1>2, <1>7, IdleFacts DEF TypeInv, history
<1>9. CommitInv'
  BY <1>1, <1>4, <1>5, <1>7 DEF InstallInv, CommitInv, history
<1> QED
  BY <1>1, <1>6, <1>8, <1>9 DEF DeviceInv, CacheInv, InstallInv, UndoInv

LEMMA UninstallRunKeeps == ASSUME DeviceInv, UninstallRun PROVE DeviceInv'
<1>1. /\ TypeInv /\ CommitInv /\ phase = "committed" /\ cache_state' = "clean" /\ cached_block' = -1
      /\ cache' = [o \in Offset |-> dev[o]] /\ phase' \in {"undo", "rejected"} /\ next' = 1 /\ retry' = FALSE
      /\ UNCHANGED <<dev, uninstall_data, ret, op, file, faults, history>>
  BY DEF DeviceInv, UninstallRun, Restart
<1>2. op = Idle /\ ret /\ LastIsOrig /\ \A c \in Cells : Free(1, c) => dev[c] = orig[c]
  BY <1>1 DEF CommitInv
<1>3. cache' \in [Offset -> Val]
  <2>1. 0 \in 0 .. Blocks - 1 /\ CellOf(0, 0) = 0 /\ \A o \in Offset : o \in Int
    BY Sizes DEF CellOf, Offset
  <2>2. \A o \in Offset : CellOf(0, o) = CellOf(0, 0) + o /\ CellOf(0, o) \in Cells
    BY <2>1, CellFacts
  <2>3. \A o \in Offset : o \in Cells
    BY <2>1, <2>2
  <2> QED
    BY <1>1, <2>3 DEF TypeInv
<1>4. TypeInv'
  <2>1. cached_block' \in -1 .. Blocks - 1 /\ next' \in Nat \ {0}
    BY <1>1, Sizes
  <2>2. retry' \in BOOLEAN
    BY <1>1
  <2> QED
    BY <1>1, <1>2, <1>3, <2>1, <2>2, IdleFacts DEF TypeInv, history
<1>5. \A c \in Cells : Logical(c)' = dev[c]
  BY <1>1 DEF Logical
<1>6. Reached' = {}
  BY <1>1, <1>2, IdleFacts DEF Reached
<1>7. UndoInv'
  <2>1. LastIsOrig'
    BY <1>1, <1>2 DEF LastIsOrig, Free, Covers, SavedAt, history
  <2>2. \A c \in Cells : Free(next, c)' => Logical(c)' = orig'[c]
    BY <1>1, <1>2, <1>5 DEF Free, Covers, history
  <2> QED
    BY <1>1, <1>2, <1>6, <2>1, <2>2, IdleFacts DEF UndoInv
<1> QED
  BY <1>1, <1>4, <1>7 DEF DeviceInv, CacheInv, InstallInv, CommitInv

----------------------------------------------------------------------------
(* Failures *)

(* cleanup starts: what no entry saved and the failed write did not reach is original. *)
LEMMA StartUndoKeeps ==
  ASSUME DeviceInv, phase = "install", OpFails, UNCHANGED <<orig, want>>,
         dev' \in [Cells -> Val], cache' \in [Offset -> Val],
         \A c \in Cells : dev'[c] = dev[c] \/ dev'[c] = Logical(c)
  PROVE  DeviceInv' /\ phase' = "undo" /\ torn' \subseteq Cells /\ Len(uninstall_data') = Len(uninstall_data)
<1>1. /\ TypeInv /\ InstallInv /\ op' = Idle /\ phase' = "undo" /\ next' = 1 /\ retry' = FALSE /\ ret' = TRUE
      /\ uninstall_data' = Reverse(uninstall_data) /\ cache_state' = "clean" /\ cached_block' = -1
      /\ torn' = IF op.kind = "write" THEN op.loc .. op.loc + op.progress - 1 ELSE {}
  BY DEF DeviceInv, OpFails, StartUndo, Restart
<1>2. torn' = Reached /\ Reached' = {}
  BY <1>1, IdleFacts DEF Reached, Span
<1>3. /\ uninstall_data' \in Seq(Entry) /\ (FirstIsOrig => LastIsOrig') /\ Len(uninstall_data') = Len(uninstall_data)
      /\ \A c \in Cells : Free(1, c)' <=> Free(1, c)
  <2>1. uninstall_data \in Seq(Entry) /\ orig' = orig
    BY <1>1 DEF TypeInv
  <2> QED
    BY <1>1, <2>1, ReversedJournal
<1>4. \A c \in Cells : Logical(c)' = dev'[c]
  BY <1>1 DEF Logical
<1>5. ASSUME NEW c \in Cells, c \notin torn', Free(1, c) PROVE dev'[c] = orig[c]
  <2>1. dev[c] = orig[c] /\ Logical(c) = want[c] /\ want[c] = orig[c]
    BY <1>1, <1>2, <1>5 DEF InstallInv
  <2> QED
    BY <2>1
<1>6. TypeInv'
  <2>1. cached_block' \in -1 .. Blocks - 1 /\ next' \in Nat \ {0}
    BY <1>1, Sizes
  <2>2. retry' \in BOOLEAN /\ ret' \in BOOLEAN
    BY <1>1
  <2> QED
    BY <1>1, <1>3, <2>1, <2>2, IdleFacts DEF TypeInv
<1>7. UndoInv'
  <2>1. \A c \in Cells \ torn' : Free(next, c)' => Logical(c)' = orig'[c]
    <3>1. \A c \in Cells : Free(next, c)' <=> Free(1, c)'
      BY <1>1 DEF Free
    <3> QED
      BY <1>3, <1>4, <1>5, <3>1
  <2> QED
    BY <1>1, <1>2, <1>3, <2>1, IdleFacts DEF UndoInv, InstallInv
<1>8. torn' \subseteq Cells
  BY <1>1, <1>2 DEF InstallInv
<1> QED
  BY <1>1, <1>3, <1>6, <1>7, <1>8 DEF DeviceInv, CacheInv, InstallInv, CommitInv

(* uninstall's write of an entry fails: once it is tried again, then given up. *)
LEMMA UndoFailsKeeps ==
  ASSUME DeviceInv, phase = "undo", OpFails, Needs, UNCHANGED <<orig, want>>,
         dev' \in [Cells -> Val], cache' \in [Offset -> Val],
         cached_block' = cached_block /\ cache_state' = cache_state =>
            \A c \in Cells : Logical(c)' = Logical(c)
  PROVE  DeviceInv' /\ UNCHANGED <<phase, torn, uninstall_data>>
<1>1. TypeInv /\ UndoInv /\ op.kind = "write"
  BY DEF DeviceInv, TypeInv, Needs
<1>2. CASE ~retry
  <2>1. op' = [op EXCEPT !.kind = "retry"] /\ UNCHANGED <<undoVars, cached_block, cache_state, torn>>
    BY <1>2 DEF OpFails
  <2>2. /\ op'.kind = "retry" /\ op'.loc = op.loc /\ op'.count = op.count /\ op'.data = op.data
        /\ op'.saved = op.saved /\ op'.progress = op.progress /\ op' \in OpType
    BY <1>1, <2>1 DEF TypeInv, OpType
  <2>3. Reached' = {}
    BY <2>2 DEF Reached
  <2>4. TypeInv'
    BY <1>1, <2>1, <2>2 DEF TypeInv, undoVars
  <2>5. UndoInv'
    BY <1>1, <2>1, <2>2, <2>3 DEF UndoInv, LastIsOrig, Free, Covers, SavedAt, undoVars
  <2> QED
    BY <2>1, <2>2, <2>4, <2>5 DEF DeviceInv, CacheInv, InstallInv, CommitInv, undoVars
<1>3. CASE retry
  <2>1. /\ ret' = FALSE /\ next' = next + 1 /\ retry' = FALSE /\ op' = Idle
        /\ UNCHANGED <<uninstall_data, phase, cached_block, cache_state, torn>>
    BY <1>3 DEF OpFails
  <2>2. TypeInv'
    <3>1. next' \in Nat \ {0}
      BY <1>1, <2>1 DEF TypeInv
    <3>2. retry' \in BOOLEAN /\ ret' \in BOOLEAN
      BY <2>1
    <3> QED
      BY <1>1, <2>1, <3>1, <3>2, IdleFacts DEF TypeInv
  <2> QED
    BY <2>1, <2>2 DEF DeviceInv, CacheInv, InstallInv, UndoInv, CommitInv
<1> QED
  BY <1>2, <1>3

LEMMA WriteTooManyKeeps ==
  ASSUME DeviceInv, WriteTooMany
  PROVE  DeviceInv' /\ phase' = "undo" /\ torn' \subseteq Cells /\ Len(uninstall_data') = Len(uninstall_data)
<1>1. phase = "install" /\ OpFails /\ UNCHANGED <<dev, cache, orig, want>>
  BY DEF WriteTooMany
<1>2. dev' \in [Cells -> Val] /\ cache' \in [Offset -> Val] /\ \A c \in Cells : dev'[c] = dev[c]
  BY <1>1 DEF DeviceInv, TypeInv
<1> QED
  BY <1>1, <1>2, StartUndoKeeps

(* A flush that fails part of the way. *)
LEMMA PartialFlush ==
  ASSUME TypeInv, cache_state = "dirty", \E n \in Offset : dev' = Written(n), cache' = cache
  PROVE  /\ dev' \in [Cells -> Val] /\ cache' \in [Offset -> Val]
         /\ \A c \in Cells : dev'[c] = dev[c] \/ dev'[c] = Logical(c)
         /\ cached_block' = cached_block /\ cache_state' = cache_state => \A c \in Cells : Logical(c)' = Logical(c)
<1>1. PICK n \in Offset : dev' = Written(n)
  OBVIOUS
<1>2. n \in 0 .. BlockSize
  BY Sizes DEF Offset
<1>3. /\ dev' \in [Cells -> Val] /\ \A c \in Cells : ~InCached(c) => dev'[c] = dev[c]
      /\ \A c \in Cells : dev'[c] = dev[c] \/ dev'[c] = Logical(c)
  BY <1>1, <1>2, WrittenIs
<1>4. ASSUME cached_block' = cached_block, cache_state' = cache_state, NEW c \in Cells
      PROVE  Logical(c)' = Logical(c)
  BY <1>3, <1>4 DEF Logical, InCached, CellOf
<1> QED
  BY <1>3, <1>4 DEF TypeInv

LEMMA InstallFlushFailsKeeps ==
  ASSUME DeviceInv, InstallFlushFails
  PROVE  DeviceInv' /\ phase' = "undo" /\ torn' \subseteq Cells /\ Len(uninstall_data') = Len(uninstall_data)
<1>1. /\ TypeInv /\ phase = "install" /\ cache_state = "dirty" /\ OpFails
      /\ (\E n \in Offset : dev' = Written(n)) /\ UNCHANGED <<cache, orig, want>>
  BY DEF DeviceInv, InstallFlushFails
<1>2. /\ dev' \in [Cells -> Val] /\ cache' \in [Offset -> Val]
      /\ \A c \in Cells : dev'[c] = dev[c] \/ dev'[c] = Logical(c)
  BY <1>1, PartialFlush
<1> QED
  BY <1>1, <1>2, StartUndoKeeps

(* What the failure of an operation under way leads to. *)
Failed ==
  \/ phase = "install" /\ phase' = "undo" /\ torn' \subseteq Cells /\ Len(uninstall_data') = Len(uninstall_data)
  \/ phase = "undo" /\ UNCHANGED <<phase, torn, uninstall_data>>

LEMMA FlushDirtyFailsKeeps == ASSUME DeviceInv, FlushDirtyFails PROVE DeviceInv' /\ Failed
<1>1. /\ TypeInv /\ Needs /\ cache_state = "dirty" /\ OpFails
      /\ (\E n \in Offset : dev' = Written(n)) /\ UNCHANGED <<cache, orig, want>>
  BY DEF DeviceInv, FlushDirtyFails, Miss
<1>2. /\ dev' \in [Cells -> Val] /\ cache' \in [Offset -> Val]
      /\ \A c \in Cells : dev'[c] = dev[c] \/ dev'[c] = Logical(c)
      /\ cached_block' = cached_block /\ cache_state' = cache_state => \A c \in Cells : Logical(c)' = Logical(c)
  BY <1>1, PartialFlush
<1>3. phase = "install" \/ phase = "undo"
  BY <1>1 DEF OpFails
<1>4. CASE phase = "install"
  BY <1>1, <1>2, <1>4, StartUndoKeeps DEF Failed
<1>5. CASE phase = "undo"
  BY <1>1, <1>2, <1>5, UndoFailsKeeps DEF Failed
<1> QED
  BY <1>3, <1>4, <1>5

LEMMA LoadBlockFailsKeeps == ASSUME DeviceInv, LoadBlockFails PROVE DeviceInv' /\ Failed
<1>1. /\ TypeInv /\ Needs /\ cache_state = "clean" /\ OpFails /\ UNCHANGED <<dev, orig, want>>
      /\ cache' = cache \/ (Block \in 0 .. Blocks - 1 /\ \E n \in Offset : cache' = Filled(Block, n))
  BY DEF DeviceInv, LoadBlockFails, Miss, OnDevice
<1>2. cache' \in [Offset -> Val]
  <2>1. CASE cache' = cache
    BY <1>1, <2>1 DEF TypeInv
  <2>2. ASSUME Block \in 0 .. Blocks - 1, NEW n \in Offset, cache' = Filled(Block, n) PROVE cache' \in [Offset -> Val]
    <3>1. \A o \in Offset : CellOf(Block, o) \in Cells
      BY <2>2, CellFacts
    <3>2. \A o \in Offset : dev[CellOf(Block, o)] \in Val /\ cache[o] \in Val
      BY <1>1, <3>1 DEF TypeInv
    <3> QED
      BY <2>2, <3>2 DEF Filled
  <2> QED
    BY <1>1, <2>1, <2>2
<1>3. dev' \in [Cells -> Val] /\ \A c \in Cells : dev'[c] = dev[c]
  BY <1>1 DEF TypeInv
<1>4. cached_block' = cached_block /\ cache_state' = cache_state => \A c \in Cells : Logical(c)' = Logical(c)
  BY <1>1 DEF Logical
<1>5. phase = "install" \/ phase = "undo"
  BY <1>1 DEF OpFails
<1>6. CASE phase = "install"
  BY <1>1, <1>2, <1>3, <1>6, StartUndoKeeps DEF Failed
<1>7. CASE phase = "undo"
  BY <1>1, <1>2, <1>3, <1>4, <1>7, UndoFailsKeeps DEF Failed
<1> QED
  BY <1>5, <1>6, <1>7

----------------------------------------------------------------------------
(* The specification *)

LEMMA DeviceStep == ASSUME DeviceInv, [Next]_vars PROVE DeviceInv'
<1>1. CASE \E loc \in Cells, count \in 1 .. MaxLen : ReadCall(loc, count) \/ WriteCall(loc, count)
  BY <1>1, ReadCallKeeps, WriteCallKeeps
<1>2. CASE WriteTooMany
  BY <1>2, WriteTooManyKeeps
<1>3. CASE FlushDirty
  BY <1>3, FlushDirtyKeeps
<1>4. CASE FlushDirtyFails
  BY <1>4, FlushDirtyFailsKeeps
<1>5. CASE LoadBlock
  BY <1>5, LoadBlockKeeps
<1>6. CASE LoadBlockFails
  BY <1>6, LoadBlockFailsKeeps
<1>7. CASE CopyOut
  BY <1>7, CopyOutKeeps
<1>8. CASE CopyIn
  BY <1>8, CopyInKeeps
<1>9. CASE ReadReturns
  BY <1>9, ReadReturnsKeeps
<1>10. CASE SaveDone
  BY <1>10, SaveDoneKeeps
<1>11. CASE WriteReturns
  <2>1. phase = "install" \/ phase = "undo"
    BY <1>11 DEF WriteReturns
  <2> QED
    BY <1>11, <2>1, AppendKeeps, RestoredKeeps
<1>12. CASE RestoreEntry
  BY <1>12, RestoreEntryKeeps
<1>13. CASE Retry
  BY <1>13, RetryKeeps
<1>14. CASE UninstallReturns
  BY <1>14, UninstallReturnsKeeps
<1>15. CASE InstallSucceeds
  BY <1>15, InstallSucceedsKeeps
<1>16. CASE InstallFlushFails
  BY <1>16, InstallFlushFailsKeeps
<1>17. CASE UninstallRun
  BY <1>17, UninstallRunKeeps
<1>18. CASE UNCHANGED vars
  <2>1. UNCHANGED <<dev, cache, cached_block, cache_state, uninstall_data, phase, next, retry, ret, op, orig, want, torn>>
    BY <1>18 DEF vars, cacheVars, undoVars, history
  <2>2. TypeInv'
    BY <2>1 DEF DeviceInv, TypeInv
  <2>3. CacheInv'
    BY <2>1 DEF DeviceInv, CacheInv, CellOf
  <2>4. \A c \in Cells : Logical(c)' = Logical(c)
    BY <2>1 DEF Logical, InCached, CellOf
  <2>5. InstallInv'
    BY <2>1, <2>4 DEF DeviceInv, InstallInv, FirstIsOrig, Free, Covers, SavedAt, Reached
  <2>6. UndoInv'
    BY <2>1, <2>4 DEF DeviceInv, UndoInv, LastIsOrig, Free, Covers, SavedAt, Reached
  <2>7. CommitInv'
    BY <2>1 DEF DeviceInv, CommitInv, LastIsOrig, Free, Covers, SavedAt
  <2> QED
    BY <2>2, <2>3, <2>5, <2>6, <2>7 DEF DeviceInv
<1> QED
  BY <1>1, <1>2, <1>3, <1>4, <1>5, <1>6, <1>7, <1>8, <1>9, <1>10, <1>11, <1>12, <1>13, <1>14, <1>15, <1>16,
     <1>17, <1>18 DEF Next

LEMMA DeviceAlways == Spec => []DeviceInv
<1>1. DeviceInv /\ [Next]_vars => DeviceInv'
  BY DeviceStep
<1> QED
  BY <1>1, DeviceInvInit, PTL DEF Spec

(* _device_read returns, and _device_write saves, what was written last to *)
(* every cell, for every block size, device and buffer: in the cache, on   *)
(* the device, or across blocks of which one is cached dirty.              *)
THEOREM DeviceReadsSeeWrites == Spec => []ReadsSeeWrites
<1>1. DeviceInv => ReadsSeeWrites
  <2> SUFFICES ASSUME DeviceInv, phase = "install", op.kind \in {"read", "save"}, NEW n \in DOMAIN op.saved
               PROVE  op.loc + n - 1 \in Cells /\ op.saved[n] = want[op.loc + n - 1]
    BY DEF ReadsSeeWrites
  <2>1. op.saved \in Seq(Val)
    BY DEF DeviceInv, TypeInv, OpType
  <2>2. n \in 1 .. Len(op.saved)
    BY <2>1, LenProperties
  <2> QED
    BY <2>2 DEF DeviceInv, InstallInv
<1> QED
  BY <1>1, DeviceAlways, PTL

----------------------------------------------------------------------------
(* The promise of JournaledDevice, step by step *)

LEMMA PromiseInit == Init => Promise!Init
<1> SUFFICES ASSUME Init PROVE Promise!Init
  OBVIOUS
<1>1. dev = [c \in Cells |-> 0] /\ want = dev /\ orig = dev /\ torn = {} /\ phase = "install" /\ uninstall_data = <<>>
  BY DEF Init
<1>2. 0 \in Val /\ Len(uninstall_data) = 0
  BY <1>1, Sizes DEF Val
<1>3. want \in [Cells -> Val]
  BY <1>1, <1>2
<1>4. Status = "open"
  BY <1>1 DEF Status
<1> QED
  BY <1>1, <1>2, <1>3, <1>4 DEF Promise!Init, Promise!Contents

LEMMA OpenStutters ==
  ASSUME phase = "install", UNCHANGED <<phase, want, orig, torn, uninstall_data>>
  PROVE  UNCHANGED Promise!vars
<1>1. Status = "open" /\ Status' = "open"
  BY DEF Status
<1> QED
  BY <1>1 DEF Promise!vars

LEMMA UndoingStep ==
  ASSUME phase = "undo", UNCHANGED <<phase, orig, torn, uninstall_data>>, dev' \in [Cells -> Val]
  PROVE  Promise!Next
<1>1. Status = "undoing" /\ Status' = "undoing"
  BY DEF Status
<1> QED
  BY <1>1 DEF Promise!Next, Promise!Undoing, Promise!Contents

LEMMA FailStep ==
  ASSUME phase = "install", phase' = "undo", torn' \subseteq Cells, orig' = orig, dev' \in [Cells -> Val],
         Len(uninstall_data') = Len(uninstall_data)
  PROVE  Promise!Next
<1>1. Status = "open" /\ Status' = "undoing"
  BY DEF Status
<1>2. Promise!Fail
  BY <1>1 DEF Promise!Fail, Promise!Contents
<1> QED
  BY <1>2 DEF Promise!Next

LEMMA PromiseStep == ASSUME DeviceInv, DeviceInv', [Next]_vars PROVE [Promise!Next]_(Promise!vars)
<1>1. TypeInv /\ InstallInv /\ UndoInv /\ TypeInv'
  BY DEF DeviceInv
<1>2. dev' \in [Cells -> Val] /\ want' \in [Cells -> Val] /\ phase \in {"install", "undo", "committed", "rejected", "exit"}
  BY <1>1 DEF TypeInv
<1>3. CASE \E loc \in Cells, count \in 1 .. MaxLen : ReadCall(loc, count) \/ WriteCall(loc, count)
  <2>1. phase = "install" /\ UNCHANGED <<phase, want, orig, torn, uninstall_data>>
    BY <1>3 DEF ReadCall, WriteCall, undoVars, history
  <2> QED
    BY <2>1, OpenStutters
<1>4. CASE CopyOut \/ ReadReturns \/ SaveDone
  <2>1. phase = "install" /\ UNCHANGED <<phase, want, orig, torn, uninstall_data>>
    BY <1>1, <1>4 DEF CopyOut, ReadReturns, SaveDone, TypeInv, undoVars, history
  <2> QED
    BY <2>1, OpenStutters
<1>5. CASE FlushDirty \/ LoadBlock \/ CopyIn
  <2>1. op.kind \in {"read", "save", "write"} /\ UNCHANGED <<phase, want, orig, torn, uninstall_data>>
    BY <1>5 DEF FlushDirty, LoadBlock, CopyIn, Miss, Needs, undoVars, history
  <2>2. phase = "install" \/ phase = "undo"
    BY <1>1, <2>1 DEF TypeInv
  <2> QED
    BY <1>2, <2>1, <2>2, OpenStutters, UndoingStep
<1>6. CASE WriteTooMany \/ InstallFlushFails
  <2>1. phase = "install" /\ orig' = orig
    BY <1>6 DEF WriteTooMany, InstallFlushFails
  <2>2. phase' = "undo" /\ torn' \subseteq Cells /\ Len(uninstall_data') = Len(uninstall_data)
    BY <1>6, WriteTooManyKeeps, InstallFlushFailsKeeps
  <2> QED
    BY <1>2, <2>1, <2>2, FailStep
<1>7. CASE FlushDirtyFails \/ LoadBlockFails
  <2>1. Failed /\ orig' = orig
    BY <1>7, FlushDirtyFailsKeeps, LoadBlockFailsKeeps DEF FlushDirtyFails, LoadBlockFails
  <2> QED
    BY <1>2, <2>1, FailStep, UndoingStep DEF Failed
<1>8. CASE WriteReturns
  <2>1. op.kind = "write" /\ UNCHANGED <<phase, orig, torn>>
    BY <1>8 DEF WriteReturns
  <2>2. CASE phase = "install"
    <3>1. Len(uninstall_data) < UNINSTALL_DATA_MAX
      BY <1>1, <2>1, <2>2 DEF InstallInv
    <3>2. Len(uninstall_data') = Len(uninstall_data) + 1
      BY <1>1, <1>8, <2>2, AppendProperties DEF WriteReturns, TypeInv
    <3>3. Status = "open" /\ Status' = "open"
      BY <2>1, <2>2 DEF Status
    <3>4. Promise!Write
      BY <1>2, <2>1, <2>2, <3>1, <3>2, <3>3 DEF Promise!Write, Promise!Contents
    <3> QED
      BY <3>4 DEF Promise!Next
  <2>3. CASE phase = "undo"
    <3>1. UNCHANGED uninstall_data
      BY <1>8, <2>3 DEF WriteReturns
    <3> QED
      BY <1>2, <2>1, <2>3, <3>1, UndoingStep
  <2> QED
    BY <1>1, <2>1, <2>2, <2>3 DEF TypeInv
<1>9. CASE RestoreEntry \/ Retry
  <2>1. phase = "undo" /\ UNCHANGED <<phase, orig, torn, uninstall_data>>
    BY <1>1, <1>9 DEF RestoreEntry, Retry, TypeInv, undoVars, history
  <2> QED
    BY <1>2, <2>1, UndoingStep
<1>10. CASE UninstallReturns
  <2>1. /\ phase = "undo" /\ phase' = "exit" /\ op = Idle /\ FlushCounted /\ next > Len(uninstall_data)
        /\ UNCHANGED <<orig, torn, uninstall_data>>
    BY <1>10 DEF UninstallReturns, Busy, history
  <2>2. Status = "undoing"
    BY <2>1 DEF Status
  <2>3. ret' \in BOOLEAN /\ (ret' => ret /\ \A c \in Cells : dev'[c] = Logical(c))
    BY <1>1, <2>1, FlushCountedIs DEF TypeInv
  <2>4. CASE ret'
    <3>1. \A c \in Cells : Free(next, c)
      <4>1. \A i \in next .. Len(uninstall_data) : FALSE
        BY <1>1, <2>1, LenProperties DEF TypeInv
      <4> QED
        BY <4>1 DEF Free
    <3>2. \A c \in Cells \ torn : dev'[c] = orig[c]
      BY <1>1, <2>1, <2>3, <2>4, <3>1 DEF UndoInv
    <3>3. Status' = "undone"
      BY <2>1, <2>4 DEF Status
    <3>4. Promise!Undone
      BY <1>2, <2>1, <2>2, <3>2, <3>3 DEF Promise!Undone, Promise!Contents
    <3> QED
      BY <3>4 DEF Promise!Next
  <2>5. CASE ~ret'
    <3>1. Status' = "damaged"
      BY <2>1, <2>5 DEF Status
    <3>2. Promise!UndoFails
      BY <1>2, <2>1, <2>2, <3>1 DEF Promise!UndoFails, Promise!Contents
    <3> QED
      BY <3>2 DEF Promise!Next
  <2> QED
    BY <2>4, <2>5
<1>11. CASE InstallSucceeds
  <2>1. phase = "install" /\ phase' = "committed" /\ UNCHANGED <<orig, torn>> /\ uninstall_data' = Reverse(uninstall_data)
    BY <1>11 DEF InstallSucceeds, history
  <2>2. dev' = want
    BY <1>11, InstallSucceedsKeeps
  <2>3. Len(uninstall_data') = Len(uninstall_data)
    BY <1>1, <2>1, ReversedJournal DEF TypeInv
  <2>4. Status = "open" /\ Status' = "committed"
    BY <2>1 DEF Status
  <2>5. Promise!Commit
    BY <2>1, <2>2, <2>3, <2>4 DEF Promise!Commit
  <2> QED
    BY <2>5 DEF Promise!Next
<1>12. CASE UninstallRun
  <2>1. /\ phase = "committed" /\ phase' \in {"undo", "rejected"} /\ UNCHANGED <<dev, orig, torn, uninstall_data>>
    BY <1>12 DEF UninstallRun, history
  <2>2. Status = "committed"
    BY <2>1 DEF Status
  <2>3. CASE phase' = "undo"
    <3>1. Status' = "undoing"
      BY <2>3 DEF Status
    <3>2. Promise!Uninstall
      BY <2>1, <2>2, <2>3, <3>1 DEF Promise!Uninstall
    <3> QED
      BY <3>2 DEF Promise!Next
  <2>4. CASE phase' = "rejected"
    <3>1. Status' = "committed"
      BY <2>4 DEF Status
    <3> QED
      BY <2>1, <2>2, <2>4, <3>1 DEF Promise!vars
  <2> QED
    BY <2>1, <2>3, <2>4
<1>13. CASE UNCHANGED vars
  <2>1. UNCHANGED <<phase, want, dev, orig, torn, uninstall_data, ret>>
    BY <1>13 DEF vars, undoVars, history
  <2> QED
    BY <2>1 DEF Promise!vars, Status
<1> QED
  BY <1>3, <1>4, <1>5, <1>6, <1>7, <1>8, <1>9, <1>10, <1>11, <1>12, <1>13 DEF Next

(* The cached, journaled device implements the promise of JournaledDevice: *)
(* writes take effect at once, and an undo that reports success, after a   *)
(* failed installation or by --uninstall, leaves every cell as it was,     *)
(* except those the failing write had reached; for every size and every    *)
(* pattern of I/O failures.                                                *)
THEOREM DeviceKeepsPromise == Spec => KeepsPromise
<1>1. DeviceInv /\ DeviceInv' /\ [Next]_vars => [Promise!Next]_(Promise!vars)
  BY PromiseStep
<1> QED
  BY <1>1, PromiseInit, DeviceAlways, PTL DEF Spec, KeepsPromise, Promise!Spec

=============================================================================
