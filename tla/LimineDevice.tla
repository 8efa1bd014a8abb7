---------------------------- MODULE LimineDevice ----------------------------
(***************************************************************************)
(* The device layer of limine/limine.c: one cached block, written back     *)
(* when another is needed, and the data saved by every write so that an    *)
(* installation that fails, or a later run with --uninstall, can be taken  *)
(* back.                                                                   *)
(*                                                                         *)
(* The program is sequential; what happens between its steps is I/O that   *)
(* fails.  A failed fread may have filled part of the cache and a failed   *)
(* fwrite part of the block.  dev is what the stdio stream has accepted.   *)
(***************************************************************************)
EXTENDS Integers, Sequences, SequencesExt

CONSTANTS
  BlockSize,           \* cells (bytes) in a block
  Blocks,              \* blocks of the device
  UNINSTALL_DATA_MAX,
  MaxLen,              \* longest buffer a caller reads or writes
  MaxFaults            \* I/O calls that fail

ASSUME DeviceAssumption ==
  {BlockSize, Blocks, UNINSTALL_DATA_MAX, MaxLen} \subseteq Nat \ {0} /\ MaxFaults \in Nat

VARIABLES
  dev, cache, cached_block, cache_state,
  uninstall_data,  \* entries saved, oldest first; reversed from cleanup on
  op,              \* the _device_read or _device_write under way
  phase,           \* "install", "undo", "committed", "rejected" or "exit"
  next,            \* uninstall: the entry to restore
  retry,           \* uninstall: this entry has failed once
  ret,             \* uninstall: nothing has failed for good
  file,            \* the file of uninstall data: "none", "partial" or "full"
  faults,
  orig, want, torn \* history: the device at first, what was written to it,
                   \*   the cells the failed write had reached

cacheVars == <<cache, cached_block, cache_state>>
undoVars  == <<uninstall_data, phase, next, retry, ret>>
history   == <<orig, want, torn>>
vars == <<dev, cacheVars, undoVars, op, file, faults, history>>

Cells  == 0 .. Blocks * BlockSize - 1
Offset == 0 .. BlockSize - 1
Val    == 0 .. UNINSTALL_DATA_MAX

Idle == [kind |-> "none", loc |-> 0, count |-> 0, data |-> <<>>, saved |-> <<>>, progress |-> 0]

(* What device_init leaves behind: block 0 has just been read. *)
DeviceInit ==
  /\ cache = [o \in Offset |-> dev[o]]
  /\ cached_block = 0
  /\ cache_state = "clean"

Init ==
  /\ dev = [c \in Cells |-> 0]
  /\ DeviceInit
  /\ uninstall_data = <<>>
  /\ op = Idle
  /\ phase = "install"
  /\ next = 1 /\ retry = FALSE /\ ret = TRUE
  /\ file = "none"
  /\ faults = 0
  /\ orig = dev /\ want = dev /\ torn = {}

----------------------------------------------------------------------------
(* The caller: bios_install reads and writes any part of the device, or    *)
(* runs past its end.  The n-th write writes the value n.                  *)

Busy == op # Idle

ReadCall(loc, count) ==
  /\ phase = "install" /\ ~Busy
  /\ op' = [Idle EXCEPT !.kind = "read", !.loc = loc, !.count = count]
  /\ UNCHANGED <<dev, cacheVars, undoVars, file, faults, history>>

(* _device_write first reads what it will overwrite. *)
WriteCall(loc, count) ==
  /\ phase = "install" /\ ~Busy
  /\ Len(uninstall_data) < UNINSTALL_DATA_MAX
  /\ op' = [Idle EXCEPT !.kind = "save", !.loc = loc, !.count = count,
                        !.data = [n \in 1 .. count |-> Len(uninstall_data) + 1]]
  /\ UNCHANGED <<dev, cacheVars, undoVars, file, faults, history>>

----------------------------------------------------------------------------
(* device_cache_block *)

Block  == (op.loc + op.progress) \div BlockSize
Needs  == op.kind \in {"read", "save", "write"} /\ op.progress < op.count
Miss   == Needs /\ cached_block # Block
Hit    == Needs /\ cached_block = Block

OnDevice(b) == b \in 0 .. Blocks - 1

CellOf(b, o) == b * BlockSize + o

(* The device after the first n cells of the cache were written to it.     *)
Written(n) ==
  [c \in Cells |-> IF c \in CellOf(cached_block, 0) .. CellOf(cached_block, n) - 1
                   THEN cache[c - CellOf(cached_block, 0)] ELSE dev[c]]

(* The cache after the first n cells of block b were read into it.         *)
Filled(b, n) == [o \in Offset |-> IF o < n THEN dev[CellOf(b, o)] ELSE cache[o]]

(* Mutant of Restart: uninstall trusts the cache. *)
Restart_KeepCache == cache_state' = "clean" /\ UNCHANGED cached_block

(* uninstall's way to forget the cache, dirty or not. *)
Restart == cache_state' = "clean" /\ cached_block' = -1

(* cleanup after a failure: reverse_uninstall_data, then uninstall.        *)
StartUndo ==
  /\ phase' = "undo" /\ next' = 1 /\ retry' = FALSE /\ ret' = TRUE
  /\ uninstall_data' = Reverse(uninstall_data)
  /\ Restart

(* A read or write returns false: bios_install goes to cleanup; uninstall  *)
(* flushes and tries once more, then gives the entry up.                   *)
OpFails ==
  \/ /\ phase = "install"
     /\ torn' = IF op.kind = "write" THEN op.loc .. op.loc + op.progress - 1 ELSE {}
     /\ op' = Idle
     /\ StartUndo
  \/ /\ phase = "undo" /\ ~retry
     /\ op' = [op EXCEPT !.kind = "retry"]
     /\ UNCHANGED <<undoVars, cached_block, cache_state, torn>>
  \/ /\ phase = "undo" /\ retry
     /\ ret' = FALSE /\ next' = next + 1 /\ retry' = FALSE
     /\ op' = Idle
     /\ UNCHANGED <<uninstall_data, phase, cached_block, cache_state, torn>>

(* The table of saved data is full: the write fails before it starts. *)
WriteTooMany ==
  /\ phase = "install" /\ ~Busy
  /\ Len(uninstall_data) = UNINSTALL_DATA_MAX
  /\ OpFails
  /\ UNCHANGED <<dev, cache, file, faults, orig, want>>

Fault == faults < MaxFaults /\ faults' = faults + 1

(* device_flush_cache before another block is loaded. *)
FlushDirty ==
  /\ Miss /\ cache_state = "dirty"
  /\ dev' = Written(BlockSize)
  /\ cache_state' = "clean"
  /\ UNCHANGED <<cache, cached_block, undoVars, op, file, faults, history>>

FlushDirtyFails ==
  /\ Miss /\ cache_state = "dirty"
  /\ Fault
  /\ \E n \in Offset : dev' = Written(n)
  /\ OpFails
  /\ UNCHANGED <<cache, file, orig, want>>

LoadBlock ==
  /\ Miss /\ cache_state = "clean"
  /\ OnDevice(Block)
  /\ cache' = Filled(Block, BlockSize)
  /\ cached_block' = Block
  /\ UNCHANGED <<dev, cache_state, undoVars, op, file, faults, history>>

LoadBlockFails ==
  /\ Miss /\ cache_state = "clean"
  /\ \/ ~OnDevice(Block) /\ UNCHANGED <<cache, faults>>
     \/ OnDevice(Block) /\ Fault /\ \E n \in Offset : cache' = Filled(Block, n)
  /\ OpFails
  /\ UNCHANGED <<dev, file, orig, want>>

----------------------------------------------------------------------------
(* One round of the loops of _device_read and _device_write: a chunk that  *)
(* ends with the buffer or with the block.                                 *)
ChunkOffset == (op.loc + op.progress) % BlockSize

(* Mutant of Chunk: not cut at the end of the block. *)
Chunk_Uncut == op.count - op.progress

Chunk == IF op.count - op.progress > BlockSize - ChunkOffset
         THEN BlockSize - ChunkOffset ELSE op.count - op.progress

CopyOut ==
  /\ Hit /\ op.kind \in {"read", "save"}
  /\ op' = [op EXCEPT !.saved = @ \o [n \in 1 .. Chunk |-> cache[(ChunkOffset + n - 1) % BlockSize]],
                      !.progress = @ + Chunk]
  /\ UNCHANGED <<dev, cacheVars, undoVars, file, faults, history>>

CopyIn ==
  /\ Hit /\ op.kind = "write"
  /\ cache' = [o \in Offset |-> IF o \in ChunkOffset .. ChunkOffset + Chunk - 1
                                THEN op.data[op.progress + o - ChunkOffset + 1] ELSE cache[o]]
  /\ cache_state' = "dirty"
  /\ op' = [op EXCEPT !.progress = @ + Chunk]
  /\ UNCHANGED <<dev, cached_block, undoVars, file, faults, history>>

Span(loc, count) == loc .. loc + count - 1

ReadReturns ==
  /\ op.kind = "read" /\ op.progress = op.count
  /\ op' = Idle
  /\ UNCHANGED <<dev, cacheVars, undoVars, file, faults, history>>

SaveDone ==
  /\ op.kind = "save" /\ op.progress = op.count
  /\ op' = [op EXCEPT !.kind = "write", !.progress = 0]
  /\ UNCHANGED <<dev, cacheVars, undoVars, file, faults, history>>

(* A write returns true; while installing it is entered in uninstall_data. *)
WriteReturns ==
  /\ op.kind = "write" /\ op.progress = op.count
  /\ \/ /\ phase = "install"
        /\ uninstall_data' = Append(uninstall_data, [loc |-> op.loc, data |-> op.saved])
        /\ want' = [c \in Cells |-> IF c \in Span(op.loc, op.count)
                                    THEN op.data[c - op.loc + 1] ELSE want[c]]
        /\ UNCHANGED <<next, retry>>
     \/ /\ phase = "undo"
        /\ next' = next + 1
        /\ retry' = FALSE
        /\ UNCHANGED <<uninstall_data, want>>
  /\ op' = Idle
  /\ UNCHANGED <<dev, cacheVars, phase, ret, file, faults, orig, torn>>

----------------------------------------------------------------------------
(* The loop of uninstall *)

RestoreEntry ==
  /\ phase = "undo" /\ ~Busy /\ next <= Len(uninstall_data)
  /\ LET ud == uninstall_data[next]
     IN op' = [Idle EXCEPT !.kind = "write", !.loc = ud.loc, !.count = Len(ud.data), !.data = ud.data]
  /\ UNCHANGED <<dev, cacheVars, undoVars, file, faults, history>>

(* device_flush_cache called by uninstall: it may fail, and is reported.   *)
FlushCounted ==
  \/ cache_state = "clean" /\ UNCHANGED <<dev, ret, faults>>
  \/ cache_state = "dirty" /\ dev' = Written(BlockSize) /\ UNCHANGED <<ret, faults>>
  \/ cache_state = "dirty" /\ Fault /\ ret' = FALSE /\ \E n \in Offset : dev' = Written(n)

Retry ==
  /\ op.kind = "retry"
  /\ FlushCounted
  /\ Restart
  /\ retry' = TRUE
  /\ op' = [op EXCEPT !.kind = "write", !.progress = 0]
  /\ UNCHANGED <<cache, uninstall_data, phase, next, file, history>>

UninstallReturns ==
  /\ phase = "undo" /\ ~Busy /\ next > Len(uninstall_data)
  /\ FlushCounted
  /\ phase' = "exit"
  /\ UNCHANGED <<cacheVars, uninstall_data, next, retry, op, file, history>>

----------------------------------------------------------------------------
(* The installation succeeds: the last block is flushed, the saved data    *)
(* reversed and, if a file was named, stored.  That it could not be stored *)
(* changes nothing.                                                        *)
InstallSucceeds ==
  /\ phase = "install" /\ ~Busy
  /\ dev' = IF cache_state = "dirty" THEN Written(BlockSize) ELSE dev
  /\ cache_state' = "clean"
  /\ uninstall_data' = Reverse(uninstall_data)
  /\ phase' = "committed"
  /\ file' \in {"none", "partial", "full"}
  /\ UNCHANGED <<cache, cached_block, next, retry, ret, op, faults, history>>

InstallFlushFails ==
  /\ phase = "install" /\ ~Busy
  /\ cache_state = "dirty"
  /\ Fault
  /\ \E n \in Offset : dev' = Written(n)
  /\ OpFails
  /\ UNCHANGED <<cache, file, orig, want>>

(* bios-install --uninstall, a process of its own: device_init, then       *)
(* load_uninstall_data, which rejects a file that ends early, uninstall.   *)
UninstallRun ==
  /\ phase = "committed"
  /\ cache' = [o \in Offset |-> dev[o]]
  /\ Restart
  /\ phase' = IF file = "full" THEN "undo" ELSE "rejected"
  /\ next' = 1 /\ retry' = FALSE
  /\ UNCHANGED <<dev, uninstall_data, ret, op, file, faults, history>>

Next ==
  \/ \E loc \in Cells, count \in 1 .. MaxLen : ReadCall(loc, count) \/ WriteCall(loc, count)
  \/ WriteTooMany
  \/ FlushDirty \/ FlushDirtyFails \/ LoadBlock \/ LoadBlockFails
  \/ CopyOut \/ CopyIn \/ ReadReturns \/ SaveDone \/ WriteReturns
  \/ RestoreEntry \/ Retry \/ UninstallReturns
  \/ InstallSucceeds \/ InstallFlushFails \/ UninstallRun

Spec == Init /\ [][Next]_vars

----------------------------------------------------------------------------
(* _device_read returns what was written last, wherever it lies: in the    *)
(* cache, on the device, or across blocks of which one is cached dirty.    *)
ReadsSeeWrites ==
  phase = "install" /\ op.kind \in {"read", "save"} =>
    \A n \in DOMAIN op.saved : op.loc + n - 1 \in Cells /\ op.saved[n] = want[op.loc + n - 1]

(* The state the promise of JournaledDevice talks about. *)
Status ==
  CASE phase = "install"         -> "open"
    [] phase \in {"committed", "rejected"} -> "committed"
    [] phase = "undo"            -> "undoing"
    [] phase = "exit" /\ ret     -> "undone"
    [] phase = "exit" /\ ~ret    -> "damaged"

Promise == INSTANCE JournaledDevice WITH
  Loc <- Cells, content <- IF phase = "install" THEN want ELSE dev,
  used <- Len(uninstall_data), status <- Status

(* The cached device keeps the promise bios_install relies on: after a     *)
(* failure, or an uninstall, that reports success every cell is as it was, *)
(* except those the failing write itself had reached.                      *)
KeepsPromise == Promise!Spec

(* limine.c: "If we failed, attempt to reverse install process", and the   *)
(* usage text of --uninstall, "Reverse the entire install procedure": an   *)
(* undo that reports success leaves the device as it was.                  *)
UndoneIsOriginal == phase = "exit" /\ ret => dev = orig

=============================================================================
