--------------------------- MODULE LimineInstall ---------------------------
(***************************************************************************)
(* bios_install of limine/limine.c, which the Makefile runs on the kernel's*)
(* ISO image: find the partition table, turn the GPT of an ISOHYBRID into  *)
(* an MBR, check, and write the boot sector and stage 2.                   *)
(*                                                                         *)
(* It runs on the device JournaledDevice promises and LimineDevice builds. *)
(* A cell is a field the program reads or writes; sectors of 512 bytes it  *)
(* only writes to are collected in touched.  Addresses count sectors.      *)
(***************************************************************************)
EXTENDS Integers, Sequences, FiniteSets

CONSTANTS
  Disks,       \* the devices considered
  InstallArgvs,   \* the argument lists considered
  WORD,        \* uint64_t overflows here (in sectors)
  UINT32_MAX,
  UNINSTALL_DATA_MAX,
  StageSectors \* sectors of stage 2

VARIABLES
  disk,     \* what is on the device apart from the cells; fixed
  rest,     \* arguments not parsed yet
  opt,      \* the options
  at, loop, \* place in bios_install and loop counter
  gpt,      \* the device is treated as GPT
  mbr,      \* mbr and any_active of the checks
  any_active,
  conv,     \* part_to_conv: the partitions turned into MBR entries
  target,   \* stage2_loc
  saved,    \* timestamp and orig_mbr
  touched,  \* sectors written to, beyond the first, by writes that succeeded
  content, orig, used, torn, status   \* the device

devVars == <<content, orig, used, torn, status>>
progVars == <<disk, rest, opt, gpt, mbr, any_active, conv, target, saved>>
installVars == <<progVars, at, loop, touched, devVars>>

Part == 1 .. 4
PartCells(p) == {p} \X {"active", "type", "lba", "count"}
TableCells == {<<0, "id">>} \cup UNION {PartCells(p) : p \in Part}   \* bytes 440 to 509
Hints(r) == {r} \X {"at3", "at54", "at82", "at1080"}

(* Row 0 is the first sectors of the device, row 5 the first sectors of    *)
(* the partition chosen for stage 2.                                       *)
Sector0 == TableCells \cup ({0} \X {"code", "s2loc", "stamp", "at3", "at54", "at82"})
Cells   == Sector0 \cup {<<0, "at1080">>, <<0, "gpt1">>, <<0, "gpt2">>} \cup Hints(5)

(* Contents: 0 is zeros; the recognised magic numbers; the boot image.     *)
Ntfs == 1
Fat32 == 2
Fat == 3
Ext == 4
EfiPart == 5

(* binary_limine_hdd_bin_data: the boot sector, whose partition table is   *)
(* empty, and stage 2.                                                     *)
Image(c) == IF c \in TableCells THEN 0 ELSE 9
Stage2 == 10

GptEntry == [used : BOOLEAN, type : STRING, start : Nat, end : Nat]

(* The longest path through bios_install makes 106 writes. *)
ASSUME InstallAssumption ==
  /\ UNINSTALL_DATA_MAX \in Nat /\ UNINSTALL_DATA_MAX > 106 /\ UINT32_MAX \in Nat /\ StageSectors \in Nat
  /\ \A d \in Disks : /\ d.cells \in [Cells -> Int] /\ d.entries \in Seq(GptEntry)
                      /\ d.lb \in {1, 8} /\ d.alt \in Nat

(* The sectors of a partition of the GPT of d, and those of its secondary  *)
(* GPT: 32 blocks of entries and the header.                               *)
Sectors(d, e) == IF e.used THEN e.start * d.lb .. (e.end + 1) * d.lb - 1 ELSE {}
SecondaryGpt(d) == (d.alt - 32) * d.lb .. (d.alt + 1) * d.lb - 1

(* What a partitioned disk promises: an entry with a type is in use, no    *)
(* two partitions overlap, and neither they nor the volume descriptor of   *)
(* an ISO image (sector 64) lie in the secondary GPT.  Stage 2 fits into   *)
(* the 62 sectors behind an MBR (it has 44).                               *)
ASSUME DiskAssumption ==
  /\ StageSectors <= 62
  /\ \A d \in Disks : \A n \in DOMAIN d.entries :
       /\ d.entries[n].type = "bios" => d.entries[n].used
       /\ \A m \in DOMAIN d.entries \ {n} : Sectors(d, d.entries[m]) \cap Sectors(d, d.entries[n]) = {}
       /\ Sectors(d, d.entries[n]) \cap SecondaryGpt(d) = {}
  /\ \A d \in Disks : d.iso => 64 \notin SecondaryGpt(d)

Dev == INSTANCE JournaledDevice WITH Loc <- Cells, Val <- Int

NoOpt == [force |-> FALSE, conv |-> TRUE, uninstall |-> FALSE, file |-> FALSE,
          device |-> FALSE, ndx |-> -1]

InstallInit ==
  /\ disk \in Disks
  /\ rest \in InstallArgvs
  /\ opt = NoOpt
  /\ at = "args" /\ loop = 0
  /\ gpt = FALSE /\ mbr = FALSE /\ any_active = FALSE
  /\ conv = <<>> /\ target = 1 /\ saved = <<>>
  /\ touched = {}
  /\ content = disk.cells
  /\ orig = content /\ used = 0 /\ torn = {} /\ status = "open"

Goto(l) == at' = l /\ loop' = 0

(* Steps that only read. *)
Continue(l) == status = "open" /\ Goto(l) /\ UNCHANGED <<touched, devVars>>

(* One device_write: the cells and sectors written; the sectors must exist.*)
DeviceWrite(new, sectors) ==
  /\ sectors \subseteq 0 .. disk.size - 1
  /\ content' = [c \in Cells |-> IF c \in DOMAIN new THEN new[c] ELSE content[c]]
  /\ Dev!Write
  /\ touched' = touched \cup (sectors \ {0})

Put(c, v) == DeviceWrite([x \in {c} |-> v], {})

----------------------------------------------------------------------------
(* Arguments.  The first that is no option is the device, a later one the  *)
(* partition index (0 if it is no number). *)
ParseArg ==
  /\ at = "args" /\ rest # <<>>
  /\ LET a == Head(rest) IN
       /\ opt' = CASE a = "--force" -> [opt EXCEPT !.force = TRUE]
                   [] a = "--no-conversion" -> [opt EXCEPT !.conv = FALSE]
                   [] a = "--uninstall" -> [opt EXCEPT !.uninstall = TRUE]
                   [] a = "--uninstall-data-file" -> [opt EXCEPT !.file = TRUE]
                   [] a = "1" /\ ~opt.device -> [opt EXCEPT !.device = TRUE]
                   [] a \in {"0", "1", "2"} /\ opt.device ->
                        [opt EXCEPT !.ndx = IF a = "0" THEN 0 ELSE IF a = "1" THEN 1 ELSE 2]
                   [] OTHER -> opt
       /\ IF a = "--help" \/ (a \in {"0", "2"} /\ ~opt.device)   \* fopen fails
          THEN Goto("exit") ELSE UNCHANGED <<at, loop>>
  /\ rest' = Tail(rest)
  /\ UNCHANGED <<disk, gpt, mbr, any_active, conv, target, saved, touched, devVars>>

(* No device, or --uninstall, which LimineDevice models, ends here. *)
ArgsDone ==
  /\ at = "args" /\ rest = <<>>
  /\ Continue(IF opt.device /\ ~opt.uninstall THEN "probe" ELSE "exit")
  /\ UNCHANGED progVars

(* Probe for a GPT at a logical block size of one or eight sectors; the    *)
(* secondary header must be valid too.                                     *)
MulOverflows(a, b) == a # 0 /\ b > (WORD - 1) \div a

Probe ==
  /\ at = "probe"
  /\ gpt' = (content[<<0, "gpt1">>] = EfiPart)
  /\ IF gpt' THEN /\ disk.entrysize >= 128
                  /\ ~MulOverflows(disk.lb, disk.alt)
                  /\ content[<<0, "gpt2">>] = EfiPart
                  /\ Continue(IF opt.conv /\ disk.iso THEN "gather" ELSE "part")
             ELSE Continue("mbr")
  /\ UNCHANGED <<disk, rest, opt, mbr, any_active, conv, target, saved>>

----------------------------------------------------------------------------
(* Conversion: at most four partitions whose addresses and lengths fit     *)
(* 32 bits and whose types are known.                                      *)
(* Mutant of FitsMbr: the length is not checked. *)
FitsMbr_NoLength(e) == e.start <= UINT32_MAX /\ e.end <= UINT32_MAX /\ e.type = "data"

FitsMbr(e) ==
  /\ e.start <= UINT32_MAX /\ e.end <= UINT32_MAX
  /\ (e.end - e.start + 1) \in 0 .. UINT32_MAX
  /\ e.type = "data"

EntryAt == disk.entries[loop + 1]

(* The n-th entry, from 0, would lie beyond the last address: the sum of   *)
(* the table's place and the entry's offset in it overflows.               *)
EntryOverflows(n) == disk.entrylba * disk.lb + ((n * disk.entrysize) \div 512) > WORD - 1

Convertible ==
  /\ ~EntryOverflows(loop)
  /\ ~EntryAt.used \/ (Len(conv) < 4 /\ FitsMbr(EntryAt))

Gather ==
  /\ at = "gather" /\ status = "open"
  /\ ~MulOverflows(disk.entrylba, disk.lb)
  /\ loop < Len(disk.entries) /\ Convertible
  /\ conv' = IF EntryAt.used THEN Append(conv, EntryAt) ELSE conv
  /\ loop' = loop + 1
  /\ UNCHANGED <<at, disk, rest, opt, gpt, mbr, any_active, target, saved, touched, devVars>>

Gathered ==
  /\ at = "gather"
  /\ ~MulOverflows(disk.entrylba, disk.lb)
  /\ loop = Len(disk.entries)
  /\ Continue("wipe1")
  /\ UNCHANGED progVars

(* no_mbr_conv: the GPT stays. *)
NoConversion ==
  /\ at = "gather"
  /\ MulOverflows(disk.entrylba, disk.lb) \/ (loop < Len(disk.entries) /\ ~Convertible)
  /\ Continue("part")
  /\ UNCHANGED progVars

LbaSectors(lba) == lba * disk.lb .. (lba + 1) * disk.lb - 1

(* Cells of the logical block lba. *)
LbaCells(lba) ==
  (IF 0 \in LbaSectors(lba) THEN Sector0 ELSE {})
    \cup (IF 2 \in LbaSectors(lba) THEN {<<0, "at1080">>} ELSE {})
    \cup (IF lba = 1 THEN {<<0, "gpt1">>} ELSE {})
    \cup (IF lba = disk.alt THEN {<<0, "gpt2">>} ELSE {})

Wipe(lba) == DeviceWrite([c \in LbaCells(lba) |-> 0], LbaSectors(lba))

(* Mutant of PrimaryBlocks: counts the sectors of blocks of 4096 bytes. *)
PrimaryBlocks_Sectors == 34 * 8

PrimaryBlocks == 34

WipePrimary ==
  /\ at = "wipe1"
  /\ Wipe(loop)
  /\ IF loop + 1 < PrimaryBlocks THEN loop' = loop + 1 /\ UNCHANGED at
                              ELSE Goto(IF disk.alt >= 32 THEN "wipe2" ELSE "id")
  /\ UNCHANGED progVars

WipeSecondary ==
  /\ at = "wipe2"
  /\ Wipe(disk.alt - 32 + loop)
  /\ IF loop + 1 < 33 THEN loop' = loop + 1 /\ UNCHANGED at ELSE Goto("id")
  /\ UNCHANGED progVars

(* Four random bytes, written one by one. *)
WriteDiskId ==
  /\ at = "id"
  /\ Put(<<0, "id">>, 7)
  /\ IF loop + 1 < 4 THEN loop' = loop + 1 /\ UNCHANGED at ELSE Goto("entries")
  /\ gpt' = FALSE
  /\ UNCHANGED <<disk, rest, opt, mbr, any_active, conv, target, saved>>

(* Five fields per partition; the CHS addresses belong to lba and count.   *)
EntryField(n) == <<"type", "lba", "count", "lba", "count">>[n]

EntryValue(e, n) ==
  CASE EntryField(n) = "type"  -> 7
    [] EntryField(n) = "lba"   -> e.start
    [] EntryField(n) = "count" -> (e.end - e.start + 1) % (UINT32_MAX + 1)

WriteEntries ==
  /\ at = "entries"
  /\ IF loop < 5 * Len(conv)
     THEN LET p == (loop \div 5) + 1
              n == (loop % 5) + 1
          IN Put(<<p, EntryField(n)>>, EntryValue(conv[p], n)) /\ loop' = loop + 1 /\ UNCHANGED at
     ELSE Continue("mbr")
  /\ UNCHANGED progVars

----------------------------------------------------------------------------
(* The checks of the MBR, partition by partition.  A bad flag is repaired  *)
(* with --force; a partition that starts below sector 63 is the end.       *)
BadFlag(v) == v \notin {0, 128}

Masked(v) == IF v >= 128 THEN 128 ELSE 0

(* Mutant of TooLow: the comparison is off by the size of stage 2. *)
TooLow_Boot(p) == content[<<p, "type">>] # 0 /\ content[<<p, "lba">>] < 1

TooLow(p) == content[<<p, "type">>] # 0 /\ content[<<p, "lba">>] < 63

MbrFlag ==
  /\ at = "mbr" /\ loop < 4
  /\ LET flag == content[<<loop + 1, "active">>]
     IN IF BadFlag(flag) /\ opt.force
        THEN /\ Put(<<loop + 1, "active">>, Masked(flag))
             /\ UNCHANGED <<mbr, any_active, at, loop>>
        ELSE /\ ~TooLow(loop + 1)
             /\ status = "open"
             /\ mbr' = (~BadFlag(flag) /\ (loop = 0 \/ mbr))
             /\ any_active' = (any_active \/ flag >= 128)
             /\ loop' = loop + 1
             /\ UNCHANGED <<at, touched, devVars>>
  /\ UNCHANGED <<disk, rest, opt, gpt, conv, target, saved>>

MbrChecked ==
  /\ at = "mbr" /\ loop = 4
  /\ mbr
  /\ Continue("hints0")
  /\ UNCHANGED progVars

(* validate_or_force: five places that show a file system.  Without        *)
(* --force any of them ends the installation, with it they are cleared.    *)
HintChecks == << <<"at3", Ntfs>>, <<"at54", Fat>>, <<"at82", Fat>>, <<"at3", Fat32>>, <<"at1080", Ext>> >>

ValidateOrForce(row, after) ==
  /\ at = after[1]
  /\ IF loop < Len(HintChecks)
     THEN LET c == <<row, HintChecks[loop + 1][1]>>
          IN /\ IF content[c] = HintChecks[loop + 1][2]
                THEN opt.force /\ Put(c, 0)
                ELSE status = "open" /\ UNCHANGED <<touched, devVars>>
             /\ loop' = loop + 1 /\ UNCHANGED at
     ELSE Continue(after[2])
  /\ UNCHANGED progVars

SetActive ==
  /\ at = "active"
  /\ IF any_active THEN UNCHANGED <<touched, devVars>> ELSE Put(<<1, "active">>, 128)
  /\ Goto("save")
  /\ UNCHANGED progVars

----------------------------------------------------------------------------
(* The BIOS boot partition, named by its number or found by its type.      *)
BiosBoot(e) == e.type = "bios"

Named(n) ==
  /\ n \in DOMAIN disk.entries
  /\ disk.entries[n].used
  /\ opt.force \/ BiosBoot(disk.entries[n])

Autodetected(n) ==
  /\ n \in DOMAIN disk.entries
  /\ BiosBoot(disk.entries[n])
  /\ \A m \in 1 .. n - 1 : ~BiosBoot(disk.entries[m])

(* Mutant of Chosen: the number is used without the decrement. *)
Chosen_OffByOne(n) == IF opt.ndx >= 0 THEN n = opt.ndx + 1 /\ Named(n) ELSE Autodetected(n)

Chosen(n) == IF opt.ndx >= 0 THEN n = opt.ndx /\ Named(n) ELSE Autodetected(n)

(* At least 32 KiB, all of it addressable. *)
Holds(e) ==
  /\ e.end >= e.start
  /\ ~MulOverflows(e.end - e.start + 1, disk.lb)
  /\ (e.end - e.start + 1) * disk.lb >= 64
  /\ ~MulOverflows(e.start, disk.lb)

ChoosePartition ==
  /\ at = "part"
  /\ ~MulOverflows(disk.entrylba, disk.lb)
  /\ \E n \in DOMAIN disk.entries :
       /\ Chosen(n)
       /\ ~EntryOverflows(n - 1)
       /\ Holds(disk.entries[n])
       /\ target' = disk.entries[n].start * disk.lb
  /\ Continue("hints5")
  /\ UNCHANGED <<disk, rest, opt, gpt, mbr, any_active, conv, saved>>

----------------------------------------------------------------------------
(* The installation proper. *)
SavedCells == TableCells \cup {<<0, "stamp">>}

SaveTable ==
  /\ at = "save"
  /\ saved' = [c \in SavedCells |-> content[c]]
  /\ Continue("boot")
  /\ UNCHANGED <<disk, rest, opt, gpt, mbr, any_active, conv, target>>

WriteBootSector ==
  /\ at = "boot"
  /\ DeviceWrite([c \in Sector0 |-> Image(c)], {0})
  /\ Goto("stage2")
  /\ UNCHANGED progVars

(* A partition that starts at 0 holds the boot sector itself. *)
StageCells ==
  CASE target = 0 -> Sector0 \cup {<<0, "at1080">>, <<0, "gpt1">>} \cup Hints(5)
    [] target = 1 -> {<<0, "at1080">>, <<0, "gpt1">>}
    [] OTHER      -> Hints(5)

WriteStage2 ==
  /\ at = "stage2"
  /\ DeviceWrite([c \in StageCells |-> Stage2], target .. target + StageSectors - 1)
  /\ Goto("s2loc")
  /\ UNCHANGED progVars

WriteStage2Loc ==
  /\ at = "s2loc"
  /\ Put(<<0, "s2loc">>, target)
  /\ Goto("stamp")
  /\ UNCHANGED progVars

WriteTimestamp ==
  /\ at = "stamp"
  /\ Put(<<0, "stamp">>, saved[<<0, "stamp">>])
  /\ Goto("table")
  /\ UNCHANGED progVars

(* Mutant of WriteTable: only the entries, not the disk id before them. *)
WriteTable_NoId ==
  /\ at = "table"
  /\ DeviceWrite([c \in TableCells \ {<<0, "id">>} |-> saved[c]], {})
  /\ Goto("flush")
  /\ UNCHANGED progVars

WriteTable ==
  /\ at = "table"
  /\ DeviceWrite([c \in TableCells |-> saved[c]], {})
  /\ Goto("flush")
  /\ UNCHANGED progVars

Flush ==
  /\ at = "flush"
  /\ Dev!Commit
  /\ Goto("exit")
  /\ UNCHANGED <<progVars, touched>>

(* The sector a cell is in. *)
SectorOf(c) ==
  CASE c[2] = "gpt1"             -> disk.lb
    [] c[2] = "gpt2"             -> disk.alt * disk.lb
    [] c[2] = "at1080"           -> (IF c[1] = 5 THEN target ELSE 0) + 2
    [] c[1] = 5 /\ c[2] # "at1080" -> target
    [] OTHER                     -> 0

(* The writes of more than one sector: what they write, and where. *)
UnderWay ==
  CASE at = "stage2" -> [sectors |-> target .. target + StageSectors - 1, cells |-> StageCells, value |-> Stage2]
    [] at = "wipe1"  -> [sectors |-> LbaSectors(loop), cells |-> LbaCells(loop), value |-> 0]
    [] at = "wipe2"  -> [sectors |-> LbaSectors(disk.alt - 32 + loop), cells |-> LbaCells(disk.alt - 32 + loop),
                         value |-> 0]
    [] OTHER         -> [sectors |-> {0}, cells |-> {}, value |-> 0]

(* A device_read or device_write fails, or a check of the program does:    *)
(* goto cleanup.  A write that fails at a sector has written the ones      *)
(* before it.                                                              *)
Fails ==
  /\ at \notin {"args", "undo", "exit"}
  /\ \E s \in UnderWay.sectors : torn' = {c \in UnderWay.cells : SectorOf(c) < s}
  /\ content' = [c \in Cells |-> IF c \in torn' THEN UnderWay.value ELSE content[c]]
  /\ Dev!Fail
  /\ Goto("undo")
  /\ UNCHANGED <<progVars, touched>>

Undo ==
  /\ at = "undo"
  /\ \/ content' = [c \in Cells |-> IF c \in torn THEN content[c] ELSE orig[c]] /\ Dev!Undone
     \/ content' = content /\ Dev!UndoFails
  /\ Goto("exit")
  /\ UNCHANGED <<progVars, touched>>

InstallNext ==
  \/ ParseArg \/ ArgsDone \/ Probe
  \/ Gather \/ Gathered \/ NoConversion \/ WipePrimary \/ WipeSecondary \/ WriteDiskId \/ WriteEntries
  \/ MbrFlag \/ MbrChecked \/ SetActive \/ ChoosePartition
  \/ ValidateOrForce(0, <<"hints0", "active">>) \/ ValidateOrForce(5, <<"hints5", "save">>)
  \/ SaveTable \/ WriteBootSector \/ WriteStage2 \/ WriteStage2Loc \/ WriteTimestamp \/ WriteTable
  \/ Flush \/ Fails \/ Undo

----------------------------------------------------------------------------
Converted == orig[<<0, "gpt1">>] = EfiPart /\ ~gpt
Installed == status = "committed"

(* The partition table, the disk id and the timestamp survive the boot     *)
(* sector that is written over them: a successful installation changes no  *)
(* more of the table than the flags it had to repair, unless it converted. *)
TableSurvives ==
  Installed /\ ~Converted =>
    \A c \in SavedCells :
      \/ content[c] = orig[c]
      \/ c[2] = "active" /\ BadFlag(orig[c]) /\ opt.force
      \/ c = <<1, "active">> /\ ~gpt /\ content[c] = 128

Members(list) == {list[n] : n \in DOMAIN list}

(* After a conversion the MBR lists exactly the partitions of the GPT,     *)
(* none of their lengths cut to 32 bits, and the GPT is gone.              *)
ConversionExact ==
  Installed /\ Converted =>
    /\ \A p \in Part :
         IF p \in DOMAIN conv
         THEN /\ content[<<p, "lba">>] = conv[p].start
              /\ content[<<p, "count">>] = conv[p].end - conv[p].start + 1
         ELSE content[<<p, "type">>] = 0
    /\ Members(conv) = {disk.entries[n] : n \in {m \in DOMAIN disk.entries : disk.entries[m].used}}
    /\ content[<<0, "gpt1">>] # EfiPart
    /\ content[<<0, "gpt2">>] # EfiPart

(* The boot sector can find stage 2: it names the place where stage 2 was  *)
(* really written, in the post-MBR gap or at the start of a partition, and *)
(* an MBR has an active partition.  The one exception is a partition that  *)
(* starts at sector 0, over the boot sector itself.                        *)
BootChain ==
  Installed /\ target # 0 =>
    /\ content[<<0, "code">>] = 9 /\ content[<<0, "s2loc">>] = target
    /\ target .. target + StageSectors - 1 \subseteq touched
    /\ IF gpt THEN \E n \in DOMAIN disk.entries :
                      /\ disk.entries[n].start * disk.lb = target
                      /\ IF opt.ndx >= 0 THEN n = opt.ndx ELSE BiosBoot(disk.entries[n])
              ELSE \E p \in Part : content[<<p, "active">>] = 128

(* The sectors of a partition of the disk as it is now described. *)
MbrSectors(p) ==
  IF content[<<p, "type">>] = 0 THEN {}
  ELSE (content[<<p, "lba">>] .. content[<<p, "lba">>] + content[<<p, "count">>] - 1)
GptSectors(e) == Sectors(disk, e)

(* The partition that stage 2 was written to. *)
HoldsStage2(e) == gpt /\ e.start * disk.lb = target

(* What a conversion with logical blocks of 4096 bytes wipes in front: 34  *)
(* of them, as if they had 512 bytes.                                      *)
Overwiped == IF Converted /\ disk.lb = 8 THEN 1 .. 34 * disk.lb - 1 ELSE {}

(* No installation writes into a partition other than the one chosen for   *)
(* stage 2, nor, outside of that one, over the volume descriptor of an ISO *)
(* image (sector 64).  The only exception are the sectors in Overwiped,    *)
(* and what lies behind them is spared also by those conversions.          *)
SparesData ==
  Installed =>
    LET hit == touched \ Overwiped
    IN /\ disk.iso /\ 64 \in hit =>
            \E n \in DOMAIN disk.entries : HoldsStage2(disk.entries[n]) /\ 64 \in GptSectors(disk.entries[n])
       /\ IF gpt \/ Converted
          THEN \A n \in DOMAIN disk.entries :
                 GptSectors(disk.entries[n]) \cap hit # {} => HoldsStage2(disk.entries[n])
          ELSE \A p \in Part : MbrSectors(p) \cap hit = {}

(* limine.c:904 and 909, "nuke primary GPT + protective MBR" and "nuke     *)
(* secondary GPT": the conversion wipes nothing else.  The primary GPT is  *)
(* its header and 16 KiB of entries.                                       *)
NukesOnlyGpts ==
  at \in {"wipe1", "wipe2", "id"} =>
    touched \subseteq (1 .. disk.entrylba * disk.lb + 31) \cup SecondaryGpt(disk)

(* "Too many uninstall data entries! Please report this bug upstream.":    *)
(* no path through bios_install makes that many writes.                    *)
JournalNeverFull == status = "open" => used < UNINSTALL_DATA_MAX

(* How far bios_install has come: the place in the code, and what is left  *)
(* of the loop it is in.  A flag is repaired in a step of its own.         *)
Place ==
  [args |-> 1, probe |-> 2, gather |-> 3, wipe1 |-> 4, wipe2 |-> 5, id |-> 6, entries |-> 7,
   mbr |-> 8, hints0 |-> 9, active |-> 10, part |-> 11, hints5 |-> 12, save |-> 13, boot |-> 14,
   stage2 |-> 15, s2loc |-> 16, stamp |-> 17, table |-> 18, flush |-> 19, undo |-> 20, exit |-> 21]

FlagsLeft == 2 * (4 - loop) + (IF loop < 4 /\ BadFlag(content[<<loop + 1, "active">>]) THEN 1 ELSE 0)

Left ==
  CASE at = "args"    -> Len(rest)
    [] at = "gather"  -> Len(disk.entries) - loop
    [] at = "wipe1"   -> 34 - loop
    [] at = "wipe2"   -> 33 - loop
    [] at = "id"      -> 4 - loop
    [] at = "entries" -> 5 * Len(conv) - loop
    [] at = "mbr"     -> FlagsLeft
    [] at \in {"hints0", "hints5"} -> 5 - loop
    [] OTHER          -> 0

InstallAdvances == Place[at'] > Place[at] \/ (at' = at /\ Left' \in 0 .. Left - 1)

=============================================================================
