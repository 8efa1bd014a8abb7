---------------------------- MODULE EnrollConfig ----------------------------
(***************************************************************************)
(* enroll_config of limine/limine.c patches the digest of the              *)
(* configuration file into a boot loader: find the signature in the        *)
(* executable and overwrite the cells behind it.  Limine runs it, as often *)
(* as it likes on the same file.  The file cannot be opened, read or       *)
(* completely written at will.                                             *)
(***************************************************************************)
EXTENDS Integers, Sequences, FiniteSets

CONSTANTS
  Signature,   \* CONFIG_B2SUM_SIGNATURE
  DigestLen,   \* characters of a digest
  HexDigits,
  Files,       \* executables considered
  Chars        \* the characters of an argument that is a digest

VARIABLES
  file,          \* the executable on disk
  argv, pc,      \* the command line, and the place in the program
  bootloader,    \* the copy in memory; <<>> is NULL
  i, checked_count, checksum_loc,   \* the search; checksum_loc 0 is NULL
  ret,           \* exit status
  before           \* the file before the first run

vars == <<file, argv, pc, bootloader, i, checked_count, checksum_loc, ret, before>>

S == Len(Signature)
min_size == S + DigestLen

Init ==
  /\ file \in Files /\ before = file
  /\ pc = "main"
  /\ bootloader = <<>>
  /\ i = 0 /\ checked_count = 0 /\ checksum_loc = 0
  /\ ret = "none"

Exit(r) ==
  /\ pc' = "exit" /\ ret' = r
  /\ UNCHANGED <<file, argv, bootloader, i, checked_count, checksum_loc, before>>

Goto(l) ==
  /\ pc' = l
  /\ UNCHANGED <<file, argv, bootloader, i, checked_count, checksum_loc, ret, before>>

(* enroll_config: options are removed, what is left counts.  --help ends   *)
(* the command where it is met.                                            *)
Given(o) == \E n \in 2 .. Len(argv) : argv[n] = o
Positional == SelectSeq(Tail(argv), LAMBDA a : a \notin {"--quiet", "--reset"})
Reset == Given("--reset")
Digest == Chars[Positional[2]]

GoodDigest(d) == Len(d) = DigestLen /\ \A n \in DOMAIN d : d[n] \in HexDigits

Args ==
  /\ pc = "args"
  /\ CASE Given("--help") \/ Given("-h")                     -> Exit("success")
       [] ~Given("--help") /\ ~Given("-h") /\ Len(Positional) < (IF Reset THEN 1 ELSE 2) -> Exit("failure")
       [] OTHER -> IF Reset \/ GoodDigest(Digest) THEN Goto("open") ELSE Exit("failure")

(* fopen, the size, malloc and fread; each may fail. *)
Read ==
  /\ pc = "open"
  /\ Len(file) >= min_size
  /\ bootloader' = file
  /\ pc' = "search"
  /\ UNCHANGED <<file, argv, i, checked_count, checksum_loc, ret, before>>

ReadFails == pc = "open" /\ Exit("failure")

(* The search.  i and checked_count count from 0.                          *)
Looking == pc = "search" /\ i < Len(bootloader) - min_size + 1

(* Mutant of Mismatch: goes on behind the failed match. *)
Mismatch_NoRestart ==
  /\ Looking /\ bootloader[i + 1] # Signature[checked_count + 1]
  /\ i' = i + 1
  /\ checked_count' = 0
  /\ UNCHANGED <<file, argv, pc, bootloader, checksum_loc, ret, before>>

(* Mutant of Mismatch: restarts at the first byte of the failed match. *)
Mismatch_Same ==
  /\ Looking /\ bootloader[i + 1] # Signature[checked_count + 1]
  /\ i' = IF checked_count > 0 THEN i - checked_count ELSE i + 1
  /\ checked_count' = 0
  /\ UNCHANGED <<file, argv, pc, bootloader, checksum_loc, ret, before>>

(* Restart after the first byte of the failed match. *)
Mismatch ==
  /\ Looking /\ bootloader[i + 1] # Signature[checked_count + 1]
  /\ i' = i - checked_count + 1
  /\ checked_count' = 0
  /\ UNCHANGED <<file, argv, pc, bootloader, checksum_loc, ret, before>>

Match ==
  /\ Looking /\ bootloader[i + 1] = Signature[checked_count + 1]
  /\ checked_count' = checked_count + 1
  /\ IF checked_count + 1 = S
     THEN checksum_loc' = i + 1 /\ pc' = "patch" /\ i' = i
     ELSE i' = i + 1 /\ UNCHANGED <<checksum_loc, pc>>
  /\ UNCHANGED <<file, argv, bootloader, ret, before>>

NotFound == pc = "search" /\ ~Looking /\ Exit("failure")

(* memcpy or memset behind the signature. *)
New(n) == IF Reset THEN "0" ELSE Digest[n]

Slot(loc) == loc + 1 .. loc + DigestLen

(* Mutant of Patch: the place is that of the last character of the         *)
(* signature.                                                              *)
Patch_AtMatch ==
  /\ pc = "patch"
  /\ bootloader' = [k \in DOMAIN bootloader |->
                      IF k + 1 \in Slot(checksum_loc) THEN New(k + 1 - checksum_loc) ELSE bootloader[k]]
  /\ pc' = "write"
  /\ UNCHANGED <<file, argv, i, checked_count, checksum_loc, ret, before>>

Patch ==
  /\ pc = "patch"
  /\ bootloader' = [k \in DOMAIN bootloader |->
                      IF k \in Slot(checksum_loc) THEN New(k - checksum_loc) ELSE bootloader[k]]
  /\ pc' = "write"
  /\ UNCHANGED <<file, argv, i, checked_count, checksum_loc, ret, before>>

(* The file after n of its cells were written. *)
Written(n) == [k \in DOMAIN file |-> IF k <= n THEN bootloader[k] ELSE file[k]]

(* fwrite took everything, but what it left in its buffer is written by    *)
(* the fclose at cleanup, whose result nobody looks at.                    *)
Write ==
  /\ pc = "write"
  /\ \E n \in 0 .. Len(file) : file' = Written(n)
  /\ pc' = "exit" /\ ret' = "success"
  /\ UNCHANGED <<argv, bootloader, i, checked_count, checksum_loc, before>>

WriteFails ==
  /\ pc = "write"
  /\ \E n \in 0 .. Len(file) - 1 : file' = Written(n)
  /\ pc' = "exit" /\ ret' = "failure"
  /\ UNCHANGED <<argv, bootloader, i, checked_count, checksum_loc, before>>

(* The process has exited, and the tool is run again. *)
Restart ==
  /\ pc = "exit" /\ pc' = "main"
  /\ bootloader' = <<>>
  /\ i' = 0 /\ checked_count' = 0 /\ checksum_loc' = 0
  /\ ret' = "none"
  /\ UNCHANGED <<file, before>>

Next == \/ Args \/ Read \/ ReadFails
        \/ Mismatch \/ Match \/ NotFound \/ Patch \/ Write \/ WriteFails

----------------------------------------------------------------------------
(* The signature ends at cell k of f. *)
EndsAt(f, k) == k >= S /\ \A n \in 1 .. S : f[k - S + n] = Signature[n]

(* The search finds the first signature, though a failed match may overlap *)
(* the one that counts ("+++..."), and there is room for a digest.  It     *)
(* gives up only when no signature ends within the cells that the loop     *)
(* (limine.c:1335) compares, which leaves out the last min_size - 1.       *)
FoundIsFirst ==
  /\ pc = "patch" =>
       /\ EndsAt(bootloader, checksum_loc)
       /\ \A k \in 1 .. checksum_loc - 1 : ~EndsAt(bootloader, k)
       /\ Slot(checksum_loc) \subseteq DOMAIN file
  /\ pc = "search" /\ ~Looking =>
       \A k \in 1 .. Len(bootloader) - min_size + 1 : ~EndsAt(bootloader, k)

(* However often the tool is run, and whichever writes fail half way, it   *)
(* only ever changes the cells behind the first signature of the original  *)
(* file: no digest it writes can move the place it will find next time.    *)
OnlySlotChanges ==
  \A k \in DOMAIN file :
    file[k] # before[k] =>
      \E l \in DOMAIN before : /\ EndsAt(before, l) /\ k \in Slot(l)
                             /\ \A m \in 1 .. l - 1 : ~EndsAt(before, m)

(* How far the search has come: the cells before the match under way are   *)
(* done with, and the match grows.                                         *)
MatchStart == i - checked_count

SearchAdvances ==
  \/ MatchStart' > MatchStart /\ MatchStart' <= Len(bootloader)
  \/ MatchStart' = MatchStart /\ checked_count' \in checked_count + 1 .. S - 1

=============================================================================
