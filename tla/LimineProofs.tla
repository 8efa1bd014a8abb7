---------------------------- MODULE LimineProofs ----------------------------
(***************************************************************************)
(* Proofs about the limine command.  enroll-config: the search finds the   *)
(* first signature, and however often the tool is run it only ever changes *)
(* the cells behind it, for every signature, file and digest.              *)
(* bios-install: the partition table survives or is converted exactly, the *)
(* boot sector finds stage 2, the other partitions are spared and the undo *)
(* journal suffices, for every device and every list of options.  Both:    *)
(* every step brings the run closer to its end.                            *)
(***************************************************************************)
EXTENDS Limine, SequenceTheorems, TLAPS

(* The first signature of f ends at l. *)
First(f, l) == Enroll!EndsAt(f, l) /\ \A k \in 1 .. l - 1 : ~Enroll!EndsAt(f, k)

IsList(f, n) == n \in Nat /\ f = [k \in 1 .. n |-> f[k]]

FileLen == Len(before)

(* The match under way, and that no signature ended before it. *)
SearchInv ==
  /\ bootloader = file /\ FileLen >= Enroll!min_size
  /\ i \in Nat /\ checked_count \in Nat /\ checked_count <= i /\ checked_count < Enroll!S
  /\ \A n \in 1 .. checked_count : file[i - checked_count + n] = Signature[n]
  /\ \A k \in 1 .. i - checked_count + Enroll!S - 1 : ~Enroll!EndsAt(file, k)

FoundInv ==
  /\ checksum_loc \in Nat /\ checksum_loc > 0 /\ checksum_loc + DigestLen <= FileLen
  /\ First(file, checksum_loc)

EnrollInv ==
  /\ IsList(before, FileLen) /\ IsList(file, FileLen)
  /\ OnlySlotChanges
  /\ pc \in {"main", "args", "open", "install"} => i = 0 /\ checked_count = 0
  /\ pc = "search" => SearchInv
  /\ pc = "patch" => FoundInv /\ bootloader = file
  /\ pc = "write" => /\ FoundInv
                     /\ \A k \in 1 .. FileLen : k \notin Enroll!Slot(checksum_loc) => bootloader[k] = file[k]

----------------------------------------------------------------------------
(* Lists and signatures *)

LEMMA Sizes ==
  /\ Enroll!S \in Nat /\ Enroll!S > 0 /\ DigestLen \in Nat /\ DigestLen > 0
  /\ Enroll!min_size = Enroll!S + DigestLen
<1>1. Signature \in Seq(STRING) /\ Signature # <<>>
  BY LimineAssumption
<1>2. Len(Signature) \in Nat /\ Len(Signature) # 0
  BY <1>1, LenProperties, EmptySeq
<1> QED
  BY <1>2, LimineAssumption DEF Enroll!S, Enroll!min_size

LEMMA ListLen ==
  ASSUME NEW f, NEW n, IsList(f, n)
  PROVE  Len(f) = n /\ DOMAIN f = 1 .. n
<1> DEFINE C == {f[k] : k \in 1 .. n}
<1>1. \A k \in 1 .. n : f[k] \in C
  OBVIOUS
<1> HIDE DEF C
<1>2. n \in Nat /\ f = [k \in 1 .. n |-> f[k]]
  BY DEF IsList
<1>3. f \in Seq(C) /\ DOMAIN f = 1 .. n
  BY <1>1, <1>2
<1> QED
  BY <1>2, <1>3, LenProperties

(* A signature is told by the cells up to its end. *)
LEMMA SameEnds ==
  ASSUME NEW f, NEW g, NEW l \in Nat, \A k \in 1 .. l : f[k] = g[k], NEW k \in 1 .. l
  PROVE  Enroll!EndsAt(f, k) <=> Enroll!EndsAt(g, k)
<1>1. ASSUME k >= Enroll!S, NEW n \in 1 .. Enroll!S PROVE k - Enroll!S + n \in 1 .. l
  <2> DEFINE s == Enroll!S
  <2>1. s \in Nat /\ k >= s /\ n \in 1 .. s
    BY <1>1, Sizes
  <2> HIDE DEF s
  <2>2. k - s + n \in 1 .. l
    BY <2>1
  <2> QED
    BY <2>2 DEF s
<1> QED
  BY <1>1 DEF Enroll!EndsAt

LEMMA SameFirst ==
  ASSUME NEW f, NEW g, NEW l \in Nat, \A k \in 1 .. l : f[k] = g[k], l > 0
  PROVE  First(f, l) <=> First(g, l)
<1>1. \A k \in 1 .. l : Enroll!EndsAt(f, k) <=> Enroll!EndsAt(g, k)
  BY SameEnds
<1>2. l \in 1 .. l /\ \A k \in 1 .. l - 1 : k \in 1 .. l
  OBVIOUS
<1> QED
  BY <1>1, <1>2 DEF First

LEMMA FirstIsOne ==
  ASSUME NEW f, NEW l \in Nat \ {0}, NEW m \in Nat \ {0}, First(f, l), First(f, m)
  PROVE  l = m
<1>1. ~(l < m)
  BY DEF First
<1>2. ~(m < l)
  BY DEF First
<1> QED
  BY <1>1, <1>2

(* The first signature of the file as it is now is that of the original.   *)
LEMMA FirstOfBoth ==
  ASSUME EnrollInv, NEW l \in 1 .. FileLen, First(file, l)
  PROVE  First(before, l)
<1>1. DOMAIN file = 1 .. FileLen /\ DOMAIN before = 1 .. FileLen /\ FileLen \in Nat
  BY ListLen DEF EnrollInv, IsList
<1>2. CASE \A k \in 1 .. l : file[k] = before[k]
  <2>1. l \in Nat /\ l > 0
    BY <1>1
  <2> QED
    BY <1>2, <2>1, SameFirst
<1>3. CASE \E k \in 1 .. l : file[k] # before[k]
  <2>1. PICK k \in 1 .. l : file[k] # before[k]
    BY <1>3
  <2>2. k \in DOMAIN file
    BY <1>1
  <2>3. PICK m \in 1 .. FileLen : First(before, m) /\ k \in Enroll!Slot(m)
    BY <1>1, <2>1, <2>2 DEF EnrollInv, OnlySlotChanges, Enroll!OnlySlotChanges, First
  <2>4. m \in Nat \ {0} /\ m < k /\ m < l /\ l \in Nat \ {0}
    BY <1>1, <2>3, Sizes DEF Enroll!Slot
  <2>5. ASSUME NEW j \in 1 .. m PROVE file[j] = before[j]
    <3> SUFFICES ASSUME file[j] # before[j] PROVE FALSE
      OBVIOUS
    <3>1. j \in DOMAIN file
      BY <1>1
    <3>2. PICK q \in 1 .. FileLen : First(before, q) /\ j \in Enroll!Slot(q)
      BY <1>1, <3>1 DEF EnrollInv, OnlySlotChanges, Enroll!OnlySlotChanges, First
    <3>3. q \in Nat \ {0} /\ q < j
      BY <1>1, <3>2, Sizes DEF Enroll!Slot
    <3>4. q = m
      BY <2>3, <2>4, <3>2, <3>3, FirstIsOne
    <3> QED
      BY <2>4, <3>3, <3>4
  <2>6. First(file, m)
    BY <2>3, <2>4, <2>5, SameFirst
  <2>7. l = m
    BY <2>4, <2>6, FirstIsOne
  <2> QED
    BY <2>3, <2>7
<1> QED
  BY <1>2, <1>3

----------------------------------------------------------------------------
(* The steps of enroll_config *)

LEMMA EnrollInvInit == Init => EnrollInv
<1> SUFFICES ASSUME Init PROVE EnrollInv
  OBVIOUS
<1>1. file \in Files /\ before = file /\ pc = "main" /\ i = 0 /\ checked_count = 0
  BY DEF Init, Enroll!Init
<1>2. before \in Seq(STRING)
  BY <1>1, LimineAssumption
<1>3. IsList(before, FileLen)
  BY <1>2, LenProperties DEF IsList, FileLen
<1>4. OnlySlotChanges
  BY <1>1 DEF OnlySlotChanges, Enroll!OnlySlotChanges
<1> QED
  BY <1>1, <1>3, <1>4 DEF EnrollInv

(* Steps that leave the file alone and the search at its start or behind. *)
LEMMA ElsewhereKeeps ==
  ASSUME EnrollInv, UNCHANGED <<file, before>>, pc' \notin {"search", "patch", "write"},
         pc' \in {"main", "args", "open", "install"} => i' = 0 /\ checked_count' = 0
  PROVE  EnrollInv'
  BY DEF EnrollInv, IsList, FileLen, OnlySlotChanges, Enroll!OnlySlotChanges, Enroll!EndsAt, Enroll!Slot

LEMMA ReadKeeps == ASSUME EnrollInv, Enroll!Read PROVE EnrollInv'
<1>1. /\ pc = "open" /\ Len(file) >= Enroll!min_size /\ bootloader' = file /\ pc' = "search"
      /\ UNCHANGED <<file, i, checked_count, before>>
  BY DEF Enroll!Read
<1>2. i = 0 /\ checked_count = 0 /\ Len(file) = FileLen
  BY <1>1, ListLen DEF EnrollInv
<1>3. \A k \in 1 .. Enroll!S - 1 : ~Enroll!EndsAt(file, k)
  BY Sizes DEF Enroll!EndsAt
<1>4. SearchInv'
  <2>1. FileLen' = FileLen /\ bootloader' = file' /\ FileLen >= Enroll!min_size
    BY <1>1, <1>2 DEF FileLen
  <2>2. i' = 0 /\ checked_count' = 0 /\ 0 - 0 + Enroll!S - 1 = Enroll!S - 1 /\ \A n \in 1 .. 0 : FALSE
    BY <1>1, <1>2, Sizes
  <2> QED
    BY <1>1, <1>3, <2>1, <2>2, Sizes DEF SearchInv, Enroll!EndsAt
<1> QED
  BY <1>1, <1>4 DEF EnrollInv, IsList, FileLen, OnlySlotChanges, Enroll!OnlySlotChanges, Enroll!EndsAt, Enroll!Slot

LEMMA MismatchKeeps == ASSUME EnrollInv, Enroll!Mismatch PROVE EnrollInv'
<1> DEFINE s == Enroll!S
           start == i - checked_count
<1>1. /\ pc = "search" /\ bootloader[i + 1] # Signature[checked_count + 1]
      /\ i' = i - checked_count + 1 /\ checked_count' = 0 /\ UNCHANGED <<file, pc, bootloader, before>>
  BY DEF Enroll!Mismatch, Enroll!Looking
<1>2. /\ bootloader = file /\ FileLen >= Enroll!min_size /\ i \in Nat /\ checked_count \in Nat /\ checked_count <= i
      /\ checked_count < s /\ s \in Nat /\ \A k \in 1 .. start + s - 1 : ~Enroll!EndsAt(file, k)
  BY <1>1, Sizes DEF EnrollInv, SearchInv
<1> HIDE DEF s
<1>3. start \in Nat /\ start + s \in Nat /\ checked_count + 1 \in 1 .. s /\ (start + s) - s + (checked_count + 1) = i + 1
  BY <1>2
<1>4. ~Enroll!EndsAt(file, start + s)
  <2>1. file[(start + s) - s + (checked_count + 1)] # Signature[checked_count + 1]
    BY <1>1, <1>2, <1>3
  <2> HIDE DEF start
  <2> QED
    BY <1>3, <2>1 DEF Enroll!EndsAt, s
<1>5. \A k \in 1 .. (start + 1) + s - 1 : ~Enroll!EndsAt(file, k)
  <2>1. \A k \in 1 .. (start + 1) + s - 1 : k = start + s \/ k \in 1 .. start + s - 1
    BY <1>2, <1>3
  <2> QED
    BY <1>2, <1>4, <2>1
<1>6. SearchInv'
  <2>1. i' = start + 1 /\ checked_count' = 0 /\ i' - checked_count' = start + 1 /\ i' \in Nat /\ 0 < s
    BY <1>1, <1>3, Sizes DEF s
  <2>2. FileLen' = FileLen /\ bootloader' = file'
    BY <1>1, <1>2 DEF FileLen
  <2>3. \A n \in 1 .. 0 : FALSE
    OBVIOUS
  <2>4. checked_count' <= i' /\ checked_count' < s /\ checked_count' \in Nat
    BY <2>1, <1>2
  <2> HIDE DEF start
  <2> QED
    BY <1>1, <1>2, <1>5, <2>1, <2>2, <2>3, <2>4 DEF SearchInv, Enroll!EndsAt, s
<1> QED
  BY <1>1, <1>6 DEF EnrollInv, IsList, FileLen, OnlySlotChanges, Enroll!OnlySlotChanges, Enroll!EndsAt, Enroll!Slot

LEMMA MatchKeeps == ASSUME EnrollInv, Enroll!Match PROVE EnrollInv'
<1> DEFINE s == Enroll!S
           start == i - checked_count
<1>1. /\ pc = "search" /\ i < Len(bootloader) - Enroll!min_size + 1 /\ bootloader[i + 1] = Signature[checked_count + 1]
      /\ checked_count' = checked_count + 1 /\ UNCHANGED <<file, bootloader, before>>
      /\ IF checked_count + 1 = s THEN checksum_loc' = i + 1 /\ pc' = "patch" /\ i' = i
                                  ELSE i' = i + 1 /\ UNCHANGED <<checksum_loc, pc>>
  BY DEF Enroll!Match, Enroll!Looking
<1>2. /\ bootloader = file /\ FileLen >= Enroll!min_size /\ i \in Nat /\ checked_count \in Nat /\ checked_count <= i
      /\ checked_count < s /\ s \in Nat /\ \A k \in 1 .. start + s - 1 : ~Enroll!EndsAt(file, k)
      /\ \A n \in 1 .. checked_count : file[start + n] = Signature[n]
  BY <1>1, Sizes DEF EnrollInv, SearchInv
<1>3. Len(bootloader) = FileLen /\ FileLen \in Nat
  BY <1>2, ListLen DEF EnrollInv, IsList
<1> HIDE DEF s
<1>4. start \in Nat /\ start + (checked_count + 1) = i + 1
  BY <1>2
<1>5. \A n \in 1 .. checked_count + 1 : file[start + n] = Signature[n]
  <2>1. \A n \in 1 .. checked_count + 1 : n \in 1 .. checked_count \/ n = checked_count + 1
    BY <1>2
  <2> QED
    BY <1>1, <1>2, <1>4, <2>1
<1>6. CASE checked_count + 1 = s
  <2>1. checksum_loc' = i + 1 /\ pc' = "patch" /\ start + s = i + 1
    BY <1>1, <1>4, <1>6
  <2>2. Enroll!EndsAt(file, i + 1)
    <3>1. i + 1 >= s /\ (i + 1) - s = start
      BY <1>2, <1>4, <1>6
    <3> QED
      BY <1>5, <1>6, <3>1 DEF Enroll!EndsAt, s
  <2>3. \A k \in 1 .. (i + 1) - 1 : ~Enroll!EndsAt(file, k)
    <3>1. (i + 1) - 1 = start + s - 1
      BY <1>2, <2>1
    <3> QED
      BY <1>2, <3>1
  <2>4. i + 1 \in Nat /\ i + 1 > 0 /\ (i + 1) + DigestLen <= FileLen
    <3>1. i < FileLen - (s + DigestLen) + 1 /\ s > 0 /\ DigestLen \in Nat
      BY <1>1, <1>3, Sizes DEF s
    <3> QED
      BY ONLY <1>2, <1>3, <3>1
  <2>5. FoundInv'
    BY <1>1, <2>1, <2>2, <2>3, <2>4 DEF FoundInv, First, FileLen, Enroll!EndsAt
  <2> QED
    BY <1>1, <1>2, <2>1, <2>5
       DEF EnrollInv, IsList, FileLen, OnlySlotChanges, Enroll!OnlySlotChanges, Enroll!EndsAt, Enroll!Slot
<1>7. CASE checked_count + 1 # s
  <2>1. pc' = "search" /\ i' = i + 1 /\ i' - checked_count' = start /\ i' \in Nat /\ checked_count' \in Nat
    BY <1>1, <1>2, <1>7
  <2>2. checked_count' <= i' /\ checked_count' < s
    BY <1>1, <1>2, <1>7, <2>1
  <2>3. FileLen' = FileLen /\ bootloader' = file'
    BY <1>1, <1>2 DEF FileLen
  <2>4. SearchInv'
    <3> HIDE DEF start
    <3> QED
      BY <1>1, <1>2, <1>5, <2>1, <2>2, <2>3 DEF SearchInv, Enroll!EndsAt, s
  <2> QED
    BY <1>1, <2>1, <2>4
       DEF EnrollInv, IsList, FileLen, OnlySlotChanges, Enroll!OnlySlotChanges, Enroll!EndsAt, Enroll!Slot
<1> QED
  BY <1>6, <1>7

LEMMA PatchKeeps == ASSUME EnrollInv, Enroll!Patch PROVE EnrollInv'
<1>1. /\ pc = "patch" /\ pc' = "write" /\ UNCHANGED <<file, checksum_loc, before>>
      /\ \A k \in DOMAIN bootloader : k \notin Enroll!Slot(checksum_loc) => bootloader'[k] = bootloader[k]
  BY DEF Enroll!Patch
<1>2. bootloader = file /\ DOMAIN file = 1 .. FileLen /\ FoundInv
  BY <1>1, ListLen DEF EnrollInv
<1>3. FoundInv'
  BY <1>1, <1>2 DEF FoundInv, First, FileLen, Enroll!EndsAt
<1>4. \A k \in 1 .. FileLen : k \notin Enroll!Slot(checksum_loc) => bootloader'[k] = file[k]
  BY <1>1, <1>2
<1> QED
  BY <1>1, <1>3, <1>4
     DEF EnrollInv, IsList, FileLen, OnlySlotChanges, Enroll!OnlySlotChanges, Enroll!EndsAt, Enroll!Slot

(* Complete or cut short, a write changes nothing but the slot. *)
LEMMA WriteKeeps == ASSUME EnrollInv, Enroll!Write \/ Enroll!WriteFails PROVE EnrollInv'
<1>1. pc = "write" /\ pc' = "exit" /\ before' = before /\ \E n \in Int : file' = Enroll!Written(n)
  <2>1. Len(file) \in Int
    BY ListLen DEF EnrollInv, IsList
  <2> QED
    BY <2>1 DEF Enroll!Write, Enroll!WriteFails
<1>2. /\ FoundInv /\ DOMAIN file = 1 .. FileLen /\ DOMAIN before = 1 .. FileLen /\ FileLen \in Nat
      /\ \A k \in 1 .. FileLen : k \notin Enroll!Slot(checksum_loc) => bootloader[k] = file[k]
  BY <1>1, ListLen DEF EnrollInv, IsList
<1>3. checksum_loc \in 1 .. FileLen
  BY <1>2, Sizes DEF FoundInv
<1>4. First(before, checksum_loc)
  BY <1>2, <1>3, FirstOfBoth DEF FoundInv
<1>5. IsList(file', FileLen) /\ \A k \in 1 .. FileLen : k \notin Enroll!Slot(checksum_loc) => file'[k] = file[k]
  BY <1>1, <1>2 DEF Enroll!Written, IsList
<1>6. OnlySlotChanges'
  <2> SUFFICES ASSUME NEW k \in 1 .. FileLen, file'[k] # before[k]
               PROVE  \E l \in 1 .. FileLen : First(before, l) /\ k \in Enroll!Slot(l)
    <3>1. DOMAIN file' = 1 .. FileLen
      BY <1>5, ListLen
    <3> QED
      BY <1>1, <1>2, <3>1 DEF OnlySlotChanges, Enroll!OnlySlotChanges, First, Enroll!EndsAt, Enroll!Slot
  <2>1. CASE k \in Enroll!Slot(checksum_loc)
    BY <1>3, <1>4, <2>1
  <2>2. CASE k \notin Enroll!Slot(checksum_loc)
    <3>1. file[k] # before[k] /\ k \in DOMAIN file
      BY <1>2, <1>5, <2>2
    <3> QED
      BY <1>2, <3>1 DEF EnrollInv, OnlySlotChanges, Enroll!OnlySlotChanges, First
  <2> QED
    BY <2>1, <2>2
<1> QED
  BY <1>1, <1>5, <1>6 DEF EnrollInv, IsList, FileLen

LEMMA EnrollStep == ASSUME EnrollInv, [Next]_vars PROVE EnrollInv'
<1>1. CASE Main
  <2>1. pc = "main" /\ pc' \in {"install", "args", "exit"} /\ UNCHANGED <<file, before, i, checked_count>>
    BY <1>1 DEF Main, searchVars
  <2>2. i = 0 /\ checked_count = 0
    BY <2>1 DEF EnrollInv
  <2> QED
    BY <2>1, <2>2, ElsewhereKeeps
<1>2. CASE BiosInstall
  <2>1. pc = "install" /\ pc' = "install" /\ UNCHANGED <<file, before, i, checked_count>>
    BY <1>2 DEF BiosInstall, searchVars
  <2>2. i = 0 /\ checked_count = 0
    BY <2>1 DEF EnrollInv
  <2> QED
    BY <2>1, <2>2, ElsewhereKeeps
<1>3. CASE BiosInstallReturns
  <2>1. pc' = "exit" /\ UNCHANGED <<file, before>>
    BY <1>3 DEF BiosInstallReturns, searchVars
  <2> QED
    BY <2>1, ElsewhereKeeps
<1>4. CASE Enroll!Next
  <2>1. CASE Enroll!Args
    <3>1. pc = "args" /\ pc' \in {"exit", "open"} /\ UNCHANGED <<file, before, i, checked_count>>
      BY <2>1 DEF Enroll!Args, Enroll!Exit, Enroll!Goto
    <3>2. i = 0 /\ checked_count = 0
      BY <3>1 DEF EnrollInv
    <3> QED
      BY <3>1, <3>2, ElsewhereKeeps
  <2>2. CASE Enroll!ReadFails \/ Enroll!NotFound
    <3>1. pc' = "exit" /\ UNCHANGED <<file, before>>
      BY <2>2 DEF Enroll!ReadFails, Enroll!NotFound, Enroll!Exit
    <3> QED
      BY <3>1, ElsewhereKeeps
  <2> QED
    BY <1>4, <2>1, <2>2, ReadKeeps, MismatchKeeps, MatchKeeps, PatchKeeps, WriteKeeps DEF Enroll!Next
<1>5. CASE Again
  <2>1. pc' = "main" /\ i' = 0 /\ checked_count' = 0 /\ UNCHANGED <<file, before>>
    BY <1>5 DEF Again, Enroll!Restart
  <2> QED
    BY <2>1, ElsewhereKeeps
<1>6. CASE UNCHANGED vars
  <2>1. UNCHANGED <<pc, file, bootloader, i, checked_count, checksum_loc, before>>
    BY <1>6 DEF vars, searchVars
  <2>2. OnlySlotChanges'
    BY <2>1 DEF EnrollInv, OnlySlotChanges, Enroll!OnlySlotChanges, Enroll!EndsAt, Enroll!Slot
  <2>3. pc = "search" => SearchInv'
    BY <2>1 DEF EnrollInv, SearchInv, FileLen, Enroll!EndsAt
  <2>4. pc \in {"patch", "write"} => FoundInv'
    BY <2>1 DEF EnrollInv, FoundInv, First, FileLen, Enroll!EndsAt
  <2> QED
    BY <2>1, <2>2, <2>3, <2>4 DEF EnrollInv, IsList, FileLen, Enroll!Slot
<1> QED
  BY <1>1, <1>2, <1>3, <1>4, <1>5, <1>6 DEF Next, Step, EnrollsConfig

LEMMA EnrollAlways == Spec => []EnrollInv
<1>1. EnrollInv /\ [Next]_vars => EnrollInv'
  BY EnrollStep
<1> QED
  BY <1>1, EnrollInvInit, PTL DEF Spec

(* The search of enroll_config, with its restarts, finds the first         *)
(* signature of the executable whatever a failed match overlaps, leaves    *)
(* room for the digest, and gives up only when no signature ends within    *)
(* the cells that the loop of limine.c:1335 compares.  A signature near    *)
(* the end of the file, which the loop does not reach, is missed.          *)
THEOREM SearchFindsFirst == Spec => []FoundIsFirst
<1>1. EnrollInv => FoundIsFirst
  <2> SUFFICES ASSUME EnrollInv PROVE FoundIsFirst
    OBVIOUS
  <2>1. DOMAIN file = 1 .. FileLen /\ Len(file) = FileLen /\ FileLen \in Nat
    BY ListLen DEF EnrollInv, IsList
  <2>2. ASSUME pc = "patch"
        PROVE  First(bootloader, checksum_loc) /\ Enroll!Slot(checksum_loc) \subseteq DOMAIN file
    <3>1. FoundInv /\ bootloader = file
      BY <2>2 DEF EnrollInv
    <3>2. checksum_loc \in Nat /\ checksum_loc + DigestLen <= FileLen /\ DigestLen \in Nat
      BY <3>1, Sizes DEF FoundInv
    <3>3. Enroll!Slot(checksum_loc) \subseteq 1 .. FileLen
      BY <2>1, <3>2 DEF Enroll!Slot
    <3> QED
      BY <2>1, <3>1, <3>3 DEF FoundInv
  <2>3. ASSUME pc = "search", ~Enroll!Looking, NEW k \in 1 .. Len(bootloader) - Enroll!min_size + 1
        PROVE  ~Enroll!EndsAt(bootloader, k)
    <3> DEFINE s == Enroll!S
               m == Enroll!min_size
    <3>1. /\ bootloader = file /\ i \in Nat /\ checked_count \in Nat /\ checked_count < s /\ s \in Nat /\ m \in Nat
          /\ \A j \in 1 .. i - checked_count + s - 1 : ~Enroll!EndsAt(file, j)
      BY <2>3, Sizes DEF EnrollInv, SearchInv
    <3>2. ~(i < FileLen - m + 1) /\ k \in 1 .. FileLen - m + 1
      BY <2>1, <2>3, <3>1 DEF Enroll!Looking
    <3> HIDE DEF s, m
    <3>3. k \in 1 .. i - checked_count + s - 1
      <4>1. i \in Nat /\ checked_count \in Nat /\ checked_count < s /\ s \in Nat /\ m \in Nat
        BY <3>1
      <4> QED
        BY <2>1, <3>2, <4>1
    <3> QED
      BY <3>1, <3>3
  <2> QED
    BY <2>2, <2>3 DEF FoundIsFirst, Enroll!FoundIsFirst, First
<1> QED
  BY <1>1, EnrollAlways, PTL

(* However often enroll-config is run, with whichever digests, and         *)
(* whichever writes end half way, the executable only ever changes behind  *)
(* the first signature it had at first.                                    *)
THEOREM EnrollSparesTheRest == Spec => []OnlySlotChanges
<1>1. EnrollInv => OnlySlotChanges
  BY DEF EnrollInv
<1> QED
  BY <1>1, EnrollAlways, PTL

----------------------------------------------------------------------------
(* bios_install.  Where the program is says what it has done: the named    *)
(* sets of places are stretches of bios_install in their order.            *)

Open == status = "open"

Early      == {"args", "probe", "gather", "part"}
Converting == {"wipe1", "wipe2", "id", "entries"}
Checking   == {"mbr", "hints0", "active"}
Final      == {"boot", "stage2", "s2loc", "stamp", "table"}

(* The last places, at which the device is as the installation leaves it. *)
Done == (Open /\ at = "flush") \/ Installed

PathInv ==
  /\ disk \in Disks /\ loop \in Nat /\ used \in Nat /\ target \in Nat
  /\ content \in [Cells -> Int] /\ orig \in [Cells -> Int]
  /\ gpt \in BOOLEAN /\ mbr \in BOOLEAN /\ any_active \in BOOLEAN
  /\ conv \in Seq(GptEntry) /\ Len(conv) <= 4
  /\ at \in Early \cup Converting \cup Checking \cup Final \cup {"hints5", "save", "flush", "undo", "exit"}
  /\ status \in {"open", "undoing", "undone", "damaged", "committed"}
  /\ ~Open => at \in {"undo", "exit"}
  /\ Open => at # "undo"
  /\ Open /\ at \in Early => content = orig
  /\ at \in {"gather", "wipe1", "wipe2", "part", "hints5"} => gpt
  /\ at \in {"entries"} \cup Checking => ~gpt
  /\ Open /\ at \in {"gather", "part", "hints5"} \cup Converting => orig[<<0, "gpt1">>] = EfiPart
  /\ at \in {"args", "probe"} => conv = <<>>
  /\ at \in Final => saved \in [SavedCells -> Int]

(* How many writes were made at most. *)
UsedInv ==
  Open =>
    /\ at \in Early \cup {"exit"} => used = 0
    /\ at = "wipe1" => used <= loop /\ loop < 34
    /\ at = "wipe2" => used <= 34 + loop /\ loop < 33
    /\ at = "id" => used <= 67 + loop /\ loop < 4
    /\ at = "entries" => used <= 71 + loop /\ loop <= 5 * Len(conv)
    /\ at = "mbr" => /\ loop <= 4 /\ used <= 92 + loop
                     /\ loop = 4 \/ BadFlag(content[<<loop + 1, "active">>]) => used <= 91 + loop
    /\ at = "hints0" => used <= 95 + loop /\ loop <= 5
    /\ at = "active" => used <= 100
    /\ at = "hints5" => used <= loop /\ loop <= 5
    /\ at \in {"save", "boot"} => used <= 101
    /\ at = "stage2" => used <= 102
    /\ at = "s2loc" => used <= 103
    /\ at = "stamp" => used <= 104
    /\ at = "table" => used <= 105
    /\ at = "flush" => used <= 106

(* The table in f is the original one, but for the flags. *)
Kept(f) ==
  \A c \in SavedCells :
    \/ f[c] = orig[c]
    \/ c[2] = "active" /\ BadFlag(orig[c]) /\ opt.force
    \/ c = <<1, "active">> /\ ~gpt /\ f[c] = 128

TableInv ==
  ~Converted =>
    /\ Open /\ at \in Checking \cup {"hints5", "save"} => Kept(content)
    /\ Open /\ at \in Final => Kept(saved)
    /\ Open /\ at = "table" => content[<<0, "stamp">>] = saved[<<0, "stamp">>]
    /\ Done => Kept(content)

(* Some partition is active in f, of the first n. *)
Active(f, n) == \E p \in 1 .. n : f[<<p, "active">>] = 128

(* Stage 2 goes to the start of a partition that is large enough for it. *)
ChosenInv ==
  \E n \in DOMAIN disk.entries :
    /\ disk.entries[n].start * disk.lb = target
    /\ target .. target + StageSectors - 1 \subseteq GptSectors(disk.entries[n])
    /\ IF opt.ndx >= 0 THEN n = opt.ndx ELSE BiosBoot(disk.entries[n])

ActiveInv ==
  /\ Open /\ at \in {"args", "probe", "gather"} \cup Converting => ~any_active
  /\ Open /\ at = "mbr" /\ any_active /\ (loop = 0 \/ mbr) => Active(content, loop)
  /\ Open /\ at \in {"hints0", "active"} /\ any_active => Active(content, 4)
  /\ Open /\ at = "save" /\ ~gpt => Active(content, 4)
  /\ Open /\ at \in Final /\ ~gpt => Active(saved, 4)
  /\ Done /\ ~gpt => Active(content, 4)
  /\ Open /\ gpt /\ at \in {"hints5", "save", "flush"} \cup Final => ChosenInv
  /\ Installed /\ gpt => ChosenInv

StageInv ==
  target # 0 =>
    /\ Open /\ at = "stage2" => content[<<0, "code">>] = 9
    /\ (Open /\ at \in {"s2loc", "stamp", "table"}) \/ Done =>
         /\ content[<<0, "code">>] = 9
         /\ target .. target + StageSectors - 1 \subseteq touched
    /\ (Open /\ at \in {"stamp", "table"}) \/ Done => content[<<0, "s2loc">>] = target

(* Entries the first n of which have been looked at. *)
UsedOf(n) == {disk.entries[m] : m \in {k \in 1 .. n : disk.entries[k].used}}

NoGpt == content[<<0, "gpt1">>] # EfiPart /\ content[<<0, "gpt2">>] # EfiPart
NoTypes == \A p \in Part : content[<<p, "type">>] = 0

Listed(f) ==
  \A p \in Part : IF p \in DOMAIN conv
                  THEN /\ f[<<p, "type">>] # 0
                       /\ f[<<p, "lba">>] = conv[p].start
                       /\ f[<<p, "count">>] = conv[p].end - conv[p].start + 1
                  ELSE f[<<p, "type">>] = 0

GatherInv ==
  /\ \A p \in DOMAIN conv : FitsMbr(conv[p])
  /\ Open /\ at = "gather" => loop <= Len(disk.entries) /\ Members(conv) = UsedOf(loop)
  /\ Open /\ at \in Converting => Members(conv) = UsedOf(Len(disk.entries))
  /\ (Open /\ at \in Checking \cup {"save"} \cup Final) \/ Done =>
       (Converted => Members(conv) = UsedOf(Len(disk.entries)))

ConvInv ==
  /\ Open /\ at = "wipe1" => /\ loop >= 1 => NoTypes
                             /\ loop >= 2 => content[<<0, "gpt1">>] # EfiPart
                             /\ loop > disk.alt => content[<<0, "gpt2">>] # EfiPart
  /\ Open /\ at = "wipe2" => NoTypes /\ content[<<0, "gpt1">>] # EfiPart
  /\ Open /\ at = "id" => NoTypes /\ NoGpt
  /\ Open /\ at = "entries" =>
       /\ NoGpt
       /\ \A p \in Part :
            IF p \in DOMAIN conv
            THEN /\ loop >= 5 * p - 4 => content[<<p, "type">>] # 0
                 /\ loop >= 5 * p - 3 => content[<<p, "lba">>] = conv[p].start
                 /\ loop >= 5 * p - 2 => content[<<p, "count">>] = conv[p].end - conv[p].start + 1
            ELSE content[<<p, "type">>] = 0
  /\ Converted =>
       /\ (Open /\ at \in Checking \cup {"save"} \cup Final) \/ Done => NoGpt
       /\ Open /\ at \in Checking \cup {"save"} => Listed(content)
       /\ Open /\ at \in Final => Listed(saved)
       /\ Done => Listed(content)

(* The first n partitions of the table f leave the 62 sectors behind the   *)
(* boot sector alone.                                                      *)
BehindGap(f, n) == \A p \in 1 .. n : f[<<p, "type">>] # 0 => f[<<p, "lba">>] >= 63

GapInv ==
  /\ Open /\ at = "mbr" => BehindGap(content, loop)
  /\ Open /\ at \in {"hints0", "active"} => BehindGap(content, 4)
  /\ Open /\ at = "save" /\ ~gpt => BehindGap(content, 4)
  /\ Open /\ at \in Final /\ ~gpt => BehindGap(saved, 4)
  /\ Done /\ ~gpt => BehindGap(content, 4)

(* Sectors that a conversion may wipe: the first 34 blocks, which with     *)
(* blocks of 512 bytes are those of the primary GPT, and the secondary GPT.*)
Wipeable == (1 .. 34 * disk.lb - 1) \cup SecondaryGpt(disk)

WipedOnly(S) == \A s \in S : Converted /\ s \in Wipeable
StageSpan == target .. target + StageSectors - 1

TouchedInv ==
  /\ Open /\ at \in Early \cup Converting \cup Checking => target = 1
  /\ ~gpt => target = 1
  /\ Open /\ at \in Early \cup {"hints5"} => touched = {}
  /\ Open /\ at \in Converting => touched \subseteq Wipeable
  /\ Open /\ at \in Checking \cup {"save", "boot", "stage2"} => WipedOnly(touched)
  /\ (Open /\ at \in {"s2loc", "stamp", "table"}) \/ Done => WipedOnly(touched \ StageSpan)

----------------------------------------------------------------------------
(* Cells and writes *)

LEMMA CellsAre ==
  /\ TableCells \subseteq SavedCells /\ SavedCells \subseteq Sector0 /\ Sector0 \subseteq Cells
  /\ \A p \in Part : \A f \in {"active", "type", "lba", "count"} : <<p, f>> \in TableCells
  /\ \A f \in {"code", "s2loc", "stamp", "at3", "at54", "at82"} : <<0, f>> \in Sector0 \ TableCells
  /\ \A f \in {"at1080", "gpt1", "gpt2"} : <<0, f>> \in Cells \ Sector0
  /\ \A f \in {"at3", "at54", "at82", "at1080"} : <<5, f>> \in Cells \ Sector0
  /\ <<0, "id">> \in TableCells
  /\ \A c \in SavedCells : \/ c = <<0, "stamp">> \/ c = <<0, "id">>
                           \/ \E p \in Part : \E f \in {"active", "type", "lba", "count"} : c = <<p, f>>
<1>1. \A c : c \in TableCells <=>
         \/ c = <<0, "id">> \/ \E p \in Part : \E f \in {"active", "type", "lba", "count"} : c = <<p, f>>
  BY DEF TableCells, PartCells, Part
<1>2. \A c : c \in Sector0 <=>
         c \in TableCells \/ \E f \in {"code", "s2loc", "stamp", "at3", "at54", "at82"} : c = <<0, f>>
  BY DEF Sector0
<1>3. \A c : c \in Cells <=>
         \/ c \in Sector0 \/ \E f \in {"at1080", "gpt1", "gpt2"} : c = <<0, f>>
         \/ \E f \in {"at3", "at54", "at82", "at1080"} : c = <<5, f>>
  BY DEF Cells, Hints
<1>4. \A p \in Part : p # 0 /\ p # 5
  BY DEF Part
<1> QED
  BY <1>1, <1>2, <1>3, <1>4 DEF SavedCells

(* What a write does, and what it leaves alone. *)
LEMMA WriteIs ==
  ASSUME NEW new, NEW sectors, DeviceWrite(new, sectors)
  PROVE  /\ status = "open" /\ status' = "open" /\ used' = used + 1 /\ orig' = orig
         /\ content' \in [Cells -> Int]
         /\ \A c \in Cells : content'[c] = IF c \in DOMAIN new THEN new[c] ELSE content[c]
         /\ touched' = touched \cup (sectors \ {0})
  BY DEF DeviceWrite, Dev!Write, Dev!Contents

LEMMA PutIs ==
  ASSUME NEW x, NEW v, Put(x, v)
  PROVE  /\ status = "open" /\ status' = "open" /\ used' = used + 1 /\ orig' = orig
         /\ content' \in [Cells -> Int]
         /\ \A c \in Cells : content'[c] = IF c = x THEN v ELSE content[c]
         /\ touched' = touched
<1> DEFINE new == [y \in {x} |-> v]
<1>1. DeviceWrite(new, {})
  BY DEF Put
<1>2. DOMAIN new = {x} /\ new[x] = v
  OBVIOUS
<1> HIDE DEF new
<1> QED
  BY <1>1, <1>2, WriteIs

LEMMA ContinueIs ==
  ASSUME NEW l, Continue(l)
  PROVE  /\ status = "open" /\ at' = l /\ loop' = 0
         /\ UNCHANGED <<touched, content, orig, used, torn, status>>
  BY DEF Continue, Goto, devVars

LEMMA DiskIs ==
  ASSUME disk \in Disks
  PROVE  /\ disk.cells \in [Cells -> Int] /\ disk.entries \in Seq(GptEntry)
         /\ disk.lb \in {1, 8} /\ disk.alt \in Nat
  BY InstallAssumption

USE DEF Early, Converting, Checking, Final

----------------------------------------------------------------------------
(* What the actions do, in the terms of the invariants. *)

LEMMA ParseArgIs ==
  ASSUME ParseArg
  PROVE  /\ at = "args" /\ at' \in {"args", "exit"} /\ (at' = at => loop' = loop) /\ (at' # at => loop' = 0)
         /\ UNCHANGED <<disk, gpt, mbr, any_active, conv, target, saved, touched, content, orig, used, torn, status>>
<1>1. /\ at = "args"
      /\ UNCHANGED <<disk, gpt, mbr, any_active, conv, target, saved, touched, devVars>>
  BY DEF ParseArg
<1>2. Goto("exit") \/ UNCHANGED <<at, loop>>
  BY Zenon DEF ParseArg
<1> QED
  BY <1>1, <1>2 DEF Goto, devVars

LEMMA ArgsDoneIs ==
  ASSUME ArgsDone
  PROVE  /\ at = "args" /\ at' \in {"probe", "exit"} /\ loop' = 0 /\ status = "open"
         /\ UNCHANGED <<disk, opt, gpt, mbr, any_active, conv, target, saved, touched, content, orig, used, status>>
  BY ContinueIs DEF ArgsDone, progVars

LEMMA ProbeIs ==
  ASSUME Probe
  PROVE  /\ at = "probe" /\ loop' = 0 /\ status = "open" /\ gpt' = (content[<<0, "gpt1">>] = EfiPart)
         /\ IF gpt' THEN at' \in {"gather", "part"} ELSE at' = "mbr"
         /\ UNCHANGED <<disk, opt, mbr, any_active, conv, target, saved, touched, content, orig, used, status>>
  BY ContinueIs DEF Probe

LEMMA GatherIs ==
  ASSUME PathInv, Gather
  PROVE  /\ at = "gather" /\ at' = at /\ loop' = loop + 1 /\ loop + 1 \in 1 .. Len(disk.entries)
         /\ disk.entries[loop + 1] \in GptEntry /\ status = "open"
         /\ IF disk.entries[loop + 1].used
            THEN /\ Len(conv) < 4 /\ FitsMbr(disk.entries[loop + 1])
                 /\ conv' = Append(conv, disk.entries[loop + 1])
            ELSE conv' = conv
         /\ UNCHANGED <<disk, opt, gpt, mbr, any_active, target, saved, touched, content, orig, used, status>>
<1>1. /\ at = "gather" /\ at' = at /\ loop' = loop + 1 /\ loop < Len(disk.entries) /\ status = "open"
      /\ IF disk.entries[loop + 1].used
         THEN Len(conv) < 4 /\ FitsMbr(disk.entries[loop + 1]) /\ conv' = Append(conv, disk.entries[loop + 1])
         ELSE conv' = conv
      /\ UNCHANGED <<disk, opt, gpt, mbr, any_active, target, saved, touched, content, orig, used, status>>
  BY DEF Gather, EntryAt, Convertible, devVars
<1>2. disk.entries \in Seq(GptEntry) /\ loop + 1 \in 1 .. Len(disk.entries)
  BY <1>1, DiskIs, LenProperties DEF PathInv
<1>3. disk.entries[loop + 1] \in GptEntry
  BY <1>2, ElementOfSeq
<1> QED
  BY <1>1, <1>2, <1>3

LEMMA GatheredIs ==
  ASSUME Gathered \/ NoConversion
  PROVE  /\ at = "gather" /\ loop' = 0 /\ status = "open"
         /\ (loop = Len(disk.entries) /\ at' = "wipe1") \/ at' = "part"
         /\ UNCHANGED <<disk, opt, gpt, mbr, any_active, conv, target, saved, touched, content, orig, used, status>>
  BY ContinueIs DEF Gathered, NoConversion, progVars

(* The block that a step of the two loops clears. *)
Block == IF at = "wipe1" THEN loop ELSE disk.alt - 32 + loop

LEMMA WipeIs ==
  ASSUME WipePrimary \/ WipeSecondary
  PROVE  /\ at \in {"wipe1", "wipe2"} /\ status = "open" /\ status' = "open" /\ used' = used + 1
         /\ at = "wipe1" => IF loop + 1 < 34 THEN loop' = loop + 1 /\ at' = at
                           ELSE loop' = 0 /\ at' = IF disk.alt >= 32 THEN "wipe2" ELSE "id"
         /\ at = "wipe2" => IF loop + 1 < 33 THEN loop' = loop + 1 /\ at' = at ELSE loop' = 0 /\ at' = "id"
         /\ content' \in [Cells -> Int]
         /\ \A c \in Cells : content'[c] = IF c \in LbaCells(Block) THEN 0 ELSE content[c]
         /\ touched' = touched \cup (LbaSectors(Block) \ {0})
         /\ UNCHANGED <<disk, opt, gpt, mbr, any_active, conv, target, saved, orig>>
<1> DEFINE lba == Block
           new == [c \in LbaCells(lba) |-> 0]
           sectors == LbaSectors(lba)
<1>1. /\ at \in {"wipe1", "wipe2"} /\ DeviceWrite(new, sectors)
      /\ at = "wipe1" => IF loop + 1 < 34 THEN loop' = loop + 1 /\ at' = at
                        ELSE loop' = 0 /\ at' = IF disk.alt >= 32 THEN "wipe2" ELSE "id"
      /\ at = "wipe2" => IF loop + 1 < 33 THEN loop' = loop + 1 /\ at' = at ELSE loop' = 0 /\ at' = "id"
      /\ UNCHANGED <<disk, opt, gpt, mbr, any_active, conv, target, saved>>
  BY DEF WipePrimary, WipeSecondary, Wipe, Goto, progVars, Block, PrimaryBlocks
<1>2. DOMAIN new = LbaCells(lba) /\ \A c \in LbaCells(lba) : new[c] = 0
  OBVIOUS
<1> HIDE DEF new, sectors
<1>3. touched' = touched \cup (LbaSectors(Block) \ {0})
  BY <1>1, WriteIs DEF sectors
<1> QED
  BY <1>1, <1>2, <1>3, WriteIs

LEMMA DiskIdIs ==
  ASSUME WriteDiskId
  PROVE  /\ at = "id" /\ gpt' = FALSE /\ status = "open" /\ status' = "open" /\ used' = used + 1
         /\ IF loop + 1 < 4 THEN loop' = loop + 1 /\ at' = at ELSE loop' = 0 /\ at' = "entries"
         /\ content' \in [Cells -> Int]
         /\ \A c \in Cells : c # <<0, "id">> => content'[c] = content[c]
         /\ UNCHANGED <<disk, opt, mbr, any_active, conv, target, saved, orig, touched>>
<1>1. /\ at = "id" /\ gpt' = FALSE /\ Put(<<0, "id">>, 7)
      /\ IF loop + 1 < 4 THEN loop' = loop + 1 /\ at' = at ELSE loop' = 0 /\ at' = "entries"
      /\ UNCHANGED <<disk, opt, mbr, any_active, conv, target, saved>>
  BY DEF WriteDiskId, Goto
<1> DEFINE x == <<0, "id">>
<1>2. Put(x, 7)
  BY <1>1
<1> HIDE DEF x
<1>3. /\ status = "open" /\ status' = "open" /\ used' = used + 1 /\ orig' = orig /\ content' \in [Cells -> Int]
      /\ \A c \in Cells : c # x => content'[c] = content[c]
      /\ touched' = touched
  BY <1>2, PutIs
<1> QED
  BY <1>1, <1>3 DEF x

LEMMA EntriesIs ==
  ASSUME WriteEntries
  PROVE  /\ at = "entries" /\ status = "open" /\ status' = "open"
         /\ UNCHANGED <<disk, opt, gpt, mbr, any_active, conv, target, saved, orig, touched>>
         /\ IF loop < 5 * Len(conv)
            THEN /\ at' = at /\ loop' = loop + 1 /\ used' = used + 1 /\ content' \in [Cells -> Int]
                 /\ \A c \in Cells :
                      content'[c] = IF c = <<(loop \div 5) + 1, EntryField((loop % 5) + 1)>>
                                    THEN EntryValue(conv[(loop \div 5) + 1], (loop % 5) + 1) ELSE content[c]
            ELSE at' = "mbr" /\ loop' = 0 /\ UNCHANGED <<content, used>>
<1>1. at = "entries" /\ UNCHANGED <<disk, opt, gpt, mbr, any_active, conv, target, saved>>
  BY DEF WriteEntries, progVars
<1>2. CASE loop < 5 * Len(conv)
  <2> DEFINE x == <<(loop \div 5) + 1, EntryField((loop % 5) + 1)>>
             v == EntryValue(conv[(loop \div 5) + 1], (loop % 5) + 1)
  <2>1. Put(x, v) /\ loop' = loop + 1 /\ at' = at
    BY <1>2 DEF WriteEntries
  <2> HIDE DEF x, v
  <2>2. /\ status = "open" /\ status' = "open" /\ used' = used + 1 /\ orig' = orig /\ content' \in [Cells -> Int]
        /\ \A c \in Cells : content'[c] = IF c = x THEN v ELSE content[c]
        /\ touched' = touched
    BY <2>1, PutIs
  <2> QED
    BY <1>1, <1>2, <2>1, <2>2 DEF x, v
<1>3. CASE ~(loop < 5 * Len(conv))
  <2>1. Continue("mbr")
    BY <1>3 DEF WriteEntries
  <2> QED
    BY <1>1, <1>3, <2>1, ContinueIs
<1> QED
  BY <1>2, <1>3

LEMMA FlagIs ==
  ASSUME MbrFlag
  PROVE  /\ at = "mbr" /\ at' = at /\ loop < 4 /\ status = "open" /\ status' = "open"
         /\ UNCHANGED <<disk, opt, gpt, conv, target, saved, orig, touched>>
         /\ \/ /\ BadFlag(content[<<loop + 1, "active">>]) /\ opt.force
               /\ used' = used + 1 /\ content' \in [Cells -> Int] /\ UNCHANGED <<mbr, any_active, loop>>
               /\ \A c \in Cells : content'[c] = IF c = <<loop + 1, "active">>
                                                  THEN Masked(content[<<loop + 1, "active">>]) ELSE content[c]
            \/ /\ loop' = loop + 1 /\ UNCHANGED <<content, used>> /\ ~TooLow(loop + 1)
               /\ mbr' = (~BadFlag(content[<<loop + 1, "active">>]) /\ (loop = 0 \/ mbr))
               /\ any_active' = (any_active \/ content[<<loop + 1, "active">>] >= 128)
<1> DEFINE x == <<loop + 1, "active">>
           v == Masked(content[x])
<1>1. /\ at = "mbr" /\ at' = at /\ loop < 4
      /\ UNCHANGED <<disk, opt, gpt, conv, target, saved>>
  BY DEF MbrFlag
<1>2. \/ BadFlag(content[x]) /\ opt.force /\ Put(x, v) /\ UNCHANGED <<mbr, any_active, loop>>
      \/ /\ status = "open" /\ loop' = loop + 1 /\ UNCHANGED <<touched, devVars>> /\ ~TooLow(loop + 1)
         /\ mbr' = (~BadFlag(content[x]) /\ (loop = 0 \/ mbr))
         /\ any_active' = (any_active \/ content[x] >= 128)
  BY Zenon DEF MbrFlag
<1> HIDE DEF x, v
<1>3. CASE BadFlag(content[x]) /\ opt.force /\ Put(x, v) /\ UNCHANGED <<mbr, any_active, loop>>
  <2>1. /\ status = "open" /\ status' = "open" /\ used' = used + 1 /\ orig' = orig /\ content' \in [Cells -> Int]
        /\ \A c \in Cells : content'[c] = IF c = x THEN v ELSE content[c]
        /\ touched' = touched
    BY <1>3, PutIs
  <2> QED
    BY <1>1, <1>3, <2>1 DEF x, v
<1>4. CASE /\ status = "open" /\ loop' = loop + 1 /\ UNCHANGED <<touched, devVars>> /\ ~TooLow(loop + 1)
           /\ mbr' = (~BadFlag(content[x]) /\ (loop = 0 \/ mbr))
           /\ any_active' = (any_active \/ content[x] >= 128)
  BY <1>1, <1>4 DEF x, devVars
<1> QED
  BY <1>2, <1>3, <1>4

LEMMA CheckedIs ==
  ASSUME MbrChecked
  PROVE  /\ at = "mbr" /\ at' = "hints0" /\ loop = 4 /\ loop' = 0 /\ status = "open" /\ mbr
         /\ UNCHANGED <<disk, opt, gpt, mbr, any_active, conv, target, saved, touched, content, orig, used, status>>
  BY ContinueIs DEF MbrChecked, progVars

LEMMA HintsIs ==
  ASSUME PathInv, NEW row \in {0, 5}, NEW l, NEW m, ValidateOrForce(row, <<l, m>>)
  PROVE  /\ at = l /\ status = "open" /\ status' = "open"
         /\ UNCHANGED <<disk, opt, gpt, mbr, any_active, conv, target, saved, orig, touched>>
         /\ IF loop < 5 THEN at' = at /\ loop' = loop + 1 ELSE at' = m /\ loop' = 0 /\ UNCHANGED used
         /\ used' = used \/ used' = used + 1
         /\ content' \in [Cells -> Int]
         /\ \A c \in Cells : c \in SavedCells \/ c[2] \in {"gpt1", "gpt2", "code", "s2loc"} => content'[c] = content[c]
<1> DEFINE a == <<l, m>>
           x == <<row, HintChecks[loop + 1][1]>>
<1>1. /\ at = a[1]
      /\ UNCHANGED progVars
      /\ IF loop < Len(HintChecks)
         THEN /\ \/ Put(x, 0)
                 \/ status = "open" /\ UNCHANGED <<touched, devVars>>
              /\ loop' = loop + 1 /\ at' = at
         ELSE Continue(a[2])
  BY Zenon DEF ValidateOrForce
<1>2. a[1] = l /\ a[2] = m /\ Len(HintChecks) = 5
  BY DEF HintChecks
<1> HIDE DEF a, x
<1>3. UNCHANGED <<disk, opt, gpt, mbr, any_active, conv, target, saved>>
  BY <1>1 DEF progVars
<1>4. CASE loop < 5
  <2>1. Put(x, 0) \/ (status = "open" /\ UNCHANGED <<touched, devVars>>)
    BY <1>1, <1>2, <1>4
  <2>2. loop' = loop + 1 /\ at' = at
    BY <1>1, <1>2, <1>4
  <2>3. \E h \in {"at3", "at54", "at82", "at1080"} : x = <<row, h>>
    <3>1. loop \in 0 .. 4
      BY <1>4 DEF PathInv
    <3>2. HintChecks[loop + 1][1] \in {"at3", "at54", "at82", "at1080"}
      BY <3>1 DEF HintChecks
    <3> QED
      BY <3>2 DEF x
  <2>4. x \notin SavedCells /\ x[2] \notin {"gpt1", "gpt2", "code", "s2loc"}
    BY <2>3, CellsAre DEF SavedCells, Part
  <2>5. CASE Put(x, 0)
    <3>1. /\ status = "open" /\ status' = "open" /\ used' = used + 1 /\ orig' = orig /\ content' \in [Cells -> Int]
          /\ \A c \in Cells : c # x => content'[c] = content[c]
          /\ touched' = touched
      BY <2>5, PutIs
    <3> QED
      BY <1>1, <1>2, <1>3, <1>4, <2>2, <2>4, <3>1
  <2>6. CASE status = "open" /\ UNCHANGED <<touched, devVars>>
    BY <1>1, <1>2, <1>3, <1>4, <2>2, <2>6 DEF devVars, PathInv
  <2> QED
    BY <2>1, <2>5, <2>6
<1>5. CASE ~(loop < 5)
  <2>1. Continue(m)
    BY <1>1, <1>2, <1>5
  <2> QED
    BY <1>1, <1>2, <1>3, <1>5, <2>1, ContinueIs DEF PathInv
<1> QED
  BY <1>4, <1>5

LEMMA ActiveIs ==
  ASSUME PathInv, SetActive
  PROVE  /\ at = "active" /\ at' = "save" /\ loop' = 0
         /\ UNCHANGED <<disk, opt, gpt, mbr, any_active, conv, target, saved, orig, status, touched>>
         /\ content' \in [Cells -> Int] /\ (used' = used \/ used' = used + 1)
         /\ IF any_active THEN UNCHANGED content
            ELSE \A c \in Cells : content'[c] = IF c = <<1, "active">> THEN 128 ELSE content[c]
<1>1. /\ at = "active" /\ at' = "save" /\ loop' = 0
      /\ UNCHANGED <<disk, opt, gpt, mbr, any_active, conv, target, saved>>
  BY DEF SetActive, Goto, progVars
<1>2. CASE any_active
  <2>1. UNCHANGED <<content, orig, used, status, touched>>
    BY <1>2 DEF SetActive, devVars
  <2> QED
    BY <1>1, <1>2, <2>1 DEF PathInv
<1>3. CASE ~any_active
  <2> DEFINE x == <<1, "active">>
  <2>1. Put(x, 128)
    BY <1>3 DEF SetActive
  <2> HIDE DEF x
  <2>2. /\ status = "open" /\ status' = "open" /\ used' = used + 1 /\ orig' = orig /\ content' \in [Cells -> Int]
        /\ \A c \in Cells : content'[c] = IF c = x THEN 128 ELSE content[c]
        /\ touched' = touched
    BY <2>1, PutIs
  <2> QED
    BY <1>1, <1>3, <2>2 DEF x
<1> QED
  BY <1>2, <1>3

LEMMA ChooseIs ==
  ASSUME PathInv, ChoosePartition
  PROVE  /\ at = "part" /\ at' = "hints5" /\ loop' = 0 /\ status = "open" /\ target' \in Nat
         /\ \E n \in DOMAIN disk.entries :
              Chosen(n) /\ Holds(disk.entries[n]) /\ target' = disk.entries[n].start * disk.lb
         /\ UNCHANGED <<disk, opt, gpt, mbr, any_active, conv, saved, touched, content, orig, used, status>>
<1>1. /\ at = "part" /\ at' = "hints5" /\ loop' = 0 /\ status = "open"
      /\ \E n \in DOMAIN disk.entries :
           Chosen(n) /\ Holds(disk.entries[n]) /\ target' = disk.entries[n].start * disk.lb
      /\ UNCHANGED <<disk, opt, gpt, mbr, any_active, conv, saved, touched, content, orig, used, status>>
  BY ContinueIs DEF ChoosePartition
<1>2. target' \in Nat
  <2>1. disk.entries \in Seq(GptEntry) /\ disk.lb \in Nat
    BY DiskIs DEF PathInv
  <2>2. PICK n \in DOMAIN disk.entries : target' = disk.entries[n].start * disk.lb
    BY <1>1
  <2>3. disk.entries[n] \in GptEntry
    BY <2>1, <2>2, ElementOfSeq
  <2>4. disk.entries[n].start \in Nat
    BY <2>3 DEF GptEntry
  <2> QED
    BY <2>1, <2>2, <2>4
<1> QED
  BY <1>1, <1>2

LEMMA SaveIs ==
  ASSUME PathInv, SaveTable
  PROVE  /\ at = "save" /\ at' = "boot" /\ loop' = 0 /\ status = "open"
         /\ saved' \in [SavedCells -> Int] /\ \A c \in SavedCells : saved'[c] = content[c]
         /\ UNCHANGED <<disk, opt, gpt, mbr, any_active, conv, target, touched, content, orig, used, status>>
<1>1. /\ at = "save" /\ at' = "boot" /\ loop' = 0 /\ status = "open" /\ saved' = [c \in SavedCells |-> content[c]]
      /\ UNCHANGED <<disk, opt, gpt, mbr, any_active, conv, target, touched, content, orig, used, status>>
  BY ContinueIs DEF SaveTable
<1>2. SavedCells \subseteq Cells /\ content \in [Cells -> Int]
  BY CellsAre DEF PathInv
<1>3. saved' \in [SavedCells -> Int] /\ \A c \in SavedCells : saved'[c] = content[c]
  BY <1>1, <1>2
<1> QED
  BY <1>1, <1>3

(* The five writes of the installation proper. *)
Installs(l, m) ==
  /\ at = l /\ at' = m /\ loop' = 0 /\ status = "open" /\ status' = "open" /\ used' = used + 1
  /\ content' \in [Cells -> Int] /\ touched \subseteq touched' /\ (l # "stage2" => touched' = touched)
  /\ UNCHANGED <<disk, opt, gpt, mbr, any_active, conv, target, saved, orig>>

LEMMA BootIs ==
  ASSUME WriteBootSector
  PROVE  /\ Installs("boot", "stage2")
         /\ \A c \in Cells : content'[c] = IF c \in Sector0 THEN Image(c) ELSE content[c]
<1> DEFINE new == [c \in Sector0 |-> Image(c)]
<1>1. /\ at = "boot" /\ at' = "stage2" /\ loop' = 0 /\ DeviceWrite(new, {0})
      /\ UNCHANGED <<disk, opt, gpt, mbr, any_active, conv, target, saved>>
  BY DEF WriteBootSector, Goto, progVars
<1>2. DOMAIN new = Sector0 /\ \A c \in Sector0 : new[c] = Image(c)
  OBVIOUS
<1> HIDE DEF new
<1> QED
  BY <1>1, <1>2, WriteIs DEF Installs

LEMMA Stage2Is ==
  ASSUME WriteStage2
  PROVE  /\ Installs("stage2", "s2loc")
         /\ \A c \in Cells : content'[c] = IF c \in StageCells THEN Stage2 ELSE content[c]
         /\ touched' = touched \cup ((target .. target + StageSectors - 1) \ {0})
<1> DEFINE new == [c \in StageCells |-> Stage2]
           sectors == target .. target + StageSectors - 1
<1>1. /\ at = "stage2" /\ at' = "s2loc" /\ loop' = 0 /\ DeviceWrite(new, sectors)
      /\ UNCHANGED <<disk, opt, gpt, mbr, any_active, conv, target, saved>>
  BY DEF WriteStage2, Goto, progVars
<1>2. DOMAIN new = StageCells /\ \A c \in StageCells : new[c] = Stage2
  OBVIOUS
<1> HIDE DEF new, sectors
<1>3. /\ Installs("stage2", "s2loc")
      /\ \A c \in Cells : content'[c] = IF c \in StageCells THEN Stage2 ELSE content[c]
      /\ touched' = touched \cup (sectors \ {0})
  BY <1>1, <1>2, WriteIs DEF Installs
<1> QED
  BY <1>3 DEF sectors

LEMMA LocIs ==
  ASSUME WriteStage2Loc
  PROVE  /\ Installs("s2loc", "stamp")
         /\ \A c \in Cells : content'[c] = IF c = <<0, "s2loc">> THEN target ELSE content[c]
<1> DEFINE x == <<0, "s2loc">>
<1>1. /\ at = "s2loc" /\ at' = "stamp" /\ loop' = 0 /\ Put(x, target)
      /\ UNCHANGED <<disk, opt, gpt, mbr, any_active, conv, target, saved>>
  BY DEF WriteStage2Loc, Goto, progVars
<1> HIDE DEF x
<1>2. /\ Installs("s2loc", "stamp")
      /\ \A c \in Cells : content'[c] = IF c = x THEN target ELSE content[c]
  BY <1>1, PutIs DEF Installs
<1> QED
  BY <1>2 DEF x

LEMMA StampIs ==
  ASSUME WriteTimestamp
  PROVE  /\ Installs("stamp", "table")
         /\ \A c \in Cells : content'[c] = IF c = <<0, "stamp">> THEN saved[<<0, "stamp">>] ELSE content[c]
<1> DEFINE x == <<0, "stamp">>
           v == saved[x]
<1>1. /\ at = "stamp" /\ at' = "table" /\ loop' = 0 /\ Put(x, v)
      /\ UNCHANGED <<disk, opt, gpt, mbr, any_active, conv, target, saved>>
  BY DEF WriteTimestamp, Goto, progVars
<1> HIDE DEF x, v
<1>2. /\ Installs("stamp", "table")
      /\ \A c \in Cells : content'[c] = IF c = x THEN v ELSE content[c]
  BY <1>1, PutIs DEF Installs
<1> QED
  BY <1>2 DEF x, v

LEMMA TableIs ==
  ASSUME WriteTable
  PROVE  /\ Installs("table", "flush")
         /\ \A c \in Cells : content'[c] = IF c \in TableCells THEN saved[c] ELSE content[c]
<1> DEFINE new == [c \in TableCells |-> saved[c]]
<1>1. /\ at = "table" /\ at' = "flush" /\ loop' = 0 /\ DeviceWrite(new, {})
      /\ UNCHANGED <<disk, opt, gpt, mbr, any_active, conv, target, saved>>
  BY DEF WriteTable, Goto, progVars
<1>2. DOMAIN new = TableCells /\ \A c \in TableCells : new[c] = saved[c]
  OBVIOUS
<1> HIDE DEF new
<1>3. touched' = touched
  BY <1>1, WriteIs
<1> QED
  BY <1>1, <1>2, <1>3, WriteIs DEF Installs

LEMMA FlushIs ==
  ASSUME Flush
  PROVE  /\ at = "flush" /\ at' = "exit" /\ loop' = 0 /\ status = "open" /\ status' = "committed"
         /\ UNCHANGED <<disk, opt, gpt, mbr, any_active, conv, target, saved, touched, content, orig, used>>
  BY DEF Flush, Goto, progVars, Dev!Commit

LEMMA FailsIs ==
  ASSUME Fails
  PROVE  /\ at' = "undo" /\ loop' = 0 /\ status' = "undoing" /\ content' \in [Cells -> Int]
         /\ UNCHANGED <<disk, opt, gpt, mbr, any_active, conv, target, saved, touched, orig, used>>
  BY DEF Fails, Goto, progVars, Dev!Fail, Dev!Contents

LEMMA UndoIs ==
  ASSUME Undo
  PROVE  /\ at' = "exit" /\ loop' = 0 /\ status' \in {"undone", "damaged"} /\ content' \in [Cells -> Int]
         /\ UNCHANGED <<disk, opt, gpt, mbr, any_active, conv, target, saved, touched, orig, used>>
  BY DEF Undo, Goto, progVars, Dev!Undone, Dev!UndoFails, Dev!Contents

----------------------------------------------------------------------------
LEMMA PathInit == InstallInit => PathInv
<1> SUFFICES ASSUME InstallInit PROVE PathInv
  OBVIOUS
<1>1. /\ disk \in Disks /\ at = "args" /\ loop = 0 /\ gpt = FALSE /\ mbr = FALSE /\ any_active = FALSE
      /\ conv = <<>> /\ target = 1 /\ content = disk.cells /\ orig = content /\ used = 0 /\ status = "open"
  BY DEF InstallInit
<1>2. content \in [Cells -> Int] /\ orig \in [Cells -> Int]
  BY <1>1, DiskIs
<1>3. conv \in Seq(GptEntry) /\ Len(conv) <= 4
  BY <1>1
<1>4. gpt \in BOOLEAN /\ mbr \in BOOLEAN /\ any_active \in BOOLEAN
  BY <1>1
<1> QED
  BY <1>1, <1>2, <1>3, <1>4 DEF PathInv, Open

LEMMA PathStep == ASSUME PathInv, InstallNext PROVE PathInv'
<1> USE DEF Open
<1>1. CASE ParseArg
  BY <1>1, ParseArgIs DEF PathInv
<1>2. CASE ArgsDone
  BY <1>2, ArgsDoneIs DEF PathInv
<1>3. CASE Probe
  <2>1. gpt' \in BOOLEAN
    BY <1>3, ProbeIs
  <2>2. /\ at = "probe" /\ loop' = 0 /\ status' = "open" /\ status = "open"
        /\ UNCHANGED <<disk, opt, mbr, any_active, conv, target, saved, touched, content, orig, used, status>>
    BY <1>3, ProbeIs
  <2>3. CASE gpt'
    <3>1. at' \in {"gather", "part"} /\ content[<<0, "gpt1">>] = EfiPart
      BY <1>3, <2>3, ProbeIs
    <3>2. orig'[<<0, "gpt1">>] = EfiPart /\ content' = orig'
      BY <2>2, <3>1 DEF PathInv
    <3> QED
      BY <2>1, <2>2, <2>3, <3>1, <3>2 DEF PathInv
  <2>4. CASE ~gpt'
    <3>1. at' = "mbr"
      BY <1>3, <2>4, ProbeIs
    <3> QED
      BY <2>1, <2>2, <2>4, <3>1 DEF PathInv
  <2> QED
    BY <2>3, <2>4
<1>4. CASE Gather
  <2>1. conv' \in Seq(GptEntry) /\ Len(conv') <= 4
    <3>1. conv \in Seq(GptEntry) /\ Len(conv) <= 4 /\ disk.entries[loop + 1] \in GptEntry
      BY <1>4, GatherIs DEF PathInv
    <3>2. conv' = conv \/ (Len(conv) < 4 /\ conv' = Append(conv, disk.entries[loop + 1]))
      BY <1>4, GatherIs
    <3>3. Append(conv, disk.entries[loop + 1]) \in Seq(GptEntry)
          /\ Len(Append(conv, disk.entries[loop + 1])) = Len(conv) + 1
      BY <3>1, AppendProperties
    <3>4. Len(conv) \in Nat
      BY <3>1, LenProperties
    <3> QED
      BY <3>1, <3>2, <3>3, <3>4
  <2>2. loop' \in Nat
    BY <1>4, GatherIs DEF PathInv
  <2> QED
    BY <1>4, <2>1, <2>2, GatherIs DEF PathInv
<1>5. CASE Gathered \/ NoConversion
  BY <1>5, GatheredIs DEF PathInv
<1>6. CASE WipePrimary \/ WipeSecondary
  <2>1. loop' \in Nat /\ used' \in Nat /\ at' \in {"wipe1", "wipe2", "id"}
    BY <1>6, WipeIs DEF PathInv
  <2> QED
    BY <1>6, <2>1, WipeIs DEF PathInv
<1>7. CASE WriteDiskId
  <2>1. loop' \in Nat /\ used' \in Nat
    BY <1>7, DiskIdIs DEF PathInv
  <2>2. gpt' \in BOOLEAN
    BY <1>7, DiskIdIs
  <2> QED
    BY <1>7, <2>1, <2>2, DiskIdIs DEF PathInv
<1>8. CASE WriteEntries
  <2>1. loop' \in Nat /\ used' \in Nat /\ content' \in [Cells -> Int] /\ at' \in {"entries", "mbr"}
    BY <1>8, EntriesIs, SMTT(30) DEF PathInv
  <2> QED
    BY <1>8, <2>1, EntriesIs DEF PathInv
<1>9. CASE MbrFlag
  <2>1. loop' \in Nat /\ used' \in Nat /\ content' \in [Cells -> Int]
    BY <1>9, FlagIs DEF PathInv
  <2>2. mbr' \in BOOLEAN /\ any_active' \in BOOLEAN
    <3>1. mbr \in BOOLEAN /\ any_active \in BOOLEAN
      BY DEF PathInv
    <3>2. UNCHANGED <<mbr, any_active>>
            \/ (mbr' = (~BadFlag(content[<<loop + 1, "active">>]) /\ (loop = 0 \/ mbr))
                /\ any_active' = (any_active \/ content[<<loop + 1, "active">>] >= 128))
      BY <1>9, FlagIs
    <3> QED
      BY <3>1, <3>2
  <2> QED
    BY <1>9, <2>1, <2>2, FlagIs DEF PathInv
<1>10. CASE MbrChecked
  BY <1>10, CheckedIs DEF PathInv
<1>11. CASE SetActive
  BY <1>11, ActiveIs DEF PathInv
<1>12. CASE ChoosePartition
  BY <1>12, ChooseIs DEF PathInv
<1>13. CASE ValidateOrForce(0, <<"hints0", "active">>)
  <2>1. /\ at = "hints0" /\ (used' = used \/ used' = used + 1) /\ content' \in [Cells -> Int]
        /\ IF loop < 5 THEN at' = at /\ loop' = loop + 1 ELSE at' = "active" /\ loop' = 0
    BY <1>13, HintsIs
  <2>2. loop' \in Nat /\ used' \in Nat /\ at' \in {"hints0", "active"}
    BY <2>1 DEF PathInv
  <2>3. UNCHANGED <<disk, opt, gpt, mbr, any_active, conv, target, saved, orig, status>> /\ status = "open"
    BY <1>13, HintsIs
  <2> QED
    BY <2>1, <2>2, <2>3 DEF PathInv
<1>14. CASE ValidateOrForce(5, <<"hints5", "save">>)
  <2>1. /\ at = "hints5" /\ (used' = used \/ used' = used + 1) /\ content' \in [Cells -> Int]
        /\ IF loop < 5 THEN at' = at /\ loop' = loop + 1 ELSE at' = "save" /\ loop' = 0
    BY <1>14, HintsIs
  <2>2. loop' \in Nat /\ used' \in Nat /\ at' \in {"hints5", "save"}
    BY <2>1 DEF PathInv
  <2>3. UNCHANGED <<disk, opt, gpt, mbr, any_active, conv, target, saved, orig, status>> /\ status = "open"
    BY <1>14, HintsIs
  <2> QED
    BY <2>1, <2>2, <2>3 DEF PathInv
<1>15. CASE SaveTable
  BY <1>15, SaveIs DEF PathInv
<1>16. ASSUME NEW l \in Final, NEW m \in Final \cup {"flush"}, Installs(l, m) PROVE PathInv'
  BY <1>16 DEF PathInv, Installs
<1>17. CASE WriteBootSector \/ WriteStage2 \/ WriteStage2Loc \/ WriteTimestamp \/ WriteTable
  BY <1>16, <1>17, BootIs, Stage2Is, LocIs, StampIs, TableIs
<1>18. CASE Flush
  BY <1>18, FlushIs DEF PathInv
<1>19. CASE Fails
  BY <1>19, FailsIs DEF PathInv
<1>20. CASE Undo
  BY <1>20, UndoIs DEF PathInv
<1> QED
  BY <1>1, <1>2, <1>3, <1>4, <1>5, <1>6, <1>7, <1>8, <1>9, <1>10, <1>11, <1>12, <1>13, <1>14, <1>15, <1>17, <1>18,
     <1>19, <1>20 DEF InstallNext

----------------------------------------------------------------------------
LEMMA UsedStep == ASSUME PathInv, UsedInv, InstallNext PROVE UsedInv'
<1> USE DEF Open
<1>1. CASE ParseArg
  BY <1>1, ParseArgIs DEF UsedInv
<1>2. CASE ArgsDone
  BY <1>2, ArgsDoneIs DEF UsedInv
<1>3. CASE Probe
  <2>1. used' = 0 /\ loop' = 0 /\ at' \in {"gather", "part", "mbr"}
    BY <1>3, ProbeIs DEF UsedInv
  <2> QED
    BY <2>1 DEF UsedInv
<1>4. CASE Gather
  BY <1>4, GatherIs DEF UsedInv
<1>5. CASE Gathered \/ NoConversion
  BY <1>5, GatheredIs DEF UsedInv
<1>6. CASE WipePrimary \/ WipeSecondary
  <2>1. loop \in Nat /\ used \in Nat
    BY DEF PathInv
  <2>2. CASE at = "wipe1"
    <3>1. used <= loop /\ loop < 34 /\ used' = used + 1 /\ at' \in {"wipe1", "wipe2", "id"}
          /\ (at' = "wipe1" => loop' = loop + 1 /\ loop + 1 < 34) /\ (at' # "wipe1" => loop' = 0)
      BY <1>6, <2>1, <2>2, WipeIs DEF UsedInv
    <3> QED
      BY <2>1, <3>1 DEF UsedInv
  <2>3. CASE at = "wipe2"
    <3>1. used <= 34 + loop /\ loop < 33 /\ used' = used + 1 /\ at' \in {"wipe2", "id"}
          /\ (at' = "wipe2" => loop' = loop + 1 /\ loop + 1 < 33) /\ (at' # "wipe2" => loop' = 0)
      BY <1>6, <2>1, <2>3, WipeIs DEF UsedInv
    <3> QED
      BY <2>1, <3>1 DEF UsedInv
  <2> QED
    BY <1>6, <2>2, <2>3, WipeIs
<1>7. CASE WriteDiskId
  <2>1. loop \in Nat /\ used \in Nat /\ Len(conv') \in Nat
    BY <1>7, DiskIdIs, LenProperties DEF PathInv
  <2>2. used <= 67 + loop /\ loop < 4 /\ used' = used + 1 /\ at' \in {"id", "entries"}
          /\ (at' = "id" => loop' = loop + 1 /\ loop + 1 < 4) /\ (at' = "entries" => loop' = 0)
    BY <1>7, DiskIdIs DEF UsedInv
  <2> QED
    BY <2>1, <2>2 DEF UsedInv
<1>8. CASE WriteEntries
  <2>1. loop \in Nat /\ used \in Nat /\ Len(conv) \in Nat /\ Len(conv) <= 4 /\ conv' = conv
    BY <1>8, EntriesIs, LenProperties DEF PathInv
  <2>2. used <= 71 + loop /\ loop <= 5 * Len(conv)
    BY <1>8, EntriesIs DEF UsedInv
  <2>3. CASE loop < 5 * Len(conv)
    <3>1. used' = used + 1 /\ loop' = loop + 1 /\ at' = "entries"
      BY <1>8, <2>3, EntriesIs
    <3> QED
      BY <2>1, <2>2, <2>3, <3>1 DEF UsedInv
  <2>4. CASE ~(loop < 5 * Len(conv))
    <3>1. used' = used /\ loop' = 0 /\ at' = "mbr"
      BY <1>8, <2>4, EntriesIs
    <3>2. used' <= 91
      BY <2>1, <2>2, <3>1
    <3> QED
      BY <2>1, <3>1, <3>2 DEF UsedInv
  <2> QED
    BY <2>3, <2>4
<1>9. CASE MbrFlag
  <2> DEFINE x == <<loop + 1, "active">>
  <2>1. /\ loop \in Nat /\ used \in Nat /\ loop < 4 /\ at' = "mbr" /\ used <= 92 + loop
        /\ (BadFlag(content[x]) => used <= 91 + loop)
    BY <1>9, FlagIs DEF PathInv, UsedInv
  <2>2. x \in Cells
    BY <2>1, CellsAre DEF Part
  <2>3. CASE /\ BadFlag(content[x]) /\ used' = used + 1 /\ loop' = loop
             /\ \A c \in Cells : content'[c] = IF c = x THEN Masked(content[x]) ELSE content[c]
    <3>1. ~BadFlag(content'[<<loop' + 1, "active">>])
      BY <2>2, <2>3 DEF BadFlag, Masked
    <3> QED
      BY <2>1, <2>3, <3>1 DEF UsedInv
  <2>4. CASE loop' = loop + 1 /\ used' = used
    BY <2>1, <2>4 DEF UsedInv
  <2> QED
    BY <1>9, <2>3, <2>4, FlagIs
<1>10. CASE MbrChecked
  BY <1>10, CheckedIs DEF UsedInv
<1>11. CASE SetActive
  <2>1. used \in Nat /\ at' = "save"
    BY <1>11, ActiveIs DEF PathInv
  <2>2. (used' = used \/ used' = used + 1) /\ (status' = "open" => used <= 100)
    BY <1>11, ActiveIs DEF UsedInv
  <2> QED
    BY <2>1, <2>2 DEF UsedInv
<1>12. CASE ChoosePartition
  BY <1>12, ChooseIs DEF UsedInv
<1>13. CASE ValidateOrForce(0, <<"hints0", "active">>)
  <2>1. used \in Nat /\ loop \in Nat
    BY DEF PathInv
  <2>2. /\ at = "hints0" /\ used <= 95 + loop /\ loop <= 5 /\ (used' = used \/ used' = used + 1)
        /\ IF loop < 5 THEN at' = "hints0" /\ loop' = loop + 1 ELSE at' = "active" /\ used' = used
    BY <1>13, HintsIs DEF UsedInv
  <2> QED
    BY <2>1, <2>2 DEF UsedInv
<1>14. CASE ValidateOrForce(5, <<"hints5", "save">>)
  <2>1. used \in Nat /\ loop \in Nat
    BY DEF PathInv
  <2>2. /\ at = "hints5" /\ used <= loop /\ loop <= 5 /\ (used' = used \/ used' = used + 1)
        /\ IF loop < 5 THEN at' = "hints5" /\ loop' = loop + 1 ELSE at' = "save" /\ used' = used
    BY <1>14, HintsIs DEF UsedInv
  <2> QED
    BY <2>1, <2>2 DEF UsedInv
<1>15. CASE SaveTable
  BY <1>15, SaveIs DEF UsedInv
<1>16. CASE WriteBootSector \/ WriteStage2 \/ WriteStage2Loc \/ WriteTimestamp \/ WriteTable
  <2>1. used \in Nat /\ status = "open" /\ used' = used + 1
    BY <1>16, BootIs, Stage2Is, LocIs, StampIs, TableIs DEF PathInv, Installs
  <2>2. \/ at = "boot" /\ at' = "stage2"
        \/ at = "stage2" /\ at' = "s2loc"
        \/ at = "s2loc" /\ at' = "stamp"
        \/ at = "stamp" /\ at' = "table"
        \/ at = "table" /\ at' = "flush"
    BY <1>16, BootIs, Stage2Is, LocIs, StampIs, TableIs DEF Installs
  <2> QED
    BY <2>1, <2>2 DEF UsedInv
<1>17. CASE Flush
  BY <1>17, FlushIs DEF UsedInv
<1>18. CASE Fails
  BY <1>18, FailsIs DEF UsedInv
<1>19. CASE Undo
  BY <1>19, UndoIs DEF UsedInv
<1> QED
  BY <1>1, <1>2, <1>3, <1>4, <1>5, <1>6, <1>7, <1>8, <1>9, <1>10, <1>11, <1>12, <1>13, <1>14, <1>15, <1>16, <1>17,
     <1>18, <1>19 DEF InstallNext

----------------------------------------------------------------------------
LEMMA TableStep == ASSUME PathInv, TableInv, InstallNext PROVE TableInv'
<1> USE DEF Open, Done, Installed
<1> SUFFICES ASSUME ~Converted' PROVE TableInv'
  BY DEF TableInv
<1>1. ASSUME UNCHANGED <<orig, opt, gpt>>, Kept(content), \A c \in SavedCells : content'[c] = content[c]
      PROVE  Kept(content)'
  BY <1>1 DEF Kept, BadFlag, SavedCells
<1>2. ASSUME UNCHANGED <<orig, opt, gpt, saved>>, Kept(saved) PROVE Kept(saved)'
  BY <1>2 DEF Kept, BadFlag
<1>3. SavedCells \subseteq Cells /\ SavedCells = TableCells \cup {<<0, "stamp">>}
  BY CellsAre DEF SavedCells
<1>5. CASE ParseArg \/ ArgsDone \/ Gather \/ Gathered \/ NoConversion
  <2>1. status' = "open" /\ at' \in Early \cup Converting \cup {"exit"}
    BY <1>5, ParseArgIs, ArgsDoneIs, GatherIs, GatheredIs DEF PathInv
  <2> QED
    BY <2>1 DEF TableInv
<1>6. CASE Probe
  <2>1. status' = "open" /\ at' \in {"gather", "part", "mbr"} /\ content' = orig'
    BY <1>6, ProbeIs DEF PathInv
  <2>2. Kept(content)'
    BY <2>1 DEF Kept
  <2> QED
    BY <2>1, <2>2 DEF TableInv
<1>7. CASE WipePrimary \/ WipeSecondary \/ WriteDiskId
  <2>1. status' = "open" /\ at' \in Converting
    BY <1>7, WipeIs, DiskIdIs
  <2> QED
    BY <2>1 DEF TableInv
<1>8. CASE WriteEntries
  <2>1. ~gpt' /\ orig'[<<0, "gpt1">>] = EfiPart
    BY <1>8, EntriesIs DEF PathInv
  <2> QED
    BY <2>1 DEF Converted
<1>9. CASE MbrFlag
  <2> DEFINE x == <<loop + 1, "active">>
  <2>1. status = "open" /\ status' = "open" /\ at = "mbr" /\ at' = "mbr" /\ UNCHANGED <<orig, opt, gpt>>
    BY <1>9, FlagIs
  <2>2. Kept(content)
    BY <2>1 DEF TableInv, Converted
  <2>3. CASE content' = content
    <3>1. Kept(content)'
      BY <1>1, <2>1, <2>2, <2>3
    <3> QED
      BY <2>1, <3>1 DEF TableInv
  <2>4. CASE /\ BadFlag(content[x]) /\ opt.force
             /\ \A c \in Cells : content'[c] = IF c = x THEN Masked(content[x]) ELSE content[c]
    <3>1. \A c \in SavedCells : c # x => content'[c] = content[c]
      BY <1>3, <2>4
    <3>2. x \in SavedCells => x[2] = "active" /\ BadFlag(orig[x]) /\ opt.force
      BY <2>2, <2>4 DEF Kept, BadFlag
    <3>3. Kept(content)'
      BY <2>1, <2>2, <3>1, <3>2 DEF Kept, BadFlag
    <3> QED
      BY <2>1, <3>3 DEF TableInv
  <2> QED
    BY <1>9, <2>3, <2>4, FlagIs
<1>10. CASE MbrChecked
  <2>1. /\ status = "open" /\ status' = "open" /\ at = "mbr" /\ at' = "hints0"
        /\ UNCHANGED <<orig, opt, gpt, content>>
    BY <1>10, CheckedIs
  <2>2. Kept(content)'
    BY <1>1, <2>1 DEF TableInv, Converted
  <2> QED
    BY <2>1, <2>2 DEF TableInv
<1>11. CASE SetActive
  <2>1. /\ at = "active" /\ at' = "save" /\ UNCHANGED <<orig, opt, gpt, status>> /\ ~gpt /\ status = "open"
    BY <1>11, ActiveIs DEF PathInv
  <2>2. \A c \in Cells : content'[c] = content[c] \/ (c = <<1, "active">> /\ content'[c] = 128)
    BY <1>11, ActiveIs
  <2>3. Kept(content)
    BY <2>1 DEF TableInv, Converted
  <2>4. Kept(content)'
    BY <1>3, <2>1, <2>2, <2>3 DEF Kept, BadFlag
  <2> QED
    BY <2>1, <2>4 DEF TableInv
<1>12. CASE ChoosePartition
  <2>1. status' = "open" /\ at' = "hints5" /\ content' = orig'
    BY <1>12, ChooseIs DEF PathInv
  <2>2. Kept(content)'
    BY <2>1 DEF Kept
  <2> QED
    BY <2>1, <2>2 DEF TableInv
<1>13. CASE ValidateOrForce(0, <<"hints0", "active">>) \/ ValidateOrForce(5, <<"hints5", "save">>)
  <2>1. /\ status = "open" /\ status' = "open" /\ UNCHANGED <<orig, opt, gpt>>
        /\ at \in {"hints0", "hints5"} /\ at' \in {"hints0", "active", "hints5", "save"}
    BY <1>13, HintsIs
  <2>2. \A c \in SavedCells : content'[c] = content[c]
    BY <1>3, <1>13, HintsIs
  <2>3. Kept(content)
    BY <2>1 DEF TableInv, Converted
  <2>4. Kept(content)'
    BY <1>1, <2>1, <2>2, <2>3
  <2> QED
    BY <2>1, <2>4 DEF TableInv
<1>14. CASE SaveTable
  <2>1. /\ status = "open" /\ status' = "open" /\ at = "save" /\ at' = "boot"
        /\ UNCHANGED <<orig, opt, gpt, content>> /\ \A c \in SavedCells : saved'[c] = content[c]
    BY <1>14, SaveIs
  <2>2. Kept(content)
    BY <2>1 DEF TableInv, Converted
  <2>3. Kept(saved)'
    BY <2>1, <2>2 DEF Kept, BadFlag
  <2> QED
    BY <2>1, <2>3 DEF TableInv
<1>15. CASE WriteBootSector \/ WriteStage2 \/ WriteStage2Loc
  <2>1. /\ status = "open" /\ status' = "open" /\ at \in Final /\ at' \in {"stage2", "s2loc", "stamp"}
        /\ UNCHANGED <<orig, opt, gpt, saved>>
    BY <1>15, BootIs, Stage2Is, LocIs DEF Installs
  <2>2. Kept(saved)
    BY <2>1 DEF TableInv, Converted
  <2>3. Kept(saved)'
    BY <1>2, <2>1, <2>2
  <2> QED
    BY <2>1, <2>3 DEF TableInv
<1>16. CASE WriteTimestamp
  <2>1. /\ status = "open" /\ status' = "open" /\ at = "stamp" /\ at' = "table"
        /\ UNCHANGED <<orig, opt, gpt, saved>>
    BY <1>16, StampIs DEF Installs
  <2>2. Kept(saved)'
    BY <1>2, <2>1 DEF TableInv, Converted
  <2>3. content'[<<0, "stamp">>] = saved'[<<0, "stamp">>]
    BY <1>3, <1>16, <2>1, StampIs
  <2> QED
    BY <2>1, <2>2, <2>3 DEF TableInv
<1>17. CASE WriteTable
  <2>1. /\ status = "open" /\ status' = "open" /\ at = "table" /\ at' = "flush"
        /\ UNCHANGED <<orig, opt, gpt, saved>>
    BY <1>17, TableIs DEF Installs
  <2>2. Kept(saved) /\ content[<<0, "stamp">>] = saved[<<0, "stamp">>]
    BY <2>1 DEF TableInv, Converted
  <2>3. \A c \in SavedCells : content'[c] = saved[c]
    <3>1. <<0, "stamp">> \notin TableCells
      BY CellsAre
    <3> QED
      BY <1>3, <1>17, <2>2, <3>1, TableIs
  <2>4. Kept(content)'
    BY <2>1, <2>2, <2>3 DEF Kept, BadFlag
  <2> QED
    BY <2>1, <2>4 DEF TableInv
<1>18. CASE Flush
  <2>1. /\ status = "open" /\ status' = "committed" /\ at = "flush" /\ at' = "exit"
        /\ UNCHANGED <<orig, opt, gpt, content>>
    BY <1>18, FlushIs
  <2>2. Kept(content)'
    BY <1>1, <2>1 DEF TableInv, Converted
  <2> QED
    BY <2>1, <2>2 DEF TableInv
<1>19. CASE Fails \/ Undo
  <2>1. status' \in {"undoing", "undone", "damaged"}
    BY <1>19, FailsIs, UndoIs
  <2> QED
    BY <2>1 DEF TableInv
<1> QED
  BY <1>5, <1>6, <1>7, <1>8, <1>9, <1>10, <1>11, <1>12, <1>13, <1>14, <1>15, <1>16, <1>17, <1>18, <1>19
  DEF InstallNext

----------------------------------------------------------------------------
(* A chosen partition is in use and holds all of stage 2. *)
LEMMA StageFits ==
  ASSUME disk \in Disks, NEW n \in DOMAIN disk.entries, Chosen(n), Holds(disk.entries[n])
  PROVE  LET t == disk.entries[n].start * disk.lb
         IN t .. t + StageSectors - 1 \subseteq Sectors(disk, disk.entries[n])
<1> DEFINE e == disk.entries[n]
<1>1. /\ e \in GptEntry /\ disk.lb \in {1, 8} /\ StageSectors \in Nat /\ StageSectors <= 62
  BY DiskIs, ElementOfSeq, InstallAssumption, DiskAssumption
<1>2. e.used
  BY DiskAssumption DEF Chosen, Named, Autodetected, BiosBoot
<1>3. (e.end - e.start + 1) * disk.lb >= 64
  BY DEF Holds
<1> HIDE DEF e
<1>4. e.start \in Nat /\ e.end \in Nat
  BY <1>1 DEF GptEntry
<1>5. e.start * disk.lb + 64 <= (e.end + 1) * disk.lb
  <2>1. CASE disk.lb = 1
    BY <1>3, <1>4, <2>1
  <2>2. CASE disk.lb = 8
    BY <1>3, <1>4, <2>2
  <2> QED
    BY <1>1, <2>1, <2>2
<1>6. PICK t \in Nat, u \in Nat : t = e.start * disk.lb /\ u = (e.end + 1) * disk.lb
  BY <1>1, <1>4
<1>7. t .. t + StageSectors - 1 \subseteq t .. u - 1
  BY <1>1, <1>5, <1>6
<1> QED
  BY <1>2, <1>6, <1>7 DEF Sectors, e

LEMMA ActiveStep == ASSUME PathInv, ActiveInv, InstallNext PROVE ActiveInv'
<1> USE DEF Open, Done, Installed
<1>1. \A p \in Part : <<p, "active">> \in Cells /\ <<p, "active">> \in TableCells /\ <<p, "active">> \in SavedCells
  BY CellsAre
<1>2. Part = 1 .. 4
  BY DEF Part
<1>3. ASSUME UNCHANGED <<disk, opt, target>>, ChosenInv PROVE ChosenInv'
  BY <1>3 DEF ChosenInv, BiosBoot, GptSectors
<1>4. CASE ParseArg \/ ArgsDone \/ Gather \/ Gathered \/ NoConversion
  <2>1. /\ status = "open" /\ status' = "open" /\ at' \in Early \cup Converting \cup {"exit"}
        /\ at \in Early /\ UNCHANGED any_active /\ at # "part"
    BY <1>4, ParseArgIs, ArgsDoneIs, GatherIs, GatheredIs DEF PathInv
  <2> QED
    BY <2>1 DEF ActiveInv
<1>5. CASE Probe
  <2>1. status = "open" /\ status' = "open" /\ at = "probe" /\ at' \in {"gather", "part", "mbr"} /\ UNCHANGED any_active
    BY <1>5, ProbeIs
  <2> QED
    BY <2>1 DEF ActiveInv
<1>6. CASE WipePrimary \/ WipeSecondary \/ WriteDiskId
  <2>1. status = "open" /\ status' = "open" /\ at \in Converting /\ at' \in Converting /\ UNCHANGED any_active
    BY <1>6, WipeIs, DiskIdIs
  <2> QED
    BY <2>1 DEF ActiveInv
<1>7. CASE WriteEntries
  <2>1. status = "open" /\ status' = "open" /\ at = "entries" /\ at' \in {"entries", "mbr"} /\ UNCHANGED any_active
    BY <1>7, EntriesIs
  <2> QED
    BY <2>1 DEF ActiveInv
<1>8. CASE MbrFlag
  <2> DEFINE x == <<loop + 1, "active">>
  <2>1. status = "open" /\ status' = "open" /\ at = "mbr" /\ at' = "mbr" /\ loop \in 0 .. 3
    BY <1>8, FlagIs DEF PathInv
  <2>2. any_active /\ (loop = 0 \/ mbr) => Active(content, loop)
    BY <2>1 DEF ActiveInv
  <2>3. CASE /\ UNCHANGED <<mbr, any_active, loop>>
             /\ \A c \in Cells : content'[c] = IF c = x THEN Masked(content[x]) ELSE content[c]
    <3>1. \A p \in 1 .. loop : content'[<<p, "active">>] = content[<<p, "active">>]
      BY <1>1, <1>2, <2>1, <2>3
    <3>2. Active(content, loop) => Active(content, loop)'
      BY <2>3, <3>1 DEF Active
    <3> QED
      BY <2>1, <2>2, <2>3, <3>2 DEF ActiveInv
  <2>4. CASE /\ loop' = loop + 1 /\ UNCHANGED content
             /\ mbr' = (~BadFlag(content[x]) /\ (loop = 0 \/ mbr))
             /\ any_active' = (any_active \/ content[x] >= 128)
    <3>1. content[x] >= 128 /\ ~BadFlag(content[x]) => content[x] = 128
      BY DEF BadFlag
    <3>2. Active(content, loop) => Active(content, loop)'
      BY <2>1, <2>4 DEF Active
    <3>3. content[x] = 128 => Active(content, loop)'
      BY <2>1, <2>4 DEF Active
    <3>4. any_active' /\ mbr' => Active(content, loop)'
      BY <2>2, <2>4, <3>1, <3>2, <3>3
    <3>5. loop' # 0
      BY <2>1, <2>4
    <3> QED
      BY <2>1, <3>4, <3>5 DEF ActiveInv
  <2> QED
    BY <1>8, <2>3, <2>4, FlagIs
<1>9. CASE MbrChecked
  <2>1. /\ status = "open" /\ status' = "open" /\ at = "mbr" /\ at' = "hints0" /\ loop = 4 /\ mbr
        /\ UNCHANGED <<content, any_active>>
    BY <1>9, CheckedIs
  <2>2. any_active => Active(content, 4)
    BY <2>1 DEF ActiveInv
  <2>3. any_active' => Active(content, 4)'
    BY <2>1, <2>2 DEF Active
  <2> QED
    BY <2>1, <2>3 DEF ActiveInv
<1>10. CASE SetActive
  <2>1. /\ status = "open" /\ status' = "open" /\ at = "active" /\ at' = "save" /\ ~gpt'
    BY <1>10, ActiveIs DEF PathInv
  <2>2. CASE any_active
    <3>1. Active(content, 4)
      BY <2>1, <2>2 DEF ActiveInv
    <3>2. content' = content
      BY <1>10, <2>2, ActiveIs
    <3>3. Active(content, 4)'
      BY <3>1, <3>2 DEF Active
    <3> QED
      BY <2>1, <3>3 DEF ActiveInv
  <2>3. CASE ~any_active
    <3>1. content'[<<1, "active">>] = 128
      BY <1>1, <1>2, <1>10, <2>3, ActiveIs
    <3>2. Active(content, 4)'
      BY <3>1 DEF Active
    <3> QED
      BY <2>1, <3>2 DEF ActiveInv
  <2> QED
    BY <2>2, <2>3
<1>11. CASE ChoosePartition
  <2>1. status' = "open" /\ at' = "hints5" /\ UNCHANGED <<disk, opt>>
    BY <1>11, ChooseIs
  <2>2. PICK n \in DOMAIN disk.entries :
          Chosen(n) /\ Holds(disk.entries[n]) /\ target' = disk.entries[n].start * disk.lb
    BY <1>11, ChooseIs
  <2>3. IF opt.ndx >= 0 THEN n = opt.ndx ELSE BiosBoot(disk.entries[n])
    BY <2>2 DEF Chosen, Autodetected
  <2>4. target' .. target' + StageSectors - 1 \subseteq Sectors(disk, disk.entries[n])
    BY <2>2, StageFits DEF PathInv
  <2>5. ChosenInv'
    BY <2>1, <2>2, <2>3, <2>4 DEF ChosenInv, BiosBoot, GptSectors
  <2> QED
    BY <2>1, <2>5 DEF ActiveInv
<1>12. CASE ValidateOrForce(0, <<"hints0", "active">>)
  <2>1. /\ status = "open" /\ status' = "open" /\ at = "hints0" /\ at' \in {"hints0", "active"} /\ UNCHANGED any_active
        /\ \A c \in Cells : c \in SavedCells => content'[c] = content[c]
    BY <1>12, HintsIs
  <2>2. any_active => Active(content, 4)
    BY <2>1 DEF ActiveInv
  <2>3. any_active' => Active(content, 4)'
    BY <1>1, <1>2, <2>1, <2>2 DEF Active
  <2> QED
    BY <2>1, <2>3 DEF ActiveInv
<1>13. CASE ValidateOrForce(5, <<"hints5", "save">>)
  <2>1. /\ status = "open" /\ status' = "open" /\ at = "hints5" /\ at' \in {"hints5", "save"}
        /\ UNCHANGED <<disk, opt, target, gpt>> /\ gpt
    BY <1>13, HintsIs DEF PathInv
  <2>2. ChosenInv'
    BY <1>3, <2>1 DEF ActiveInv
  <2> QED
    BY <2>1, <2>2 DEF ActiveInv
<1>14. CASE SaveTable
  <2>1. /\ status = "open" /\ status' = "open" /\ at = "save" /\ at' = "boot"
        /\ UNCHANGED <<disk, opt, target, gpt>> /\ \A c \in SavedCells : saved'[c] = content[c]
    BY <1>14, SaveIs
  <2>2. gpt' => ChosenInv'
    BY <1>3, <2>1 DEF ActiveInv
  <2>3. ~gpt' => Active(content, 4)
    BY <2>1 DEF ActiveInv
  <2>4. ~gpt' => Active(saved, 4)'
    BY <1>1, <1>2, <2>1, <2>3 DEF Active
  <2> QED
    BY <2>1, <2>2, <2>4 DEF ActiveInv
<1>15. CASE WriteBootSector \/ WriteStage2 \/ WriteStage2Loc \/ WriteTimestamp
  <2>1. /\ status = "open" /\ status' = "open" /\ at \in Final /\ at' \in Final
        /\ UNCHANGED <<disk, opt, target, gpt, saved>>
    BY <1>15, BootIs, Stage2Is, LocIs, StampIs DEF Installs
  <2>2. gpt' => ChosenInv'
    BY <1>3, <2>1 DEF ActiveInv
  <2>3. ~gpt' => Active(saved, 4)
    BY <2>1 DEF ActiveInv
  <2>4. ~gpt' => Active(saved, 4)'
    BY <2>1, <2>3 DEF Active
  <2> QED
    BY <2>1, <2>2, <2>4 DEF ActiveInv
<1>16. CASE WriteTable
  <2>1. /\ status = "open" /\ status' = "open" /\ at = "table" /\ at' = "flush"
        /\ UNCHANGED <<disk, opt, target, gpt>>
        /\ \A c \in Cells : c \in TableCells => content'[c] = saved[c]
    BY <1>16, TableIs DEF Installs
  <2>2. gpt' => ChosenInv'
    BY <1>3, <2>1 DEF ActiveInv
  <2>3. ~gpt' => Active(saved, 4)
    BY <2>1 DEF ActiveInv
  <2>4. ~gpt' => Active(content, 4)'
    BY <1>1, <1>2, <2>1, <2>3 DEF Active
  <2> QED
    BY <2>1, <2>2, <2>4 DEF ActiveInv
<1>17. CASE Flush
  <2>1. /\ status = "open" /\ status' = "committed" /\ at = "flush" /\ at' = "exit"
        /\ UNCHANGED <<disk, opt, target, gpt, content>>
    BY <1>17, FlushIs
  <2>2. gpt' => ChosenInv'
    BY <1>3, <2>1 DEF ActiveInv
  <2>3. ~gpt' => Active(content, 4)
    BY <2>1 DEF ActiveInv
  <2>4. ~gpt' => Active(content, 4)'
    BY <2>1, <2>3 DEF Active
  <2> QED
    BY <2>1, <2>2, <2>4 DEF ActiveInv
<1>18. CASE Fails \/ Undo
  <2>1. status' \in {"undoing", "undone", "damaged"}
    BY <1>18, FailsIs, UndoIs
  <2> QED
    BY <2>1 DEF ActiveInv
<1> QED
  BY <1>4, <1>5, <1>6, <1>7, <1>8, <1>9, <1>10, <1>11, <1>12, <1>13, <1>14, <1>15, <1>16, <1>17, <1>18
  DEF InstallNext

----------------------------------------------------------------------------
LEMMA StageStep == ASSUME PathInv, StageInv, InstallNext PROVE StageInv'
<1> USE DEF Open, Done, Installed
<1> SUFFICES ASSUME target' # 0 PROVE StageInv'
  BY DEF StageInv
<1> DEFINE code == <<0, "code">>
           loc == <<0, "s2loc">>
           stamp == <<0, "stamp">>
<1>1. /\ code \in Cells /\ loc \in Cells /\ code \in Sector0
      /\ code \notin TableCells /\ loc \notin TableCells /\ code # loc /\ code # stamp /\ loc # stamp
  BY CellsAre
<1>2. CASE ParseArg \/ ArgsDone \/ Gather \/ Gathered \/ NoConversion \/ Probe \/ WipePrimary \/ WipeSecondary
             \/ WriteDiskId \/ WriteEntries \/ MbrFlag
  <2>1. status' = "open" /\ at' \in Early \cup Converting \cup {"mbr", "exit"}
    BY <1>2, ParseArgIs, ArgsDoneIs, GatherIs, GatheredIs, ProbeIs, WipeIs, DiskIdIs, EntriesIs, FlagIs DEF PathInv
  <2> QED
    BY <2>1 DEF StageInv
<1>3. CASE MbrChecked \/ SetActive \/ ChoosePartition \/ ValidateOrForce(0, <<"hints0", "active">>)
             \/ ValidateOrForce(5, <<"hints5", "save">>) \/ SaveTable
  <2>1. status' = "open" /\ at' \in Checking \cup {"hints5", "save", "boot"}
    BY <1>3, CheckedIs, ActiveIs, ChooseIs, HintsIs, SaveIs DEF PathInv
  <2> QED
    BY <2>1 DEF StageInv
<1>4. CASE WriteBootSector
  <2>1. status' = "open" /\ at' = "stage2"
    BY <1>4, BootIs DEF Installs
  <2>2. content'[code] = 9
    BY <1>1, <1>4, BootIs DEF Image
  <2> QED
    BY <2>1, <2>2 DEF StageInv
<1>5. CASE WriteStage2
  <2>1. status = "open" /\ status' = "open" /\ at = "stage2" /\ at' = "s2loc" /\ UNCHANGED target /\ target \in Nat
    BY <1>5, Stage2Is DEF Installs, PathInv
  <2>2. code \notin StageCells
    BY <2>1 DEF StageCells, Hints
  <2>3. content'[code] = 9
    BY <1>1, <1>5, <2>1, <2>2, Stage2Is DEF StageInv
  <2>4. target .. target + StageSectors - 1 \subseteq touched'
    <3>1. (target .. target + StageSectors - 1) \ {0} \subseteq touched'
      BY <1>5, Stage2Is
    <3> QED
      BY <2>1, <3>1, InstallAssumption
  <2> QED
    BY <2>1, <2>3, <2>4 DEF StageInv
<1>6. CASE WriteStage2Loc
  <2>1. /\ status = "open" /\ status' = "open" /\ at = "s2loc" /\ at' = "stamp" /\ UNCHANGED target
        /\ touched \subseteq touched'
    BY <1>6, LocIs DEF Installs
  <2>2. content[code] = 9 /\ target .. target + StageSectors - 1 \subseteq touched
    BY <2>1 DEF StageInv
  <2>3. content'[code] = 9 /\ content'[loc] = target
    BY <1>1, <1>6, <2>2, LocIs
  <2> QED
    BY <2>1, <2>2, <2>3 DEF StageInv
<1>7. CASE WriteTimestamp \/ WriteTable
  <2>1. /\ status = "open" /\ status' = "open" /\ at \in {"stamp", "table"} /\ at' \in {"table", "flush"}
        /\ UNCHANGED target /\ touched \subseteq touched'
    BY <1>7, StampIs, TableIs DEF Installs
  <2>2. content[code] = 9 /\ content[loc] = target /\ target .. target + StageSectors - 1 \subseteq touched
    BY <2>1 DEF StageInv
  <2>3. content'[code] = content[code] /\ content'[loc] = content[loc]
    BY <1>1, <1>7, StampIs, TableIs
  <2> QED
    BY <2>1, <2>2, <2>3 DEF StageInv
<1>8. CASE Flush
  <2>1. status = "open" /\ status' = "committed" /\ at = "flush" /\ at' = "exit" /\ UNCHANGED <<target, content, touched>>
    BY <1>8, FlushIs
  <2> QED
    BY <2>1 DEF StageInv
<1>9. CASE Fails \/ Undo
  <2>1. status' \in {"undoing", "undone", "damaged"}
    BY <1>9, FailsIs, UndoIs
  <2> QED
    BY <2>1 DEF StageInv
<1> QED
  BY <1>2, <1>3, <1>4, <1>5, <1>6, <1>7, <1>8, <1>9 DEF InstallNext

----------------------------------------------------------------------------
LEMMA GatherStep == ASSUME PathInv, GatherInv, InstallNext PROVE GatherInv'
<1> USE DEF Open, Done, Installed
<1> DEFINE All == UsedOf(Len(disk.entries))
<1>1. ASSUME UNCHANGED <<conv, disk>>
      PROVE  /\ UNCHANGED <<Members(conv), All>>
             /\ \A p \in DOMAIN conv' : FitsMbr(conv[p])'
  BY <1>1 DEF Members, UsedOf, GatherInv, FitsMbr
<1>2. CASE ParseArg \/ ArgsDone
  <2>1. status' = "open" /\ at' \in {"args", "probe", "exit"} /\ UNCHANGED <<conv, disk>>
    BY <1>2, ParseArgIs, ArgsDoneIs DEF PathInv
  <2> QED
    BY <1>1, <2>1 DEF GatherInv
<1>3. CASE Probe
  <2>1. status' = "open" /\ loop' = 0 /\ UNCHANGED <<conv, disk>> /\ conv = <<>> /\ disk \in Disks
    BY <1>3, ProbeIs DEF PathInv
  <2>2. Members(conv)' = {} /\ UsedOf(loop)' = {} /\ Len(disk'.entries) \in Nat
    BY <2>1, DiskIs, LenProperties DEF Members, UsedOf
  <2>3. CASE gpt'
    <3>1. at' \in {"gather", "part"}
      BY <1>3, <2>3, ProbeIs
    <3>2. (loop <= Len(disk.entries))' /\ (Members(conv) = UsedOf(loop))'
      <4> DEFINE k == Len(disk.entries)'
      <4>1. k \in Nat /\ loop' = 0
        BY <2>1, <2>2
      <4> HIDE DEF k
      <4>2. loop' <= k
        BY ONLY <4>1
      <4> QED
        BY <2>2, <4>2 DEF k
    <3>3. \A p \in DOMAIN conv' : FitsMbr(conv[p])'
      BY <1>1, <2>1
    <3> QED
      BY <2>1, <3>1, <3>2, <3>3 DEF GatherInv
  <2>4. CASE ~gpt'
    <3>1. at' = "mbr" /\ ~Converted'
      BY <1>3, <2>4, ProbeIs DEF Converted, PathInv
    <3> QED
      BY <1>1, <2>1, <3>1 DEF GatherInv
  <2> QED
    BY <2>3, <2>4
<1>4. CASE Gather
  <2> DEFINE e == disk.entries[loop + 1]
  <2>1. /\ status' = "open" /\ status = "open" /\ at = "gather" /\ at' = "gather" /\ loop' = loop + 1 /\ disk' = disk
        /\ loop + 1 \in 1 .. Len(disk.entries) /\ e \in GptEntry
        /\ IF e.used THEN FitsMbr(e) /\ conv' = Append(conv, e) ELSE conv' = conv
    BY <1>4, GatherIs
  <2>2. loop \in Nat /\ conv \in Seq(GptEntry) /\ Members(conv) = UsedOf(loop) /\ Len(conv) \in Nat
    BY <2>1, LenProperties DEF PathInv, GatherInv
  <2>3. 1 .. loop + 1 = (1 .. loop) \cup {loop + 1}
    BY <2>2
  <2>4. UsedOf(loop)' = IF e.used THEN UsedOf(loop) \cup {e} ELSE UsedOf(loop)
    BY <2>1, <2>3 DEF UsedOf
  <2> HIDE DEF e
  <2>5. CASE e.used
    <3>1. /\ conv' \in Seq(GptEntry) /\ DOMAIN conv' = (DOMAIN conv) \cup {Len(conv) + 1}
          /\ conv'[Len(conv) + 1] = e /\ \A p \in DOMAIN conv : conv'[p] = conv[p]
      <4>1. conv' = Append(conv, e) /\ Len(conv') = Len(conv) + 1 /\ conv' \in Seq(GptEntry)
            /\ \A p \in 1 .. Len(conv) : conv'[p] = conv[p]
            /\ conv'[Len(conv) + 1] = e
        BY <2>1, <2>2, <2>5, AppendProperties, SMTT(30)
      <4>2. DOMAIN conv' = 1 .. Len(conv) + 1 /\ DOMAIN conv = 1 .. Len(conv)
        BY <2>2, <4>1, LenProperties
      <4> QED
        BY <2>2, <4>1, <4>2
    <3>2. Members(conv)' = Members(conv) \cup {e}
      BY <3>1 DEF Members
    <3>3. \A p \in DOMAIN conv' : FitsMbr(conv[p])'
      BY <2>1, <2>5, <3>1 DEF FitsMbr, GatherInv
    <3> QED
      BY <2>1, <2>2, <2>4, <2>5, <3>2, <3>3 DEF GatherInv
  <2>6. CASE ~e.used
    <3>1. UNCHANGED <<conv, disk>>
      BY <2>1, <2>6
    <3> QED
      BY <1>1, <2>1, <2>2, <2>4, <2>6, <3>1 DEF GatherInv
  <2> QED
    BY <2>5, <2>6
<1>5. CASE Gathered \/ NoConversion
  <2>1. /\ status = "open" /\ status' = "open" /\ at = "gather" /\ UNCHANGED <<conv, disk>>
        /\ at' = "part" \/ (at' = "wipe1" /\ loop = Len(disk.entries))
    BY <1>5, GatheredIs
  <2>2. Members(conv) = UsedOf(loop)
    BY <2>1 DEF GatherInv
  <2> QED
    BY <1>1, <2>1, <2>2 DEF GatherInv
<1>6. CASE WipePrimary \/ WipeSecondary \/ WriteDiskId \/ WriteEntries
  <2>1. /\ status = "open" /\ status' = "open" /\ at \in Converting /\ at' \in Converting \cup {"mbr"}
        /\ UNCHANGED <<conv, disk>>
    BY <1>6, WipeIs, DiskIdIs, EntriesIs
  <2>2. Members(conv) = All
    BY <2>1 DEF GatherInv
  <2> QED
    BY <1>1, <2>1, <2>2 DEF GatherInv
<1>7. CASE ChoosePartition
  <2>1. status' = "open" /\ at' = "hints5" /\ UNCHANGED <<conv, disk>>
    BY <1>7, ChooseIs
  <2> QED
    BY <1>1, <2>1 DEF GatherInv
<1>8. CASE ValidateOrForce(5, <<"hints5", "save">>)
  <2>1. status' = "open" /\ at' \in {"hints5", "save"} /\ UNCHANGED <<conv, disk>> /\ gpt'
    BY <1>8, HintsIs DEF PathInv
  <2> QED
    BY <1>1, <2>1 DEF GatherInv, Converted
<1>9. CASE \/ MbrFlag \/ MbrChecked \/ SetActive \/ ValidateOrForce(0, <<"hints0", "active">>) \/ SaveTable
           \/ WriteBootSector \/ WriteStage2 \/ WriteStage2Loc \/ WriteTimestamp \/ WriteTable \/ Flush
  <2>1. /\ status = "open" /\ at \in Checking \cup {"save", "flush"} \cup Final
        /\ at' \in Checking \cup {"save", "flush", "exit"} \cup Final
        /\ UNCHANGED <<conv, disk, orig, gpt>>
    BY <1>9, FlagIs, CheckedIs, ActiveIs, HintsIs, SaveIs, BootIs, Stage2Is, LocIs, StampIs, TableIs, FlushIs
    DEF Installs, PathInv
  <2>2. Converted' => Members(conv) = All
    BY <2>1 DEF GatherInv, Converted
  <2> QED
    BY <1>1, <2>1, <2>2 DEF GatherInv
<1>10. CASE Fails \/ Undo
  <2>1. status' \in {"undoing", "undone", "damaged"} /\ UNCHANGED <<conv, disk>>
    BY <1>10, FailsIs, UndoIs
  <2> QED
    BY <1>1, <2>1 DEF GatherInv
<1> QED
  BY <1>2, <1>3, <1>4, <1>5, <1>6, <1>7, <1>8, <1>9, <1>10 DEF InstallNext

----------------------------------------------------------------------------
(* A write of a table entry: what the loop counter says. *)
LEMMA EntryCounter ==
  ASSUME NEW k \in Nat
  PROVE  /\ k \div 5 \in Nat /\ k % 5 \in 0 .. 4 /\ k = 5 * (k \div 5) + (k % 5)
  BY SMT

LEMMA EntryWrite ==
  ASSUME NEW e \in GptEntry, FitsMbr(e)
  PROVE  /\ EntryField(1) = "type" /\ EntryField(2) = "lba" /\ EntryField(3) = "count"
         /\ EntryField(4) = "lba" /\ EntryField(5) = "count"
         /\ EntryValue(e, 1) = 7
         /\ \A n \in {2, 4} : EntryValue(e, n) = e.start
         /\ \A n \in {3, 5} : EntryValue(e, n) = e.end - e.start + 1
<1>1. /\ EntryField(1) = "type" /\ EntryField(2) = "lba" /\ EntryField(3) = "count"
      /\ EntryField(4) = "lba" /\ EntryField(5) = "count"
  BY DEF EntryField
<1>2. EntryValue(e, 1) = 7 /\ \A n \in {2, 4} : EntryValue(e, n) = e.start
  BY <1>1 DEF EntryValue
<1>3. (e.end - e.start + 1) % (UINT32_MAX + 1) = e.end - e.start + 1
  <2> DEFINE k == e.end - e.start + 1
  <2>1. k \in 0 .. UINT32_MAX /\ UINT32_MAX \in Nat
    BY InstallAssumption DEF FitsMbr
  <2> HIDE DEF k
  <2>2. \A m \in Nat : m > 0 /\ k < m => k % m = k
    BY <2>1, SMT
  <2>3. k % (UINT32_MAX + 1) = k
    BY <2>1, <2>2
  <2> QED
    BY <2>3 DEF k
<1>4. \A n \in {3, 5} : EntryValue(e, n) = (e.end - e.start + 1) % (UINT32_MAX + 1)
  BY <1>1 DEF EntryValue
<1> QED
  BY <1>1, <1>2, <1>3, <1>4

LEMMA BlockCells ==
  ASSUME disk \in Disks
  PROVE  /\ \A p \in Part : <<p, "type">> \in LbaCells(0)
         /\ <<0, "gpt1">> \in LbaCells(1)
         /\ <<0, "gpt2">> \in LbaCells(disk.alt)
<1>1. disk.lb \in {1, 8}
  BY DiskIs
<1>2. 0 \in LbaSectors(0)
  BY <1>1 DEF LbaSectors
<1>3. \A p \in Part : <<p, "type">> \in Sector0
  BY CellsAre
<1> QED
  BY <1>2, <1>3 DEF LbaCells

LEMMA ConvStep == ASSUME PathInv, UsedInv, GatherInv, ConvInv, InstallNext PROVE ConvInv'
<1> USE DEF Open, Done, Installed
<1> DEFINE g1 == <<0, "gpt1">>
           g2 == <<0, "gpt2">>
<1>1. /\ g1 \in Cells /\ g2 \in Cells /\ g1 \notin Sector0 /\ g2 \notin Sector0 /\ g1 # g2
      /\ TableCells \subseteq SavedCells /\ SavedCells \subseteq Sector0
  BY CellsAre
<1>2. \A p \in Part : \A h \in {"type", "lba", "count"} : <<p, h>> \in Cells /\ <<p, h>> \in TableCells
  BY CellsAre
<1>3. ASSUME UNCHANGED conv, Listed(content),
             \A p \in Part : \A h \in {"type", "lba", "count"} : content'[<<p, h>>] = content[<<p, h>>]
      PROVE  Listed(content)'
  BY <1>3 DEF Listed
<1>4. ASSUME UNCHANGED <<conv, saved>>, Listed(saved) PROVE Listed(saved)'
  BY <1>4 DEF Listed
<1>5. ASSUME NoGpt, content'[g1] = content[g1], content'[g2] = content[g2] PROVE NoGpt'
  BY <1>5 DEF NoGpt, EfiPart
<1>6. CASE ParseArg \/ ArgsDone \/ Gather \/ Gathered \/ NoConversion
  <2>1. status' = "open" /\ at' \in Early \cup {"wipe1", "exit"} /\ (at' = "wipe1" => loop' = 0)
    BY <1>6, ParseArgIs, ArgsDoneIs, GatherIs, GatheredIs DEF PathInv
  <2>2. disk' \in Disks
    BY PathStep DEF PathInv
  <2>3. ~(0 > disk'.alt)
    BY <2>2, InstallAssumption
  <2> QED
    BY <2>1, <2>3 DEF ConvInv
<1>7. CASE Probe
  <2>1. status' = "open" /\ at' \in {"gather", "part", "mbr"} /\ (at' = "mbr" => ~Converted')
    BY <1>7, ProbeIs DEF PathInv, Converted
  <2> QED
    BY <2>1 DEF ConvInv
<1>8. CASE WipePrimary \/ WipeSecondary
  <2>1. /\ status = "open" /\ status' = "open" /\ at \in {"wipe1", "wipe2"} /\ at' \in {"wipe1", "wipe2", "id"}
        /\ disk' = disk /\ loop \in Nat /\ disk.alt \in Nat /\ disk \in Disks
    BY <1>8, WipeIs, DiskIs DEF PathInv
  <2>2. \A c \in Cells : content'[c] = IF c \in LbaCells(Block) THEN 0 ELSE content[c]
    BY <1>8, WipeIs
  <2>3. NoTypes => NoTypes'
    BY <1>2, <2>2 DEF NoTypes
  <2>4. content[g1] # EfiPart => content'[g1] # EfiPart
    BY <1>1, <2>2 DEF EfiPart
  <2>5. content[g2] # EfiPart => content'[g2] # EfiPart
    BY <1>1, <2>2 DEF EfiPart
  <2>6. Block = disk.alt => content'[g2] # EfiPart
    BY <1>1, <2>1, <2>2, BlockCells DEF EfiPart
  <2>7. CASE at = "wipe1"
    <3>1. Block = loop
      BY <2>7 DEF Block
    <3>2. loop = 0 => NoTypes'
      BY <1>2, <2>1, <2>2, <3>1, BlockCells DEF NoTypes
    <3>3. loop = 1 => content'[g1] # EfiPart
      BY <1>1, <2>1, <2>2, <3>1, BlockCells DEF EfiPart
    <3>4. /\ loop >= 1 => NoTypes
          /\ loop >= 2 => content[g1] # EfiPart
          /\ loop > disk.alt => content[g2] # EfiPart
      BY <2>1, <2>7 DEF ConvInv
    <3>5. NoTypes'
      BY <2>1, <2>3, <3>2, <3>4
    <3>6. loop >= 1 => content'[g1] # EfiPart
      BY <2>1, <2>4, <3>3, <3>4
    <3>7. loop >= disk.alt => content'[g2] # EfiPart
      BY <2>1, <2>5, <2>6, <3>1, <3>4
    <3>8. loop < 34
      BY <2>1, <2>7 DEF UsedInv
    <3>9. IF loop + 1 < 34 THEN loop' = loop + 1 /\ at' = "wipe1"
          ELSE at' = IF disk.alt >= 32 THEN "wipe2" ELSE "id"
      BY <1>8, <2>7, WipeIs
    <3>10. CASE loop + 1 < 34
      <4>1. /\ at' = "wipe1" /\ loop' = loop + 1
            /\ loop' >= 2 => content'[g1] # EfiPart
            /\ loop' > disk.alt => content'[g2] # EfiPart
        BY <2>1, <3>6, <3>7, <3>9, <3>10
      <4> QED
        BY <2>1, <3>5, <4>1 DEF ConvInv
    <3>11. CASE ~(loop + 1 < 34)
      <4>1. loop = 33
        BY <2>1, <3>8, <3>11
      <4>2. content'[g1] # EfiPart
        BY <3>6, <4>1
      <4>3. at' \in {"wipe2", "id"} /\ (at' = "id" => content'[g2] # EfiPart)
        BY <2>1, <3>7, <3>9, <3>11, <4>1
      <4> QED
        BY <2>1, <3>5, <4>2, <4>3 DEF ConvInv, NoGpt
    <3> QED
      BY <3>10, <3>11
  <2>8. CASE at = "wipe2"
    <3>1. NoTypes' /\ content'[g1] # EfiPart
      BY <2>1, <2>3, <2>4, <2>8 DEF ConvInv
    <3>2. loop < 33 /\ IF loop + 1 < 33 THEN at' = "wipe2" ELSE at' = "id"
      BY <1>8, <2>1, <2>8, WipeIs DEF UsedInv
    <3>3. at' = "id" => content'[g2] # EfiPart
      <4>1. at' = "id" => Block = disk.alt
        BY <2>1, <2>8, <3>2 DEF Block
      <4> QED
        BY <2>6, <4>1
    <3> QED
      BY <2>1, <3>1, <3>2, <3>3 DEF ConvInv, NoGpt
  <2> QED
    BY <2>1, <2>7, <2>8
<1>9. CASE WriteDiskId
  <2>1. /\ status = "open" /\ status' = "open" /\ at = "id" /\ at' \in {"id", "entries"} /\ conv' = conv
        /\ at' = "entries" => loop' = 0
        /\ \A c \in Cells : c # <<0, "id">> => content'[c] = content[c]
    BY <1>9, DiskIdIs
  <2>2. NoTypes /\ NoGpt
    BY <2>1 DEF ConvInv
  <2>3. NoGpt'
    BY <1>1, <1>5, <2>1, <2>2
  <2>4. NoTypes'
    BY <1>2, <2>1, <2>2 DEF NoTypes, Part
  <2>5. \A p \in Part : ~(0 >= 5 * p - 4) /\ ~(0 >= 5 * p - 3) /\ ~(0 >= 5 * p - 2)
    BY DEF Part
  <2> QED
    BY <2>1, <2>3, <2>4, <2>5 DEF ConvInv, NoTypes
<1>10. CASE WriteEntries
  <2>1. /\ status = "open" /\ status' = "open" /\ at = "entries" /\ conv' = conv /\ loop \in Nat
        /\ conv \in Seq(GptEntry) /\ Len(conv) \in Nat /\ Len(conv) <= 4 /\ DOMAIN conv = 1 .. Len(conv)
    BY <1>10, EntriesIs, LenProperties DEF PathInv
  <2>2. NoGpt
    BY <2>1 DEF ConvInv
  <2>3. \A p \in Part :
            IF p \in DOMAIN conv
            THEN /\ loop >= 5 * p - 4 => content[<<p, "type">>] # 0
                 /\ loop >= 5 * p - 3 => content[<<p, "lba">>] = conv[p].start
                 /\ loop >= 5 * p - 2 => content[<<p, "count">>] = conv[p].end - conv[p].start + 1
            ELSE content[<<p, "type">>] = 0
    BY <2>1 DEF ConvInv
  <2>4. CASE loop < 5 * Len(conv)
    <3> DEFINE q == (loop \div 5) + 1
               n == (loop % 5) + 1
               x == <<q, EntryField(n)>>
               v == EntryValue(conv[q], n)
    <3>1. /\ at' = "entries" /\ loop' = loop + 1
          /\ \A c \in Cells : content'[c] = IF c = x THEN v ELSE content[c]
      BY <1>10, <2>1, <2>4, EntriesIs
    <3>2. q \in Nat /\ n \in 1 .. 5 /\ loop = 5 * (q - 1) + (n - 1) /\ q >= 1
      BY <2>1, EntryCounter
    <3> HIDE DEF q, n
    <3>3. q \in DOMAIN conv /\ q \in Part
      <4>1. q <= Len(conv)
        BY <2>1, <2>4, <3>2
      <4> QED
        BY <2>1, <3>2, <4>1 DEF Part
    <3>4. conv[q] \in GptEntry /\ FitsMbr(conv[q])
      BY <2>1, <3>3, ElementOfSeq DEF GatherInv
    <3>5. /\ n = 1 => x = <<q, "type">> /\ v = 7
          /\ n \in {2, 4} => x = <<q, "lba">> /\ v = conv[q].start
          /\ n \in {3, 5} => x = <<q, "count">> /\ v = conv[q].end - conv[q].start + 1
      BY <3>4, EntryWrite
    <3>6. \E h \in {"type", "lba", "count"} : x = <<q, h>>
      BY <3>2, <3>5
    <3> HIDE DEF x, v
    <3>7. NoGpt'
      <4>1. x # g1 /\ x # g2
        BY <3>3, <3>6 DEF Part
      <4> QED
        BY <1>1, <1>5, <2>2, <3>1, <4>1
    <3>8. ASSUME NEW p \in Part
          PROVE  IF p \in DOMAIN conv
                 THEN /\ loop + 1 >= 5 * p - 4 => content'[<<p, "type">>] # 0
                      /\ loop + 1 >= 5 * p - 3 => content'[<<p, "lba">>] = conv[p].start
                      /\ loop + 1 >= 5 * p - 2 => content'[<<p, "count">>] = conv[p].end - conv[p].start + 1
                 ELSE content'[<<p, "type">>] = 0
      <4>1. CASE p # q
        <5>1. \A h \in {"type", "lba", "count"} : content'[<<p, h>>] = content[<<p, h>>]
          <6>1. \A h : x # <<p, h>>
            BY <3>6, <4>1
          <6> QED
            BY <1>2, <3>1, <6>1
        <5>2. p \in Nat
          BY DEF Part
        <5>3. /\ loop + 1 >= 5 * p - 4 => loop >= 5 * p - 4
              /\ loop + 1 >= 5 * p - 3 => loop >= 5 * p - 3
              /\ loop + 1 >= 5 * p - 2 => loop >= 5 * p - 2
          BY <2>1, <3>2, <4>1, <5>2
        <5> QED
          BY <2>3, <5>1, <5>3
      <4>2. CASE p = q
        <5>1. content'[x] = v
          BY <1>2, <3>1, <3>3, <3>6
        <5>2. \A h \in {"type", "lba", "count"} : x # <<q, h>> => content'[<<q, h>>] = content[<<q, h>>]
          BY <1>2, <3>1, <3>3
        <5>3. ASSUME loop + 1 >= 5 * q - 3 PROVE content'[<<q, "lba">>] = conv[q].start
          <6>1. n >= 2
            BY <3>2, <5>3
          <6>2. CASE n \in {2, 4}
            BY <3>5, <5>1, <6>2
          <6>3. CASE n \in {3, 5}
            <7>1. loop >= 5 * q - 3
              BY <3>2, <6>3
            <7>2. content[<<q, "lba">>] = conv[q].start
              BY <2>3, <3>3, <7>1
            <7> QED
              BY <3>5, <5>2, <6>3, <7>2
          <6> QED
            BY <3>2, <6>1, <6>2, <6>3
        <5>4. ASSUME loop + 1 >= 5 * q - 2 PROVE content'[<<q, "count">>] = conv[q].end - conv[q].start + 1
          <6>1. n >= 3
            BY <3>2, <5>4
          <6>2. CASE n \in {3, 5}
            BY <3>5, <5>1, <6>2
          <6>3. CASE n = 4
            <7>1. loop >= 5 * q - 2
              BY <3>2, <6>3
            <7>2. content[<<q, "count">>] = conv[q].end - conv[q].start + 1
              BY <2>3, <3>3, <7>1
            <7> QED
              BY <3>5, <5>2, <6>3, <7>2
          <6> QED
            BY <3>2, <6>1, <6>2, <6>3
        <5>5. content'[<<q, "type">>] # 0
          <6>1. CASE n = 1
            BY <3>5, <5>1, <6>1
          <6>2. CASE n \in {2, 3, 4, 5}
            <7>1. loop >= 5 * q - 4
              BY <3>2, <6>2
            <7>2. content[<<q, "type">>] # 0
              BY <2>3, <3>3, <7>1
            <7> QED
              BY <3>5, <5>2, <6>2, <7>2
          <6> QED
            BY <3>2, <6>1, <6>2
        <5> QED
          BY <3>3, <4>2, <5>3, <5>4, <5>5
      <4> QED
        BY <4>1, <4>2
    <3> QED
      BY <2>1, <3>1, <3>7, <3>8 DEF ConvInv
  <2>5. CASE ~(loop < 5 * Len(conv))
    <3>1. at' = "mbr" /\ content' = content
      BY <1>10, <2>1, <2>5, EntriesIs
    <3>2. \A p \in DOMAIN conv : loop >= 5 * p - 4 /\ loop >= 5 * p - 3 /\ loop >= 5 * p - 2
      BY <2>1, <2>5
    <3>3. Listed(content)'
      BY <2>1, <2>3, <3>1, <3>2 DEF Listed
    <3>4. NoGpt'
      BY <1>5, <2>2, <3>1
    <3> QED
      BY <2>1, <3>1, <3>3, <3>4 DEF ConvInv
  <2> QED
    BY <2>4, <2>5
<1>11. CASE MbrFlag \/ MbrChecked \/ SetActive \/ ValidateOrForce(0, <<"hints0", "active">>)
  <2>1. /\ status = "open" /\ status' = "open" /\ at \in Checking /\ at' \in Checking \cup {"save"}
        /\ UNCHANGED <<conv, orig, gpt>>
    BY <1>11, FlagIs, CheckedIs, ActiveIs, HintsIs DEF PathInv
  <2>2. content'[g1] = content[g1] /\ content'[g2] = content[g2]
    BY <1>1, <1>11, FlagIs, CheckedIs, ActiveIs, HintsIs
  <2>3. \A p \in Part : \A h \in {"type", "lba", "count"} : content'[<<p, h>>] = content[<<p, h>>]
    BY <1>1, <1>2, <1>11, FlagIs, CheckedIs, ActiveIs, HintsIs
  <2>4. Converted' => NoGpt /\ Listed(content)
    BY <2>1 DEF ConvInv, Converted
  <2> QED
    BY <1>3, <1>5, <2>1, <2>2, <2>3, <2>4 DEF ConvInv
<1>12. CASE ChoosePartition \/ ValidateOrForce(5, <<"hints5", "save">>)
  <2>1. status' = "open" /\ at' \in {"hints5", "save"} /\ gpt'
    BY <1>12, ChooseIs, HintsIs DEF PathInv
  <2> QED
    BY <2>1 DEF ConvInv, Converted
<1>13. CASE SaveTable
  <2>1. /\ status = "open" /\ status' = "open" /\ at = "save" /\ at' = "boot" /\ UNCHANGED <<conv, orig, gpt, content>>
        /\ \A c \in SavedCells : saved'[c] = content[c]
    BY <1>13, SaveIs
  <2>2. Converted' => NoGpt /\ Listed(content)
    BY <2>1 DEF ConvInv, Converted
  <2>3. Converted' => Listed(saved)'
    BY <1>1, <1>2, <2>1, <2>2 DEF Listed
  <2> QED
    BY <1>5, <2>1, <2>2, <2>3 DEF ConvInv
<1>14. CASE WriteBootSector \/ WriteStage2 \/ WriteStage2Loc \/ WriteTimestamp
  <2>1. /\ status = "open" /\ status' = "open" /\ at \in Final /\ at' \in Final /\ UNCHANGED <<conv, orig, gpt, saved>>
    BY <1>14, BootIs, Stage2Is, LocIs, StampIs DEF Installs
  <2>2. Converted' => NoGpt /\ Listed(saved)
    BY <2>1 DEF ConvInv, Converted
  <2>3. NoGpt => NoGpt'
    <3>1. \A c \in {g1, g2} : content'[c] = content[c] \/ content'[c] = Stage2
      BY <1>1, <1>14, BootIs, Stage2Is, LocIs, StampIs
    <3> QED
      BY <3>1 DEF NoGpt, EfiPart, Stage2
  <2> QED
    BY <1>4, <2>1, <2>2, <2>3 DEF ConvInv
<1>15. CASE WriteTable
  <2>1. /\ status = "open" /\ status' = "open" /\ at = "table" /\ at' = "flush" /\ UNCHANGED <<conv, orig, gpt, saved>>
    BY <1>15, TableIs DEF Installs
  <2>2. Converted' => NoGpt /\ Listed(saved)
    BY <2>1 DEF ConvInv, Converted
  <2>3. NoGpt => NoGpt'
    BY <1>1, <1>5, <1>15, TableIs
  <2>4. Listed(saved) => Listed(content)'
    BY <1>2, <1>15, <2>1, TableIs DEF Listed
  <2> QED
    BY <2>1, <2>2, <2>3, <2>4 DEF ConvInv
<1>16. CASE Flush
  <2>1. /\ status = "open" /\ status' = "committed" /\ at = "flush" /\ at' = "exit" /\ UNCHANGED <<conv, orig, gpt, content>>
    BY <1>16, FlushIs
  <2>2. Converted' => NoGpt /\ Listed(content)
    BY <2>1 DEF ConvInv, Converted
  <2> QED
    BY <1>3, <1>5, <2>1, <2>2 DEF ConvInv
<1>17. CASE Fails \/ Undo
  <2>1. status' \in {"undoing", "undone", "damaged"}
    BY <1>17, FailsIs, UndoIs
  <2> QED
    BY <2>1 DEF ConvInv
<1> QED
  BY <1>6, <1>7, <1>8, <1>9, <1>10, <1>11, <1>12, <1>13, <1>14, <1>15, <1>16, <1>17 DEF InstallNext

----------------------------------------------------------------------------
LEMMA GapStep == ASSUME PathInv, GapInv, InstallNext PROVE GapInv'
<1> USE DEF Open, Done, Installed
<1>1. \A p \in 1 .. 4 : \A h \in {"type", "lba"} :
        <<p, h>> \in Cells /\ <<p, h>> \in TableCells /\ <<p, h>> \in SavedCells
  BY CellsAre DEF Part
<1>2. ASSUME NEW f, NEW g, NEW n, n \in 0 .. 4, BehindGap(f, n),
             \A p \in 1 .. 4 : \A h \in {"type", "lba"} : g[<<p, h>>] = f[<<p, h>>]
      PROVE  BehindGap(g, n)
  BY <1>2 DEF BehindGap
<1>3. CASE ParseArg \/ ArgsDone \/ Gather \/ Gathered \/ NoConversion \/ WipePrimary \/ WipeSecondary \/ WriteDiskId
  <2>1. status' = "open" /\ at' \in Early \cup Converting \cup {"exit"}
    BY <1>3, ParseArgIs, ArgsDoneIs, GatherIs, GatheredIs, WipeIs, DiskIdIs DEF PathInv
  <2> QED
    BY <2>1 DEF GapInv
<1>4. CASE Probe \/ WriteEntries
  <2>1. status' = "open" /\ at' \in {"gather", "part", "entries", "mbr"} /\ (at' = "mbr" => loop' = 0)
    BY <1>4, ProbeIs, EntriesIs
  <2>2. BehindGap(content', 0)
    BY DEF BehindGap
  <2> QED
    BY <2>1, <2>2 DEF GapInv
<1>5. CASE MbrFlag
  <2>1. status = "open" /\ status' = "open" /\ at = "mbr" /\ at' = "mbr" /\ loop \in 0 .. 3
    BY <1>5, FlagIs DEF PathInv
  <2>2. BehindGap(content, loop)
    BY <2>1 DEF GapInv
  <2>3. CASE /\ loop' = loop
             /\ \A c \in Cells : content'[c] = IF c = <<loop + 1, "active">>
                                                THEN Masked(content[<<loop + 1, "active">>]) ELSE content[c]
    <3>1. \A p \in 1 .. 4 : \A h \in {"type", "lba"} : content'[<<p, h>>] = content[<<p, h>>]
      BY <1>1, <2>3
    <3>2. BehindGap(content', loop)
      BY <1>2, <2>1, <2>2, <3>1
    <3> QED
      BY <2>1, <2>3, <3>2 DEF GapInv
  <2>4. CASE loop' = loop + 1 /\ UNCHANGED content /\ ~TooLow(loop + 1)
    <3>1. content[<<loop + 1, "type">>] # 0 => content[<<loop + 1, "lba">>] >= 63
      <4>1. PICK q \in 1 .. 4 : q = loop + 1
        BY <2>1
      <4>2. content[<<q, "lba">>] \in Int
        BY <1>1 DEF PathInv
      <4> QED
        BY <2>4, <4>1, <4>2 DEF TooLow
    <3>2. \A p \in 1 .. loop + 1 : p \in 1 .. loop \/ p = loop + 1
      BY <2>1
    <3>3. BehindGap(content, loop + 1)
      BY <2>2, <3>1, <3>2 DEF BehindGap
    <3> QED
      BY <2>1, <2>4, <3>3 DEF GapInv
  <2> QED
    BY <1>5, <2>3, <2>4, FlagIs
<1>6. CASE MbrChecked
  <2>1. status = "open" /\ status' = "open" /\ at = "mbr" /\ at' = "hints0" /\ loop = 4 /\ UNCHANGED content
    BY <1>6, CheckedIs
  <2>2. BehindGap(content', 4)
    BY <2>1 DEF GapInv
  <2> QED
    BY <2>1, <2>2 DEF GapInv
<1>7. CASE SetActive \/ ValidateOrForce(0, <<"hints0", "active">>)
  <2>1. status = "open" /\ status' = "open" /\ at \in {"hints0", "active"} /\ at' \in {"hints0", "active", "save"}
    BY <1>7, ActiveIs, HintsIs DEF PathInv
  <2>2. \A p \in 1 .. 4 : \A h \in {"type", "lba"} : content'[<<p, h>>] = content[<<p, h>>]
    BY <1>1, <1>7, ActiveIs, HintsIs
  <2>3. BehindGap(content, 4)
    BY <2>1 DEF GapInv
  <2>4. BehindGap(content', 4)
    BY <1>2, <2>2, <2>3
  <2> QED
    BY <2>1, <2>4 DEF GapInv
<1>8. CASE ChoosePartition \/ ValidateOrForce(5, <<"hints5", "save">>)
  <2>1. status' = "open" /\ at' \in {"hints5", "save"} /\ gpt'
    BY <1>8, ChooseIs, HintsIs DEF PathInv
  <2> QED
    BY <2>1 DEF GapInv
<1>9. CASE SaveTable
  <2>1. /\ status = "open" /\ status' = "open" /\ at = "save" /\ at' = "boot" /\ UNCHANGED gpt
        /\ \A c \in SavedCells : saved'[c] = content[c]
    BY <1>9, SaveIs
  <2>2. ~gpt' => BehindGap(content, 4)
    BY <2>1 DEF GapInv
  <2>3. ~gpt' => BehindGap(saved', 4)
    BY <1>1, <1>2, <2>1, <2>2
  <2> QED
    BY <2>1, <2>3 DEF GapInv
<1>10. CASE WriteBootSector \/ WriteStage2 \/ WriteStage2Loc \/ WriteTimestamp
  <2>1. status = "open" /\ status' = "open" /\ at \in Final /\ at' \in Final /\ UNCHANGED <<gpt, saved>>
    BY <1>10, BootIs, Stage2Is, LocIs, StampIs DEF Installs
  <2> QED
    BY <2>1 DEF GapInv
<1>11. CASE WriteTable
  <2>1. /\ status = "open" /\ status' = "open" /\ at = "table" /\ at' = "flush" /\ UNCHANGED gpt
        /\ \A c \in Cells : c \in TableCells => content'[c] = saved[c]
    BY <1>11, TableIs DEF Installs
  <2>2. ~gpt' => BehindGap(saved, 4)
    BY <2>1 DEF GapInv
  <2>3. ~gpt' => BehindGap(content', 4)
    BY <1>1, <1>2, <2>1, <2>2
  <2> QED
    BY <2>1, <2>3 DEF GapInv
<1>12. CASE Flush
  <2>1. /\ status = "open" /\ status' = "committed" /\ at = "flush" /\ at' = "exit" /\ UNCHANGED <<gpt, content>>
    BY <1>12, FlushIs
  <2> QED
    BY <2>1 DEF GapInv
<1>13. CASE Fails \/ Undo
  <2>1. status' \in {"undoing", "undone", "damaged"}
    BY <1>13, FailsIs, UndoIs
  <2> QED
    BY <2>1 DEF GapInv
<1> QED
  BY <1>3, <1>4, <1>5, <1>6, <1>7, <1>8, <1>9, <1>10, <1>11, <1>12, <1>13 DEF InstallNext

----------------------------------------------------------------------------
(* The blocks that the two loops wipe, in sectors. *)
LEMMA BlockSectors ==
  ASSUME disk \in Disks, loop \in Nat,
         (at = "wipe1" /\ loop < 34) \/ (at = "wipe2" /\ loop < 33)
  PROVE  LbaSectors(Block) \ {0} \subseteq Wipeable
<1> DEFINE lb == disk.lb
           alt == disk.alt
           b == Block
<1>1. lb \in {1, 8} /\ alt \in Nat
  BY DiskIs
<1>2. (at = "wipe1" => b = loop) /\ (at = "wipe2" => b = alt - 32 + loop)
  BY DEF Block
<1> SUFFICES ASSUME NEW s \in LbaSectors(b), s # 0 PROVE s \in Wipeable
  OBVIOUS
<1> HIDE DEF lb, alt, b
<1>3. s \in b * lb .. (b + 1) * lb - 1
  BY DEF LbaSectors, lb
<1>4. CASE at = "wipe1" /\ loop < 34
  <2>1. b \in 0 .. 33
    BY <1>2, <1>4
  <2>2. CASE lb = 1
    BY <1>3, <2>1, <2>2 DEF Wipeable, lb
  <2>3. CASE lb = 8
    BY <1>3, <2>1, <2>3 DEF Wipeable, lb
  <2> QED
    BY <1>1, <2>2, <2>3
<1>5. CASE at = "wipe2" /\ loop < 33
  <2>1. b \in Int /\ alt - 32 <= b /\ b <= alt
    BY <1>1, <1>2, <1>5
  <2>2. s \in (alt - 32) * lb .. (alt + 1) * lb - 1
    <3>1. CASE lb = 1
      BY <1>1, <1>3, <2>1, <3>1
    <3>2. CASE lb = 8
      BY <1>1, <1>3, <2>1, <3>2
    <3> QED
      BY <1>1, <3>1, <3>2
  <2> QED
    BY <2>2 DEF Wipeable, SecondaryGpt, lb, alt
<1> QED
  BY <1>4, <1>5

LEMMA TouchedStep == ASSUME PathInv, UsedInv, TouchedInv, InstallNext PROVE TouchedInv'
<1> USE DEF Open, Done, Installed
<1>1. ASSUME UNCHANGED disk PROVE Wipeable' = Wipeable
  BY <1>1 DEF Wipeable
<1>2. ASSUME UNCHANGED <<disk, orig, gpt, touched>>, WipedOnly(touched) PROVE WipedOnly(touched)'
  BY <1>1, <1>2 DEF WipedOnly, Converted
<1>3. ASSUME UNCHANGED <<disk, orig, gpt, touched, target>>, WipedOnly(touched \ StageSpan)
      PROVE  WipedOnly(touched \ StageSpan)'
  BY <1>1, <1>3 DEF WipedOnly, Converted, StageSpan
<1>4. CASE ParseArg \/ ArgsDone \/ Gather \/ Gathered \/ NoConversion
  <2>1. /\ status = "open" /\ status' = "open" /\ at \in Early /\ at' \in Early \cup {"wipe1", "exit"}
        /\ UNCHANGED <<gpt, target, touched>>
    BY <1>4, ParseArgIs, ArgsDoneIs, GatherIs, GatheredIs DEF PathInv
  <2>2. target = 1 /\ touched = {}
    BY <2>1 DEF TouchedInv
  <2> QED
    BY <2>1, <2>2 DEF TouchedInv
<1>5. CASE Probe
  <2>1. /\ status = "open" /\ status' = "open" /\ at = "probe" /\ at' \in {"gather", "part", "mbr"}
        /\ UNCHANGED <<target, touched>>
    BY <1>5, ProbeIs
  <2>2. target = 1 /\ touched = {}
    BY <2>1 DEF TouchedInv
  <2> QED
    BY <2>1, <2>2 DEF TouchedInv, WipedOnly
<1>6. CASE WipePrimary \/ WipeSecondary
  <2>1. /\ status = "open" /\ status' = "open" /\ at \in {"wipe1", "wipe2"} /\ at' \in {"wipe1", "wipe2", "id"}
        /\ UNCHANGED <<disk, gpt, target>> /\ touched' = touched \cup (LbaSectors(Block) \ {0})
    BY <1>6, WipeIs
  <2>2. target = 1 /\ touched \subseteq Wipeable
    BY <2>1 DEF TouchedInv
  <2>3. LbaSectors(Block) \ {0} \subseteq Wipeable
    BY <2>1, BlockSectors DEF PathInv, UsedInv
  <2>4. touched' \subseteq Wipeable'
    BY <1>1, <2>1, <2>2, <2>3
  <2> QED
    BY <2>1, <2>2, <2>4 DEF TouchedInv
<1>7. CASE WriteDiskId \/ WriteEntries
  <2>1. /\ status = "open" /\ status' = "open" /\ at \in {"id", "entries"} /\ at' \in {"id", "entries", "mbr"}
        /\ UNCHANGED <<disk, orig, target, touched>> /\ ~gpt'
    <3>1. CASE WriteDiskId
      BY <3>1, DiskIdIs
    <3>2. CASE WriteEntries
      <4>1. at = "entries" /\ at' \in {"entries", "mbr"}
        BY <3>2, EntriesIs
      <4> QED
        BY <3>2, <4>1, EntriesIs DEF PathInv
    <3> QED
      BY <1>7, <3>1, <3>2
  <2>2. target = 1 /\ touched \subseteq Wipeable /\ orig[<<0, "gpt1">>] = EfiPart
    BY <2>1 DEF TouchedInv, PathInv
  <2>3. touched' \subseteq Wipeable'
    BY <1>1, <2>1, <2>2
  <2>4. WipedOnly(touched)'
    BY <2>1, <2>2, <2>3 DEF WipedOnly, Converted
  <2> QED
    BY <2>1, <2>2, <2>3, <2>4 DEF TouchedInv
<1>8. CASE MbrFlag \/ MbrChecked \/ SetActive \/ ValidateOrForce(0, <<"hints0", "active">>)
  <2>1. /\ status = "open" /\ status' = "open" /\ at \in Checking /\ at' \in Checking \cup {"save"}
        /\ UNCHANGED <<disk, orig, gpt, target, touched>>
    BY <1>8, FlagIs, CheckedIs, ActiveIs, HintsIs DEF PathInv
  <2>2. target = 1 /\ WipedOnly(touched)
    BY <2>1 DEF TouchedInv
  <2>3. WipedOnly(touched)'
    BY <1>2, <2>1, <2>2
  <2> QED
    BY <2>1, <2>2, <2>3 DEF TouchedInv
<1>9. CASE ChoosePartition \/ ValidateOrForce(5, <<"hints5", "save">>)
  <2>1. /\ status = "open" /\ status' = "open" /\ at \in {"part", "hints5"} /\ at' \in {"hints5", "save"}
        /\ touched' = touched /\ gpt'
    BY <1>9, ChooseIs, HintsIs DEF PathInv
  <2>2. touched' = {}
    BY <2>1 DEF TouchedInv
  <2> QED
    BY <2>1, <2>2 DEF TouchedInv, WipedOnly
<1>10. CASE SaveTable \/ WriteBootSector
  <2>1. /\ status = "open" /\ status' = "open" /\ at \in {"save", "boot"} /\ at' \in {"boot", "stage2"}
        /\ UNCHANGED <<disk, orig, gpt, target, touched>>
    BY <1>10, SaveIs, BootIs DEF Installs
  <2>2. WipedOnly(touched)'
    BY <1>2, <2>1 DEF TouchedInv
  <2> QED
    BY <2>1, <2>2 DEF TouchedInv
<1>11. CASE WriteStage2
  <2>1. /\ status = "open" /\ status' = "open" /\ at = "stage2" /\ at' = "s2loc"
        /\ UNCHANGED <<disk, orig, gpt, target>> /\ touched' = touched \cup (StageSpan \ {0})
    BY <1>11, Stage2Is DEF Installs, StageSpan
  <2>2. WipedOnly(touched)
    BY <2>1 DEF TouchedInv
  <2>3. StageSpan' = StageSpan
    BY <2>1 DEF StageSpan
  <2>4. touched' \ StageSpan' \subseteq touched
    BY <2>1, <2>3
  <2>5. WipedOnly(touched \ StageSpan)'
    BY <1>1, <2>1, <2>2, <2>4 DEF WipedOnly, Converted
  <2> QED
    BY <2>1, <2>5 DEF TouchedInv
<1>12. CASE WriteStage2Loc \/ WriteTimestamp \/ WriteTable
  <2>1. /\ status = "open" /\ status' = "open" /\ at \in {"s2loc", "stamp", "table"} /\ at' \in {"stamp", "table", "flush"}
        /\ UNCHANGED <<disk, orig, gpt, target, touched>>
    BY <1>12, LocIs, StampIs, TableIs DEF Installs
  <2>2. WipedOnly(touched \ StageSpan)'
    BY <1>3, <2>1 DEF TouchedInv
  <2> QED
    BY <2>1, <2>2 DEF TouchedInv
<1>13. CASE Flush
  <2>1. /\ status = "open" /\ status' = "committed" /\ at = "flush" /\ at' = "exit"
        /\ UNCHANGED <<disk, orig, gpt, target, touched>>
    BY <1>13, FlushIs
  <2>2. WipedOnly(touched \ StageSpan)'
    BY <1>3, <2>1 DEF TouchedInv
  <2> QED
    BY <2>1, <2>2 DEF TouchedInv
<1>14. CASE Fails \/ Undo
  <2>1. status' \in {"undoing", "undone", "damaged"} /\ UNCHANGED <<gpt, target>>
    BY <1>14, FailsIs, UndoIs
  <2> QED
    BY <2>1 DEF TouchedInv
<1> QED
  BY <1>4, <1>5, <1>6, <1>7, <1>8, <1>9, <1>10, <1>11, <1>12, <1>13, <1>14 DEF InstallNext

----------------------------------------------------------------------------
(* The inductive invariant of bios_install. *)
InstallInv ==
  PathInv /\ UsedInv /\ TableInv /\ ActiveInv /\ StageInv /\ GatherInv /\ ConvInv /\ GapInv /\ TouchedInv

LEMMA InstallStart == InstallInit => InstallInv
<1> SUFFICES ASSUME InstallInit PROVE InstallInv
  OBVIOUS
<1>1. /\ at = "args" /\ used = 0 /\ status = "open" /\ any_active = FALSE /\ conv = <<>>
      /\ target = 1 /\ touched = {}
  BY DEF InstallInit
<1>2. PathInv
  BY PathInit
<1>3. UsedInv /\ TableInv /\ StageInv /\ ConvInv
  BY <1>1 DEF UsedInv, TableInv, StageInv, ConvInv, Open, Done, Installed
<1>4. ActiveInv
  BY <1>1 DEF ActiveInv, Open, Done, Installed
<1>5. GatherInv
  BY <1>1 DEF GatherInv, Open, Done, Installed
<1>6. GapInv /\ TouchedInv
  BY <1>1 DEF GapInv, TouchedInv, Open, Done, Installed
<1> QED
  BY <1>2, <1>3, <1>4, <1>5, <1>6 DEF InstallInv

LEMMA InstallStep == InstallInv /\ [InstallNext]_installVars => InstallInv'
<1> SUFFICES ASSUME InstallInv, [InstallNext]_installVars PROVE InstallInv'
  OBVIOUS
<1>1. CASE InstallNext
  BY <1>1, PathStep, UsedStep, TableStep, ActiveStep, StageStep, GatherStep, ConvStep, GapStep, TouchedStep
  DEF InstallInv
<1>2. CASE UNCHANGED installVars
  <2>1. UNCHANGED <<disk, opt, at, loop, gpt, mbr, any_active, conv, target, saved, touched, content, orig, used, status>>
    BY <1>2 DEF installVars, progVars, devVars
  <2> USE DEF Open, Done, Installed, Converted
  <2>2. PathInv'
    BY <2>1 DEF InstallInv, PathInv
  <2>3. UsedInv'
    BY <2>1 DEF InstallInv, UsedInv, BadFlag
  <2>4. TableInv'
    BY <2>1 DEF InstallInv, TableInv, Kept, BadFlag
  <2>5. ActiveInv'
    BY <2>1 DEF InstallInv, ActiveInv, Active, ChosenInv, BiosBoot, GptSectors
  <2>6. StageInv'
    BY <2>1 DEF InstallInv, StageInv
  <2>7. GatherInv'
    <3>1. Members(conv)' = Members(conv) /\ \A n : UsedOf(n)' = UsedOf(n)
      BY <2>1 DEF Members, UsedOf
    <3>2. \A p : FitsMbr(conv[p])' <=> FitsMbr(conv[p])
      BY <2>1 DEF FitsMbr
    <3> QED
      BY <2>1, <3>1, <3>2 DEF InstallInv, GatherInv
  <2>8. ConvInv'
    BY <2>1 DEF InstallInv, ConvInv, NoGpt, NoTypes, Listed
  <2>9. GapInv'
    BY <2>1 DEF InstallInv, GapInv, BehindGap
  <2>10. TouchedInv'
    <3>1. WipedOnly(touched)' <=> WipedOnly(touched)
      BY <2>1 DEF WipedOnly, Wipeable
    <3>2. WipedOnly(touched \ StageSpan)' <=> WipedOnly(touched \ StageSpan)
      BY <2>1 DEF WipedOnly, Wipeable, StageSpan
    <3>3. Wipeable' = Wipeable
      BY <2>1 DEF Wipeable
    <3> QED
      BY <2>1, <3>1, <3>2, <3>3 DEF InstallInv, TouchedInv
  <2> QED
    BY <2>2, <2>3, <2>4, <2>5, <2>6, <2>7, <2>8, <2>9, <2>10 DEF InstallInv
<1> QED
  BY <1>1, <1>2

LEMMA InstallAlways == Spec => []InstallInv
<1>1. Init => InstallInv
  BY InstallStart DEF Init
<1>2. ASSUME [Next]_vars PROVE [InstallNext]_installVars
  <2>1. CASE BiosInstall
    BY <2>1 DEF BiosInstall
  <2>2. CASE Main \/ BiosInstallReturns \/ EnrollsConfig \/ Again \/ UNCHANGED vars
    BY <2>2 DEF Main, BiosInstallReturns, EnrollsConfig, Again, vars
  <2> QED
    BY <1>2, <2>1, <2>2 DEF Next, Step
<1>3. InstallInv /\ [Next]_vars => InstallInv'
  BY <1>2, InstallStep
<1> QED
  BY <1>1, <1>3, PTL DEF Spec

(* No path through bios_install runs out of entries of the undo journal:   *)
(* "Too many uninstall data entries! Please report this bug upstream." is  *)
(* never printed, for every device and every list of options.              *)
THEOREM JournalSuffices == Spec => []JournalNeverFull
<1>1. InstallInv => JournalNeverFull
  <2> SUFFICES ASSUME InstallInv, status = "open" PROVE used < UNINSTALL_DATA_MAX
    BY DEF JournalNeverFull
  <2>1. used \in Nat /\ loop \in Nat /\ Len(conv) \in Nat /\ Len(conv) <= 4
    BY LenProperties DEF InstallInv, PathInv
  <2>2. at \in Early \cup Converting \cup Checking \cup Final \cup {"hints5", "save", "flush", "exit"}
    BY DEF InstallInv, PathInv, Open
  <2>3. used <= 106
    BY <2>1, <2>2 DEF InstallInv, UsedInv, Open
  <2> QED
    BY <2>1, <2>3, InstallAssumption
<1> QED
  BY <1>1, InstallAlways, PTL

(* A successful installation leaves the partition table, the disk id and   *)
(* the timestamp as they were, but for the flags it had to repair or set,  *)
(* unless it turned a GPT into the table: the boot sector is written over  *)
(* them and they are put back from what was read before.                   *)
THEOREM InstallKeepsTable == Spec => []TableSurvives
<1>1. InstallInv => TableSurvives
  BY DEF InstallInv, TableInv, TableSurvives, Kept, Done
<1> QED
  BY <1>1, InstallAlways, PTL

(* After a conversion the MBR describes exactly the partitions of the GPT  *)
(* and nothing of the GPT is left, for every table, block size and place   *)
(* of the secondary header.                                                *)
THEOREM ConversionKeepsPartitions == Spec => []ConversionExact
<1>1. InstallInv => ConversionExact
  <2> SUFFICES ASSUME InstallInv, Installed, Converted PROVE ConversionExact
    BY DEF ConversionExact
  <2>1. Listed(content) /\ NoGpt
    BY DEF InstallInv, ConvInv, Done
  <2>2. Members(conv) = UsedOf(Len(disk.entries))
    BY DEF InstallInv, GatherInv, Done
  <2>3. DOMAIN disk.entries = 1 .. Len(disk.entries)
    BY DiskIs, LenProperties DEF InstallInv, PathInv
  <2>4. UsedOf(Len(disk.entries)) = {disk.entries[n] : n \in {m \in DOMAIN disk.entries : disk.entries[m].used}}
    BY <2>3 DEF UsedOf
  <2> QED
    BY <2>1, <2>2, <2>4 DEF ConversionExact, Listed, NoGpt
<1> QED
  BY <1>1, InstallAlways, PTL

(* After a successful installation the boot sector is there and names the  *)
(* place at which stage 2 is, the partition asked for or of the BIOS boot  *)
(* type, or the gap behind an MBR with an active partition.                *)
THEOREM InstallBoots == Spec => []BootChain
<1>1. InstallInv => BootChain
  <2> SUFFICES ASSUME InstallInv, Installed, target # 0 PROVE BootChain
    BY DEF BootChain
  <2>1. content[<<0, "code">>] = 9 /\ content[<<0, "s2loc">>] = target
    BY DEF InstallInv, StageInv, Done
  <2>2. target .. target + StageSectors - 1 \subseteq touched
    BY DEF InstallInv, StageInv, Done
  <2>3. gpt => ChosenInv
    BY DEF InstallInv, ActiveInv
  <2>4. ~gpt => Active(content, 4)
    BY DEF InstallInv, ActiveInv, Done
  <2> QED
    BY <2>1, <2>2, <2>3, <2>4 DEF BootChain, ChosenInv, Active, Part
<1> QED
  BY <1>1, InstallAlways, PTL

(* Whatever bios-install writes beyond the boot sector goes into the       *)
(* partition chosen for stage 2, or into the gap behind an MBR and the     *)
(* GPTs that a conversion removes, where no partition lies: every other    *)
(* partition is untouched, for every table and every list of options, and  *)
(* so is the volume descriptor of an ISO image outside of that partition.  *)
(* A conversion with blocks of 4096 bytes does hit what lies in the first  *)
(* 34 of them (limine.c:905), the descriptor among it, and nothing more.   *)
THEOREM InstallSparesData == Spec => []SparesData
<1>1. InstallInv => SparesData
  <2> SUFFICES ASSUME InstallInv, Installed PROVE SparesData
    BY DEF SparesData
  <2>1. /\ disk \in Disks /\ disk.lb \in {1, 8} /\ disk.alt \in Nat /\ target \in Nat /\ gpt \in BOOLEAN
        /\ StageSectors \in Nat /\ StageSectors <= 62 /\ content \in [Cells -> Int]
        /\ disk.entries \in Seq(GptEntry)
    BY DiskIs, InstallAssumption, DiskAssumption DEF InstallInv, PathInv
  <2>2. WipedOnly(touched \ StageSpan) /\ (~gpt => target = 1 /\ BehindGap(content, 4))
    BY DEF InstallInv, TouchedInv, GapInv, Done
  <2> DEFINE hit == touched \ Overwiped
  <2>3. CASE gpt
    <3>1. hit \subseteq StageSpan
      BY <2>2, <2>3 DEF WipedOnly, Converted
    <3>2. PICK n \in DOMAIN disk.entries :
            disk.entries[n].start * disk.lb = target /\ StageSpan \subseteq Sectors(disk, disk.entries[n])
      BY <2>3 DEF InstallInv, ActiveInv, ChosenInv, StageSpan, GptSectors
    <3>3. HoldsStage2(disk.entries[n])
      BY <2>3, <3>2 DEF HoldsStage2
    <3>4. ASSUME NEW m \in DOMAIN disk.entries, GptSectors(disk.entries[m]) \cap hit # {}
          PROVE  HoldsStage2(disk.entries[m])
      <4>1. Sectors(disk, disk.entries[m]) \cap Sectors(disk, disk.entries[n]) # {}
        BY <3>1, <3>2, <3>4 DEF GptSectors
      <4>2. m = n
        BY <2>1, <4>1, DiskAssumption
      <4> QED
        BY <3>3, <4>2
    <3> QED
      BY <2>3, <3>1, <3>2, <3>3, <3>4 DEF SparesData, GptSectors
  <2>4. CASE ~gpt
    <3>1. \A s \in hit : s \in 1 .. 62 \/ (Converted /\ s \in SecondaryGpt(disk))
      <4>1. StageSpan \subseteq 1 .. 62
        BY <2>1, <2>2, <2>4 DEF StageSpan
      <4>2. \A s \in hit \ StageSpan : Converted /\ (s \in 1 .. 33 \/ s \in SecondaryGpt(disk))
        <5>1. ASSUME NEW s \in hit \ StageSpan PROVE Converted /\ s \in Wipeable
          BY <2>2 DEF WipedOnly
        <5>2. CASE disk.lb = 1
          BY <5>1, <5>2 DEF Wipeable
        <5>3. CASE disk.lb = 8
          BY <5>1, <5>3 DEF Wipeable, Overwiped
        <5> QED
          BY <2>1, <5>2, <5>3
      <4>3. 1 .. 33 \subseteq 1 .. 62
        OBVIOUS
      <4> QED
        BY <4>1, <4>2, <4>3, Zenon
    <3>2. ~(disk.iso /\ 64 \in hit)
      <4>1. disk.iso => 64 \notin SecondaryGpt(disk)
        BY <2>1, DiskAssumption
      <4>2. 64 \notin 1 .. 62
        OBVIOUS
      <4> QED
        BY <3>1, <4>1, <4>2
    <3>3. CASE ~Converted
      <4>1. ASSUME NEW p \in Part PROVE MbrSectors(p) \cap hit = {}
        <5>1. content[<<p, "type">>] # 0 => content[<<p, "lba">>] >= 63
          BY <2>2, <2>4 DEF BehindGap, Part
        <5>2. content[<<p, "lba">>] \in Int /\ content[<<p, "count">>] \in Int
          BY <2>1, CellsAre
        <5>3. \A s \in MbrSectors(p) : s >= 63
          BY <5>1, <5>2 DEF MbrSectors
        <5>4. \A s \in hit : s \in 1 .. 62
          BY <3>1, <3>3
        <5> QED
          BY <5>3, <5>4
      <4> QED
        BY <2>4, <3>2, <3>3, <4>1 DEF SparesData
    <3>4. CASE Converted
      <4>2. ASSUME NEW n \in DOMAIN disk.entries PROVE GptSectors(disk.entries[n]) \cap hit = {}
        <5> DEFINE e == disk.entries[n]
        <5>1. CASE ~e.used
          BY <5>1 DEF GptSectors, Sectors
        <5>2. CASE e.used
          <6>1. PICK p \in DOMAIN conv : conv[p] = e
            <7>1. Members(conv) = UsedOf(Len(disk.entries))
              BY <3>4 DEF InstallInv, GatherInv, Done
            <7>2. n \in 1 .. Len(disk.entries)
              BY <2>1, LenProperties
            <7>3. e \in Members(conv)
              BY <5>2, <7>1, <7>2 DEF UsedOf
            <7> QED
              BY <7>3 DEF Members
          <6>2. p \in Part
            BY LenProperties DEF InstallInv, PathInv, Part
          <6>3. content[<<p, "type">>] # 0 /\ content[<<p, "lba">>] = e.start
            BY <3>4, <6>1, <6>2 DEF InstallInv, ConvInv, Done, Listed
          <6>4. e.start >= 63
            BY <2>2, <2>4, <6>2, <6>3 DEF BehindGap, Part
          <6>5. e \in GptEntry
            BY <2>1, ElementOfSeq
          <6> HIDE DEF e
          <6>6. e.start \in Nat /\ e.end \in Nat
            BY <6>5 DEF GptEntry
          <6>7. \A s \in GptSectors(e) : s >= 63
            <7>1. CASE disk.lb = 1
              BY <5>2, <6>4, <6>6, <7>1 DEF GptSectors, Sectors
            <7>2. CASE disk.lb = 8
              BY <5>2, <6>4, <6>6, <7>2 DEF GptSectors, Sectors
            <7> QED
              BY <2>1, <7>1, <7>2
          <6>8. GptSectors(e) \cap SecondaryGpt(disk) = {}
            BY <2>1, DiskAssumption DEF GptSectors, e
          <6> QED
            BY <3>1, <6>7, <6>8 DEF e
        <5> QED
          BY <5>1, <5>2
      <4> QED
        BY <2>4, <3>2, <3>4, <4>2 DEF SparesData
    <3> QED
      BY <3>3, <3>4
  <2> QED
    BY <2>1, <2>3, <2>4
<1> QED
  BY <1>1, InstallAlways, PTL

----------------------------------------------------------------------------
(* Progress *)

RestInv == rest \in Seq(STRING)

LEMMA RestIs == ASSUME InstallNext PROVE rest' = rest \/ (at = "args" /\ rest # <<>> /\ rest' = Tail(rest))
<1>1. CASE ParseArg
  BY <1>1, Zenon DEF ParseArg
<1>2. CASE ArgsDone \/ Gathered \/ NoConversion \/ WipePrimary \/ WipeSecondary \/ WriteEntries \/ MbrChecked \/ SetActive
             \/ ValidateOrForce(0, <<"hints0", "active">>) \/ ValidateOrForce(5, <<"hints5", "save">>)
             \/ WriteBootSector \/ WriteStage2 \/ WriteStage2Loc \/ WriteTimestamp \/ WriteTable
             \/ Flush \/ Fails \/ Undo
  <2>1. UNCHANGED progVars
    BY <1>2, Zenon
    DEF ArgsDone, Gathered, NoConversion, WipePrimary, WipeSecondary, WriteEntries, MbrChecked, SetActive,
        ValidateOrForce, WriteBootSector, WriteStage2, WriteStage2Loc, WriteTimestamp, WriteTable, Flush, Fails, Undo
  <2> QED
    BY <2>1 DEF progVars
<1>3. CASE Probe \/ Gather \/ WriteDiskId \/ MbrFlag \/ ChoosePartition \/ SaveTable
  BY <1>3 DEF Probe, Gather, WriteDiskId, MbrFlag, ChoosePartition, SaveTable
<1> QED
  BY <1>1, <1>2, <1>3 DEF InstallNext

LEMMA RestAlways == Spec => []RestInv
<1>1. Init => RestInv
  <2> SUFFICES ASSUME Init PROVE RestInv
    OBVIOUS
  <2>1. argv \in Seq(STRING) /\ rest = SubSeq(argv, 2, Len(argv))
    BY LimineAssumption DEF Init, Rest
  <2>2. SubSeq(argv, 2, Len(argv)) \in Seq(STRING)
    BY <2>1
  <2> QED
    BY <2>1, <2>2 DEF RestInv
<1>2. RestInv /\ [Next]_vars => RestInv'
  <2> SUFFICES ASSUME RestInv, [Next]_vars PROVE RestInv'
    OBVIOUS
  <2>1. CASE BiosInstall
    <3>1. rest' = rest \/ (rest # <<>> /\ rest' = Tail(rest))
      BY <2>1, RestIs DEF BiosInstall
    <3> QED
      BY <3>1, HeadTailProperties DEF RestInv
  <2>2. CASE Main \/ BiosInstallReturns \/ EnrollsConfig \/ Again \/ UNCHANGED vars
    <3>1. rest' = rest
      BY <2>2 DEF Main, BiosInstallReturns, EnrollsConfig, Again, vars, installVars, progVars
    <3> QED
      BY <3>1 DEF RestInv
  <2> QED
    BY <2>1, <2>2 DEF Next, Step
<1> QED
  BY <1>1, <1>2, PTL DEF Spec

LEMMA LeftIs ==
  /\ at = "args" => Left = Len(rest)
  /\ at = "gather" => Left = Len(disk.entries) - loop
  /\ at = "wipe1" => Left = 34 - loop
  /\ at = "wipe2" => Left = 33 - loop
  /\ at = "id" => Left = 4 - loop
  /\ at = "entries" => Left = 5 * Len(conv) - loop
  /\ at = "mbr" => Left = FlagsLeft
  /\ at \in {"hints0", "hints5"} => Left = 5 - loop
  BY DEF Left

LEMMA LeftNext ==
  /\ at' = "args" => Left' = Len(rest')
  /\ at' = "gather" => Left' = Len(disk'.entries) - loop'
  /\ at' = "wipe1" => Left' = 34 - loop'
  /\ at' = "wipe2" => Left' = 33 - loop'
  /\ at' = "id" => Left' = 4 - loop'
  /\ at' = "entries" => Left' = 5 * Len(conv') - loop'
  /\ at' = "mbr" => Left' = FlagsLeft'
  /\ at' \in {"hints0", "hints5"} => Left' = 5 - loop'
  BY DEF Left

LEMMA InstallGoesOn ==
  ASSUME PathInv, UsedInv, RestInv, InstallNext
  PROVE  InstallAdvances
<1> USE DEF Open
<1>1. ASSUME at' = at, NEW a \in Nat, NEW b \in Nat, Left = a, Left' = b, b < a PROVE InstallAdvances
  BY <1>1 DEF InstallAdvances
<1>2. loop \in Nat /\ (status # "open" => at \in {"undo", "exit"})
  BY DEF PathInv
<1>3. CASE ParseArg
  <2>1. at = "args" /\ rest # <<>> /\ rest' = Tail(rest) /\ at' \in {"args", "exit"}
    BY <1>3, ParseArgIs DEF ParseArg
  <2>2. CASE at' = "exit"
    BY <2>1, <2>2 DEF InstallAdvances, Place
  <2>3. CASE at' = "args"
    <3>1. Len(rest') = Len(rest) - 1 /\ Len(rest) \in Nat /\ Len(rest') \in Nat
      BY <2>1, HeadTailProperties, LenProperties DEF RestInv
    <3>2. at' = at /\ Left = Len(rest) /\ Left' = Len(rest')
      BY <2>1, <2>3, LeftIs, LeftNext
    <3>3. Left' \in 0 .. Left - 1
      BY <3>1, <3>2
    <3> QED
      BY <3>2, <3>3 DEF InstallAdvances
  <2> QED
    BY <2>1, <2>2, <2>3
<1>4. CASE ArgsDone \/ Probe \/ Gathered \/ NoConversion
  <2>1. \/ at = "args" /\ at' \in {"probe", "exit"}
        \/ at = "probe" /\ at' \in {"gather", "part", "mbr"}
        \/ at = "gather" /\ at' \in {"wipe1", "part"}
    BY <1>4, ArgsDoneIs, ProbeIs, GatheredIs
  <2> QED
    BY <2>1 DEF InstallAdvances, Place
<1>5. CASE Gather
  <2>1. at = "gather" /\ at' = at /\ loop' = loop + 1 /\ loop + 1 \in 1 .. Len(disk.entries) /\ disk' = disk
    BY <1>5, GatherIs
  <2>2. Len(disk.entries) \in Nat
    BY DiskIs, LenProperties DEF PathInv
  <2>3. Left = Len(disk.entries) - loop /\ Left' = Len(disk.entries) - (loop + 1)
    BY <2>1, LeftIs, LeftNext
  <2>4. PICK n \in Nat : n = Len(disk.entries)
    BY <2>2
  <2>5. n - (loop + 1) \in 0 .. (n - loop) - 1
    BY <1>2, <2>1, <2>4
  <2> QED
    BY <2>1, <2>3, <2>4, <2>5 DEF InstallAdvances
<1>6. CASE WipePrimary \/ WipeSecondary
  <2>1. /\ at \in {"wipe1", "wipe2"}
        /\ at = "wipe1" => loop < 34
        /\ at = "wipe2" => loop < 33
    BY <1>6, WipeIs DEF UsedInv
  <2>2. \/ at = "wipe1" /\ at' = "wipe1" /\ loop' = loop + 1 /\ loop + 1 < 34
        \/ at = "wipe1" /\ at' \in {"wipe2", "id"}
        \/ at = "wipe2" /\ at' = "wipe2" /\ loop' = loop + 1 /\ loop + 1 < 33
        \/ at = "wipe2" /\ at' = "id"
    BY <1>6, <2>1, WipeIs
  <2>3. CASE (at = "wipe1" /\ at' \in {"wipe2", "id"}) \/ (at = "wipe2" /\ at' = "id")
    BY <2>3 DEF InstallAdvances, Place
  <2>4. CASE at = "wipe1" /\ at' = "wipe1" /\ loop' = loop + 1 /\ loop + 1 < 34
    <3>1. Left = 34 - loop /\ Left' = 34 - (loop + 1)
      BY <2>4, LeftIs, LeftNext
    <3> QED
      BY <1>1, <1>2, <2>4, <3>1
  <2>5. CASE at = "wipe2" /\ at' = "wipe2" /\ loop' = loop + 1 /\ loop + 1 < 33
    <3>1. Left = 33 - loop /\ Left' = 33 - (loop + 1)
      BY <2>5, LeftIs, LeftNext
    <3> QED
      BY <1>1, <1>2, <2>5, <3>1
  <2> QED
    BY <2>2, <2>3, <2>4, <2>5
<1>7. CASE WriteDiskId
  <2>1. /\ at = "id"
        /\ IF loop + 1 < 4 THEN loop' = loop + 1 /\ at' = "id" ELSE at' = "entries"
    BY <1>7, DiskIdIs
  <2>2. CASE loop + 1 < 4
    <3>1. Left = 4 - loop /\ Left' = 4 - (loop + 1) /\ at' = at
      BY <2>1, <2>2, LeftIs, LeftNext
    <3> QED
      BY <1>1, <1>2, <2>2, <3>1
  <2>3. CASE ~(loop + 1 < 4)
    BY <2>1, <2>3 DEF InstallAdvances, Place
  <2> QED
    BY <2>2, <2>3
<1>8. CASE WriteEntries
  <2>1. /\ at = "entries" /\ conv' = conv
        /\ IF loop < 5 * Len(conv) THEN loop' = loop + 1 /\ at' = at ELSE at' = "mbr"
    BY <1>8, EntriesIs
  <2>2. Len(conv) \in Nat
    BY LenProperties DEF PathInv
  <2>3. CASE loop < 5 * Len(conv)
    <3>1. Left = 5 * Len(conv) - loop /\ Left' = 5 * Len(conv) - (loop + 1) /\ at' = at
      BY <2>1, <2>3, LeftIs, LeftNext
    <3>2. PICK n \in Nat : n = 5 * Len(conv)
      BY <2>2
    <3>3. n - (loop + 1) \in 0 .. (n - loop) - 1
      BY <1>2, <2>3, <3>2
    <3> QED
      BY <3>1, <3>2, <3>3 DEF InstallAdvances
  <2>4. CASE ~(loop < 5 * Len(conv))
    BY <2>1, <2>4 DEF InstallAdvances, Place
  <2> QED
    BY <2>3, <2>4
<1>9. CASE MbrFlag
  <2> DEFINE x == <<loop + 1, "active">>
             Extra(l, v) == IF l < 4 /\ BadFlag(v) THEN 1 ELSE 0
  <2>1. at = "mbr" /\ at' = at /\ loop \in 0 .. 3 /\ Left = FlagsLeft /\ Left' = FlagsLeft'
    BY <1>2, <1>9, FlagIs, LeftIs, LeftNext
  <2>2. \A l, v : Extra(l, v) \in {0, 1}
    OBVIOUS
  <2>3. /\ FlagsLeft = 2 * (4 - loop) + Extra(loop, content[x])
        /\ FlagsLeft' = 2 * (4 - loop') + Extra(loop', content'[<<loop' + 1, "active">>])
    BY DEF FlagsLeft, BadFlag
  <2>4. CASE BadFlag(content[x]) /\ loop' = loop /\ content'[x] = Masked(content[x])
    <3>1. Extra(loop, content[x]) = 1
      BY <2>1, <2>4
    <3>2. ~BadFlag(content'[x])
      BY <2>4 DEF BadFlag, Masked
    <3>3. Extra(loop', content'[<<loop' + 1, "active">>]) = 0
      BY <2>4, <3>2
    <3> HIDE DEF Extra
    <3>4. FlagsLeft = 2 * (4 - loop) + 1 /\ FlagsLeft' = 2 * (4 - loop)
      BY <2>1, <2>3, <2>4, <3>1, <3>3
    <3> QED
      BY <1>1, <2>1, <3>4
  <2>5. CASE loop' = loop + 1
    <3>1. PICK a \in {0, 1}, b \in {0, 1} : FlagsLeft = 2 * (4 - loop) + a /\ FlagsLeft' = 2 * (4 - loop') + b
      BY <2>2, <2>3
    <3>2. FlagsLeft \in Nat /\ FlagsLeft' \in Nat /\ FlagsLeft' < FlagsLeft
      BY <2>1, <2>5, <3>1
    <3> QED
      BY <1>1, <2>1, <3>2
  <2>6. x \in Cells
    <3>1. PICK q \in Part : q = loop + 1
      BY <2>1 DEF Part
    <3> QED
      BY <3>1, CellsAre
  <2>7. (BadFlag(content[x]) /\ loop' = loop /\ content'[x] = Masked(content[x])) \/ loop' = loop + 1
    BY <1>9, <2>6, FlagIs
  <2> QED
    BY <2>4, <2>5, <2>7
<1>10. ASSUME NEW l \in {"hints0", "hints5"}, NEW m \in {"active", "save"}, Place[m] > Place[l],
              NEW row \in {0, 5}, ValidateOrForce(row, <<l, m>>)
       PROVE  InstallAdvances
  <2>1. at = l /\ IF loop < 5 THEN at' = at /\ loop' = loop + 1 ELSE at' = m
    BY <1>10, HintsIs
  <2>2. CASE loop < 5
    <3>1. Left = 5 - loop /\ Left' = 5 - (loop + 1) /\ at' = at
      BY <2>1, <2>2, LeftIs, LeftNext
    <3> QED
      BY <1>1, <1>2, <2>2, <3>1
  <2>3. CASE ~(loop < 5)
    BY <1>10, <2>1, <2>3 DEF InstallAdvances
  <2> QED
    BY <2>2, <2>3
<1>11. CASE ValidateOrForce(0, <<"hints0", "active">>) \/ ValidateOrForce(5, <<"hints5", "save">>)
  <2>1. Place["active"] > Place["hints0"] /\ Place["save"] > Place["hints5"]
    BY DEF Place
  <2> QED
    BY <1>10, <1>11, <2>1
<1>12. CASE MbrChecked \/ SetActive \/ ChoosePartition \/ SaveTable
  <2>1. \/ at = "mbr" /\ at' = "hints0"
        \/ at = "active" /\ at' = "save"
        \/ at = "part" /\ at' = "hints5"
        \/ at = "save" /\ at' = "boot"
    BY <1>12, CheckedIs, ActiveIs, ChooseIs, SaveIs
  <2> QED
    BY <2>1 DEF InstallAdvances, Place
<1>13. CASE WriteBootSector \/ WriteStage2 \/ WriteStage2Loc \/ WriteTimestamp \/ WriteTable \/ Flush
  <2>1. \/ at = "boot" /\ at' = "stage2"
        \/ at = "stage2" /\ at' = "s2loc"
        \/ at = "s2loc" /\ at' = "stamp"
        \/ at = "stamp" /\ at' = "table"
        \/ at = "table" /\ at' = "flush"
        \/ at = "flush" /\ at' = "exit"
    BY <1>13, BootIs, Stage2Is, LocIs, StampIs, TableIs, FlushIs DEF Installs
  <2> QED
    BY <2>1 DEF InstallAdvances, Place
<1>14. CASE Fails
  <2>1. at' = "undo" /\ at \notin {"undo", "exit"}
    BY <1>14, FailsIs DEF Fails
  <2>2. at \in {"args", "probe", "gather", "wipe1", "wipe2", "id", "entries", "mbr", "hints0", "active",
                "part", "hints5", "save", "boot", "stage2", "s2loc", "stamp", "table", "flush"}
    BY <2>1 DEF PathInv, Early, Converting, Checking, Final
  <2>3. Place[at] \in 1 .. 19 /\ Place["undo"] = 20
    BY <2>2 DEF Place
  <2> QED
    BY <2>1, <2>3 DEF InstallAdvances
<1>15. CASE Undo
  <2>1. at = "undo" /\ at' = "exit"
    BY <1>15, UndoIs DEF Undo
  <2> QED
    BY <2>1 DEF InstallAdvances, Place
<1> QED
  BY <1>3, <1>4, <1>5, <1>6, <1>7, <1>8, <1>9, <1>11, <1>12, <1>13, <1>14, <1>15 DEF InstallNext

LEMMA SearchGoesOn ==
  ASSUME EnrollInv, Enroll!Mismatch \/ Enroll!Match
  PROVE  pc = "search" /\ (pc' = "patch" \/ (pc' = "search" /\ Enroll!SearchAdvances))
<1> DEFINE s == Enroll!S
           start == i - checked_count
<1>1. pc = "search" /\ Enroll!Looking
  BY DEF Enroll!Mismatch, Enroll!Match, Enroll!Looking
<1>2. /\ i \in Nat /\ checked_count \in Nat /\ checked_count <= i /\ checked_count < s /\ s \in Nat /\ bootloader = file
      /\ i < Len(bootloader)
  <2>1. SearchInv /\ Len(file) = FileLen /\ FileLen \in Nat
    BY <1>1, ListLen DEF EnrollInv, IsList
  <2>2. i < FileLen - (Enroll!S + DigestLen) + 1
    BY <1>1, <2>1, Sizes DEF Enroll!Looking, SearchInv
  <2>3. i < FileLen
    BY <2>1, <2>2, Sizes DEF SearchInv
  <2> QED
    BY <2>1, <2>3, Sizes DEF SearchInv
<1>3. bootloader' = bootloader
  BY DEF Enroll!Mismatch, Enroll!Match
<1>4. CASE Enroll!Mismatch
  <2>1. i' = i - checked_count + 1 /\ checked_count' = 0 /\ pc' = pc
    BY <1>4 DEF Enroll!Mismatch
  <2>2. i' - checked_count' = start + 1 /\ start + 1 > start /\ start + 1 <= Len(bootloader)
    <3>1. Len(bootloader) \in Nat
      BY <1>2, ListLen DEF EnrollInv, IsList
    <3> QED
      BY <1>2, <2>1, <3>1
  <2> QED
    BY <1>1, <2>1, <2>2 DEF Enroll!SearchAdvances, Enroll!MatchStart
<1>5. CASE Enroll!Match
  <2>1. /\ checked_count' = checked_count + 1
        /\ IF checked_count + 1 = s THEN pc' = "patch" ELSE i' = i + 1 /\ pc' = pc
    BY <1>5 DEF Enroll!Match
  <2>2. CASE checked_count + 1 = s
    BY <1>1, <2>1, <2>2
  <2>3. CASE checked_count + 1 # s
    <3>1. i' - checked_count' = start /\ checked_count' \in checked_count + 1 .. s - 1
      <4> HIDE DEF s
      <4> QED
        BY <1>2, <2>1, <2>3
    <3> QED
      BY <1>1, <2>1, <2>3, <3>1 DEF Enroll!SearchAdvances, Enroll!MatchStart
  <2> QED
    BY <2>2, <2>3
<1> QED
  BY <1>4, <1>5

(* No run of the tool goes on for ever, for every executable, device and   *)
(* command line: but for the start of another run, every step reaches a    *)
(* later place in the code or shortens the loop it is in, the restarts of  *)
(* the search included.                                                    *)
THEOREM RunsAdvance == Spec => EveryStepAdvances
<1> DEFINE IInv == EnrollInv /\ InstallInv /\ RestInv
<1>1. Spec => []IInv
  BY EnrollAlways, InstallAlways, RestAlways, PTL
<1>2. ASSUME IInv, [Next]_vars PROVE [runs' = runs => Advances]_vars
  <2>1. CASE Main
    <3>1. pc = "main" /\ pc' \in {"install", "args", "exit"}
      BY <2>1 DEF Main
    <3> QED
      BY <3>1 DEF Advances, MainPlace
  <2>2. CASE BiosInstall
    <3>1. pc = "install" /\ pc' = pc /\ InstallAdvances
      BY <1>2, <2>2, InstallGoesOn DEF BiosInstall, InstallInv
    <3> QED
      BY <3>1 DEF Advances
  <2>3. CASE BiosInstallReturns
    <3>1. pc = "install" /\ pc' = "exit"
      BY <2>3 DEF BiosInstallReturns
    <3> QED
      BY <3>1 DEF Advances, MainPlace
  <2>4. CASE Enroll!Mismatch \/ Enroll!Match
    <3>1. pc = "search" /\ (pc' = "patch" \/ (pc' = "search" /\ Enroll!SearchAdvances))
      BY <1>2, <2>4, SearchGoesOn
    <3> QED
      BY <3>1 DEF Advances, MainPlace
  <2>5. CASE Enroll!Args \/ Enroll!Read \/ Enroll!ReadFails \/ Enroll!NotFound \/ Enroll!Patch \/ Enroll!Write
               \/ Enroll!WriteFails
    <3>1. \/ pc = "args" /\ pc' \in {"open", "exit"}
          \/ pc = "open" /\ pc' \in {"search", "exit"}
          \/ pc = "search" /\ pc' = "exit"
          \/ pc = "patch" /\ pc' = "write"
          \/ pc = "write" /\ pc' = "exit"
      BY <2>5 DEF Enroll!Args, Enroll!Read, Enroll!ReadFails, Enroll!NotFound, Enroll!Patch, Enroll!Write,
                  Enroll!WriteFails, Enroll!Exit, Enroll!Goto
    <3> QED
      BY <3>1 DEF Advances, MainPlace
  <2>6. CASE Again
    <3>1. runs' # runs
      BY <2>6, LimineAssumption DEF Again
    <3> QED
      BY <3>1
  <2>7. CASE UNCHANGED vars
    BY <2>7
  <2> QED
    BY <1>2, <2>1, <2>2, <2>3, <2>4, <2>5, <2>6, <2>7 DEF Next, Step, EnrollsConfig, Enroll!Next
<1>3. IInv /\ [Next]_vars => [runs' = runs => Advances]_vars
  BY <1>2
<1> QED
  BY <1>1, <1>3, PTL DEF Spec, EveryStepAdvances

=============================================================================
