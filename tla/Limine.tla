------------------------------- MODULE Limine -------------------------------
(***************************************************************************)
(* The limine command of limine/limine.c: main hands the command line to   *)
(* bios_install (LimineInstall) or enroll_config (EnrollConfig).  They     *)
(* work on a device and on an executable that have nothing in common.      *)
(***************************************************************************)
EXTENDS LimineInstall

CONSTANTS
  Signature, DigestLen, HexDigits, Files, Chars,   \* see EnrollConfig
  Argvs,    \* command lines considered
  MaxRuns   \* runs of enroll-config

Rest(a) == SubSeq(a, 2, Len(a))

ASSUME LimineAssumption ==
  /\ Signature \in Seq(STRING) \ {<<>>} /\ Files \subseteq Seq(STRING)
  /\ DigestLen \in Nat \ {0} /\ MaxRuns \in Nat /\ "0" \in HexDigits
  /\ Argvs \subseteq Seq(STRING) /\ InstallArgvs = {Rest(a) : a \in Argvs}

VARIABLES
  argv, pc, ret, runs,   \* command line, place in the program, exit status, runs so far
  file, bootloader, i, checked_count, checksum_loc, before   \* see EnrollConfig

Enroll == INSTANCE EnrollConfig

searchVars == <<file, bootloader, i, checked_count, checksum_loc, before>>
vars == <<argv, pc, ret, runs, searchVars, installVars>>

Command(c) == argv # <<>> /\ argv[1] = c

(* Either the executable or the device varies: the command line at hand    *)
(* uses only one of them.                                                  *)
Init ==
  /\ argv \in Argvs /\ runs = 1
  /\ rest = Rest(argv)
  /\ IF Command("bios-install") THEN file = CHOOSE f \in Files : TRUE ELSE file \in Files
  /\ IF Command("bios-install") THEN disk \in Disks ELSE disk = CHOOSE d \in Disks : TRUE
  /\ Enroll!Init
  /\ InstallInit

(* Commands that only put out text. *)
Informs == \E c \in {"help", "--help", "-h", "version", "--version"} : Command(c)

(* main: anything else, --print-datadir of this build too, is a failure. *)
Main ==
  /\ pc = "main"
  /\ pc' = CASE Command("bios-install")  -> "install"
             [] Command("enroll-config") -> "args"
             [] OTHER                    -> "exit"
  /\ ret' = CASE pc' # "exit" -> ret
              [] Informs      -> "success"
              [] OTHER        -> "failure"
  /\ UNCHANGED <<argv, runs, searchVars, installVars>>

BiosInstall == pc = "install" /\ InstallNext /\ UNCHANGED <<argv, pc, ret, runs, searchVars>>

(* ok of bios_install is the exit status; --help succeeds where it is met, *)
(* and --uninstall, which LimineDevice models, either way.                 *)
Succeeds == Installed \/ argv[Len(argv) - Len(rest)] = "--help"

BiosInstallReturns ==
  /\ pc = "install" /\ at = "exit"
  /\ pc' = "exit"
  /\ ret' \in IF opt.uninstall THEN {"success", "failure"}
              ELSE {IF Succeeds THEN "success" ELSE "failure"}
  /\ UNCHANGED <<argv, runs, searchVars, installVars>>

EnrollsConfig == Enroll!Next /\ UNCHANGED <<installVars, runs>>

(* enroll-config is run again, with other arguments. *)
Again ==
  /\ ~Command("bios-install") /\ runs < MaxRuns
  /\ runs' = runs + 1
  /\ argv' \in {a \in Argvs : a # <<>> /\ a[1] = "enroll-config"}
  /\ Enroll!Restart
  /\ UNCHANGED installVars

Step == Main \/ BiosInstall \/ BiosInstallReturns \/ EnrollsConfig

Next == Step \/ Again

Spec == Init /\ [][Next]_vars /\ WF_vars(Step)

----------------------------------------------------------------------------
(* The search of enroll_config finds the first signature, and gives up     *)
(* only when there is none in the cells that its loop compares.            *)
FoundIsFirst == Enroll!FoundIsFirst

(* However often enroll_config is run and fails, it only ever changes the  *)
(* cells behind the first signature of the original file.                  *)
OnlySlotChanges == Enroll!OnlySlotChanges

(* Every run of the tool ends, whichever reads and writes fail: the        *)
(* restarts of the search in enroll_config make progress, and so do the    *)
(* repairs and the loops of bios_install.                                  *)
RunsEnd == pc = "main" ~> pc = "exit"

(* The order of the parts of the code; a run takes one of the commands. *)
MainPlace == [main |-> 1, install |-> 2, args |-> 2, open |-> 3, search |-> 4, patch |-> 5, write |-> 6, exit |-> 7]

Advances ==
  \/ MainPlace[pc'] > MainPlace[pc]
  \/ pc' = pc /\ pc = "install" /\ InstallAdvances
  \/ pc' = pc /\ pc = "search" /\ Enroll!SearchAdvances

(* Why they end: a step of the tool goes on to a later place in its code,  *)
(* or brings the loop it is in closer to its end.  The search of           *)
(* enroll_config steps back after a failed match, but never to where that  *)
(* match began; bios_install only goes on or over to the undo.             *)
EveryStepAdvances == [][runs' = runs => Advances]_vars

=============================================================================
