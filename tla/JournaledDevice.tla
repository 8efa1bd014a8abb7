-------------------------- MODULE JournaledDevice --------------------------
(***************************************************************************)
(* What the device layer of limine/limine.c promises bios_install: writes  *)
(* that take effect at once and are all taken back if the installation     *)
(* fails.  The one thing it cannot take back is the write that failed: the *)
(* cells it had already reached are torn.                                  *)
(***************************************************************************)
EXTENDS Integers

CONSTANTS
  Loc,                 \* cells of the device
  Val,                 \* what a cell can hold
  UNINSTALL_DATA_MAX   \* writes one installation may make

VARIABLES
  content,  \* the device as the installer reads it back
  orig,     \* the device before the installation
  used,     \* writes made so far
  torn,     \* the cells a failed write had reached
  status    \* "open", "undoing", "undone", "damaged" or "committed"

vars == <<content, orig, used, torn, status>>

Contents == [Loc -> Val]

Init ==
  /\ content \in Contents
  /\ orig = content
  /\ used = 0
  /\ torn = {}
  /\ status = "open"

(* The caller overwrites some cells. *)
Write ==
  /\ status = "open"
  /\ used < UNINSTALL_DATA_MAX
  /\ content' \in Contents
  /\ used' = used + 1
  /\ UNCHANGED <<orig, torn, status>>

(* A read or a write fails; a write may have reached some cells.  Until    *)
(* the undo is over nothing is said of the contents.                       *)
Fail ==
  /\ status = "open"
  /\ content' \in Contents
  /\ torn' \in SUBSET Loc
  /\ status' = "undoing"
  /\ UNCHANGED <<orig, used>>

Undoing ==
  /\ status = "undoing"
  /\ content' \in Contents
  /\ UNCHANGED <<orig, used, torn, status>>

(* The undo reports success: everything but the torn cells is as it was.   *)
Undone ==
  /\ status = "undoing"
  /\ content' \in Contents
  /\ \A l \in Loc \ torn : content'[l] = orig[l]
  /\ status' = "undone"
  /\ UNCHANGED <<orig, used, torn>>

(* The undo itself fails, and says so. *)
UndoFails ==
  /\ status = "undoing"
  /\ content' \in Contents
  /\ status' = "damaged"
  /\ UNCHANGED <<orig, used, torn>>

Commit ==
  /\ status = "open"
  /\ status' = "committed"
  /\ UNCHANGED <<content, orig, used, torn>>

(* --uninstall on a committed device, with the file of saved data.         *)
Uninstall ==
  /\ status = "committed"
  /\ status' = "undoing"
  /\ UNCHANGED <<content, orig, used, torn>>

Next == Write \/ Fail \/ Undoing \/ Undone \/ UndoFails \/ Commit \/ Uninstall

Spec == Init /\ [][Next]_vars

=============================================================================
