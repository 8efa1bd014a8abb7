------------------------------ MODULE Keyboard ------------------------------
(***************************************************************************)
(* src/arc/x86_64/drivers/keyboard.c: the ring between keyboard_handler,   *)
(* which runs with interrupts off, and keyboard_read, which a thread runs  *)
(* with interrupts on.  The handler may come between any two accesses of   *)
(* the reader; kb_head and kb_tail are plain ints, which the build (gcc    *)
(* -O2) reads anew in every round of the loop.                             *)
(***************************************************************************)
EXTENDS Integers, Sequences

CONSTANTS
  KB_BUFFER_SIZE,
  Keys,                  \* scancodes of keys other than shift
  scancode_table,        \* their characters; 0 is none
  scancode_shift_table

ASSUME KeyboardAssumption ==
  /\ KB_BUFFER_SIZE \in Nat \ {0, 1}
  /\ DOMAIN scancode_table = Keys /\ DOMAIN scancode_shift_table = Keys

VARIABLES
  kb_buffer, kb_head, kb_tail, shift_pressed,
  pc,      \* keyboard_read: "test", then "load" and "advance", or "empty"
           \* (it is to halt but has not yet) and "hlt" (halted)
  c,       \* its local, 0 before the first
  out,     \* the character it returned last
  held,    \* the shift keys that are down
  dropped  \* history: changes when a character is dropped

ringVars == <<kb_buffer, kb_head, dropped>>
readVars == <<kb_tail, pc, c, out>>
keyboardVars == <<ringVars, readVars, shift_pressed, held>>

Slot  == 0 .. KB_BUFFER_SIZE - 1
Shift == {"left", "right"}   \* 0x2A and 0x36
Char  == ({scancode_table[k] : k \in Keys} \cup {scancode_shift_table[k] : k \in Keys}) \ {0}

(* keyboard_init, and the first call of keyboard_read. *)
KeyboardInit ==
  /\ kb_buffer = [s \in Slot |-> 0] /\ kb_head = 0 /\ kb_tail = 0
  /\ shift_pressed = FALSE /\ held = {}
  /\ pc = "test" /\ c = 0 /\ out = 0 /\ dropped = FALSE

After(n) == (n + 1) % KB_BUFFER_SIZE

----------------------------------------------------------------------------
(* Mutant of Wake: halted with interrupts off. *)
Wake_Never == pc' = pc

(* keyboard_handler.  An interrupt wakes a reader that has halted; one     *)
(* that comes before the hlt returns to it, and the reader halts.          *)
Wake == pc' = IF pc = "hlt" THEN "test" ELSE pc

(* Mutant of KbPush: a full ring is not noticed. *)
KbPush_Full(ch) ==
  /\ kb_buffer' = [kb_buffer EXCEPT ![kb_head] = ch]
  /\ kb_head' = After(kb_head)
  /\ UNCHANGED dropped

(* kb_push drops the character if the ring is full. *)
KbPush(ch) ==
  IF After(kb_head) # kb_tail
  THEN /\ kb_buffer' = [kb_buffer EXCEPT ![kb_head] = ch]
       /\ kb_head' = After(kb_head)
       /\ UNCHANGED dropped
  ELSE /\ dropped' = ~dropped
       /\ UNCHANGED <<kb_buffer, kb_head>>

KeyPressed(k) ==
  /\ LET ch == IF shift_pressed THEN scancode_shift_table[k] ELSE scancode_table[k]
     IN IF ch # 0 THEN KbPush(ch) ELSE UNCHANGED ringVars
  /\ Wake
  /\ UNCHANGED <<kb_tail, c, out, shift_pressed, held>>

ShiftPressed(s) ==
  /\ held' = held \cup {s}
  /\ shift_pressed' = TRUE
  /\ Wake
  /\ UNCHANGED <<ringVars, kb_tail, c, out>>

ShiftReleased(s) ==
  /\ s \in held
  /\ held' = held \ {s}
  /\ shift_pressed' = FALSE
  /\ Wake
  /\ UNCHANGED <<ringVars, kb_tail, c, out>>

(* The release of another key changes nothing but wakes the reader, as the *)
(* timer does.                                                             *)
OtherInterrupt ==
  /\ Wake
  /\ UNCHANGED <<ringVars, kb_tail, c, out, shift_pressed, held>>

----------------------------------------------------------------------------
(* keyboard_read, and in it keyboard_getchar. *)
SeeNone ==
  /\ pc = "test" /\ kb_head = kb_tail
  /\ pc' = "empty"
  /\ UNCHANGED <<ringVars, kb_tail, c, out, shift_pressed, held>>

(* The hlt, whether or not a character has come since the test. *)
Halt ==
  /\ pc = "empty"
  /\ pc' = "hlt"
  /\ UNCHANGED <<ringVars, kb_tail, c, out, shift_pressed, held>>

SeeChar ==
  /\ pc = "test" /\ kb_head # kb_tail
  /\ pc' = "load"
  /\ UNCHANGED <<ringVars, kb_tail, c, out, shift_pressed, held>>

Load ==
  /\ pc = "load"
  /\ c' = kb_buffer[kb_tail]
  /\ pc' = "advance"
  /\ UNCHANGED <<ringVars, kb_tail, out, shift_pressed, held>>

(* The character is returned and the caller comes back for the next. *)
Advance ==
  /\ pc = "advance"
  /\ kb_tail' = After(kb_tail)
  /\ out' = c /\ pc' = "test"
  /\ UNCHANGED <<ringVars, c, shift_pressed, held>>

Reader == SeeNone \/ Halt \/ SeeChar \/ Load \/ Advance

KeyboardNext ==
  \/ \E k \in Keys : KeyPressed(k)
  \/ \E s \in Shift : ShiftPressed(s) \/ ShiftReleased(s)
  \/ OtherInterrupt
  \/ Reader

----------------------------------------------------------------------------
Waiting == (kb_head - kb_tail) % KB_BUFFER_SIZE

Queue == INSTANCE BoundedQueue WITH
  Capacity <- KB_BUFFER_SIZE - 1,
  queue <- [n \in 1 .. Waiting |-> kb_buffer[(kb_tail + n - 1) % KB_BUFFER_SIZE]]

(* Whenever the handler strikes, no character is lost, doubled or out of   *)
(* order; a full ring is not mistaken for an empty one, and a character is *)
(* dropped only when it is full.                                           *)
ImplementsQueue == Queue!Spec

(* Every character that waits is read, though one that arrives between the *)
(* reader's test and its hlt does not keep it from halting: the reader     *)
(* sleeps on it until the next interrupt, which the timer brings.          *)
EveryCharRead == \A n \in Slot : (kb_tail = n /\ kb_head # n) ~> kb_tail # n

=============================================================================
