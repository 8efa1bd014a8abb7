--------------------------- MODULE SerialConsole ---------------------------
(***************************************************************************)
(* The serial line (src/kernel/serial.c) as kmain, panic, panic_assert and *)
(* isr_handler share it.  An exception may strike between any two accesses *)
(* to the UART, also while an earlier one is being reported; its handler   *)
(* never returns.  Words and numbers are one character each here.          *)
(***************************************************************************)
EXTENDS Integers, Sequences, SequencesExt

CONSTANTS
  Messages,       \* what kmain prints
  ExceptionVectors,        \* exceptions that happen
  MaxMessages,    \* messages printed
  MaxExceptions   \* exceptions

ASSUME SerialAssumption == ExceptionVectors \subseteq 0 .. 31 /\ {MaxMessages, MaxExceptions} \subseteq Nat

VARIABLES
  todo,        \* what is left of the strings being put
  cr,          \* serial_puts has put the \r of the \n at their head
  polled,      \* serial_putchar has seen the transmitter empty
  thr,         \* the byte in the UART; 0 is none
  who,         \* "kmain", "report" or "halted"
  iflag,
  report,      \* history: the last report begun
  line,        \* history: bytes seen on the line
  messages, exceptions

putVars == <<todo, cr, polled>>
counts == <<messages, exceptions>>
serialVars == <<putVars, thr, who, iflag, report, line, counts>>

LF == 10
CR == 13

(* After serial_init, at any place in kmain: interrupts are enabled by     *)
(* idt_init and timer_sleep, and disabled again when that returns.         *)
SerialInit ==
  /\ todo = <<>> /\ cr = FALSE /\ polled = FALSE /\ thr = 0
  /\ who = "kmain" /\ iflag \in BOOLEAN
  /\ report = <<>> /\ line = <<>>
  /\ messages = 0 /\ exceptions = 0

----------------------------------------------------------------------------
(* Mutant of Poll: waits for the wrong thing. *)
Poll_Inverted ==
  /\ todo # <<>> /\ ~polled
  /\ thr # 0
  /\ polled' = TRUE
  /\ UNCHANGED <<todo, cr, thr, who, iflag, report, line, counts>>

(* serial_putchar: wait, then write. *)
Poll ==
  /\ todo # <<>> /\ ~polled
  /\ thr = 0
  /\ polled' = TRUE
  /\ UNCHANGED <<todo, cr, thr, who, iflag, report, line, counts>>

NeedsCr == Head(todo) = LF /\ ~cr

(* The outb, for the loop of serial_puts. *)
Out ==
  /\ polled /\ polled' = FALSE
  /\ thr' = IF NeedsCr THEN CR ELSE Head(todo)
  /\ cr' = NeedsCr
  /\ todo' = IF NeedsCr THEN todo ELSE Tail(todo)
  /\ UNCHANGED <<who, iflag, report, line, counts>>

(* The UART. *)
Transmit ==
  /\ thr # 0 /\ thr' = 0
  /\ line' = Append(line, thr)
  /\ UNCHANGED <<putVars, who, iflag, report, counts>>

----------------------------------------------------------------------------
PrintMessage(m) ==
  /\ who = "kmain" /\ todo = <<>>
  /\ messages < MaxMessages /\ messages' = messages + 1
  /\ todo' = m
  /\ UNCHANGED <<cr, polled, thr, who, iflag, report, line, exceptions>>

(* Texts: "KERNEL PANIC" or "ASSERTION FAILED", what it is about, the end. *)
PanicText  == <<LF, 201, LF, 202, LF, 203, LF>>
AssertText == <<LF, 211, LF, 212, LF, 213, LF, 202, LF, 203, LF>>

NAMES == 22   \* entries of exception_names

ReportOf(v) == IF v < NAMES THEN <<LF, 201, LF, 220 + v, LF, 204, LF, 205, LF>>
                            ELSE <<LF, 206, 300 + v, LF>>

(* Whatever was being printed is abandoned. *)
Dies(text) ==
  /\ who' = "report" /\ report' = text
  /\ todo' = text /\ cr' = FALSE /\ polled' = FALSE
  /\ iflag' = FALSE
  /\ UNCHANGED <<thr, line>>

(* panic, or an ASSERT that fails. *)
Panic ==
  /\ who = "kmain" /\ todo = <<>>
  /\ Dies(PanicText) \/ Dies(AssertText)
  /\ UNCHANGED counts

(* isr_handler, through an interrupt gate. *)
Exception(v) ==
  /\ exceptions < MaxExceptions /\ exceptions' = exceptions + 1
  /\ Dies(ReportOf(v))
  /\ UNCHANGED messages

HaltForever ==
  /\ who = "report" /\ todo = <<>>
  /\ who' = "halted"
  /\ UNCHANGED <<putVars, thr, iflag, report, line, counts>>

Writer == Poll \/ Out \/ HaltForever

SerialNext ==
  \/ Writer \/ Transmit \/ Panic
  \/ \E m \in Messages : PrintMessage(m)
  \/ \E v \in ExceptionVectors : Exception(v)

----------------------------------------------------------------------------
Expanded(text) == FlattenSeq([n \in DOMAIN text |-> IF text[n] = LF THEN <<CR, LF>> ELSE <<text[n]>>])

(* A kernel that dies says so: in the end the report stands whole, every   *)
(* line feed with its carriage return, on the line, whatever panic or      *)
(* isr_handler cut short, and no interrupt will wake the kernel.           *)
ReportReachesLine ==
  who = "report" ~> who = "halted" /\ ~iflag /\ IsSuffix(Expanded(report), line)

=============================================================================
