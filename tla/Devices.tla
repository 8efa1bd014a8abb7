------------------------------ MODULE Devices ------------------------------
(***************************************************************************)
(* The parts of the kernel next to the scheduler and the memory: keyboard, *)
(* console, interrupt frames and serial line.  None of them reads or       *)
(* changes the state of another, so a behaviour of all is determined by    *)
(* its projections; a behaviour here is that of one part, the others stay  *)
(* as they were at boot.                                                   *)
(***************************************************************************)
EXTENDS Keyboard, Console, InterruptFrame, SerialConsole

VARIABLE part   \* the part that is active

vars == <<part, keyboardVars, consoleVars, frameVars, serialVars>>

Init ==
  /\ part \in {"keyboard", "console", "frame", "serial"}
  /\ KeyboardInit /\ ConsoleInit /\ FrameInit /\ SerialInit

InKeyboard(A) == part = "keyboard" /\ A /\ UNCHANGED <<part, consoleVars, frameVars, serialVars>>
InConsole(A)  == part = "console" /\ A /\ UNCHANGED <<part, keyboardVars, frameVars, serialVars>>
InFrame(A)    == part = "frame" /\ A /\ UNCHANGED <<part, keyboardVars, consoleVars, serialVars>>
InSerial(A)   == part = "serial" /\ A /\ UNCHANGED <<part, keyboardVars, consoleVars, frameVars>>

Next == InKeyboard(KeyboardNext) \/ InConsole(ConsoleNext) \/ InFrame(FrameNext) \/ InSerial(SerialNext)

(* The processor runs the reader of the keyboard, and the timer interrupts *)
(* it again and again; it runs the writer of the serial line, and the UART *)
(* transmits what it holds.                                                *)
Fairness ==
  /\ WF_vars(InKeyboard(Reader)) /\ WF_vars(InKeyboard(OtherInterrupt))
  /\ WF_vars(InSerial(Writer)) /\ WF_vars(InSerial(Transmit))

Spec == Init /\ [][Next]_vars /\ Fairness

=============================================================================
