------------------------------- MODULE Kernel -------------------------------
(***************************************************************************)
(* kmain, its interrupt controller, its timer and its tasks on one CPU:    *)
(* src/kernel/kmain.c over Scheduler, with the PIC of idt.c, the LINT0     *)
(* setting of apic.c and timer_sleep of timer.c.                           *)
(*                                                                         *)
(* Interrupt gates clear IF and no handler sets it, so a handler, from the *)
(* acceptance of the interrupt to iretq, is one action.  Everything a task *)
(* does between two instructions at which an interrupt makes a difference  *)
(* is one action too.                                                      *)
(*                                                                         *)
(* A context is what a stack's frame holds: where the task is, its IF      *)
(* (saved and restored with rflags) and, inside timer_sleep, the distance  *)
(* left = max(0, target - timer_ticks), which is all the loop compares.    *)
(* The 64-bit tick counter itself, which grows for ever, is not kept.      *)
(***************************************************************************)
EXTENDS Scheduler

CONSTANTS
  Word,        \* 2^32: the modulus of uint32_t arithmetic
  TimerFreq,   \* the argument of timer_init
  FirstSleep,  \* milliseconds of the sleep before the threads are created
  LoopSleep,   \* milliseconds of the sleep in kmain's loop
  BootLint0,   \* the LINT0 settings the firmware may leave behind
  ThreadCalls  \* which of "yield", "exit" the threads call

ASSUME KernelAssumption ==
  /\ Word \in Nat \ {0}
  /\ {TimerFreq, FirstSleep, LoopSleep} \subseteq Nat
  /\ BootLint0 \subseteq {"masked", "ExtINT"}
  /\ ThreadCalls \subseteq {"yield", "exit"}

VARIABLES
  ctx,    \* ctx[s]: the context of the task that runs on stack s
  irr,    \* interrupt lines the PIC has latched and not yet delivered
  isr,    \* interrupt lines in service, until their EOI
  lint0   \* the local APIC's LINT0 entry: "masked" or "ExtINT"

vars == <<schedVars, ctx, irr, isr, lint0>>

Timer    == 0   \* IRQ 0, vector 32
Keyboard == 1   \* IRQ 1, vector 33; the PIC masks all the others (0xFC, 0xFF)

BootSteps == {"gdt", "idt", "apic", "timer", "keyboard", "pmm", "fb", "heap", "sched"}
Sleeps    == {"sleep1", "sleep2"}
Places    == BootSteps \cup Sleeps \cup {"create_a", "create_b", "print", "thread"}

----------------------------------------------------------------------------
(* Ticks timer_sleep(ms) waits for: a 32-bit product, then the division. *)
SleepTicks(ms) == ((TimerFreq * ms) % Word) \div 1000

Need(pc) == SleepTicks(IF pc = "sleep1" THEN FirstSleep ELSE LoopSleep)

(* Where a call of timer_sleep returns to. *)
AfterSleep(pc) == IF pc = "sleep1" THEN "create_a" ELSE "print"

(* at: "body" outside timer_sleep, "check" at its loop test, "tested" past *)
(* a test that said to wait and before the hlt, "hlt" halted.              *)
(* since is history: the PIT periods that ended since timer_sleep was      *)
(* called and the yields since then, counted up to the longest sleep.      *)
Start(pc, iflag) == [pc |-> pc, at |-> "body", iflag |-> iflag, left |-> 0, since |-> 0]

MaxNeed == IF Need("sleep1") > Need("sleep2") THEN Need("sleep1") ELSE Need("sleep2")

Asleep(c) == c.at # "body"

CapAt(bound, n) == IF n > bound THEN bound ELSE n

Init ==
  /\ SchedInit
  /\ ctx = [s \in Stacks |-> IF s = BootStack THEN Start("gdt", FALSE) ELSE Start("thread", FALSE)]
  /\ irr = {}
  /\ isr = {}
  /\ lint0 \in BootLint0

----------------------------------------------------------------------------
(* kmain's initialisation, in its order. *)

Running(pc) == ctx[rsp].pc = pc /\ ~Asleep(ctx[rsp])

Goto(pc) == ctx' = [ctx EXCEPT ![rsp].pc = pc]

GdtInit ==
  /\ Running("gdt")
  /\ Goto("idt")
  /\ UNCHANGED <<schedVars, irr, isr, lint0>>

(* idt_init fills the table, remaps and masks the PIC, and ends with sti;  *)
(* initialising the PIC drops what it had latched.                         *)
IdtInit ==
  /\ Running("idt")
  /\ ctx' = [ctx EXCEPT ![rsp].pc = "apic", ![rsp].iflag = TRUE]
  /\ irr' = {}
  /\ isr' = {}
  /\ UNCHANGED <<schedVars, lint0>>

(* apic_init makes LINT0 an unmasked ExtINT input, or returns early when   *)
(* it finds no page table to map the local APIC with; kmain goes on.       *)
ApicInit ==
  /\ Running("apic")
  /\ lint0' \in {lint0, "ExtINT"}
  /\ Goto("timer")
  /\ UNCHANGED <<schedVars, irr, isr>>

(* timer_init and keyboard_init run before anyone sleeps or reads keys. *)
TimerInit ==
  /\ Running("timer")
  /\ Goto("keyboard")
  /\ UNCHANGED <<schedVars, irr, isr, lint0>>

KeyboardInit ==
  /\ Running("keyboard")
  /\ Goto("pmm")
  /\ UNCHANGED <<schedVars, irr, isr, lint0>>

(* pmm_init frees what the memory map calls usable, possibly nothing. *)
PmmInit ==
  /\ Running("pmm")
  /\ free' \in SUBSET Pages
  /\ Goto("fb")
  /\ UNCHANGED <<tasks, task_count, current_task, rsp, framed, exiting, irr, isr, lint0>>

(* fb_init takes pages for page tables, heap_init also for the heap; both  *)
(* stop early, without a report, when the allocator runs dry.              *)
FbInit ==
  /\ Running("fb")
  /\ free' \in SUBSET free
  /\ Goto("heap")
  /\ UNCHANGED <<tasks, task_count, current_task, rsp, framed, exiting, irr, isr, lint0>>

HeapInit ==
  /\ Running("heap")
  /\ free' \in SUBSET free
  /\ Goto("sched")
  /\ UNCHANGED <<tasks, task_count, current_task, rsp, framed, exiting, irr, isr, lint0>>

KernelSchedulerInit ==
  /\ Running("sched")
  /\ SchedulerInit
  /\ Goto("sleep1")
  /\ UNCHANGED <<irr, isr, lint0>>

----------------------------------------------------------------------------
(* Mutant of SleepCall: the sti is missing. *)
SleepCall_NoSti ==
  /\ ctx[rsp].pc \in Sleeps
  /\ ~Asleep(ctx[rsp])
  /\ ctx' = [ctx EXCEPT ![rsp] = [pc |-> @.pc, at |-> "check", iflag |-> @.iflag,
                                  left |-> Need(@.pc), since |-> 0]]
  /\ UNCHANGED <<schedVars, irr, isr, lint0>>

(* timer_sleep: compute the target and sti ... *)
SleepCall ==
  /\ ctx[rsp].pc \in Sleeps
  /\ ~Asleep(ctx[rsp])
  /\ ctx' = [ctx EXCEPT ![rsp] = [pc |-> @.pc, at |-> "check", iflag |-> TRUE,
                                  left |-> Need(@.pc), since |-> 0]]
  /\ UNCHANGED <<schedVars, irr, isr, lint0>>

(* Mutant of SleepCheck: waits while timer_ticks <= target. *)
SleepCheck_AtTarget ==
  /\ ctx[rsp].at = "check"
  /\ ctx' = [ctx EXCEPT ![rsp].at = "tested"]
  /\ UNCHANGED <<schedVars, irr, isr, lint0>>

(* ... then test the counter: it is below the target ...                   *)
SleepCheck ==
  /\ ctx[rsp].at = "check"
  /\ ctx[rsp].left > 0
  /\ ctx' = [ctx EXCEPT ![rsp].at = "tested"]
  /\ UNCHANGED <<schedVars, irr, isr, lint0>>

(* ... and halt.  An interrupt that comes before the hlt, with other tasks *)
(* running until this one is resumed or not, is followed by the hlt all    *)
(* the same.                                                               *)
SleepHalt ==
  /\ ctx[rsp].at = "tested"
  /\ ctx' = [ctx EXCEPT ![rsp].at = "hlt"]
  /\ UNCHANGED <<schedVars, irr, isr, lint0>>

(* Leaving the loop: cli and return. *)
SleepReturn ==
  /\ ctx[rsp].at = "check"
  /\ ctx[rsp].left = 0
  /\ ctx' = [ctx EXCEPT ![rsp] = Start(AfterSleep(ctx[rsp].pc), FALSE)]
  /\ UNCHANGED <<schedVars, irr, isr, lint0>>

(* Mutant of CreateThread: the hand-made frame has rflags 0x002. *)
CreateThread_IfClear(pc, next) ==
  /\ Running(pc)
  /\ \/ \E page \in free :
          /\ TaskCreate(page)
          /\ ctx' = [ctx EXCEPT ![page] = Start("thread", FALSE), ![rsp].pc = next]
     \/ /\ task_find_free < 0 \/ free = {}
        /\ Goto(next)
        /\ UNCHANGED schedVars
  /\ UNCHANGED <<irr, isr, lint0>>

(* kmain creates two threads and ignores whether that succeeded.  A new    *)
(* thread's hand-made frame has rflags 0x202: it starts with IF set.       *)
CreateThread(pc, next) ==
  /\ Running(pc)
  /\ \/ \E page \in free :
          /\ TaskCreate(page)
          /\ ctx' = [ctx EXCEPT ![page] = Start("thread", TRUE), ![rsp].pc = next]
     \/ /\ task_find_free < 0 \/ free = {}
        /\ Goto(next)
        /\ UNCHANGED schedVars
  /\ UNCHANGED <<irr, isr, lint0>>

(* The report on the serial line, written with IF clear. *)
Report ==
  /\ Running("print")
  /\ Goto("sleep2")
  /\ UNCHANGED <<schedVars, irr, isr, lint0>>

----------------------------------------------------------------------------
(* The interrupt lines. *)

Aged(c) == IF Asleep(c) THEN [c EXCEPT !.since = CapAt(MaxNeed, @ + 1)] ELSE c

(* A PIT period ends: the PIC latches the edge.  One that is still latched *)
(* from the last period is lost.                                           *)
PitEdge ==
  /\ irr' = irr \cup {Timer}
  /\ ctx' = [s \in Stacks |-> Aged(ctx[s])]
  /\ UNCHANGED <<schedVars, isr, lint0>>

KeyEdge ==
  /\ irr' = irr \cup {Keyboard}
  /\ UNCHANGED <<schedVars, ctx, isr, lint0>>

(* Mutant of Eoi: it is never sent. *)
Eoi_Missing(inService) == inService

(* The non-specific EOI that ends every irq_handler: the line of highest   *)
(* priority (lowest number) in service, if there is one, is done.          *)
Eoi(inService) == inService \ {n \in inService : \A m \in inService : n <= m}

(* The CPU was halted: it goes on behind the hlt, which is the loop test.  *)
(* At "tested" the hlt is still to come.                                   *)
Resumed(c) == IF c.at = "hlt" THEN [c EXCEPT !.at = "check"] ELSE c

(* timer_handler: timer_ticks++, as every sleeper sees it: left is         *)
(* max(0, target - timer_ticks), so it stays 0 while the counter runs on.  *)
TimerHandler(c) ==
  IF c.left > 0 THEN [c EXCEPT !.left = @ - 1] ELSE c

(* The PIC delivers line n: LINT0 passes it on, the running task has IF    *)
(* set, nothing of equal or higher priority is in service and nothing of   *)
(* higher priority is waiting.                                             *)
Delivers(n) ==
  /\ n \in irr
  /\ lint0 = "ExtINT"
  /\ ctx[rsp].iflag
  /\ \A m \in irr : n <= m
  /\ \A m \in isr : n < m

(* Mutant of TimerInterrupt: irq_common ignores the value in rax. *)
TimerInterrupt_NoSwitch ==
  /\ Delivers(Timer)
  /\ irr' = irr \ {Timer}
  /\ isr' = Eoi(isr \cup {Timer})
  /\ tasks' = TickTasks(rsp)
  /\ current_task' = IF Switches THEN TickNext ELSE current_task
  /\ ctx' = [s \in Stacks |-> TimerHandler(IF s = rsp THEN Resumed(ctx[s]) ELSE ctx[s])]
  /\ UNCHANGED <<task_count, rsp, framed, free, exiting, lint0>>

(* irq0 to irq_handler and back: acknowledge, timer_handler,               *)
(* scheduler_tick, EOI, switch.                                            *)
TimerInterrupt ==
  /\ Delivers(Timer)
  /\ irr' = irr \ {Timer}
  /\ isr' = Eoi(isr \cup {Timer})
  /\ Irq0
  /\ ctx' = [s \in Stacks |-> TimerHandler(IF s = rsp THEN Resumed(ctx[s]) ELSE ctx[s])]
  /\ UNCHANGED lint0

(* Mutant of KeyboardInterrupt: irq_handler counts a tick for vector 33.   *)
KeyboardInterrupt_Ticks ==
  /\ Delivers(Keyboard)
  /\ irr' = irr \ {Keyboard}
  /\ isr' = Eoi(isr \cup {Keyboard})
  /\ ctx' = [s \in Stacks |-> TimerHandler(IF s = rsp THEN Resumed(ctx[s]) ELSE ctx[s])]
  /\ UNCHANGED <<schedVars, lint0>>

KeyboardInterrupt ==
  /\ Delivers(Keyboard)
  /\ irr' = irr \ {Keyboard}
  /\ isr' = Eoi(isr \cup {Keyboard})
  /\ ctx' = [ctx EXCEPT ![rsp] = Resumed(@)]
  /\ UNCHANGED <<schedVars, lint0>>

(* scheduler_yield: int $32 takes the path of the timer interrupt, EOI and *)
(* tick count included, without the PIC having delivered anything.         *)
Yield ==
  /\ Running("thread")
  /\ rsp \in exiting \/ "yield" \in ThreadCalls
  /\ isr' = Eoi(isr)
  /\ Irq0
  /\ ctx' = [s \in Stacks |-> TimerHandler(Aged(ctx[s]))]
  /\ UNCHANGED <<irr, lint0>>

ThreadExit ==
  /\ Running("thread")
  /\ "exit" \in ThreadCalls
  /\ TaskExit
  /\ UNCHANGED <<ctx, irr, isr, lint0>>

----------------------------------------------------------------------------
Boot ==
  \/ GdtInit \/ IdtInit \/ ApicInit \/ TimerInit \/ KeyboardInit
  \/ PmmInit \/ FbInit \/ HeapInit \/ KernelSchedulerInit

Kmain ==
  \/ Boot
  \/ SleepCall \/ SleepCheck \/ SleepHalt \/ SleepReturn
  \/ CreateThread("create_a", "create_b") \/ CreateThread("create_b", "sleep2")
  \/ Report

Next ==
  \/ Kmain
  \/ PitEdge \/ KeyEdge
  \/ TimerInterrupt \/ KeyboardInterrupt
  \/ Yield \/ ThreadExit

(* The PIT runs freely; a CPU with IF set takes a waiting interrupt at the *)
(* next instruction boundary, so being able to take it again and again is  *)
(* enough; and a time slice (10 ms) is far longer than an instruction, so  *)
(* a task that is given the CPU again and again gets on.                   *)
Fairness ==
  /\ WF_vars(PitEdge)
  /\ SF_vars(TimerInterrupt)
  /\ SF_vars(Kmain)

Spec == Init /\ [][Next]_vars

FairSpec == Spec /\ Fairness

----------------------------------------------------------------------------
(* Every variable has its type. *)
TypeOK ==
  /\ SchedTypeOK
  /\ ctx \in [Stacks -> [pc : Places, at : {"body", "check", "tested", "hlt"}, iflag : BOOLEAN,
                         left : 0 .. MaxNeed, since : 0 .. MaxNeed]]
  /\ irr \subseteq {Timer, Keyboard}
  /\ isr \subseteq {Timer, Keyboard}
  /\ lint0 \in {"masked", "ExtINT"}

(* The hlt of timer_sleep always has a way back.  A task that has decided  *)
(* to halt keeps IF set, also one that is interrupted before its hlt and   *)
(* halts only when other tasks, which clear and set IF, have run; and no   *)
(* interrupt left in service keeps a halted CPU from the next one.         *)
NeverHaltsDeaf ==
  /\ \A s \in Stacks : ctx[s].at \in {"tested", "hlt"} => ctx[s].iflag
  /\ ctx[rsp].at = "hlt" /\ lint0 = "ExtINT" /\ irr # {} => \E n \in irr : Delivers(n)

(* Every handler has sent its EOI by the time a task runs again, also when *)
(* the interrupt ended on another task's stack: the PIC blocks nothing.    *)
NothingInService == isr = {}

(* timer_sleep never returns more than one PIT period early: the ticks it  *)
(* has counted are periods that ended since the call and yields, each of   *)
(* which timer_handler takes for a tick, plus at most one period that the  *)
(* PIC had latched before.                                                 *)
SleepNotShort ==
  \A s \in Stacks : Asleep(ctx[s]) => Need(ctx[s].pc) - ctx[s].left <= ctx[s].since + 1

(* A sleeper whose time is up halts at most once more.  The tick that ends *)
(* its sleep may come between the test and the hlt, which is executed      *)
(* nevertheless; after the next interrupt the test lets it go.             *)
HaltsAtMostOnceMore ==
  [][\A s \in Stacks : Asleep(ctx[s]) /\ ctx[s].left = 0 /\ Asleep(ctx'[s]) =>
       /\ ctx'[s].left = 0
       /\ ctx'[s].at = "tested" => ctx[s].at = "tested"
       /\ ctx'[s].at = "hlt" => ctx[s].at \in {"tested", "hlt"}]_vars

(* kmain goes on reporting, whatever the threads do, once LINT0 lets the   *)
(* timer interrupt through.                                                *)
KeepsReporting ==
  (lint0 = "ExtINT") ~> (ctx[BootStack].pc = "print")

(* No task starves: one that is waiting with a saved frame gets the CPU.   *)
NoTaskStarves ==
  \A s \in Stacks : (s \in framed /\ lint0 = "ExtINT") ~> (rsp = s)

(* README.md, Known Issues: "Timer interrupts not delivered (LINT0 masked  *)
(* by local APIC or I/O APIC routing)".                                    *)
TimerInterruptsNotDelivered == [][~TimerInterrupt]_vars

=============================================================================
