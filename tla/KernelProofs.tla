---------------------------- MODULE KernelProofs ----------------------------
(***************************************************************************)
(* Proofs about Kernel: the whole kernel drives the scheduler only through *)
(* the operations Scheduler allows, so everything proved there holds in    *)
(* it, whatever the interrupts, the threads and the allocator do.          *)
(*                                                                         *)
(* The one step that is not immediate is pmm_init, which may free any page *)
(* and must not free a task's stack: it cannot, because kmain runs it      *)
(* before scheduler_init and never again.  KernelInv ties kmain's progress *)
(* to current_task.                                                        *)
(*                                                                         *)
(* TimesInv and SleepInv are about the clock: a tick that timer_sleep      *)
(* counts was latched by the PIC before, so the latch takes part in the    *)
(* account of what a sleeper has waited.                                   *)
(***************************************************************************)
EXTENDS Kernel, SchedulerProofs

Contexts == [pc : Places, at : {"body", "check", "tested", "hlt"}, iflag : BOOLEAN,
             left : Int, since : Int]

(* Who is where: threads run threads' code, and kmain is in its            *)
(* initialisation exactly until scheduler_init.                            *)
WhoIsWhere ==
  /\ ctx \in [Stacks -> Contexts]
  /\ \A p \in Pages : ctx[p].pc = "thread"
  /\ ctx[BootStack].pc \in BootSteps => current_task = -1

(* Nothing sleeps with interrupts disabled, only kmain sleeps, and only    *)
(* the running task is halted.                                             *)
SleepersListen ==
  \A s \in Stacks : /\ Asleep(ctx[s]) => ctx[s].iflag /\ ctx[s].pc \in Sleeps
                    /\ ctx[s].at = "hlt" => s = rsp

KernelInv ==
  /\ SchedInv
  /\ WhoIsWhere
  /\ SleepersListen
  /\ isr = {}

----------------------------------------------------------------------------
(* The EOI ends the one interrupt in service. *)
LEMMA EoiEnds == /\ Eoi({}) = {}
                 /\ Eoi({Timer}) = {}
                 /\ Eoi({Keyboard}) = {}
  BY DEF Eoi, Timer, Keyboard

LEMMA SleepTicksInt == \A pc : Need(pc) \in Int
<1>1. ASSUME NEW ms \in Nat PROVE SleepTicks(ms) \in Int
  <2>1. (TimerFreq * ms) % Word \in Nat
    BY KernelAssumption
  <2> QED
    BY <2>1 DEF SleepTicks
<1> QED
  BY <1>1, KernelAssumption DEF Need

LEMMA KernelInvInit == Init => KernelInv
<1> SUFFICES ASSUME Init PROVE KernelInv
  OBVIOUS
<1>1. SchedInv
  BY SchedInvInit DEF Init
<1>2. WhoIsWhere
  BY SchedulerAssumption DEF Init, WhoIsWhere, Contexts, Start, Stacks, Places, BootSteps, SchedInit
<1>3. SleepersListen
  BY DEF Init, SleepersListen, Start, Asleep
<1> QED
  BY <1>1, <1>2, <1>3 DEF KernelInv, Init

----------------------------------------------------------------------------
(* Where every task stands does not depend on anything but these facts. *)
LEMMA RunningStack ==
  ASSUME KernelInv
  PROVE  /\ rsp \in Stacks
         /\ ctx[rsp] \in Contexts
         /\ rsp # BootStack => rsp \in Pages /\ ctx[rsp].pc = "thread"
         /\ current_task = -1 => rsp = BootStack
  BY DEF KernelInv, SchedInv, SchedTypeOK, WhoIsWhere, Untouched, Stacks

(* kmain's initialisation runs on the boot stack, before scheduler_init. *)
LEMMA BootBeforeScheduler ==
  ASSUME KernelInv, NEW pc \in BootSteps, Running(pc)
  PROVE  rsp = BootStack /\ current_task = -1
<1>1. ctx[rsp].pc # "thread"
  BY DEF Running, BootSteps
<1> QED
  BY <1>1, RunningStack DEF Running, KernelInv, WhoIsWhere

(* Every step of the kernel is a step of the scheduler or leaves it alone. *)
LEMMA StepsAreSchedulerSteps == KernelInv /\ [Next]_vars => [SchedNext]_schedVars
<1> SUFFICES ASSUME KernelInv, [Next]_vars PROVE [SchedNext]_schedVars
  OBVIOUS
<1>1. CASE GdtInit \/ IdtInit \/ ApicInit \/ TimerInit \/ KeyboardInit
  BY <1>1 DEF GdtInit, IdtInit, ApicInit, TimerInit, KeyboardInit
<1>2. ASSUME PmmInit \/ FbInit \/ HeapInit PROVE [SchedNext]_schedVars
  <2>1. current_task = -1
    BY <1>2, BootBeforeScheduler DEF PmmInit, FbInit, HeapInit, BootSteps
  <2>2. StackPages = {}
    BY <2>1 DEF KernelInv, SchedInv, Untouched, StackPages, Task
  <2>3. free' \in SUBSET Pages
    BY <1>2 DEF PmmInit, FbInit, HeapInit, KernelInv, SchedInv, SchedTypeOK
  <2>4. OtherAllocation
    BY <1>2, <2>2, <2>3 DEF PmmInit, FbInit, HeapInit, OtherAllocation
  <2> QED
    BY <2>4 DEF SchedNext
<1>3. CASE KernelSchedulerInit
  BY <1>3 DEF KernelSchedulerInit, SchedNext
<1>4. CASE SleepCall \/ SleepCheck \/ SleepHalt \/ SleepReturn \/ Report
  BY <1>4 DEF SleepCall, SleepCheck, SleepHalt, SleepReturn, Report
<1>5. ASSUME NEW pc, NEW next, CreateThread(pc, next) PROVE [SchedNext]_schedVars
  <2>1. CASE UNCHANGED schedVars
    BY <2>1
  <2>2. CASE \E page \in free : TaskCreate(page)
    BY <2>2 DEF SchedNext, KernelInv, SchedInv, SchedTypeOK
  <2> QED
    BY <1>5, <2>1, <2>2 DEF CreateThread
<1>6. CASE PitEdge \/ KeyEdge \/ KeyboardInterrupt
  BY <1>6 DEF PitEdge, KeyEdge, KeyboardInterrupt
<1>7. CASE TimerInterrupt \/ Yield
  BY <1>7 DEF TimerInterrupt, Yield, SchedNext
<1>8. CASE ThreadExit
  BY <1>8 DEF ThreadExit, SchedNext
<1>9. CASE UNCHANGED vars
  BY <1>9 DEF vars
<1> QED
  BY <1>1, <1>2, <1>3, <1>4, <1>5, <1>6, <1>7, <1>8, <1>9 DEF Next, Kmain, Boot

----------------------------------------------------------------------------
(* Assigning kmain's place changes nothing else of its context. *)
LEMMA GotoOnly ==
  ASSUME KernelInv, NEW pc \in Places, Goto(pc)
  PROVE  /\ ctx' \in [Stacks -> Contexts]
         /\ ctx'[rsp].pc = pc
         /\ \A s \in Stacks : ctx'[s].at = ctx[s].at /\ ctx'[s].iflag = ctx[s].iflag
         /\ \A s \in Stacks \ {rsp} : ctx'[s] = ctx[s]
<1>1. rsp \in Stacks /\ ctx \in [Stacks -> Contexts]
  BY RunningStack DEF KernelInv, WhoIsWhere
<1> QED
  BY <1>1 DEF Goto, Contexts

(* A boot step that leaves the scheduler's table alone. *)
LEMMA BootStepKeeps ==
  ASSUME KernelInv, NEW from \in BootSteps, NEW to \in BootSteps, Running(from), Goto(to),
         UNCHANGED <<current_task, rsp>>
  PROVE  WhoIsWhere' /\ SleepersListen'
<1>1. rsp = BootStack /\ current_task = -1
  BY BootBeforeScheduler
<1>2. to \in Places
  BY DEF Places
<1>3. /\ ctx' \in [Stacks -> Contexts]
      /\ \A s \in Stacks : ctx'[s].at = ctx[s].at /\ ctx'[s].iflag = ctx[s].iflag
      /\ \A s \in Stacks \ {rsp} : ctx'[s] = ctx[s]
  BY <1>2, GotoOnly
<1>4. WhoIsWhere'
  BY <1>1, <1>3, SchedulerAssumption DEF KernelInv, WhoIsWhere, Stacks
<1> QED
  BY <1>3, <1>4 DEF KernelInv, SleepersListen, Asleep, Running

LEMMA KernelInvBoot ==
  ASSUME KernelInv, Boot
  PROVE  WhoIsWhere' /\ SleepersListen' /\ isr' = {}
<1> USE DEF BootSteps
<1>1. CASE GdtInit
  BY <1>1, BootStepKeeps DEF GdtInit, schedVars, KernelInv
<1>2. CASE IdtInit
  <2>1. rsp = BootStack /\ current_task = -1 /\ rsp \in Stacks
    BY <1>2, BootBeforeScheduler, RunningStack DEF IdtInit
  <2>2. ctx \in [Stacks -> Contexts] /\ "apic" \in Places
    BY DEF KernelInv, WhoIsWhere, Places
  <2>3. /\ ctx' \in [Stacks -> Contexts]
        /\ ctx'[rsp].iflag
        /\ \A s \in Stacks : ctx'[s].at = ctx[s].at
        /\ \A s \in Stacks \ {rsp} : ctx'[s] = ctx[s]
    <3> DEFINE booted == [ctx[rsp] EXCEPT !.pc = "apic", !.iflag = TRUE]
    <3>1. ctx' = [ctx EXCEPT ![rsp] = booted]
      BY <1>2 DEF IdtInit
    <3>2. booted \in Contexts /\ booted.iflag /\ booted.at = ctx[rsp].at
      BY <2>1, <2>2 DEF Contexts
    <3> HIDE DEF booted
    <3> QED
      BY <2>1, <2>2, <3>1, <3>2
  <2>4. UNCHANGED <<rsp, current_task>> /\ isr' = {}
    BY <1>2 DEF IdtInit, schedVars
  <2>5. WhoIsWhere'
    BY <2>1, <2>3, <2>4, SchedulerAssumption DEF KernelInv, WhoIsWhere, Stacks
  <2> QED
    BY <1>2, <2>3, <2>4, <2>5 DEF KernelInv, SleepersListen, Asleep, IdtInit, Running
<1>3. CASE ApicInit
  BY <1>3, BootStepKeeps DEF ApicInit, schedVars, KernelInv
<1>4. CASE TimerInit
  BY <1>4, BootStepKeeps DEF TimerInit, schedVars, KernelInv
<1>5. CASE KeyboardInit
  BY <1>5, BootStepKeeps DEF KeyboardInit, schedVars, KernelInv
<1>6. CASE PmmInit
  BY <1>6, BootStepKeeps DEF PmmInit, KernelInv
<1>7. CASE FbInit
  BY <1>7, BootStepKeeps DEF FbInit, KernelInv
<1>8. CASE HeapInit
  BY <1>8, BootStepKeeps DEF HeapInit, KernelInv
<1>9. CASE KernelSchedulerInit
  <2>1. rsp = BootStack /\ rsp' = rsp /\ isr' = {}
    BY <1>9, BootBeforeScheduler DEF KernelSchedulerInit, SchedulerInit, KernelInv
  <2>2. /\ ctx' \in [Stacks -> Contexts]
        /\ ctx'[rsp].pc = "sleep1"
        /\ \A s \in Stacks : ctx'[s].at = ctx[s].at /\ ctx'[s].iflag = ctx[s].iflag
        /\ \A s \in Stacks \ {rsp} : ctx'[s] = ctx[s]
    BY <1>9, GotoOnly DEF KernelSchedulerInit, Places, Sleeps
  <2>3. WhoIsWhere'
    BY <2>1, <2>2, SchedulerAssumption DEF KernelInv, WhoIsWhere, Stacks
  <2> QED
    BY <1>9, <2>1, <2>2, <2>3 DEF KernelInv, SleepersListen, Asleep, KernelSchedulerInit, Running
<1> QED
  BY <1>1, <1>2, <1>3, <1>4, <1>5, <1>6, <1>7, <1>8, <1>9 DEF Boot

(* A step that moves no task to another place and does not undo            *)
(* scheduler_init keeps the tasks where WhoIsWhere has them.               *)
LEMMA SamePlaces ==
  ASSUME KernelInv, ctx' \in [Stacks -> Contexts],
         \A s \in Stacks : ctx'[s].pc = ctx[s].pc,
         current_task = -1 => current_task' = -1
  PROVE  WhoIsWhere'
  BY DEF KernelInv, WhoIsWhere, Stacks

LEMMA KernelInvSleep ==
  ASSUME KernelInv, SleepCall \/ SleepCheck \/ SleepHalt \/ SleepReturn
  PROVE  WhoIsWhere' /\ SleepersListen' /\ isr' = {}
<1>1. /\ rsp \in Stacks
      /\ ctx \in [Stacks -> Contexts]
      /\ UNCHANGED <<rsp, current_task>>
      /\ isr' = {}
  BY RunningStack DEF KernelInv, WhoIsWhere, SleepCall, SleepCheck, SleepHalt, SleepReturn, schedVars
<1>2. CASE SleepCall
  <2>1. Need(ctx[rsp].pc) \in Int
    BY SleepTicksInt
  <2>2. /\ ctx' \in [Stacks -> Contexts]
        /\ \A s \in Stacks : ctx'[s].pc = ctx[s].pc
        /\ ctx'[rsp].iflag
        /\ \A s \in Stacks \ {rsp} : ctx'[s] = ctx[s]
    BY <1>1, <1>2, <2>1 DEF SleepCall, Contexts
  <2>3. WhoIsWhere'
    BY <1>1, <2>2, SamePlaces
  <2> QED
    BY <1>1, <1>2, <2>2, <2>3 DEF KernelInv, SleepersListen, Asleep, SleepCall
<1>3. CASE SleepCheck \/ SleepHalt
  <2>1. /\ ctx' \in [Stacks -> Contexts]
        /\ \A s \in Stacks : ctx'[s].pc = ctx[s].pc /\ ctx'[s].iflag = ctx[s].iflag
        /\ \A s \in Stacks \ {rsp} : ctx'[s] = ctx[s]
    BY <1>1, <1>3 DEF SleepCheck, SleepHalt, Contexts
  <2>2. ctx[rsp].iflag /\ ctx[rsp].pc \in Sleeps
    BY <1>1, <1>3 DEF KernelInv, SleepersListen, Asleep, SleepCheck, SleepHalt
  <2>3. WhoIsWhere'
    BY <1>1, <2>1, SamePlaces
  <2> QED
    BY <1>1, <2>1, <2>2, <2>3 DEF KernelInv, SleepersListen, Asleep
<1>4. CASE SleepReturn
  <2>1. AfterSleep(ctx[rsp].pc) \in Places \ BootSteps
    BY DEF AfterSleep, Places, BootSteps
  <2>2. /\ ctx' \in [Stacks -> Contexts]
        /\ ctx'[rsp].pc = AfterSleep(ctx[rsp].pc) /\ ctx'[rsp].at = "body"
        /\ \A s \in Stacks \ {rsp} : ctx'[s] = ctx[s]
    BY <1>1, <1>4, <2>1 DEF SleepReturn, Start, Contexts
  <2>3. rsp = BootStack
    BY <1>1, <1>4, RunningStack DEF SleepReturn, KernelInv, SleepersListen, Asleep, Sleeps
  <2>4. WhoIsWhere'
    BY <1>1, <2>1, <2>2, <2>3, SchedulerAssumption DEF KernelInv, WhoIsWhere, Stacks
  <2> QED
    BY <1>1, <2>2, <2>4 DEF KernelInv, SleepersListen, Asleep
<1> QED
  BY <1>2, <1>3, <1>4

LEMMA KernelInvCreate ==
  ASSUME KernelInv, NEW pc, NEW next \in Places \ BootSteps, pc # "thread", CreateThread(pc, next)
  PROVE  WhoIsWhere' /\ SleepersListen' /\ isr' = {}
<1>1. /\ rsp = BootStack /\ rsp \in Stacks
      /\ ctx \in [Stacks -> Contexts]
      /\ ctx[rsp].at = "body"
      /\ isr' = {}
  BY RunningStack DEF KernelInv, WhoIsWhere, CreateThread, Running, Asleep
<1>2. UNCHANGED <<rsp, current_task>>
  BY DEF CreateThread, TaskCreate, schedVars
<1>3. ASSUME NEW page \in free, ctx' = [ctx EXCEPT ![page] = Start("thread", TRUE), ![rsp].pc = next]
      PROVE  WhoIsWhere' /\ SleepersListen'
  <2>1. page \in Pages /\ page \in Stacks /\ page # rsp
    BY <1>1, SchedulerAssumption DEF KernelInv, SchedInv, SchedTypeOK, Stacks
  <2>2. Start("thread", TRUE) \in Contexts
    BY DEF Start, Contexts, Places
  <2>3. /\ ctx' \in [Stacks -> Contexts]
        /\ ctx'[rsp].pc = next /\ ctx'[rsp].at = ctx[rsp].at
        /\ ctx'[page] = Start("thread", TRUE)
        /\ \A s \in Stacks \ {rsp, page} : ctx'[s] = ctx[s]
    BY <1>1, <1>3, <2>1, <2>2 DEF Contexts
  <2>4. ctx'[page].pc = "thread" /\ ctx'[page].at = "body"
    BY <2>3 DEF Start
  <2>5. WhoIsWhere'
    BY <1>1, <1>2, <2>1, <2>3, <2>4, SchedulerAssumption DEF KernelInv, WhoIsWhere, Stacks
  <2> QED
    BY <1>1, <1>2, <2>3, <2>4, <2>5 DEF KernelInv, SleepersListen, Asleep
<1>4. ASSUME Goto(next) PROVE WhoIsWhere' /\ SleepersListen'
  <2>1. /\ ctx' \in [Stacks -> Contexts]
        /\ ctx'[rsp].pc = next
        /\ \A s \in Stacks : ctx'[s].at = ctx[s].at /\ ctx'[s].iflag = ctx[s].iflag
        /\ \A s \in Stacks \ {rsp} : ctx'[s] = ctx[s]
    BY <1>4, GotoOnly
  <2>2. WhoIsWhere'
    BY <1>1, <1>2, <2>1, SchedulerAssumption DEF KernelInv, WhoIsWhere, Stacks
  <2> QED
    BY <1>1, <1>2, <2>1, <2>2 DEF KernelInv, SleepersListen, Asleep
<1> QED
  BY <1>1, <1>3, <1>4 DEF CreateThread

LEMMA KernelInvReport ==
  ASSUME KernelInv, Report
  PROVE  WhoIsWhere' /\ SleepersListen' /\ isr' = {}
<1>1. /\ rsp = BootStack /\ ctx[rsp].at = "body"
      /\ isr' = {}
      /\ UNCHANGED <<rsp, current_task>>
  BY RunningStack DEF KernelInv, Report, Running, Asleep, schedVars
<1>2. "sleep2" \in Places \ BootSteps
  BY DEF Places, Sleeps, BootSteps
<1>3. /\ ctx' \in [Stacks -> Contexts]
      /\ ctx'[rsp].pc = "sleep2"
      /\ \A s \in Stacks : ctx'[s].at = ctx[s].at /\ ctx'[s].iflag = ctx[s].iflag
      /\ \A s \in Stacks \ {rsp} : ctx'[s] = ctx[s]
  BY <1>2, GotoOnly DEF Report
<1>4. WhoIsWhere'
  BY <1>1, <1>2, <1>3, SchedulerAssumption DEF KernelInv, WhoIsWhere, Stacks
<1> QED
  BY <1>1, <1>3, <1>4 DEF KernelInv, SleepersListen, Asleep

(* scheduler_tick does nothing before scheduler_init. *)
LEMMA TickBeforeInit ==
  ASSUME Irq0, current_task = -1
  PROVE  current_task' = -1
  BY DEF Irq0, Switches

(* An interrupt handler wakes the halted task and moves nobody. *)
LEMMA HandlerKeeps ==
  ASSUME NEW c \in Contexts
  PROVE  /\ Resumed(c) \in Contexts
         /\ Resumed(c).pc = c.pc /\ Resumed(c).iflag = c.iflag
         /\ Resumed(c).at = IF c.at = "hlt" THEN "check" ELSE c.at
         /\ TimerHandler(c) \in Contexts
         /\ TimerHandler(c).pc = c.pc /\ TimerHandler(c).iflag = c.iflag
         /\ TimerHandler(c).at = c.at
         /\ Aged(c) \in Contexts
         /\ Aged(c).pc = c.pc /\ Aged(c).iflag = c.iflag /\ Aged(c).at = c.at
<1>1. /\ Resumed(c) \in Contexts
      /\ Resumed(c).pc = c.pc /\ Resumed(c).iflag = c.iflag
      /\ Resumed(c).at = IF c.at = "hlt" THEN "check" ELSE c.at
      /\ TimerHandler(c) \in Contexts
      /\ TimerHandler(c).pc = c.pc /\ TimerHandler(c).iflag = c.iflag
      /\ TimerHandler(c).at = c.at
  BY DEF Contexts, Resumed, TimerHandler
<1>2. CapAt(MaxNeed, c.since + 1) \in Int
  BY SleepTicksInt DEF Contexts, CapAt, MaxNeed
<1>3. /\ Aged(c) \in Contexts
      /\ Aged(c).pc = c.pc /\ Aged(c).iflag = c.iflag /\ Aged(c).at = c.at
  BY <1>2 DEF Contexts, Aged
<1> QED
  BY <1>1, <1>3

LEMMA KernelInvInterrupts ==
  ASSUME KernelInv, TimerInterrupt \/ KeyboardInterrupt \/ Yield
  PROVE  WhoIsWhere' /\ SleepersListen' /\ isr' = {}
<1>1. /\ rsp \in Stacks
      /\ ctx \in [Stacks -> Contexts]
      /\ isr = {}
      /\ current_task = -1 => current_task' = -1
  BY RunningStack, TickBeforeInit DEF KernelInv, WhoIsWhere, TimerInterrupt, KeyboardInterrupt,
     Yield, schedVars
<1>2. isr' = {}
  BY <1>1, EoiEnds DEF TimerInterrupt, KeyboardInterrupt, Yield
<1>3. /\ ctx' \in [Stacks -> Contexts]
      /\ \A s \in Stacks : /\ ctx'[s].pc = ctx[s].pc
                           /\ ctx'[s].iflag = ctx[s].iflag
                           /\ ctx'[s].at = IF ctx[s].at = "hlt" THEN "check" ELSE ctx[s].at
  <2>1. \A s \in Stacks : ctx[s].at = "hlt" => s = rsp
    BY DEF KernelInv, SleepersListen
  <2>2. CASE TimerInterrupt
    BY <1>1, <2>1, <2>2, HandlerKeeps DEF TimerInterrupt
  <2>3. CASE KeyboardInterrupt
    BY <1>1, <2>1, <2>3, HandlerKeeps DEF KeyboardInterrupt
  <2>4. CASE Yield
    <3>1. ctx[rsp].at # "hlt"
      BY <2>4 DEF Yield, Running, Asleep
    <3> QED
      BY <1>1, <2>1, <2>4, <3>1, HandlerKeeps DEF Yield
  <2> QED
    BY <2>2, <2>3, <2>4
<1>4. WhoIsWhere'
  BY <1>1, <1>3, SamePlaces
<1> QED
  BY <1>2, <1>3, <1>4 DEF KernelInv, SleepersListen, Asleep

LEMMA KernelInvEdges ==
  ASSUME KernelInv, PitEdge \/ KeyEdge \/ ThreadExit
  PROVE  WhoIsWhere' /\ SleepersListen' /\ isr' = {}
<1>1. /\ ctx \in [Stacks -> Contexts]
      /\ UNCHANGED <<rsp, current_task>>
      /\ isr' = {}
  BY DEF KernelInv, WhoIsWhere, PitEdge, KeyEdge, ThreadExit, TaskExit, schedVars
<1>2. /\ ctx' \in [Stacks -> Contexts]
      /\ \A s \in Stacks : /\ ctx'[s].pc = ctx[s].pc
                           /\ ctx'[s].iflag = ctx[s].iflag
                           /\ ctx'[s].at = ctx[s].at
  <2>1. CASE PitEdge
    BY <1>1, <2>1, HandlerKeeps DEF PitEdge
  <2>2. CASE KeyEdge \/ ThreadExit
    BY <1>1, <2>2 DEF KeyEdge, ThreadExit
  <2> QED
    BY <2>1, <2>2
<1>3. WhoIsWhere'
  BY <1>1, <1>2, SamePlaces
<1> QED
  BY <1>1, <1>2, <1>3 DEF KernelInv, SleepersListen, Asleep

----------------------------------------------------------------------------
LEMMA KernelInvNext == KernelInv /\ [Next]_vars => KernelInv'
<1> SUFFICES ASSUME KernelInv, [Next]_vars PROVE KernelInv'
  OBVIOUS
<1>1. SchedInv'
  BY StepsAreSchedulerSteps, SchedInvNext DEF KernelInv
<1>2. WhoIsWhere' /\ SleepersListen' /\ isr' = {}
  <2>1. CASE Boot
    BY <2>1, KernelInvBoot
  <2>2. CASE SleepCall \/ SleepCheck \/ SleepHalt \/ SleepReturn
    BY <2>2, KernelInvSleep
  <2>3. CASE CreateThread("create_a", "create_b") \/ CreateThread("create_b", "sleep2")
    <3>1. {"create_b", "sleep2"} \subseteq Places \ BootSteps
      BY DEF Places, Sleeps, BootSteps
    <3> QED
      BY <2>3, <3>1, KernelInvCreate
  <2>4. CASE Report
    BY <2>4, KernelInvReport
  <2>5. CASE PitEdge \/ KeyEdge \/ ThreadExit
    BY <2>5, KernelInvEdges
  <2>6. CASE TimerInterrupt \/ KeyboardInterrupt \/ Yield
    BY <2>6, KernelInvInterrupts
  <2>7. CASE UNCHANGED vars
    BY <2>7 DEF vars, schedVars, KernelInv, WhoIsWhere, SleepersListen
  <2> QED
    BY <2>1, <2>2, <2>3, <2>4, <2>5, <2>6, <2>7 DEF Next, Kmain
<1> QED
  BY <1>1, <1>2 DEF KernelInv

LEMMA KernelInvariant == Spec => []KernelInv
  BY KernelInvInit, KernelInvNext, PTL DEF Spec

(* kmain, the timer, the interrupt path and the threads use the scheduler  *)
(* only as Scheduler describes it.                                         *)
THEOREM KernelImplementsScheduler == Spec => SchedSpec
<1>1. Init => SchedInit
  BY DEF Init
<1> QED
  BY <1>1, StepsAreSchedulerSteps, KernelInvariant, PTL DEF Spec, SchedSpec

(* Hence in the running kernel a timer interrupt never resumes a task on a *)
(* stack that is not its own or at a frame that is not there.              *)
THEOREM KernelSwitchesAreSafe == Spec => [](OnCurrentStack /\ SwitchTargetsSaved /\ StacksDisjoint)
  BY KernelImplementsScheduler, CpuOnCurrentStack, SwitchesAreSafe, TaskStacksDisjoint, PTL

(* Whenever a task runs, the PIC has been told that every interrupt is     *)
(* done, also the ones that ended in another task.                         *)
THEOREM EveryInterruptEnded == Spec => []NothingInService
<1>1. KernelInv => NothingInService
  BY DEF KernelInv, NothingInService
<1> QED
  BY <1>1, KernelInvariant, PTL

----------------------------------------------------------------------------
(* Time: what a task's timer_sleep has still to wait for and how long it   *)
(* has waited.                                                             *)

Left(s)  == ctx[s].left
Since(s) == ctx[s].since
Slept(s) == Asleep(ctx[s])

TimesInv ==
  /\ \A s \in Stacks : Left(s) \in 0 .. MaxNeed /\ Since(s) \in 0 .. MaxNeed
  /\ irr \subseteq {Timer, Keyboard} /\ lint0 \in {"masked", "ExtINT"}

(* The edge the PIC has latched and not yet delivered. *)
Pending == IF Timer \in irr THEN 1 ELSE 0

(* A tick that is counted was latched before: with it, no more than one    *)
(* period from before the call is ever counted.                            *)
SleepInv ==
  \A s \in Stacks :
    Slept(s) => /\ Left(s) <= Need(ctx[s].pc)
                /\ Need(ctx[s].pc) - Left(s) + Pending <= Since(s) + 1

LEMMA NeedBounded ==
  /\ MaxNeed \in Nat
  /\ \A pc : Need(pc) \in Nat /\ Need(pc) <= MaxNeed
<1>1. ASSUME NEW ms \in Nat PROVE SleepTicks(ms) \in Nat
  <2>1. (TimerFreq * ms) % Word \in Nat
    BY KernelAssumption
  <2> QED
    BY <2>1 DEF SleepTicks
<1>2. FirstSleep \in Nat /\ LoopSleep \in Nat
  BY KernelAssumption
<1>3. SleepTicks(FirstSleep) \in Nat /\ SleepTicks(LoopSleep) \in Nat
  BY <1>1, <1>2
<1> DEFINE a == SleepTicks(FirstSleep)
           b == SleepTicks(LoopSleep)
<1>4. Need("sleep1") = a /\ Need("sleep2") = b /\ \A pc : Need(pc) = a \/ Need(pc) = b
  BY DEF Need
<1> HIDE DEF a, b
<1>5. a \in Nat /\ b \in Nat
  BY <1>3 DEF a, b
<1>6. MaxNeed = IF a > b THEN a ELSE b
  BY <1>4 DEF MaxNeed
<1> QED
  BY <1>4, <1>5, <1>6

(* What one step does to the time of one task. *)
Quiet(s) == /\ Left(s)' = Left(s) /\ Since(s)' = Since(s)
            /\ Slept(s)' => Slept(s) /\ ctx'[s].pc = ctx[s].pc
            /\ Timer \in irr' => Timer \in irr
Calls(s) == ~Slept(s) /\ Left(s)' = Need(ctx'[s].pc) /\ Since(s)' = 0
Wakes(s) == ~Slept(s)' /\ Left(s)' = 0 /\ Since(s)' = 0
Edge(s)  == /\ Left(s)' = Left(s) /\ (Slept(s)' => Slept(s)) /\ ctx'[s].pc = ctx[s].pc
            /\ Since(s)' = IF Slept(s) THEN CapAt(MaxNeed, Since(s) + 1) ELSE Since(s)
Ticks(s) == /\ Left(s)' = IF Left(s) > 0 THEN Left(s) - 1 ELSE Left(s)
            /\ Since(s)' = Since(s) /\ (Slept(s)' => Slept(s)) /\ ctx'[s].pc = ctx[s].pc
Yields(s) == /\ Left(s)' = IF Left(s) > 0 THEN Left(s) - 1 ELSE Left(s)
             /\ Since(s)' = IF Slept(s) THEN CapAt(MaxNeed, Since(s) + 1) ELSE Since(s)
             /\ (Slept(s)' => Slept(s)) /\ ctx'[s].pc = ctx[s].pc
             /\ irr' = irr

LEMMA HandlerTimes ==
  ASSUME NEW c \in Contexts
  PROVE  /\ Resumed(c) \in Contexts /\ Resumed(c).left = c.left /\ Resumed(c).since = c.since /\ Resumed(c).pc = c.pc
         /\ Asleep(Resumed(c)) => Asleep(c)
         /\ TimerHandler(c).left = IF c.left > 0 THEN c.left - 1 ELSE c.left
         /\ TimerHandler(c).since = c.since /\ TimerHandler(c).pc = c.pc /\ TimerHandler(c).at = c.at
         /\ Aged(c).left = c.left
         /\ Aged(c).since = IF Asleep(c) THEN CapAt(MaxNeed, c.since + 1) ELSE c.since
  BY DEF Contexts, Resumed, TimerHandler, Asleep, Aged

LEMMA TimeOf ==
  ASSUME KernelInv, Next, NEW s \in Stacks
  PROVE  \/ Quiet(s) \/ Calls(s) \/ Wakes(s) \/ Edge(s)
         \/ Ticks(s) /\ Timer \in irr /\ Timer \notin irr'
         \/ Yields(s)
<1> USE DEF Left, Since, Slept
<1>1. rsp \in Stacks /\ ctx \in [Stacks -> Contexts] /\ ctx[s] \in Contexts
  BY RunningStack DEF KernelInv, WhoIsWhere
<1>2. ASSUME NEW pc, ctx[rsp].at = "body", Goto(pc), Timer \in irr' => Timer \in irr PROVE Quiet(s)
  <2>1. /\ ctx'[s].left = ctx[s].left /\ ctx'[s].since = ctx[s].since /\ ctx'[s].at = ctx[s].at
        /\ s # rsp => ctx'[s] = ctx[s]
    BY <1>1, <1>2 DEF Goto, Contexts
  <2> QED
    BY <1>2, <2>1 DEF Quiet, Asleep
<1>3. CASE Boot
  <2>1. CASE IdtInit
    <3>1. /\ ctx'[s].left = ctx[s].left /\ ctx'[s].since = ctx[s].since /\ ctx'[s].at = ctx[s].at
          /\ s # rsp => ctx'[s] = ctx[s]
      BY <1>1, <2>1 DEF IdtInit, Contexts
    <3>2. irr' = {} /\ ~Asleep(ctx[rsp])
      BY <2>1 DEF IdtInit, Running
    <3> QED
      BY <3>1, <3>2 DEF Quiet, Asleep
  <2>2. CASE ~IdtInit
    <3>1. PICK pc : Goto(pc) /\ ctx[rsp].at = "body" /\ irr' = irr
      BY <1>3, <2>2 DEF Boot, GdtInit, ApicInit, TimerInit, KeyboardInit, PmmInit, FbInit, HeapInit,
                        KernelSchedulerInit, Running, Asleep
    <3> QED
      BY <1>2, <3>1
  <2> QED
    BY <2>1, <2>2
<1>4. CASE Report
  BY <1>2, <1>4 DEF Report, Running, Asleep
<1>5. CASE SleepCall
  <2>1. /\ s = rsp => /\ ctx'[s].left = Need(ctx[s].pc) /\ ctx'[s].pc = ctx[s].pc /\ ctx'[s].since = 0
                     /\ ~Asleep(ctx[s])
        /\ s # rsp => ctx'[s] = ctx[s]
        /\ irr' = irr
    BY <1>1, <1>5 DEF SleepCall
  <2> QED
    BY <2>1 DEF Calls, Quiet
<1>6. CASE SleepCheck \/ SleepHalt
  <2>1. /\ ctx'[s].left = ctx[s].left /\ ctx'[s].since = ctx[s].since /\ ctx'[s].pc = ctx[s].pc
        /\ Asleep(ctx[rsp]) /\ (s # rsp => ctx'[s] = ctx[s]) /\ irr' = irr
    BY <1>1, <1>6 DEF SleepCheck, SleepHalt, Asleep, Contexts
  <2> QED
    BY <2>1 DEF Quiet, Asleep
<1>7. CASE SleepReturn
  <2>1. /\ s = rsp => ctx'[s] = Start(AfterSleep(ctx[rsp].pc), FALSE)
        /\ s # rsp => ctx'[s] = ctx[s]
        /\ irr' = irr
    BY <1>1, <1>7 DEF SleepReturn
  <2> QED
    BY <2>1 DEF Wakes, Quiet, Start, Asleep
<1>8. ASSUME NEW pc, NEW next, CreateThread(pc, next) PROVE Quiet(s) \/ Wakes(s)
  <2>1. ctx[rsp].at = "body" /\ irr' = irr
    BY <1>8 DEF CreateThread, Running, Asleep
  <2>2. CASE Goto(next)
    BY <1>2, <2>1, <2>2
  <2>3. ASSUME NEW page \in free, ctx' = [ctx EXCEPT ![page] = Start("thread", TRUE), ![rsp].pc = next]
        PROVE  Quiet(s) \/ Wakes(s)
    <3>1. CASE s = page /\ s # rsp
      <4>1. ctx'[s] = Start("thread", TRUE)
        BY <1>1, <2>3, <3>1
      <4> QED
        BY <4>1 DEF Wakes, Start, Asleep
    <3>2. CASE s # page \/ s = rsp
      <4>1. page # rsp \/ page = rsp
        OBVIOUS
      <4>2. page \in Pages /\ rsp \in Stacks /\ page \in Stacks
        BY <1>1 DEF KernelInv, SchedInv, SchedTypeOK, Stacks
      <4>3. CASE page # rsp
        <5>1. /\ ctx'[s].left = ctx[s].left /\ ctx'[s].since = ctx[s].since /\ ctx'[s].at = ctx[s].at
              /\ s # rsp => ctx'[s] = ctx[s]
          BY <1>1, <2>3, <3>2, <4>2, <4>3 DEF Contexts
        <5> QED
          BY <2>1, <5>1 DEF Quiet, Asleep
      <4>4. CASE page = rsp
        <5>1. /\ s = rsp => ctx'[s].left = 0 /\ ctx'[s].since = 0 /\ ctx'[s].at = "body"
              /\ s # rsp => ctx'[s] = ctx[s]
          BY <1>1, <2>3, <4>2, <4>4 DEF Contexts, Start
        <5> QED
          BY <2>1, <5>1 DEF Quiet, Wakes, Asleep
      <4> QED
        BY <4>3, <4>4
    <3> QED
      BY <3>1, <3>2
  <2> QED
    BY <1>8, <2>2, <2>3 DEF CreateThread
<1>9. CASE PitEdge
  <2>1. ctx'[s] = Aged(ctx[s])
    BY <1>9 DEF PitEdge
  <2>2. /\ ctx'[s].left = ctx[s].left /\ ctx'[s].at = ctx[s].at /\ ctx'[s].pc = ctx[s].pc
        /\ ctx'[s].since = IF Asleep(ctx[s]) THEN CapAt(MaxNeed, ctx[s].since + 1) ELSE ctx[s].since
    BY <1>1, <2>1, HandlerTimes, HandlerKeeps
  <2> QED
    BY <2>2 DEF Edge, Asleep
<1>10. CASE KeyEdge \/ ThreadExit
  BY <1>10 DEF KeyEdge, ThreadExit, Quiet, Timer, Keyboard, Asleep
<1>11. CASE TimerInterrupt
  <2> DEFINE c == IF s = rsp THEN Resumed(ctx[s]) ELSE ctx[s]
  <2>1. ctx'[s] = TimerHandler(c) /\ Timer \in irr /\ Timer \notin irr'
    BY <1>11 DEF TimerInterrupt, Delivers
  <2>2. c \in Contexts /\ c.left = ctx[s].left /\ c.since = ctx[s].since /\ c.pc = ctx[s].pc
        /\ (Asleep(c) => Asleep(ctx[s]))
    BY <1>1, HandlerTimes
  <2> HIDE DEF c
  <2>3. /\ ctx'[s].left = IF c.left > 0 THEN c.left - 1 ELSE c.left
        /\ ctx'[s].since = c.since /\ ctx'[s].pc = c.pc /\ ctx'[s].at = c.at
    BY <2>1, <2>2, HandlerTimes
  <2>4. Ticks(s)
    BY <2>2, <2>3 DEF Ticks, Asleep
  <2> QED
    BY <2>1, <2>4
<1>12. CASE KeyboardInterrupt
  <2>1. irr' = irr \ {Keyboard} /\ ctx'[s] = IF s = rsp THEN Resumed(ctx[s]) ELSE ctx[s]
    BY <1>1, <1>12 DEF KeyboardInterrupt
  <2> QED
    BY <1>1, <2>1, HandlerTimes DEF Quiet
<1>13. CASE Yield
  <2> DEFINE c == Aged(ctx[s])
  <2>1. ctx'[s] = TimerHandler(c) /\ irr' = irr
    BY <1>13 DEF Yield
  <2>2. /\ c \in Contexts /\ c.left = ctx[s].left /\ c.pc = ctx[s].pc /\ c.at = ctx[s].at
        /\ c.since = IF Asleep(ctx[s]) THEN CapAt(MaxNeed, ctx[s].since + 1) ELSE ctx[s].since
    BY <1>1, HandlerTimes, HandlerKeeps
  <2> HIDE DEF c
  <2>3. /\ ctx'[s].left = IF c.left > 0 THEN c.left - 1 ELSE c.left
        /\ ctx'[s].since = c.since /\ ctx'[s].pc = c.pc /\ ctx'[s].at = c.at
    BY <2>1, <2>2, HandlerTimes
  <2> QED
    BY <2>1, <2>2, <2>3 DEF Yields, Asleep
<1> QED
  BY <1>3, <1>4, <1>5, <1>6, <1>7, <1>8, <1>9, <1>10, <1>11, <1>12, <1>13 DEF Next, Kmain

LEMMA TimesStep == ASSUME KernelInv, TimesInv, Next PROVE TimesInv'
<1>1. ASSUME NEW s \in Stacks PROVE Left(s)' \in 0 .. MaxNeed /\ Since(s)' \in 0 .. MaxNeed
  <2>1. Left(s) \in 0 .. MaxNeed /\ Since(s) \in 0 .. MaxNeed /\ MaxNeed \in Nat
    BY NeedBounded DEF TimesInv
  <2>2. Need(ctx'[s].pc) \in 0 .. MaxNeed
    BY NeedBounded
  <2>3. CASE Quiet(s) \/ Wakes(s)
    BY <2>1, <2>3 DEF Quiet, Wakes
  <2>4. CASE Calls(s)
    BY <2>1, <2>2, <2>4 DEF Calls
  <2>5. CASE Edge(s)
    BY <2>1, <2>5 DEF Edge, CapAt
  <2>6. CASE Ticks(s)
    BY <2>1, <2>6 DEF Ticks
  <2>7. CASE Yields(s)
    BY <2>1, <2>7 DEF Yields, CapAt
  <2> QED
    BY <2>3, <2>4, <2>5, <2>6, <2>7, TimeOf
<1>2. irr' \subseteq {Timer, Keyboard} /\ lint0' \in {"masked", "ExtINT"}
  BY DEF TimesInv, Next, Kmain, Boot, GdtInit, IdtInit, ApicInit, TimerInit, KeyboardInit, PmmInit, FbInit, HeapInit,
         KernelSchedulerInit, SleepCall, SleepCheck, SleepHalt, SleepReturn, CreateThread, Report, PitEdge, KeyEdge,
         TimerInterrupt, KeyboardInterrupt, Yield, ThreadExit
<1> QED
  BY <1>1, <1>2 DEF TimesInv, Left, Since

LEMMA TimesAlways == Spec => []TimesInv
<1>1. Init => TimesInv
  <2> SUFFICES ASSUME Init PROVE TimesInv
    OBVIOUS
  <2>1. MaxNeed \in Nat /\ irr = {} /\ lint0 \in {"masked", "ExtINT"}
    BY NeedBounded, KernelAssumption DEF Init
  <2>2. \A s \in Stacks : ctx[s].left = 0 /\ ctx[s].since = 0
    BY DEF Init, Start
  <2> QED
    BY <2>1, <2>2 DEF TimesInv, Left, Since
<1>2. KernelInv /\ TimesInv /\ [Next]_vars => TimesInv'
  <2>1. ASSUME TimesInv, UNCHANGED vars PROVE TimesInv'
    BY <2>1 DEF TimesInv, vars, Left, Since
  <2> QED
    BY <2>1, TimesStep
<1> QED
  BY <1>1, <1>2, KernelInvariant, PTL DEF Spec

(* Type correctness of the whole kernel; what a sleeper has left to wait   *)
(* and has waited stay within the longest sleep, although every tick moves *)
(* the counters of all tasks and the products of timer_sleep wrap.         *)
THEOREM KernelTypeCorrect == Spec => []TypeOK
<1>1. KernelInv /\ TimesInv => TypeOK
  <2> SUFFICES ASSUME KernelInv, TimesInv PROVE TypeOK
    OBVIOUS
  <2>1. SchedTypeOK /\ isr = {} /\ ctx \in [Stacks -> Contexts]
    BY DEF KernelInv, SchedInv, WhoIsWhere
  <2> DEFINE C == [pc : Places, at : {"body", "check", "tested", "hlt"}, iflag : BOOLEAN,
                   left : 0 .. MaxNeed, since : 0 .. MaxNeed]
  <2>2. \A s \in Stacks : ctx[s] \in C
    BY <2>1 DEF TimesInv, Contexts, Left, Since
  <2>3. ctx \in [Stacks -> C]
    BY <2>1, <2>2
  <2> QED
    BY <2>1, <2>3 DEF TypeOK, TimesInv
<1> QED
  BY <1>1, KernelInvariant, TimesAlways, PTL

(* timer_sleep always has a way back from its hlt: it executes it with IF  *)
(* set, also when it was interrupted between its test and the hlt and      *)
(* other tasks have run before it halts, and a halted CPU takes a line     *)
(* that the PIC has latched, since no handler left one in service.         *)
THEOREM HltHasAWayBack == Spec => []NeverHaltsDeaf
<1>1. KernelInv /\ TimesInv => NeverHaltsDeaf
  <2> SUFFICES ASSUME KernelInv, TimesInv PROVE NeverHaltsDeaf
    OBVIOUS
  <2>1. \A s \in Stacks : ctx[s].at \in {"tested", "hlt"} => ctx[s].iflag
    BY DEF KernelInv, SleepersListen, Asleep
  <2>2. ASSUME ctx[rsp].at = "hlt", lint0 = "ExtINT", irr # {} PROVE \E n \in irr : Delivers(n)
    <3>1. irr \subseteq {Timer, Keyboard} /\ isr = {} /\ ctx[rsp].iflag
      BY <2>1, <2>2, RunningStack DEF KernelInv, TimesInv
    <3>2. CASE Timer \in irr
      BY <2>2, <3>1, <3>2 DEF Delivers, Timer, Keyboard
    <3>3. CASE Timer \notin irr
      <4>1. irr = {Keyboard}
        BY <2>2, <3>1, <3>3
      <4> QED
        BY <2>2, <3>1, <4>1 DEF Delivers, Keyboard
    <3> QED
      BY <3>2, <3>3
  <2> QED
    BY <2>1, <2>2 DEF NeverHaltsDeaf
<1> QED
  BY <1>1, KernelInvariant, TimesAlways, PTL

(* Where one step takes a task inside timer_sleep: only a test that finds  *)
(* the counter below the target leads to a hlt.                            *)
LEMMA PlaceOf ==
  ASSUME KernelInv, Next, NEW s \in Stacks
  PROVE  \/ ctx'[s].at \in {ctx[s].at, "body", "check"}
         \/ ctx'[s].at = "tested" /\ ctx[s].left > 0
         \/ ctx'[s].at = "hlt" /\ ctx[s].at = "tested"
<1>1. rsp \in Stacks /\ ctx \in [Stacks -> Contexts] /\ ctx[s] \in Contexts
  BY RunningStack DEF KernelInv, WhoIsWhere
<1>2. ASSUME NEW pc, Goto(pc) PROVE ctx'[s].at = ctx[s].at
  BY <1>1, <1>2 DEF Goto, Contexts
<1>3. CASE Boot
  <2>1. CASE IdtInit
    BY <1>1, <2>1 DEF IdtInit, Contexts
  <2>2. CASE ~IdtInit
    <3>1. \E pc : Goto(pc)
      BY <1>3, <2>2 DEF Boot, GdtInit, ApicInit, TimerInit, KeyboardInit, PmmInit, FbInit, HeapInit,
                        KernelSchedulerInit
    <3> QED
      BY <1>2, <3>1
  <2> QED
    BY <2>1, <2>2
<1>4. CASE Report
  BY <1>2, <1>4 DEF Report
<1>5. CASE SleepCall
  BY <1>1, <1>5 DEF SleepCall
<1>6. CASE SleepCheck
  BY <1>1, <1>6 DEF SleepCheck, Contexts
<1>7. CASE SleepHalt
  BY <1>1, <1>7 DEF SleepHalt, Contexts
<1>8. CASE SleepReturn
  BY <1>1, <1>8 DEF SleepReturn, Start
<1>9. ASSUME NEW pc, NEW next, CreateThread(pc, next) PROVE ctx'[s].at \in {ctx[s].at, "body"}
  <2>1. CASE Goto(next)
    BY <1>2, <2>1
  <2>2. ASSUME NEW page \in free, ctx' = [ctx EXCEPT ![page] = Start("thread", TRUE), ![rsp].pc = next]
        PROVE  ctx'[s].at \in {ctx[s].at, "body"}
    <3> DEFINE made == [ctx EXCEPT ![page] = Start("thread", TRUE)]
    <3>1. Start("thread", TRUE) \in Contexts /\ Start("thread", TRUE).at = "body"
      BY DEF Start, Contexts, Places
    <3>2. made \in [Stacks -> Contexts] /\ made[s].at \in {ctx[s].at, "body"}
      BY <1>1, <3>1
    <3>3. ctx' = [made EXCEPT ![rsp].pc = next]
      BY <2>2
    <3> HIDE DEF made
    <3>4. ctx'[s].at = made[s].at
      BY <1>1, <3>2, <3>3 DEF Contexts
    <3> QED
      BY <3>2, <3>4
  <2> QED
    BY <1>9, <2>1, <2>2 DEF CreateThread
<1>10. CASE PitEdge
  BY <1>1, <1>10, HandlerKeeps DEF PitEdge
<1>11. CASE KeyEdge \/ ThreadExit
  BY <1>11 DEF KeyEdge, ThreadExit
<1>12. CASE TimerInterrupt
  BY <1>1, <1>12, HandlerKeeps DEF TimerInterrupt
<1>13. CASE KeyboardInterrupt
  BY <1>1, <1>13, HandlerKeeps DEF KeyboardInterrupt
<1>14. CASE Yield
  BY <1>1, <1>14, HandlerKeeps DEF Yield
<1> QED
  BY <1>3, <1>4, <1>5, <1>6, <1>7, <1>8, <1>9, <1>10, <1>11, <1>12, <1>13, <1>14 DEF Next, Kmain

(* The tick that ends a sleep may fall between the test and the hlt, with  *)
(* any number of switches around it: the sleeper halts that once, and      *)
(* when it tests again it returns.                                         *)
THEOREM SleepersOversleepOnce == Spec => HaltsAtMostOnceMore
<1> DEFINE Ends(s) ==
      /\ ctx'[s].left = 0
      /\ ctx'[s].at = "tested" => ctx[s].at = "tested"
      /\ ctx'[s].at = "hlt" => ctx[s].at \in {"tested", "hlt"}
<1>1. ASSUME KernelInv, Next, NEW s \in Stacks, Asleep(ctx[s]), ctx[s].left = 0, Asleep(ctx'[s])
      PROVE  Ends(s)
  <2>1. ctx'[s].left = 0
    BY <1>1, TimeOf DEF Quiet, Calls, Wakes, Edge, Ticks, Yields, Left, Slept
  <2> QED
    BY <1>1, <2>1, PlaceOf
<1>2. KernelInv /\ [Next]_vars =>
        [\A s \in Stacks : Asleep(ctx[s]) /\ ctx[s].left = 0 /\ Asleep(ctx'[s]) => Ends(s)]_vars
  BY <1>1
<1> QED
  BY <1>2, KernelInvariant, PTL DEF Spec, HaltsAtMostOnceMore

LEMMA SleepStep ==
  ASSUME KernelInv, TimesInv, SleepInv, Next
  PROVE  SleepInv'
<1>1. ASSUME NEW s \in Stacks, Slept(s)'
      PROVE  /\ Left(s)' <= Need(ctx'[s].pc)
             /\ Need(ctx'[s].pc) - Left(s)' + Pending' <= Since(s)' + 1
  <2> DEFINE l == Left(s)
             m == Left(s)'
             a == Since(s)
             b == Since(s)'
             n == Need(ctx[s].pc)
             k == Need(ctx'[s].pc)
             p == Pending
             q == Pending'
  <2>1. /\ l \in Nat /\ a \in Nat /\ a <= MaxNeed /\ n \in Nat /\ n <= MaxNeed /\ k \in Nat /\ MaxNeed \in Nat
        /\ p \in {0, 1} /\ q \in {0, 1}
    BY NeedBounded DEF TimesInv, Pending
  <2>2. Slept(s) => l <= n /\ n - l + p <= a + 1
    BY DEF SleepInv
  <2>3. (Timer \in irr' => Timer \in irr) => q <= p
    BY DEF Pending
  <2>4. Timer \in irr /\ Timer \notin irr' => p = 1 /\ q = 0
    BY DEF Pending
  <2>5. CASE Quiet(s)
    <3>1. m = l /\ b = a /\ k = n /\ Slept(s) /\ q <= p
      BY <1>1, <2>3, <2>5 DEF Quiet
    <3> HIDE DEF l, m, a, b, n, k, p, q
    <3>2. m <= k /\ k - m + q <= b + 1
      BY <2>1, <2>2, <3>1
    <3> QED
      BY <3>2 DEF m, k, q, b
  <2>6. CASE Calls(s)
    <3>1. m = k /\ b = 0
      BY <2>6 DEF Calls
    <3> HIDE DEF l, m, a, b, n, k, p, q
    <3>2. m <= k /\ k - m + q <= b + 1
      BY <2>1, <3>1
    <3> QED
      BY <3>2 DEF m, k, q, b
  <2>7. CASE Wakes(s)
    BY <1>1, <2>7 DEF Wakes
  <2>8. CASE Edge(s)
    <3>1. m = l /\ k = n /\ Slept(s) /\ b = IF a + 1 > MaxNeed THEN MaxNeed ELSE a + 1
      BY <1>1, <2>8 DEF Edge, CapAt
    <3> HIDE DEF l, m, a, b, n, k, p, q
    <3>2. m <= k /\ k - m + q <= b + 1
      BY <2>1, <2>2, <3>1
    <3> QED
      BY <3>2 DEF m, k, q, b
  <2>9. CASE Ticks(s) /\ Timer \in irr /\ Timer \notin irr'
    <3>1. m = (IF l > 0 THEN l - 1 ELSE l) /\ b = a /\ k = n /\ Slept(s) /\ p = 1 /\ q = 0
      BY <1>1, <2>4, <2>9 DEF Ticks
    <3> HIDE DEF l, m, a, b, n, k, p, q
    <3>2. m <= k /\ k - m + q <= b + 1
      BY <2>1, <2>2, <3>1
    <3> QED
      BY <3>2 DEF m, k, q, b
  <2>10. CASE Yields(s)
    <3>1. /\ m = (IF l > 0 THEN l - 1 ELSE l) /\ k = n /\ Slept(s) /\ q <= p
          /\ b = IF a + 1 > MaxNeed THEN MaxNeed ELSE a + 1
      BY <1>1, <2>3, <2>10 DEF Yields, CapAt
    <3> HIDE DEF l, m, a, b, n, k, p, q
    <3>2. m \in Nat /\ m <= k /\ k - m <= n - l + 1
      BY <2>1, <2>2, <3>1
    <3>3. k - m + q <= b + 1
      BY <2>1, <2>2, <3>1, <3>2
    <3> QED
      BY <3>2, <3>3 DEF m, k, q, b
  <2> QED
    BY <2>5, <2>6, <2>7, <2>8, <2>9, <2>10, TimeOf
<1> QED
  BY <1>1 DEF SleepInv

(* A call of timer_sleep counts only PIT periods, at most one of them from *)
(* before the call, and the yields of other tasks, for every frequency,    *)
(* length and width of the multiplication.                                 *)
THEOREM SleepIsLongEnough == Spec => []SleepNotShort
<1>1. Init => SleepInv
  BY DEF Init, SchedInit, SleepInv, Slept, Asleep, Start
<1>2. KernelInv /\ TimesInv /\ SleepInv /\ [Next]_vars => SleepInv'
  <2>1. ASSUME SleepInv, UNCHANGED vars PROVE SleepInv'
    BY <2>1 DEF SleepInv, vars, schedVars, Left, Since, Slept, Asleep, Pending
  <2> QED
    BY <2>1, SleepStep
<1>3. TimesInv /\ SleepInv => SleepNotShort
  <2> SUFFICES ASSUME TimesInv, SleepInv, NEW s \in Stacks, Asleep(ctx[s])
               PROVE  Need(ctx[s].pc) - ctx[s].left <= ctx[s].since + 1
    BY DEF SleepNotShort
  <2> DEFINE l == Left(s)
             a == Since(s)
             n == Need(ctx[s].pc)
             p == Pending
  <2>1. n - l + p <= a + 1
    BY DEF SleepInv, Slept
  <2>2. l \in Nat /\ a \in Nat /\ n \in Nat /\ p \in Nat
    BY NeedBounded DEF TimesInv, Pending
  <2> HIDE DEF l, a, n, p
  <2>3. n - l <= a + 1
    BY <2>1, <2>2
  <2> QED
    BY <2>3 DEF l, a, n, Left, Since
<1> QED
  BY <1>1, <1>2, <1>3, KernelInvariant, TimesAlways, PTL DEF Spec

=============================================================================
