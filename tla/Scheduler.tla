----------------------------- MODULE Scheduler -----------------------------
(***************************************************************************)
(* The task table of src/kernel/sched/scheduler.c and the context switch   *)
(* that src/arc/x86_64/interrupts.asm makes with the value scheduler_tick  *)
(* returns.                                                                *)
(*                                                                         *)
(* A saved stack pointer is abstracted to the stack it points into: task   *)
(* 0 (kmain) runs on the stack the boot loader gave it, every other task   *)
(* on the page task_create took from pmm_alloc, and NULL is the pointer 0. *)
(* A stack is in `framed' while it holds a complete task_regs_t on top,    *)
(* the only thing isr_return may be pointed at.                            *)
(*                                                                         *)
(* Names, the stack size (always one page) and the register contents other *)
(* than the stack pointer are left out.                                    *)
(***************************************************************************)
EXTENDS Integers, FiniteSets

CONSTANTS
  MAX_TASKS,  \* length of the table tasks[]
  Pages,      \* the physical pages the allocator may hand out
  BootStack,  \* the stack _start and kmain run on
  NULL        \* the address 0

ASSUME SchedulerAssumption ==
  /\ MAX_TASKS \in Nat \ {0}
  /\ BootStack \notin Pages
  /\ NULL \notin Pages \cup {BootStack}

VARIABLES
  tasks,         \* tasks[i]: state, saved rsp, stack page (kernel_stack_top)
  task_count,    \* one more than the highest slot ever used
  current_task,  \* slot of the running task, -1 before scheduler_init
  rsp,           \* the stack the CPU executes on
  framed,        \* the stacks that hold a saved register frame
  free,          \* pages the physical allocator still has
  exiting        \* stacks whose task is inside task_exit's for (;;) loop

schedVars == <<tasks, task_count, current_task, rsp, framed, free, exiting>>

READY      == "TASK_READY"
RUNNING    == "TASK_RUNNING"
TERMINATED == "TASK_TERMINATED"

Slots  == 0 .. MAX_TASKS - 1
Stacks == Pages \cup {BootStack}

(* An entry of the table. *)
Task(state, saved, stack) == [state |-> state, rsp |-> saved, stack |-> stack]

(* The pages some slot of the table still names as its stack. *)
StackPages == {tasks[i].stack : i \in Slots} \ {NULL}

----------------------------------------------------------------------------
(* The static storage after _start has zeroed .bss: enumerator 0 is        *)
(* TASK_READY, and current_task = -1 comes from .data.                     *)
SchedInit ==
  /\ tasks = [i \in Slots |-> Task(READY, NULL, NULL)]
  /\ task_count = 0
  /\ current_task = -1
  /\ rsp = BootStack
  /\ framed = {}
  /\ free = {}
  /\ exiting = {}

(* scheduler_init.  It runs with interrupts enabled, but a tick before its *)
(* last assignment (current_task = 0) returns without touching the table,  *)
(* so nothing can observe it half done.                                    *)
SchedulerInit ==
  /\ current_task = -1
  /\ tasks' = [i \in Slots |-> IF i = 0 THEN Task(RUNNING, NULL, NULL)
                                       ELSE Task(TERMINATED, NULL, tasks[i].stack)]
  /\ task_count' = 1
  /\ current_task' = 0
  /\ UNCHANGED <<rsp, framed, free, exiting>>

----------------------------------------------------------------------------
(* The first slot a new task may take, or -1. *)
task_find_free ==
  IF \E i \in Slots : tasks[i].state = TERMINATED
  THEN CHOOSE i \in Slots :
         /\ tasks[i].state = TERMINATED
         /\ \A j \in 0 .. i - 1 : tasks[j].state # TERMINATED
  ELSE -1

(* Mutants of TaskCreate: the page it uses as a stack stays with the       *)
(* allocator; task_count ends up one past the new slot's successor.        *)
TaskCreate_KeepsPage(page) ==
  LET idx == task_find_free
  IN /\ rsp \notin exiting
     /\ idx >= 0
     /\ page \in free
     /\ tasks' = [tasks EXCEPT ![idx] = Task(READY, page, page)]
     /\ task_count' = IF idx >= task_count THEN idx + 1 ELSE task_count
     /\ framed' = framed \cup {page}
     /\ UNCHANGED <<current_task, rsp, free, exiting>>

TaskCreate_CountOff(page) ==
  LET idx == task_find_free
  IN /\ rsp \notin exiting
     /\ idx >= 0
     /\ page \in free
     /\ tasks' = [tasks EXCEPT ![idx] = Task(READY, page, page)]
     /\ task_count' = IF idx >= task_count - 1 THEN idx + 2 ELSE task_count
     /\ free' = free \ {page}
     /\ framed' = framed \cup {page}
     /\ UNCHANGED <<current_task, rsp, exiting>>

(* task_create, called with interrupts disabled as kmain calls it.  page   *)
(* is what pmm_alloc returned.  A full table or a failed allocation leaves *)
(* everything as it was.  The new stack starts with a frame built by hand, *)
(* which counts as a saved one.                                            *)
TaskCreate(page) ==
  LET idx == task_find_free
  IN /\ rsp \notin exiting
     /\ idx >= 0
     /\ page \in free
     /\ tasks' = [tasks EXCEPT ![idx] = Task(READY, page, page)]
     /\ task_count' = IF idx >= task_count THEN idx + 1 ELSE task_count
     /\ free' = free \ {page}
     /\ framed' = framed \cup {page}
     /\ UNCHANGED <<current_task, rsp, exiting>>

(* The assignment of task_exit.  From here on the task only yields. *)
TaskExit ==
  /\ current_task >= 0
  /\ rsp \notin exiting
  /\ tasks' = [tasks EXCEPT ![current_task] = Task(TERMINATED, @.rsp, @.stack)]
  /\ exiting' = exiting \cup {rsp}
  /\ UNCHANGED <<task_count, current_task, rsp, framed, free>>

----------------------------------------------------------------------------
(* Slot number i of the scan that starts at `from' holds a ready task. *)
ReadyAt(from, i) ==
  LET idx == (from + i) % MAX_TASKS
  IN idx < task_count /\ tasks[idx].state = READY

(* The first ready slot of the cyclic scan from `from', or -1. *)
task_find_next_ready(from) ==
  IF \E i \in Slots : ReadyAt(from, i)
  THEN (from + (CHOOSE i \in Slots :
                  ReadyAt(from, i) /\ \A j \in 0 .. i - 1 : ~ReadyAt(from, j)))
       % MAX_TASKS
  ELSE -1

(* scheduler_tick(current_rsp): the table it leaves, the slot it selects   *)
(* and the stack pointer it returns (NULL: no switch).                     *)
(* Mutant of TickNext: every scan starts at slot 0. *)
TickNext_FromZero == task_find_next_ready(0)

TickNext == task_find_next_ready(current_task + 1)

Switches == current_task >= 0 /\ TickNext >= 0 /\ TickNext # current_task

(* Mutants of TickTasks: the interrupted stack pointer is not saved; the   *)
(* interrupted task stays TASK_RUNNING.                                    *)
TickTasks_NoSave(current_rsp) ==
  IF current_task < 0 \/ ~Switches THEN tasks
  ELSE [tasks EXCEPT ![current_task] = Task(READY, @.rsp, @.stack),
                     ![TickNext]     = Task(RUNNING, @.rsp, @.stack)]

TickTasks_NoDemote(current_rsp) ==
  IF current_task < 0 THEN tasks
  ELSE IF Switches
  THEN [tasks EXCEPT ![current_task] = Task(@.state, current_rsp, @.stack),
                     ![TickNext]     = Task(RUNNING, @.rsp, @.stack)]
  ELSE [tasks EXCEPT ![current_task] = Task(RUNNING, current_rsp, @.stack)]

TickTasks(current_rsp) ==
  IF current_task < 0 THEN tasks
  ELSE IF Switches
  THEN [tasks EXCEPT ![current_task] = Task(READY, current_rsp, @.stack),
                     ![TickNext]     = Task(RUNNING, @.rsp, @.stack)]
  ELSE [tasks EXCEPT ![current_task] = Task(RUNNING, current_rsp, @.stack)]

(* Mutant of TickReturns: read after current_task has been reassigned in   *)
(* the table but from the slot that was interrupted.                       *)
TickReturns_OldSlot == IF Switches THEN tasks[current_task].rsp ELSE NULL

TickReturns == IF Switches THEN tasks[TickNext].rsp ELSE NULL

(* irq_common on vector 32, whether the PIT or `int $32' raised it: push a *)
(* frame on the current stack, call the handler, load the stack pointer it *)
(* returns unless that is 0, pop the frame found there.                    *)
Irq0 ==
  /\ tasks' = TickTasks(rsp)
  /\ current_task' = IF Switches THEN TickNext ELSE current_task
  /\ rsp' = IF TickReturns = NULL THEN rsp ELSE TickReturns
  /\ framed' = (framed \cup {rsp}) \ {rsp'}
  /\ UNCHANGED <<task_count, free, exiting>>

(* Everything else that allocates or frees pages: pmm_init, the page       *)
(* tables of vmm.c, heap_init.  No page that is a task's stack becomes     *)
(* free, because nothing in the kernel frees one.                          *)
OtherAllocation ==
  /\ free' \in SUBSET (Pages \ StackPages)
  /\ UNCHANGED <<tasks, task_count, current_task, rsp, framed, exiting>>

SchedNext ==
  \/ SchedulerInit
  \/ \E page \in Pages : TaskCreate(page)
  \/ TaskExit
  \/ Irq0
  \/ OtherAllocation

SchedSpec == SchedInit /\ [][SchedNext]_schedVars

----------------------------------------------------------------------------
(* Every variable has its type.  A slot below task_count is ready, running *)
(* or terminated; current_task names a slot or is -1.                      *)
SchedTypeOK ==
  /\ tasks \in [Slots -> [state : {READY, RUNNING, TERMINATED},
                          rsp   : Stacks \cup {NULL},
                          stack : Pages \cup {NULL}]]
  /\ task_count \in 0 .. MAX_TASKS
  /\ current_task \in -1 .. MAX_TASKS - 1
  /\ rsp \in Stacks
  /\ framed \in SUBSET Stacks
  /\ free \in SUBSET Pages
  /\ exiting \in SUBSET Stacks

(* The stack of slot i: task 0 has kernel_stack_top 0 and keeps the boot   *)
(* loader's stack.                                                         *)
StackOf(i) == IF tasks[i].stack = NULL THEN BootStack ELSE tasks[i].stack

Used == {i \in Slots : i < task_count}

(* What scheduler_tick leaves in the table and what irq_common loads into  *)
(* the CPU agree: after every interrupt the CPU runs on the stack of the   *)
(* task the table calls current.                                           *)
OnCurrentStack == current_task >= 0 => rsp = StackOf(current_task)

(* Every task that is not current can be switched to: it is ready, its     *)
(* saved rsp is not 0 (which irq_common would read as `no switch'), points *)
(* into its own stack and at a frame that is really there.                 *)
SwitchTargetsSaved ==
  current_task >= 0 =>
    \A i \in Used \ {current_task} :
      /\ tasks[i].state = READY
      /\ tasks[i].rsp = StackOf(i)
      /\ StackOf(i) \in framed

(* No two tasks share a stack and no task's stack is a page the allocator  *)
(* could hand out again.                                                   *)
StacksDisjoint ==
  /\ \A i, j \in Used : StackOf(i) = StackOf(j) => i = j
  /\ \A i \in Used : StackOf(i) \notin free

(* At most the current task is marked running, and a task other than one   *)
(* that is in the middle of task_exit is.                                  *)
OneRunning ==
  current_task >= 0 =>
    /\ \A i \in Used : tasks[i].state = RUNNING => i = current_task
    /\ rsp \notin exiting => tasks[current_task].state = RUNNING

(* i comes before n in the cyclic order of the slots that starts after c.  *)
Precedes(c, i, n) == (i - c - 1) % MAX_TASKS < (n - c - 1) % MAX_TASKS

(* Round robin: a switch from slot c to slot n never passes over a task    *)
(* that was ready.                                                         *)
NoReadyTaskPassedOver ==
  [][\A i \in Used :
       /\ current_task >= 0
       /\ current_task' # current_task
       /\ Precedes(current_task, i, current_task')
       => tasks[i].state # READY]_schedVars

(* What task_exit sets out to do: once a task that called it has been      *)
(* switched away from, it is never the current task again.                 *)
ExitedTaskNeverRuns ==
  [][\A s \in exiting : rsp # s => rsp' # s]_schedVars

=============================================================================
