-------------------------- MODULE SchedulerProofs --------------------------
(***************************************************************************)
(* Proofs about Scheduler for a table of any length and any set of pages.  *)
(*                                                                         *)
(* None of the safety properties is inductive alone: that a switch lands   *)
(* on the stack of the task it selected needs that task's saved rsp, the   *)
(* saved rsp survives only because stacks are disjoint, and a new task     *)
(* takes a fresh slot only because every used one is ready or running.     *)
(* SchedInv joins them with the shape of the table.                        *)
(***************************************************************************)
EXTENDS Scheduler, WellFoundedInduction, TLAPS

(* The table before scheduler_init, as .bss leaves it. *)
Untouched ==
  current_task = -1 =>
    /\ task_count = 0
    /\ rsp = BootStack
    /\ framed = {}
    /\ exiting = {}
    /\ \A i \in Slots : tasks[i] = Task(READY, NULL, NULL)

(* The table after it: the slots in use are the first task_count ones, and *)
(* all of them except slot 0 own a page.                                   *)
TableShape ==
  current_task >= 0 =>
    /\ current_task < task_count
    /\ tasks[0].stack = NULL
    /\ \A i \in Used \ {0} : tasks[i].stack # NULL
    /\ \A i \in Slots \ Used : tasks[i].state = TERMINATED /\ tasks[i].stack = NULL

SchedInv ==
  /\ SchedTypeOK
  /\ Untouched
  /\ TableShape
  /\ OnCurrentStack
  /\ SwitchTargetsSaved
  /\ StacksDisjoint
  /\ OneRunning

----------------------------------------------------------------------------
(* A nonempty set of natural numbers has a least element: what the two     *)
(* linear scans of the table rely on.                                      *)
LEMMA LeastElement ==
  ASSUME NEW T \in SUBSET Nat, T # {}
  PROVE  \E x \in T : \A y \in T : x <= y
<1> DEFINE R == OpToRel(<, Nat)
<1>1. IsWellFoundedOn(R, Nat)
  BY NatLessThanWellFounded
<1>2. \E x \in T : \A y \in T : ~(<<y, x>> \in R)
  <2> HIDE DEF R
  <2> QED BY <1>1, WFMin
<1>3. \A x, y \in Nat : ~(<<y, x>> \in R) => x <= y
  BY DEF OpToRel
<1> QED
  BY <1>2, <1>3

(* task_find_free returns -1, or a terminated slot below which none is. *)
LEMMA FindFree ==
  ASSUME SchedTypeOK, task_find_free >= 0
  PROVE  /\ task_find_free \in Slots
         /\ tasks[task_find_free].state = TERMINATED
         /\ \A j \in Slots : j < task_find_free => tasks[j].state # TERMINATED
<1> DEFINE T == {i \in Slots : tasks[i].state = TERMINATED}
<1>1. T # {}
  BY DEF task_find_free
<1>2. T \in SUBSET Nat
  BY SchedulerAssumption DEF Slots
<1>3. PICK x \in T : \A y \in T : x <= y
  BY <1>1, <1>2, LeastElement
<1>4. /\ x \in Slots
      /\ tasks[x].state = TERMINATED
      /\ \A j \in 0 .. x - 1 : tasks[j].state # TERMINATED
  BY <1>3, SchedulerAssumption DEF Slots
<1> DEFINE P(i) == /\ tasks[i].state = TERMINATED
                   /\ \A j \in 0 .. i - 1 : tasks[j].state # TERMINATED
<1>5. task_find_free = CHOOSE i \in Slots : P(i)
  BY <1>1 DEF task_find_free
<1>6. task_find_free \in Slots /\ P(task_find_free)
  BY <1>4, <1>5
<1> QED
  BY <1>6, SchedulerAssumption DEF Slots

(* task_find_next_ready returns -1, or the ready slot in use that comes    *)
(* first in the cyclic scan.                                               *)
LEMMA FindNextReady ==
  ASSUME SchedTypeOK, NEW from \in 0 .. MAX_TASKS, task_find_next_ready(from) >= 0
  PROVE  \E k \in Slots :
           /\ task_find_next_ready(from) = (from + k) % MAX_TASKS
           /\ task_find_next_ready(from) \in Used
           /\ tasks[task_find_next_ready(from)].state = READY
           /\ \A j \in Slots : j < k => ~ReadyAt(from, j)
<1> DEFINE T == {i \in Slots : ReadyAt(from, i)}
           P(i) == ReadyAt(from, i) /\ \A j \in 0 .. i - 1 : ~ReadyAt(from, j)
           k == CHOOSE i \in Slots : P(i)
<1>1. T # {}
  BY DEF task_find_next_ready
<1>2. T \in SUBSET Nat
  BY SchedulerAssumption DEF Slots
<1>3. PICK x \in T : \A y \in T : x <= y
  BY <1>1, <1>2, LeastElement
<1>4. x \in Slots /\ P(x)
  BY <1>3, SchedulerAssumption DEF Slots
<1>5. k \in Slots /\ P(k)
  BY <1>4
<1>6. task_find_next_ready(from) = (from + k) % MAX_TASKS
  BY <1>1 DEF task_find_next_ready
<1> HIDE DEF k
<1>7. (from + k) % MAX_TASKS \in Slots
  BY <1>5, SchedulerAssumption DEF Slots
<1>8. \A j \in Slots : j < k => ~ReadyAt(from, j)
  BY <1>5, SchedulerAssumption DEF Slots
<1>9. /\ (from + k) % MAX_TASKS < task_count
      /\ tasks[(from + k) % MAX_TASKS].state = READY
  BY <1>5 DEF ReadyAt
<1> QED
  BY <1>5, <1>6, <1>7, <1>8, <1>9 DEF Used

(* What a switch switches to. *)
LEMMA SwitchTarget ==
  ASSUME SchedTypeOK, Switches
  PROVE  /\ TickNext \in Used
         /\ TickNext # current_task
         /\ current_task \in Slots
         /\ tasks[TickNext].state = READY
<1>1. current_task + 1 \in 0 .. MAX_TASKS /\ current_task \in Slots
  BY SchedulerAssumption DEF SchedTypeOK, Switches, Slots
<1>2. task_find_next_ready(current_task + 1) >= 0 /\ TickNext # current_task
  BY DEF Switches, TickNext
<1> QED
  BY <1>1, <1>2, FindNextReady DEF TickNext

----------------------------------------------------------------------------
LEMMA SchedInvInit == SchedInit => SchedInv
<1> SUFFICES ASSUME SchedInit PROVE SchedInv
  OBVIOUS
<1>1. SchedTypeOK
  BY SchedulerAssumption DEF Task, SchedInit, SchedTypeOK, Slots, Stacks, READY
<1>2. Untouched
  BY DEF SchedInit, Untouched
<1>3. Used = {}
  BY DEF SchedInit, Used, Slots
<1> QED
  BY <1>1, <1>2, <1>3 DEF SchedInit, SchedInv, TableShape, OnCurrentStack,
     SwitchTargetsSaved, StacksDisjoint, OneRunning

LEMMA SchedInvSchedulerInit ==
  ASSUME SchedInv, SchedulerInit
  PROVE  SchedInv'
<1> USE SchedulerAssumption
<1>1. /\ 0 \in Slots
      /\ tasks' = [i \in Slots |-> tasks'[i]]
      /\ tasks'[0] = Task(RUNNING, NULL, NULL)
      /\ \A i \in Slots \ {0} : tasks'[i] = Task(TERMINATED, NULL, NULL)
  BY DEF SchedInv, Untouched, SchedulerInit, Task, Slots
<1>2. /\ \A i \in Slots : tasks'[i].stack = NULL
      /\ tasks'[0].state = RUNNING
      /\ \A i \in Slots \ {0} : tasks'[i].state = TERMINATED
  BY <1>1 DEF Task
<1>3. SchedTypeOK'
  BY <1>1 DEF Task, SchedInv, SchedTypeOK, SchedulerInit, Slots
<1>4. Used' = {0}
  BY DEF SchedulerInit, Used, Slots
<1>5. Untouched'
  BY DEF SchedulerInit, Untouched
<1>6. TableShape'
  BY <1>1, <1>2, <1>4 DEF SchedulerInit, TableShape
<1>7. rsp' = BootStack /\ free' \in SUBSET Pages
  BY DEF SchedInv, SchedTypeOK, Untouched, SchedulerInit
<1>8. StackOf(0)' = BootStack
  BY <1>1, <1>2 DEF StackOf
<1>9. OnCurrentStack' /\ SwitchTargetsSaved' /\ StacksDisjoint'
  BY <1>4, <1>7, <1>8 DEF SchedulerInit, OnCurrentStack, SwitchTargetsSaved, StacksDisjoint
<1>10. OneRunning'
  BY <1>2, <1>4 DEF SchedulerInit, OneRunning
<1> QED
  BY <1>3, <1>5, <1>6, <1>9, <1>10 DEF SchedInv

(* A task in the table, once there is one, is never terminated in a slot   *)
(* below task_count unless it is the current one: task_create extends the  *)
(* table by exactly one slot.                                              *)
LEMMA CreateExtends ==
  ASSUME SchedInv, NEW page \in Pages, TaskCreate(page)
  PROVE  /\ current_task >= 0
         /\ task_find_free = task_count
         /\ task_count \in Slots \ {0}
<1> USE SchedulerAssumption
<1> DEFINE idx == task_find_free
<1>1. /\ idx \in Slots
      /\ tasks[idx].state = TERMINATED
      /\ \A j \in Slots : j < idx => tasks[j].state # TERMINATED
  BY FindFree DEF SchedInv, TaskCreate
<1> HIDE DEF idx
<1>2. current_task # -1
  BY <1>1 DEF Task, SchedInv, Untouched, READY, TERMINATED
<1>3. current_task >= 0 /\ current_task \in Used /\ current_task < task_count
  BY <1>2 DEF SchedInv, SchedTypeOK, TableShape, Used, Slots
<1>4. idx \notin Used
  BY <1>1, <1>3 DEF SchedInv, SwitchTargetsSaved, OneRunning, TaskCreate, Used,
     READY, RUNNING, TERMINATED
<1>5. idx >= task_count /\ task_count \in Slots
  BY <1>1, <1>4 DEF SchedInv, SchedTypeOK, Used, Slots
<1>6. task_count \notin Used
  BY DEF SchedInv, SchedTypeOK, Used
<1>7. tasks[task_count].state = TERMINATED
  BY <1>3, <1>5, <1>6 DEF SchedInv, TableShape
<1>8. idx = task_count
  BY <1>1, <1>5, <1>7 DEF Slots, SchedInv, SchedTypeOK
<1> QED
  BY <1>3, <1>5, <1>8 DEF idx, SchedInv, SchedTypeOK, Slots

LEMMA SchedInvTaskCreate ==
  ASSUME SchedInv, NEW page \in Pages, TaskCreate(page)
  PROVE  SchedInv'
<1> USE SchedulerAssumption
<1>0. PICK n \in Slots \ {0} : n = task_count
  BY CreateExtends
<1>1. current_task >= 0 /\ task_find_free = n /\ n \in Slots \ {0}
  BY <1>0, CreateExtends
<1>2. /\ tasks' = [tasks EXCEPT ![n] = Task(READY, page, page)]
      /\ task_count' = n + 1
      /\ page \in free
      /\ free' = free \ {page}
      /\ framed' = framed \cup {page}
      /\ current_task' = current_task /\ rsp' = rsp /\ exiting' = exiting
      /\ rsp \notin exiting
  BY <1>0, <1>1 DEF TaskCreate, SchedInv, SchedTypeOK
<1>3. SchedTypeOK'
  BY <1>1, <1>2 DEF Task, SchedInv, SchedTypeOK, Slots, Stacks, READY
<1>4. Used' = Used \cup {n} /\ n \notin Used
  BY <1>0, <1>1, <1>2 DEF SchedInv, SchedTypeOK, Used, Slots
<1>5. /\ tasks'[n] = Task(READY, page, page)
      /\ \A i \in Slots \ {n} : tasks'[i] = tasks[i]
  BY <1>1, <1>2 DEF SchedInv, SchedTypeOK
<1>6. /\ StackOf(n)' = page
      /\ \A i \in Slots \ {n} : StackOf(i)' = StackOf(i)
  BY <1>1, <1>5 DEF Task, StackOf
<1>7. current_task \in Used /\ Used \subseteq Slots \ {n}
  BY <1>0, <1>1, <1>4 DEF SchedInv, SchedTypeOK, TableShape, Used, Slots
<1>8. Untouched'
  BY <1>1, <1>2 DEF Untouched
<1>9. TableShape'
  BY <1>0, <1>1, <1>2, <1>4, <1>5, <1>7 DEF Task, SchedInv, SchedTypeOK, TableShape, Slots
<1>10. OnCurrentStack'
  BY <1>1, <1>2, <1>6, <1>7 DEF SchedInv, OnCurrentStack
<1>11. SwitchTargetsSaved'
  BY <1>1, <1>2, <1>4, <1>5, <1>6, <1>7 DEF Task, SchedInv, SwitchTargetsSaved
<1>12. StacksDisjoint'
  BY <1>2, <1>4, <1>6, <1>7 DEF SchedInv, StacksDisjoint
<1>13. OneRunning'
  BY <1>1, <1>2, <1>4, <1>5, <1>7 DEF Task, SchedInv, OneRunning, READY, RUNNING
<1> QED
  BY <1>3, <1>8, <1>9, <1>10, <1>11, <1>12, <1>13 DEF SchedInv

LEMMA SchedInvTaskExit ==
  ASSUME SchedInv, TaskExit
  PROVE  SchedInv'
<1> USE SchedulerAssumption
<1>0. PICK c \in Slots : c = current_task
  BY DEF SchedInv, SchedTypeOK, TaskExit, Slots
<1>1. c \in Slots /\ c >= 0 /\ c \in Used
  BY <1>0 DEF SchedInv, SchedTypeOK, TableShape, TaskExit, Slots, Used
<1>2. /\ tasks' = [tasks EXCEPT ![c] = Task(TERMINATED, @.rsp, @.stack)]
      /\ exiting' = exiting \cup {rsp}
      /\ task_count' = task_count /\ current_task' = c /\ rsp' = rsp
      /\ framed' = framed /\ free' = free
  BY <1>0 DEF TaskExit
<1>3. SchedTypeOK'
  <2>1. tasks[c].rsp \in Stacks \cup {NULL} /\ tasks[c].stack \in Pages \cup {NULL}
    BY DEF SchedInv, SchedTypeOK
  <2> QED
    BY <1>0, <1>2, <2>1 DEF Task, SchedInv, SchedTypeOK
<1>4. Used' = Used
  BY <1>2 DEF Used
<1>5. /\ tasks'[c].state = TERMINATED
      /\ \A i \in Slots : tasks'[i].stack = tasks[i].stack /\ tasks'[i].rsp = tasks[i].rsp
      /\ \A i \in Slots \ {c} : tasks'[i].state = tasks[i].state
  BY <1>1, <1>2 DEF Task, SchedInv, SchedTypeOK
<1>6. \A i \in Slots : StackOf(i)' = StackOf(i)
  BY <1>5 DEF StackOf
<1>7. Untouched'
  BY <1>1, <1>2 DEF Untouched
<1>8. TableShape'
  BY <1>0, <1>1, <1>2, <1>4, <1>5 DEF SchedInv, TableShape, Used, Slots
<1>9. OnCurrentStack' /\ SwitchTargetsSaved'
  BY <1>0, <1>1, <1>2, <1>4, <1>5, <1>6 DEF SchedInv, OnCurrentStack, SwitchTargetsSaved, Used
<1>10. StacksDisjoint'
  BY <1>2, <1>4, <1>6 DEF SchedInv, StacksDisjoint, Used
<1>11. OneRunning'
  BY <1>0, <1>1, <1>2, <1>4, <1>5 DEF SchedInv, OneRunning, Used, RUNNING, TERMINATED
<1> QED
  BY <1>3, <1>7, <1>8, <1>9, <1>10, <1>11 DEF SchedInv

LEMMA SchedInvIrq0 ==
  ASSUME SchedInv, Irq0
  PROVE  SchedInv'
<1> USE SchedulerAssumption
<1>1. CASE ~Switches /\ current_task = -1
  <2>1. /\ tasks' = tasks /\ rsp' = rsp /\ framed' = {}
        /\ current_task' = current_task /\ task_count' = task_count
        /\ free' = free /\ exiting' = exiting
    BY <1>1 DEF Irq0, TickTasks, TickReturns, SchedInv, Untouched
  <2>2. framed' = framed
    BY <1>1, <2>1 DEF SchedInv, Untouched
  <2> QED
    BY <2>1, <2>2 DEF SchedInv, SchedTypeOK, Untouched, TableShape, OnCurrentStack,
       SwitchTargetsSaved, StacksDisjoint, OneRunning, StackOf, Used
<1>2. CASE ~Switches /\ current_task # -1
  <2>0. PICK c \in Slots : c = current_task
    BY <1>2 DEF SchedInv, SchedTypeOK, Slots
  <2>1. /\ c \in Slots /\ c >= 0 /\ c \in Used /\ c < task_count
        /\ rsp = StackOf(c) /\ rsp \in Stacks
    BY <2>0 DEF SchedInv, SchedTypeOK, TableShape, OnCurrentStack, Slots, Used
  <2>2. /\ tasks' = [tasks EXCEPT ![c] = Task(RUNNING, rsp, @.stack)]
        /\ rsp' = rsp /\ framed' = framed \ {rsp}
        /\ current_task' = c /\ task_count' = task_count
        /\ free' = free /\ exiting' = exiting
    <3>1. TickTasks(rsp) = [tasks EXCEPT ![c] = Task(RUNNING, rsp, @.stack)]
      BY <1>2, <2>0 DEF TickTasks, Slots
    <3>2. TickReturns = NULL
      BY <1>2 DEF TickReturns
    <3> QED
      BY <1>2, <2>0, <3>1, <3>2 DEF Irq0
  <2>3. SchedTypeOK'
    <3>1. tasks[c].stack \in Pages \cup {NULL}
      BY DEF SchedInv, SchedTypeOK
    <3> QED
      BY <2>0, <2>1, <2>2, <3>1 DEF Task, SchedInv, SchedTypeOK
  <2>4. Used' = Used
    BY <2>2 DEF Used
  <2>5. /\ tasks'[c].state = RUNNING
        /\ \A i \in Slots : tasks'[i].stack = tasks[i].stack
        /\ \A i \in Slots \ {c} : tasks'[i] = tasks[i]
    BY <2>1, <2>2 DEF Task, SchedInv, SchedTypeOK
  <2>6. \A i \in Slots : StackOf(i)' = StackOf(i)
    BY <2>5 DEF StackOf
  <2>7. Untouched'
    BY <2>1, <2>2 DEF Untouched
  <2>8. TableShape'
    BY <2>0, <2>1, <2>2, <2>4, <2>5 DEF SchedInv, TableShape, Used, Slots
  <2>9. OnCurrentStack'
    BY <2>1, <2>2, <2>6 DEF OnCurrentStack
  <2>10. \A i \in Used \ {c} : StackOf(i) # rsp
    BY <2>1 DEF SchedInv, StacksDisjoint
  <2>11. SwitchTargetsSaved'
    BY <2>0, <2>1, <2>2, <2>4, <2>5, <2>6, <2>10 DEF SchedInv, SwitchTargetsSaved, Used
  <2>12. StacksDisjoint'
    BY <2>2, <2>4, <2>6 DEF SchedInv, StacksDisjoint, Used
  <2>13. OneRunning'
    BY <2>0, <2>1, <2>2, <2>4, <2>5 DEF SchedInv, OneRunning, Used
  <2> QED
    BY <2>3, <2>7, <2>8, <2>9, <2>11, <2>12, <2>13 DEF SchedInv
<1>3. CASE Switches
  <2>0. /\ TickNext \in Used /\ TickNext # current_task
        /\ current_task \in Slots /\ tasks[TickNext].state = READY
    BY <1>3, SwitchTarget DEF SchedInv
  <2>1. PICK c \in Slots, n \in Used : c = current_task /\ n = TickNext
    BY <2>0
  <2>2. /\ c >= 0 /\ c \in Used /\ c < task_count /\ n # c
        /\ n \in Slots /\ n >= 0 /\ n < task_count
        /\ rsp = StackOf(c) /\ rsp \in Stacks
    BY <2>0, <2>1 DEF SchedInv, SchedTypeOK, TableShape, OnCurrentStack, Slots, Used
  <2>3. /\ tasks[n].rsp = StackOf(n) /\ StackOf(n) # NULL
        /\ StackOf(n) \in framed /\ StackOf(n) \in Stacks
    BY <2>1, <2>2 DEF SchedInv, SchedTypeOK, SwitchTargetsSaved, StackOf, Stacks
  <2>4. /\ tasks' = [tasks EXCEPT ![c] = Task(READY, rsp, @.stack),
                                  ![n] = Task(RUNNING, @.rsp, @.stack)]
        /\ rsp' = StackOf(n)
        /\ framed' = (framed \cup {rsp}) \ {StackOf(n)}
        /\ current_task' = n /\ task_count' = task_count
        /\ free' = free /\ exiting' = exiting
    <3>1. TickTasks(rsp) = [tasks EXCEPT ![c] = Task(READY, rsp, @.stack),
                                         ![n] = Task(RUNNING, @.rsp, @.stack)]
      BY <1>3, <2>1 DEF TickTasks, Slots
    <3>2. TickReturns = StackOf(n) /\ StackOf(n) # NULL
      BY <1>3, <2>1, <2>3 DEF TickReturns
    <3> QED
      BY <1>3, <2>1, <3>1, <3>2 DEF Irq0
  <2>5. /\ tasks'[c] = Task(READY, rsp, tasks[c].stack)
        /\ tasks'[n] = Task(RUNNING, tasks[n].rsp, tasks[n].stack)
        /\ \A i \in Slots \ {c, n} : tasks'[i] = tasks[i]
        /\ tasks' = [i \in Slots |-> tasks'[i]]
    BY <2>1, <2>2, <2>4 DEF SchedInv, SchedTypeOK
  <2>6. SchedTypeOK'
    <3>1. \A i \in Slots : /\ tasks[i].stack \in Pages \cup {NULL}
                           /\ tasks[i].rsp \in Stacks \cup {NULL}
                           /\ tasks[i] \in [state : {READY, RUNNING, TERMINATED},
                                            rsp   : Stacks \cup {NULL},
                                            stack : Pages \cup {NULL}]
      BY DEF SchedInv, SchedTypeOK
    <3>2. \A i \in Slots : tasks'[i] \in [state : {READY, RUNNING, TERMINATED},
                                          rsp   : Stacks \cup {NULL},
                                          stack : Pages \cup {NULL}]
      BY <2>2, <2>5, <3>1 DEF Task
    <3>3. current_task' \in -1 .. MAX_TASKS - 1
      BY <2>2, <2>4 DEF Slots
    <3> QED
      BY <2>2, <2>3, <2>4, <2>5, <3>2, <3>3 DEF SchedInv, SchedTypeOK
  <2>7. Used' = Used
    BY <2>4 DEF Used
  <2>8. /\ tasks'[n].state = RUNNING /\ tasks'[c].state = READY /\ tasks'[c].rsp = rsp
        /\ tasks'[c].stack = tasks[c].stack /\ tasks'[n].stack = tasks[n].stack
    BY <2>5 DEF Task
  <2>9. \A i \in Slots : StackOf(i)' = StackOf(i)
    BY <2>5, <2>8 DEF StackOf
  <2>10. Untouched'
    BY <2>2, <2>4 DEF Untouched
  <2>11. TableShape'
    <3>1. \A i \in Slots : tasks'[i].stack = tasks[i].stack
      BY <2>5, <2>8
    <3>2. \A i \in Slots \ Used : tasks'[i].state = tasks[i].state
      BY <2>1, <2>2, <2>5
    <3>3. 0 \in Slots
      BY DEF Slots
    <3> QED
      BY <2>1, <2>2, <2>4, <2>7, <3>1, <3>2, <3>3 DEF SchedInv, TableShape, Used
  <2>12. OnCurrentStack'
    BY <2>2, <2>4, <2>9 DEF OnCurrentStack
  <2>13. \A i \in Used \ {n} : StackOf(i) # StackOf(n)
    BY <2>1 DEF SchedInv, StacksDisjoint
  <2>14. SwitchTargetsSaved'
    <3>1. \A i \in Used \ {c, n} : /\ tasks[i].state = READY
                                   /\ tasks[i].rsp = StackOf(i)
                                   /\ StackOf(i) \in framed
      BY <2>1, <2>2 DEF SchedInv, SwitchTargetsSaved
    <3>2. \A i \in Used \ {n} : /\ tasks'[i].state = READY
                                /\ tasks'[i].rsp = StackOf(i)
                                /\ StackOf(i) \in framed'
      BY <2>2, <2>4, <2>5, <2>8, <2>13, <3>1 DEF Used
    <3> QED
      BY <2>4, <2>7, <2>9, <3>2 DEF SwitchTargetsSaved, Used
  <2>15. StacksDisjoint'
    BY <2>4, <2>7, <2>9 DEF SchedInv, StacksDisjoint, Used
  <2>16. OneRunning'
    <3>1. \A i \in Used \ {n} : tasks'[i].state = READY
      BY <2>4, <2>7, <2>14, <2>2 DEF SwitchTargetsSaved
    <3> QED
      BY <2>4, <2>7, <2>8, <3>1 DEF OneRunning, READY, RUNNING
  <2> QED
    BY <2>6, <2>10, <2>11, <2>12, <2>14, <2>15, <2>16 DEF SchedInv
<1> QED
  BY <1>1, <1>2, <1>3

LEMMA SchedInvOtherAllocation ==
  ASSUME SchedInv, OtherAllocation
  PROVE  SchedInv'
<1> USE SchedulerAssumption
<1>1. \A i \in Slots : StackOf(i) \notin free'
  BY DEF OtherAllocation, StackPages, StackOf
<1> QED
  BY <1>1 DEF OtherAllocation, SchedInv, SchedTypeOK, Untouched, TableShape, OnCurrentStack,
     SwitchTargetsSaved, StacksDisjoint, OneRunning, StackOf, Used

LEMMA SchedInvNext == SchedInv /\ [SchedNext]_schedVars => SchedInv'
<1> SUFFICES ASSUME SchedInv, [SchedNext]_schedVars PROVE SchedInv'
  OBVIOUS
<1>1. CASE SchedulerInit
  BY <1>1, SchedInvSchedulerInit
<1>2. ASSUME NEW page \in Pages, TaskCreate(page) PROVE SchedInv'
  BY <1>2, SchedInvTaskCreate
<1>3. CASE TaskExit
  BY <1>3, SchedInvTaskExit
<1>4. CASE Irq0
  BY <1>4, SchedInvIrq0
<1>5. CASE OtherAllocation
  BY <1>5, SchedInvOtherAllocation
<1>6. CASE UNCHANGED schedVars
  BY <1>6 DEF schedVars, SchedInv, SchedTypeOK, Untouched, TableShape, OnCurrentStack,
     SwitchTargetsSaved, StacksDisjoint, OneRunning, StackOf, Used
<1> QED
  BY <1>1, <1>2, <1>3, <1>4, <1>5, <1>6 DEF SchedNext

----------------------------------------------------------------------------
LEMMA SchedInvariant == SchedSpec => []SchedInv
  BY SchedInvInit, SchedInvNext, PTL DEF SchedSpec

(* Type correctness of the task table and of what scheduler_tick computes: *)
(* in particular no index leaves the table.                                *)
THEOREM SchedulerTypeCorrect == SchedSpec => []SchedTypeOK
<1>1. SchedInv => SchedTypeOK
  BY DEF SchedInv
<1> QED
  BY <1>1, SchedInvariant, PTL

(* After every timer interrupt the CPU runs on the stack of the task that  *)
(* scheduler_tick made current.                                            *)
THEOREM CpuOnCurrentStack == SchedSpec => []OnCurrentStack
<1>1. SchedInv => OnCurrentStack
  BY DEF SchedInv
<1> QED
  BY <1>1, SchedInvariant, PTL

(* scheduler_tick never returns 0 by accident: every task it can select    *)
(* has a saved rsp, which points at a complete frame on its own stack.     *)
THEOREM SwitchesAreSafe == SchedSpec => []SwitchTargetsSaved
<1>1. SchedInv => SwitchTargetsSaved
  BY DEF SchedInv
<1> QED
  BY <1>1, SchedInvariant, PTL

(* No two tasks share a stack page, and none of them is free. *)
THEOREM TaskStacksDisjoint == SchedSpec => []StacksDisjoint
<1>1. SchedInv => StacksDisjoint
  BY DEF SchedInv
<1> QED
  BY <1>1, SchedInvariant, PTL

(* Only the current task is marked TASK_RUNNING, and it is unless it is on *)
(* its way out through task_exit.                                          *)
THEOREM OnlyCurrentRuns == SchedSpec => []OneRunning
<1>1. SchedInv => OneRunning
  BY DEF SchedInv
<1> QED
  BY <1>1, SchedInvariant, PTL

----------------------------------------------------------------------------
(* Slot i is number (i - c - 1) % M of the scan that starts at c + 1. *)
LEMMA ScanReaches ==
  ASSUME NEW M \in Nat \ {0}, NEW c \in 0 .. M - 1, NEW i \in 0 .. M - 1
  PROVE  /\ (i - c - 1) % M \in 0 .. M - 1
         /\ (c + 1 + ((i - c - 1) % M)) % M = i
  OBVIOUS

(* Number k of that scan is the slot at distance k. *)
LEMMA ScanDistance ==
  ASSUME NEW M \in Nat \ {0}, NEW c \in 0 .. M - 1, NEW k \in 0 .. M - 1
  PROVE  (((c + 1 + k) % M) - c - 1) % M = k
  OBVIOUS

(* The round robin of scheduler_tick is fair to every task in the table,   *)
(* for every table length: a switch goes to the first ready task in cyclic *)
(* order and passes none over.                                             *)
THEOREM RoundRobin == SchedSpec => NoReadyTaskPassedOver
<1> USE SchedulerAssumption
<1> DEFINE PassesNoneOver ==
             \A i \in Used :
               /\ current_task >= 0
               /\ current_task' # current_task
               /\ Precedes(current_task, i, current_task')
               => tasks[i].state # READY
<1>1. ASSUME SchedInv, [SchedNext]_schedVars,
             NEW i \in Used, current_task >= 0, current_task' # current_task,
             Precedes(current_task, i, current_task')
      PROVE  tasks[i].state # READY
  <2>1. Irq0 /\ Switches
    <3>1. ~SchedulerInit
      BY <1>1 DEF SchedulerInit
    <3>2. Irq0
      BY <1>1, <3>1 DEF SchedNext, schedVars, TaskCreate, TaskExit, OtherAllocation
    <3> QED
      BY <1>1, <3>2 DEF Irq0
  <2>2. PICK c \in Slots : c = current_task
    BY <2>1, SwitchTarget, <1>1 DEF SchedInv
  <2>3. PICK k \in Slots : /\ TickNext = (c + 1 + k) % MAX_TASKS
                           /\ \A j \in Slots : j < k => ~ReadyAt(c + 1, j)
    <3>1. c + 1 \in 0 .. MAX_TASKS
      BY DEF Slots
    <3>2. task_find_next_ready(c + 1) >= 0
      BY <2>1, <2>2 DEF Switches, TickNext
    <3> QED
      BY <1>1, <2>2, <3>1, <3>2, FindNextReady DEF SchedInv, TickNext
  <2> DEFINE d == (i - c - 1) % MAX_TASKS
  <2>4. d \in Slots /\ (c + 1 + d) % MAX_TASKS = i
    <3>1. c \in 0 .. MAX_TASKS - 1 /\ i \in 0 .. MAX_TASKS - 1
      BY DEF Slots, Used
    <3> QED
      BY <3>1, ScanReaches DEF Slots
  <2>5. (TickNext - c - 1) % MAX_TASKS = k
    BY <2>3, ScanDistance DEF Slots
  <2>6. current_task' = TickNext
    BY <2>1 DEF Irq0
  <2>7. d < k
    BY <1>1, <2>2, <2>5, <2>6 DEF Precedes
  <2>8. ~ReadyAt(c + 1, d)
    BY <2>3, <2>4, <2>7
  <2> QED
    BY <2>4, <2>8 DEF ReadyAt, Used
<1>2. SchedInv /\ [SchedNext]_schedVars => [PassesNoneOver]_schedVars
  BY <1>1
<1>3. NoReadyTaskPassedOver <=> [][PassesNoneOver]_schedVars
  BY DEF NoReadyTaskPassedOver
<1> HIDE DEF PassesNoneOver
<1> QED
  BY <1>2, <1>3, SchedInvariant, PTL DEF SchedSpec

=============================================================================
