--------------------------- MODULE InterruptFrame ---------------------------
(***************************************************************************)
(* The frame an interrupt leaves on the stack, word by word: pushed by the *)
(* CPU, by the stubs and by irq_common of interrupts.asm, read through     *)
(* registers_t, built by hand in task_create, popped by isr_return.        *)
(* Scheduler takes it for granted that a frame is complete; here it is     *)
(* made.                                                                   *)
(*                                                                         *)
(* Memory and stack pointers count words of 8 bytes; the stacks grow down. *)
(* Which task a tick switches to is Scheduler's matter: here it is any.    *)
(***************************************************************************)
EXTENDS Integers, Sequences

CONSTANTS
  MAX_TASKS,
  STACK,     \* words of a stack, an even number
  Depths,    \* words a task may have on its stack
  Vectors,   \* interrupts that happen
  MaxGen     \* times the registers of a task change

ASSUME FrameAssumption ==
  /\ MAX_TASKS \in Nat \ {0} /\ STACK \in Nat /\ STACK % 2 = 0 /\ MaxGen \in Nat
  /\ Vectors \subseteq 0 .. 47 \ {29}   \* 29 is raised in encrypted guests only
  /\ Depths \subseteq Nat
  /\ \A d \in Depths \cup {0} : d + 24 <= STACK   \* below it room for a frame, aligned

VARIABLES
  regs,    \* the registers of the CPU
  mem,     \* the stacks
  tasks,   \* tasks[t].rsp, or 0 if there is no such task
  cur,     \* current_task
  phase,      \* "run", then "stub", "push", "handler" and "return", or "halt"
  vector,  \* the interrupt being handled
  gen,     \* gen[t]: changes of t's registers so far
  want     \* history: want[t]: t's registers where it was interrupted

frameVars == <<regs, mem, tasks, cur, phase, vector, gen, want>>

Task == 0 .. MAX_TASKS - 1
StackTop(t) == (t + 1) * STACK
Addr == 1 .. MAX_TASKS * STACK   \* word a lies below address a

PushOrder == <<"rax", "rbx", "rcx", "rdx", "rsi", "rdi", "rbp", "r8",
               "r9", "r10", "r11", "r12", "r13", "r14", "r15">>

(* Mutant of PopOrder: two registers exchanged. *)
PopOrder_Swapped == <<"r15", "r14", "r13", "r12", "r11", "r10", "r9", "r8",
                      "rbp", "rsi", "rdi", "rdx", "rcx", "rbx", "rax">>

PopOrder == <<"r15", "r14", "r13", "r12", "r11", "r10", "r9", "r8",
              "rbp", "rdi", "rsi", "rdx", "rcx", "rbx", "rax">>

(* registers_t, and task_regs_t as well. *)
Fields == <<"r15", "r14", "r13", "r12", "r11", "r10", "r9", "r8",
            "rbp", "rdi", "rsi", "rdx", "rcx", "rbx", "rax",
            "int_no", "error_code", "rip", "cs", "rflags", "rsp", "ss">>

Gpr == {PushOrder[n] : n \in DOMAIN PushOrder}
Reg == Gpr \cup {"rip", "cs", "rflags", "rsp", "ss"}

(* A field of the struct at address a. *)
Field(a, f) == mem[a + (CHOOSE n \in DOMAIN Fields : Fields[n] = f)]

(* The selectors gdt_init sets up and gdt_flush loads. *)
KernelCs == 8
KernelSs == 16

Rflags == 514   \* 0x202: IF is set

(* What task t has in its general registers and rip for the n-th time. *)
Content(t, n, r) ==
  1000 * (t + 1) + 100 * n + (IF r = "rip" THEN 99 ELSE CHOOSE k \in DOMAIN PushOrder : PushOrder[k] = r)

Context(t, n, depth) ==
  [r \in Reg |-> CASE r = "cs" -> KernelCs [] r = "ss" -> KernelSs
                   [] r = "rflags" -> Rflags [] r = "rsp" -> StackTop(t) - depth
                   [] OTHER -> Content(t, n, r)]

FrameInit ==
  /\ regs = Context(0, 0, 0)
  /\ mem = [a \in Addr |-> -1]
  /\ tasks = [t \in Task |-> 0]
  /\ cur = 0 /\ phase = "run" /\ vector = 32
  /\ gen = [t \in Task |-> 0]
  /\ want = [t \in Task |-> Context(t, 0, 0)]

(* The task runs: its registers change and its stack grows or shrinks.     *)
Work(depth) ==
  /\ phase = "run" /\ gen[cur] < MaxGen
  /\ gen' = [gen EXCEPT ![cur] = @ + 1]
  /\ regs' = Context(cur, gen'[cur], depth)
  /\ UNCHANGED <<mem, tasks, cur, phase, vector, want>>

(* task_create: a page of zeros with a frame on top. *)
Created(t, n) ==
  CASE Fields[n] = "ss" -> KernelSs [] Fields[n] = "rsp" -> StackTop(t)
    [] Fields[n] = "rflags" -> Rflags [] Fields[n] = "cs" -> KernelCs
    [] Fields[n] = "rip" -> Content(t, 0, "rip")
    [] OTHER -> 0

TaskCreate(t) ==
  /\ phase = "run" /\ t # cur /\ tasks[t] = 0
  /\ LET frame == StackTop(t) - Len(Fields)
     IN /\ tasks' = [tasks EXCEPT ![t] = frame]
        /\ mem' = [a \in Addr |-> IF a > frame /\ a <= StackTop(t) THEN Created(t, a - frame)
                                  ELSE IF a > StackTop(t) - STACK /\ a <= frame THEN 0 ELSE mem[a]]
  /\ want' = [want EXCEPT ![t] = [r \in Reg |-> IF r \in Gpr THEN 0 ELSE Context(t, 0, 0)[r]]]
  /\ UNCHANGED <<regs, cur, phase, vector, gen>>

----------------------------------------------------------------------------
(* The stack after words were pushed, the first of them first.             *)
Pushed(from, words) ==
  [a \in Addr |-> IF a \in from - Len(words) + 1 .. from THEN words[from - a + 1] ELSE mem[a]]

PushAll(words, extra) ==
  /\ mem' = Pushed(regs.rsp, words)
  /\ regs' = [regs EXCEPT !.rsp = @ - Len(words)]
  /\ UNCHANGED <<tasks, cur, gen, extra>>

(* The CPU: aligns the stack to 16 bytes, pushes where it was and, for     *)
(* some exceptions, an error code, and clears IF.                          *)
PushesError == {8, 10, 11, 12, 13, 14, 17, 21, 29, 30}
Aligned(a) == a - (a % 2)
ErrorCode == 77

Interrupt(v) ==
  /\ phase = "run"
  /\ LET words == <<regs.ss, regs.rsp, regs.rflags, regs.cs, regs.rip>>
                    \o (IF v \in PushesError THEN <<ErrorCode>> ELSE <<>>)
     IN /\ mem' = Pushed(Aligned(regs.rsp), words)
        /\ regs' = [regs EXCEPT !.rsp = Aligned(@) - Len(words), !.rflags = 2]
  /\ want' = [want EXCEPT ![cur] = regs]
  /\ vector' = v /\ phase' = "stub"
  /\ UNCHANGED <<tasks, cur, gen>>

(* The gates of idt_init lead to the stubs of the same number: ISR_ERRCODE *)
(* for these, ISR_NOERRCODE and IRQ, which push a 0, for the others.       *)
ErrorStubs == {8, 10, 11, 12, 13, 14, 17, 21, 30}

(* Mutant of Stub: number and error code the wrong way round. *)
Stub_Swapped ==
  /\ phase = "stub" /\ phase' = "push"
  /\ PushAll(IF vector \in ErrorStubs THEN <<vector>> ELSE <<vector, 0>>, <<vector, want>>)

Stub ==
  /\ phase = "stub" /\ phase' = "push"
  /\ PushAll(IF vector \in ErrorStubs THEN <<vector>> ELSE <<0, vector>>, <<vector, want>>)

(* isr_common and irq_common, up to the call. *)
SaveRegisters ==
  /\ phase = "push" /\ phase' = "handler"
  /\ PushAll([n \in DOMAIN PushOrder |-> regs[PushOrder[n]]], <<vector, want>>)

(* isr_handler reports and halts. *)
IsrHandler ==
  /\ phase = "handler" /\ vector < 32
  /\ phase' = "halt"
  /\ UNCHANGED <<regs, mem, tasks, cur, vector, gen, want>>

(* Changes of the general registers by the C code. *)
Clobbered(rsp) == [r \in Reg |-> IF r \in Gpr THEN 5 ELSE IF r = "rsp" THEN rsp ELSE regs[r]]

(* irq_handler; IRQ 0 saves rsp and may be given another task's.           *)
IrqHandler ==
  /\ phase = "handler" /\ vector >= 32
  /\ \/ regs' = Clobbered(regs.rsp) /\ UNCHANGED <<tasks, cur>>
     \/ /\ vector = 32
        /\ tasks' = [tasks EXCEPT ![cur] = regs.rsp]
        /\ \E t \in Task : tasks'[t] # 0 /\ cur' = t /\ regs' = Clobbered(tasks'[t])
  /\ phase' = "return"
  /\ UNCHANGED <<mem, vector, gen, want>>

(* add rsp, 16 leaves the error code and the number behind. *)
Skip == 2

(* isr_return: pop the registers, then iretq. *)
Return ==
  /\ phase = "return" /\ phase' = "run"
  /\ LET top == regs.rsp + Len(PopOrder) + Skip
         iret == <<"rip", "cs", "rflags", "rsp", "ss">>
     IN regs' = [r \in Reg |->
                   IF r \in Gpr THEN mem[regs.rsp + (CHOOSE n \in DOMAIN PopOrder : PopOrder[n] = r)]
                   ELSE mem[top + (CHOOSE n \in DOMAIN iret : iret[n] = r)]]
  /\ UNCHANGED <<mem, tasks, cur, vector, gen, want>>

FrameNext ==
  \/ \E depth \in Depths : Work(depth)
  \/ \E t \in Task : TaskCreate(t)
  \/ \E v \in Vectors : Interrupt(v)
  \/ Stub \/ SaveRegisters \/ IsrHandler \/ IrqHandler \/ Return

----------------------------------------------------------------------------
(* The handlers are called with the stack as the ABI wants it, aligned to  *)
(* 16 bytes, wherever the task's own stack pointer was, and the struct     *)
(* they read is the interrupted context, with the number of the interrupt  *)
(* and the CPU's error code, or 0.                                         *)
HandlerSees ==
  phase = "handler" =>
    /\ regs.rsp % 2 = 0
    /\ Field(regs.rsp, "int_no") = vector
    /\ Field(regs.rsp, "error_code") = IF vector \in PushesError THEN ErrorCode ELSE 0
    /\ \A r \in Reg : Field(regs.rsp, r) = want[cur][r]

(* An interrupt is invisible to the tasks: whoever is resumed has every    *)
(* register, its exact stack pointer and IF as they were when it was       *)
(* interrupted, or as task_create planned, however many others ran since.  *)
Transparent == [][phase = "return" => regs' = want[cur]]_frameVars

=============================================================================
