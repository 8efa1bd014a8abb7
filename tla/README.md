# A TLA+ verification of the Suika kernel

Suika is a small 64-bit kernel for one x86-64 CPU, started by the Limine boot
loader, whose `limine` tool its Makefile builds and runs on the disk image.
This directory holds TLA+ models of its parts, the TLC configurations
that check them on small instances, and TLAPS proofs for instances of any
size. Every definition is a translation of the C and assembly under `src/`;
`PROJECT.json` names the lines of each.

## 1. Inventory

| Part | Source | State | Operations |
|---|---|---|---|
| Scheduler | `kernel/sched/scheduler.c` | `tasks[]` (state, saved rsp, stack), `task_count`, `current_task` | `scheduler_init`, `task_create`, `task_exit`, `scheduler_tick`, `scheduler_yield` |
| Interrupt path | `arc/x86_64/interrupts.asm`, `irq_handler` in `kmain.c` | the frame on each stack, rsp, IF | push the frame, dispatch, EOI, switch stack, pop, `iretq` |
| kmain and threads | `kernel/kmain.c` | the place in the code, two counters | initialisation in a fixed order, sleep, create two threads, report for ever |
| PIT timer | `arc/x86_64/drivers/timer.c` | `timer_ticks`, `timer_freq`, divisor | `timer_init`, `timer_handler`, `timer_sleep` |
| IDT and PIC | `arc/x86_64/idt.c` | gates; the PIC's request, service and mask registers | `idt_init`, `pic_remap`, EOI |
| Local APIC | `arc/x86_64/apic.c` | LINT0, a pool of three page tables | `apic_init` |
| Frames (PMM) | `kernel/memory/pmm.c` | `free_list_head`, `free_count`, links inside the free frames | `pmm_init`, `pmm_alloc`, `pmm_free` |
| Page tables (VMM) | `kernel/memory/vmm.c` | four-level tables, TLB | map, unmap, translate |
| Heap | `kernel/memory/heap.c` | list of blocks that tile 1 MiB | `heap_init`, `kmalloc`, `kfree` |
| Keyboard | `arc/x86_64/drivers/keyboard.c` | ring buffer, shift flag | interrupt handler, `keyboard_getchar`, `keyboard_read` |
| Console | `kernel/fb.c` | cursor, colours | `fb_init`, `fb_clear`, `fb_putchar` |
| Serial line, panic, exceptions | `kernel/serial.c`, `kernel/panic.c`, `isr_handler` | the UART's transmitter, IF | put a string; report and halt |
| GDT, entry, strings | the remaining files | constants or none | run once, or pure functions |
| `limine bios-install` | `limine/limine.c`, `limine-bios-hdd.h` | one cached block, a journal of overwritten data, the device | read, write, flush, undo, uninstall; probe, convert, check, install |
| `limine enroll-config` | `limine/limine.c` | a boot loader file and its copy in memory | find the signature, patch, write back |

How they interact. kmain calls everything else. The timer interrupt, or the
`int $32` of `scheduler_yield`, goes through `irq_common` to `irq_handler`,
which counts a tick, asks `scheduler_tick` for the next stack pointer, sends
the EOI and returns it; `irq_common` loads it unless it is 0. `task_create`
takes a page from the PMM as a stack; the VMM takes pages for tables, the heap
for itself. There is one CPU and no lock: what protects shared state is IF,
which is part of every task's saved context. The page tables are shared by
`apic_init`, which has its own tables, and the VMM's callers. The `limine`
tool is a process of its own; it shares nothing with the kernel but the image
it writes to (`Makefile`, `bios-install`).

What is hard here:

- *interrupts between any two instructions*: the check-then-halt loop of
  `timer_sleep`, a tick between the assignment and the first yield of
  `task_exit`, ticks while the table is being built;
- *agreement between the table and the CPU*: the return value 0 means "no
  switch" and is also what an unsaved rsp contains;
- *failure paths nobody checks*: `task_create`, `vmm_map_page`, `heap_init`
  and `apic_init` give up silently and kmain goes on;
- *in-band data*: the free list lives in memory its users overwrite, the heap
  headers between the users' blocks;
- *lost edges*: the PIC remembers one timer edge while IF is clear;
- *stale copies*: the TLB after a page table changed, the tool's block cache
  after a read failed;
- *undoing what failed*: a device write can fail half way, and so can the undo;
- *layouts written down several times*: the interrupt frame exists as pushes,
  as two structs, as the words `task_create` stores and as pops;
- *arithmetic at boundaries*: rounding a size, wrapping a cursor or a ring,
  32-bit MBR fields for 64-bit GPT ones, a match that overlaps a failed one.

`PROJECT.json` lists these hazards one by one with their lines and the
properties aimed at them.

## 2. Modules

| Module | What it is |
|---|---|
| `Scheduler` | the task table and the context switch |
| `Kernel` | kmain, threads, PIC, LINT0, PIT and `timer_sleep` over `Scheduler` |
| `FrameAllocator` | abstract: a pool of distinct frames |
| `Pmm` | `pmm.c`, which implements it |
| `AddressSpace` | abstract: a map from pages to frames that calls change page by page |
| `Vmm` | `vmm.c` and the TLB, which implement it |
| `MemInit` | `apic_init`, `fb_init`, `heap_init` and later callers, over `Vmm` |
| `Heap` | `kmalloc` and `kfree` |
| `BoundedQueue` | abstract: a queue that drops what arrives when it is full |
| `Keyboard` | `keyboard.c`, which implements it |
| `Console` | `fb.c` |
| `InterruptFrame` | stubs, `irq_common`, `isr_return` and `task_create`'s frame, word by word |
| `SerialConsole` | `serial.c`, `panic.c` and `isr_handler` |
| `Devices` | the four modules before it, side by side |
| `JournaledDevice` | abstract: a device whose writes can be undone |
| `LimineDevice` | the device layer of `limine.c`, which implements it |
| `LimineInstall` | `bios_install` over `JournaledDevice` |
| `EnrollConfig` | `enroll_config` |
| `Limine` | `main` over the two commands |
| `MCScheduler`, `MCKernel`, `MCPmm`, `MCMemInit`, `MCDevices`, `MCLimine` | instances for TLC |
| `SchedulerProofs`, `KernelProofs` | theorems about `Scheduler` and `Kernel` |
| `PmmProofs`, `MemInitProofs`, `HeapProofs` | theorems about `Pmm`, `MemInit` with `Vmm`, and `Heap` |
| `DevicesProofs` | theorems about keyboard, console and interrupt frames |
| `LimineDeviceProofs`, `LimineProofs` | theorems about the device layer, and about both commands |

### Scheduler

A saved stack pointer is abstracted to the stack it points into. `framed` is
the set of stacks with a complete `task_regs_t` on top, `free` what the
allocator still has, `exiting` (history) the stacks whose task is in the
endless loop of `task_exit`. Actions: `SchedulerInit`, `TaskCreate`,
`TaskExit`, `Irq0` (the whole of `irq_common` with `scheduler_tick`) and
`OtherAllocation` (any other user of the allocator). A failed `task_create`
changes nothing and needs no action. `scheduler_init` runs with IF set but is
one action: its last assignment makes `current_task` 0, and until then a tick
returns at once. `tasks[i].rsp` of slot 0 really is 0 until its first tick,
and `.bss` really makes every slot `TASK_READY` before `scheduler_init`.

### Kernel

`ctx[s]` is the context of the task on stack `s`: its place (`pc`), whether it
is outside `timer_sleep`, at its test, behind it or halted (`at`), its IF, and
`left`, which is `max(0, target - timer_ticks)` and replaces the 64-bit tick
counter: the code compares the two and does nothing else with them.
`since` is history: the PIT periods since the call, and the yields, whose
`int $32` the timer's handler counts as well. `irr` and `isr` are the
PIC's registers for the two unmasked lines, `lint0` the local APIC's setting.
Interrupt gates clear IF and no handler sets it, so a handler is one action;
`timer_sleep` is four: the call, the test, the `hlt` and the return. Between the
test and the `hlt` (`at = "tested"`) the tick that ends the sleep may fall, and
the task may be switched away and resumed: it halts all the same. Only an
interrupt that finds it halted leads back to the test. `apic_init` is abstracted to its outcomes (LINT0 set, or one of its
early returns), `pmm_init`, `fb_init` and `heap_init` to the frames they leave.
The threads of kmain only count; `ThreadCalls` lets them yield or call
`task_exit` as well, since the interface offers both. `Kernel` refines
`Scheduler` with the identity on the shared variables: `SchedSpec` is a
property of its runs.

### Pmm and FrameAllocator

`mem[a]` is the word at physical address `a`, `found` and `owned` are history:
what `pmm_init` linked in and what `pmm_alloc` handed out. `pmm_init` is
modelled iteration by iteration, rounding and kernel clipping included;
`OwnerWrites` lets the owner of a frame write anything over the old link.
The refinement maps the pool to `found \ owned`. The assumption `MemMapOK` is
what Limine guarantees of usable ranges: disjoint, inside the address space,
never the first page.

### Vmm, MemInit and AddressSpace

A page is the tuple of its four indices, a table a function from indices to
entries (present, huge, frame). `op` is the call under way: one step per level,
one for allocating and clearing a table and one for linking it, one for the
entry, one for `invlpg`; between any two the MMU may load or drop a TLB entry.
A frame nobody cleared holds garbage. `vmm_map_page` gives up silently when
frames run out or an entry on the way has the page size bit, which it tests
whether or not the entry is present; that the boot loader leaves that bit in no
absent entry is part of `VmmAssumption`, and no step sets it. `MemInit` runs `apic_init` with
its pool of three tables and its split of a 2 MB page, maps the framebuffer
and the heap, then lets callers map and unmap other pages. The refinement maps
`AddressSpace`'s map to `VirtToPhys`, which is `vmm_virt_to_phys`, and its
beliefs to the TLB: building tables changes no translation, and no stale one
survives a call. Flag bits other than present and page size are left out.

### Heap

The linked list of headers is a sequence of blocks with their addresses, so
that tiling is a property and not built in. `Kmalloc` is the first-fit scan,
the split and the rounding modulo `WORD`. `Kfree` marks the block and enters
the one forward pass of the code, whose cursor is `b`: `Merge` takes in a free
neighbour and steps past the block it has grown, `StepPast` goes on, and
`KfreeReturns` ends it. No other call runs meanwhile: the code takes no lock,
and leaves that to its callers. `live` is what callers hold.

### Keyboard and BoundedQueue

The handler is one step (interrupt gate), the reader one step per access of
`kb_head`, `kb_buffer` and `kb_tail` and one for the `hlt`. Any interrupt wakes
it from there; one that comes between the test that found the ring empty
(`pc = "empty"`) and the `hlt` does not, even if it brings a character. The
indices are plain ints; the model follows the build, which reads them in every
round. The abstract queue holds `KB_BUFFER_SIZE - 1`. `dropped` is history: it
changes whenever `kb_push` drops a character, which the queue allows only when
it is full.

### Console

What matters of a character is where it is drawn: `wrote` holds the words of
the framebuffer written by the last step, `last` where the last glyph stood.
Screens smaller than a glyph, with a remainder, with padding, and no screen at
all are considered.

### InterruptFrame

`Scheduler` takes a complete frame for granted; here it is made. The CPU
aligns the stack and pushes five words and perhaps an error code, a stub and
`irq_common` push the rest, the C code reads it through `registers_t`, the
tick may choose any task, `isr_return` pops. Registers have recognisable
values per task, so an exchange of two shows. Vector 29 is left out: the CPU
pushes an error code for it and its stub does not expect one, but it is raised
in encrypted guests only.

### SerialConsole

`serial_putchar` is its wait and its `outb`; an exception may fall between any
two of these, also while an earlier one is being reported. `todo` is what is
left to print, words are one character each; `serial_puts` adds the carriage
return.

### Devices

Keyboard, console, frames and serial line touch none of each other's variables,
and no property relates two of them, so a run of one with the others at rest
shows all there is: `part` says which.

### LimineDevice and JournaledDevice

One block is cached, clean or dirty; `_device_write` first reads and saves what
it will overwrite, then copies chunk by chunk, loading blocks as it goes. Any
seek, read or write may fail (at most `MaxFaults` times), a block that fails to
load may be half overwritten. A failure starts the undo, which forgets the
cache, restores the entries newest first and retries each once. The file of
uninstall data may be written, partly written or not at all, and a later
`--uninstall` reads it. The abstract device knows only its contents, how many
writes were made and which cells a failing write may have torn.

### LimineInstall, EnrollConfig and Limine

A cell is a field the program reads or writes: a partition entry's flag, type,
start and length, the places where file systems are recognised, the GPT
headers; sectors only written to are collected in `touched`. Steps follow the
code from the arguments to the flush, a failure at each; `Gather` is the loop
that collects the used GPT entries of an ISOHYBRID, one per step. A disk was
converted (`Converted`) if it had a GPT and is treated as an MBR disk at the
end; an ISOHYBRID whose GPT lists no partition is converted too, to an empty
MBR. `BootChain` excepts a partition that starts at sector 0: stage 2 is then
written over the boot sector itself. A write of several sectors that fails has
written those before the failing one (`Fails`): these cells hold the new value,
are not in the journal and stay as they are in the undo. `touched` is not
extended by a failing write; the properties about it speak of installations
that succeeded. `EnrollConfig` is the search byte by byte with its restart, the
patch, and a write that may stop anywhere, in the `fwrite`, which reports it,
or in the `fclose` after it, which does not; the tool is run twice on the same
file. `Limine` is `main`.

## 3. Runs

| Run | Shows |
|---|---|
| `scheduler` | four slots, four pages, every order of ticks, creations and exits: `OnCurrentStack`, `SwitchTargetsSaved`, `StacksDisjoint`, `OneRunning`, `NoReadyTaskPassedOver` |
| `kernel` | the kernel with yielding and exiting threads: `NeverHaltsDeaf`, `NothingInService`, `SleepNotShort`, `HaltsAtMostOnceMore`, it implements `SchedSpec`; under fairness `KeepsReporting` and `NoTaskStarves` |
| `kernel_exit` | violated: `ExitedTaskNeverRuns` (finding 1) |
| `kernel_polling` | violated: `TimerInterruptsNotDelivered` (finding 2) |
| `pmm` | twelve memory maps: `FreeListWhole`, `InitFindsUsable`, and the refinement `ImplementsPool` |
| `memory` | boot and later calls over the page tables: `TablesAreTree`, `Lint0ReachesApic`, `HeapUsable`, and the refinement `ImplementsAddressSpace` |
| `heap` | `BlocksTile`, `LiveIsReserved`, `AtMostOnePair` for every order of calls |
| `devices` | `ImplementsQueue` and `EveryCharRead` (keyboard), `TextLegible` (console), `HandlerSees` and `Transparent` (frames), `ReportReachesLine` (serial line) |
| `limine_device` | `ReadsSeeWrites`, and the refinement `KeepsPromise` |
| `limine` | `TableSurvives`, `ConversionExact`, `BootChain`, `SparesData`, `JournalNeverFull` (bios-install), `FoundIsFirst`, `OnlySlotChanges` (enroll-config), `EveryStepAdvances`, `RunsEnd` (both) |
| `limine_undo` | violated: `UndoneIsOriginal` (finding 3) |
| `limine_wipe` | violated: `NukesOnlyGpts` (finding 4) |

Bounds. Four slots let the table be empty, partly used and full, with a scan
that wraps and one that stops at `task_count`; the proofs remove the bound. Two
pages in `Kernel` cover no, one and two threads: `PmmInit`, `FbInit` and
`HeapInit` leave every subset. Sleeps of two and three ticks are enough for a
tick before, between and after the test; `Word` is 2^16 because TLC's integers
are 32 bits wide, and the products are below it as the real ones are below
2^32. Pages of two words let a range begin and end inside a page, and four
frames let the list be taken apart and rebuilt in another order. No counter
needs a cap except the history variable `since`, capped at the longest sleep,
above which `SleepNotShort` does not look at it.

Page tables have four entries and the pages considered share all, some or none
of their tables; free lists of zero to six frames run out at every level of
every call. The heap's arena of 48 words holds up to six blocks, so that three
free ones can be adjacent in the middle of kfree's pass, with sizes that divide
it and that do not, and one request that wraps. A ring of three slots is empty,
full and wrapped within five keys. Three tasks, stack depths of either parity
and vectors with and without error code meet every path of the stubs. Two
exceptions can nest in a report that itself cut a message. The device has
three blocks of two cells, so that a write starts and ends inside a block,
spans three and meets a dirty one; a journal of two entries is filled; two
faults strike the write and its undo. Disks are chosen case by case (`MCLimine`
lists them) with sizes and limits scaled down: `UINT32_MAX` and `WORD` keep
their order, the 63 and 34 of the code their values. Files are all those that
start with six or eight cells over the signature's two characters, which include
overlapping and repeated signatures.

Symmetry of the pages is used in `scheduler`, which has no liveness property. In `limine` the file varies only for the commands that read
it, the disk only for `bios-install`.

Fairness. `WF(PitEdge)`: the PIT runs freely in mode 2. `SF(TimerInterrupt)`:
a CPU with IF set takes a waiting interrupt at the next instruction boundary,
and IF is set again and again because the threads run with it set and
`timer_sleep` sets it. `SF(Kmain)`: a task that is given the CPU again and
again executes instructions; a time slice is 10 ms. Nothing is assumed of the
threads, of the keyboard or of `task_exit`. Both properties are stated for
machines on which LINT0 passes interrupts on: if `apic_init` fails and the
firmware left LINT0 masked, kmain does hang in its first sleep. In `devices`
the reader of the keyboard and the writer of the serial line go on, as above;
`WF(OtherInterrupt)` is the timer, without which a character that arrives
between the reader's test and its `hlt` would wait for the next key, perhaps
for ever: `EveryCharRead` is violated when it is left out; `WF(Transmit)`: a UART
sends what it holds. In `limine`, `WF(Step)`: a process goes on until it exits.

Every property of a passing run has a mutant in its module (`..._NoSave`,
`..._NoSti`, ...): the same definition with a plausible bug, for which TLC
finds the property violated.

### Findings

1. `scheduler_tick` overwrites `TASK_TERMINATED` with `TASK_READY`
   (`scheduler.c:71`), so a task that called `task_exit` is resumed in every
   round and its slot and stack are never reused. Run `kernel_exit`.
2. The project's README says timer interrupts are not delivered and the PIT is
   polled. `apic.c:99` unmasks LINT0, `timer_sleep` waits for the interrupt
   and nothing polls. Run `kernel_polling`.
3. A write of the installer that fails after some of its blocks reached the
   device is not in the journal (`limine.c:501`), so the undo does not restore
   those blocks and still reports success. Run `limine_undo`; `KeepsPromise`
   says what does hold.
4. The conversion of an ISOHYBRID wipes 34 logical blocks where it means the
   MBR and the primary GPT (`limine.c:904-907`). With blocks of 4096 bytes that
   is 136 KiB and goes over the ISO 9660 descriptor at byte 32768 and the
   partitions that begin there. Run `limine_wipe`; `SparesData` excepts these
   sectors (`Overwiped`) and says what holds of all others.

Two more limits of the code are written into the properties rather than given
a run. With `--force --no-conversion` a partition of an ISOHYBRID may be named
that contains the descriptor, and stage 2 is then written over it like over the
rest of that partition; `SparesData` speaks of the other sectors. The bound of
the search in `enroll_config` (`limine.c:1335`) is the one for the first byte of
a match but is applied to the byte compared, so that a signature near the end of
the file is reported as not found though its digest fits; `FoundIsFirst` speaks
of the cells the loop does compare.

## 4. Proofs

The proofs hold for every value of the constants that satisfies the named
assumptions, each beside the constants it is about:

| Assumption | Says | Because |
|---|---|---|
| `SchedulerAssumption` | at least one slot; the boot stack and the null pointer are not pages | `MAX_TASKS` is 64; pages come from the PMM |
| `KernelAssumption` | a positive `Word`, natural frequencies | C types |
| `PmmAssumption` | a positive page size, an address space, `MemMapOK` | Limine's guarantees of the memory map |
| `VmmAssumption` | the boot loader's tables are a tree below `Root`, no absent entry has the page size bit, pages have four indices | Limine makes one set of tables, clears each and enters it once |
| `MemInitAssumption` | frames of the boot loader, the PMM and `pt_pool` are disjoint; so are the pages of the three users; no large page covers the framebuffer's or the heap's; the heap lies below one PT | `pt_pool` is in `.bss`, the addresses are those of `apic.c`, `fb.c` and `heap.c`, where Limine maps nothing large |
| `HeapAssumption` | header, arena and `WORD` are multiples of the alignment, the arena is larger than a header | `heap.c`: 24, 1 MiB, 2^64 and 8 |
| `KeyboardAssumption` | a ring of at least two slots, both tables defined for the keys | `keyboard.c` |
| `ConsoleAssumption` | a glyph has a size, a pitch is at least the width | the protocol's framebuffer |
| `FrameAssumption` | below every depth at which a task is interrupted there is room for a frame, an even stack size | a stack is a page, and the kernel's frames are shallow |
| `DeviceAssumption` | positive sizes | `limine.c` |
| `LimineAssumption` | the signature is not empty, files are lists, command lines lists of strings | `limine.c` |
| `InstallAssumption` | cells hold integers, a block is 512 or 4096 bytes, and the journal has more than 106 entries | `UNINSTALL_DATA_MAX` is 256 (`limine.c:320`) |
| `DiskAssumption` | partitions with a type are in use, do not overlap and lie, like an ISO 9660 descriptor, outside the secondary GPT; stage 2 has at most 62 sectors | what a GPT is (the code does not check it); `limine-bios-hdd.h` has 22135 bytes of it, 44 sectors |

**SchedulerProofs.** None of the safety properties is inductive alone. `Irq0`
puts the CPU on the right stack because the target's saved rsp points at its
own frame; that frame is still there because no other task runs on its stack;
stacks are disjoint because `task_create` takes a slot nobody uses, and it does
because every used slot is ready or running. `SchedInv` is their conjunction
with `TableShape` (the used slots are the first `task_count`, all but the first
own a page) and `Untouched` (the table before `scheduler_init`). One lemma per
action shows that it is preserved; `FindFree` and `FindNextReady` say what the
two scans return, from the least-number principle. `RoundRobin` adds the
arithmetic of the cyclic order.

**KernelProofs.** `KernelImplementsScheduler`: every step of `Kernel` is one of
`Scheduler` or leaves it alone. The step that needs an invariant is
`pmm_init`, which may free any page: `WhoIsWhere` says kmain is in its
initialisation only while `current_task` is -1, and then no page is a stack.
The scheduler's theorems carry over (`KernelSwitchesAreSafe`).
`HltHasAWayBack` needs `SleepersListen`: only kmain sleeps, with IF set in its
context wherever it stands in the loop and whoever has run meanwhile, and none
but the task on the CPU is halted. With the types of the PIC's registers, and
nothing in service, a latched line can then be delivered.
`EveryInterruptEnded` follows from the EOI in every handler. These hold for any
number of tasks and any calls of the threads.

**PmmProofs.** `FreeListWhole` is stated with a numbering of the free frames
from the end of the list, which makes it inductive without recursion: linking
in adds a number, taking the head removes the highest. `pmm_init` needs
`Scanned` (where the frames found so far come from) to show the next page is
new. `PmmStep` shows at once that the invariant is kept and that every step is
one of `FrameAllocator`; `PmmImplementsPool` is the refinement.

`PmmFindsUsable` is the completeness of the list: `FoundInv` says which whole
pages of which entries are found at each point of the two loops; that the inner
loop ends exactly at the last whole page needs the arithmetic of the two
roundings (`RoundedUp`, `RoundedDown`, `Multiples`). Its hypothesis
`KStart >= MaxAddr` is `linker.ld:18`: the kernel is linked at the top of the
virtual space, so that the clipping against `_kernel_start`, which compares it
with physical addresses, never applies.

**KernelProofs, the clock.** `KernelTypeCorrect` is the type invariant, for
which `TimesInv` bounds what is left of a sleep; it is proved and not among the
properties of a run. `SleepersOversleepOnce` is an action property: `PlaceOf`
says where in `timer_sleep` each step can leave a task, `TimeOf` what it does to
its `left`; a sleep that is over is never sent from its test to the `hlt`, so it
halts at most once more, when its last tick fell behind its test.
`SleepIsLongEnough` is `SleepNotShort` for any threads; with kmain's own, which
never yield, it speaks of PIT periods only. It is not inductive: a tick counted
now belongs to a period that began before. `SleepInv` adds the latch: ticks
counted plus the edge that is pending in the PIC are at most one more than the
periods and yields since the call.

**MemInitProofs.** A tree over four levels is not inductive as the property
states it; `Tree` names the level of every table (`lvl`), which is chosen anew
in each step that enters one: `TreeOf` then says of every entry that it leads
one level down and is the only one to do so. Two lemmas carry everything:
`EnterWalk` (entering an empty table, or the pieces of a 2 MB page, changes no
translation) and `PteWalk` (writing an entry of a PT changes its page only);
both rest on `SamePath`, that a table is on the way to pages that agree down to
it. With `OpInv` (the call under way stands on the path of its page) every step
is of one of four kinds (`StepKind`), which are the steps of `AddressSpace`
(`MemImplementsAddressSpace`). `TablesStayTree` is `Tree` in the property's
terms. `ApicReached` adds the bound on `pt_pool` per level (`ApicInv`).
`HeapIsUsable` adds `FbInv` and `HeapPagesInv`: a page of the framebuffer is
missing only if the frames have run out, and then the heap gets none; a page of
the heap only if it is the first, since the first brings the PT for the others,
and then no second frame is left. That only a large page or the want of a frame
stops a call (`RefusedIs`) needs `SizeIsPresent`: no absent entry has the page
size bit. The proof found two guards the model lacked:
`Invlpg` belongs to `vmm_map_page` and `vmm_unmap_page` alone, and `apic_init`
splits only a large page that is present.

**HeapProofs.** `HeapInv` has a part for the list (`ListOK`: the blocks tile
the arena and are aligned), one for the callers and one for the cursor of
kfree. `AtMostOnePair` is not inductive: kfree may make two pairs of free
neighbours at once, and the pass, which steps past a block it has just grown,
must remove one. `PassInv` says what the pass has left behind the cursor and
what lies ahead: at most one place where three free blocks follow each other,
and none once a pair was left. Nothing is proved by induction over the list: every step
changes it at one place, and the lemmas `RemoveAtIs`, `InsertAtIs` and the like
say what it is then, place by place.

**DevicesProofs.** One invariant per part. The ring is the queue that begins at
`kb_tail`: `QueueRefinement` maps it place by place modulo the size of the
ring, with a reader that is between two of its accesses, and maps every drop to
one of a full queue. `TextStaysLegible`:
whatever the screen, the cursor is on a cell that fits or is wrapped before the
next glyph. `HandlersSeeContext` and `InterruptsAreTransparent` follow the
frame word by word: `Building` says how much of it stands at each stage of
entry and return, and `Resumable` that every task that is not running has its
whole frame on its own stack, where no other task's pushes reach.

**LimineDeviceProofs.** `DeviceInv`: a cell is what the cache holds if its
block is cached and dirty, else what the device holds (`Logical`), and this is
what was last written. For the undo, the journal's oldest entry of a cell holds
what was there at first (`FirstIsOrig`, and `LastIsOrig` once reversed), so
that restoring the entries newest first ends with the original.
`DeviceKeepsPromise` is the refinement of `JournaledDevice`, step by step.

**LimineProofs.** `SearchFindsFirst`: the restart of the search after a
mismatch steps back over what had matched, so no signature that overlaps a
failed match is missed (`SearchInv`) among the cells the loop compares; of
those behind its bound it says nothing (section 3). `EnrollSparesTheRest` follows, over any
number of runs. For bios-install `InstallInv` is the conjunction of one
invariant per concern: `PathInv` (which flags and lists belong to which place
in the code), `UsedInv` (how many journal entries have been used so far),
`TableInv` and `StageInv` (what is saved, and which part of the boot sector
stands), `ActiveInv` (a flag is set, or will be), `GatherInv` and `ConvInv`
(what the conversion has collected, wiped and written). Each holds at the end
only because of what it says on the way. `JournalSuffices` shows that at most
106 entries are ever used, `InstallKeepsTable`, `ConversionKeepsPartitions` and
`InstallBoots` the three properties of their names. The attempt to prove the
second showed that `Converted` had to be told from the GPT that was there, not
from the list of partitions, which is empty for an ISOHYBRID without any.

`InstallSparesData` needs two invariants more. `GapInv`: as far as the loop over
the MBR's entries has come, no partition begins below sector 63. `TouchedInv`:
the sectors written to are blocks of a GPT that is being wiped or, from the
step that writes it, those of stage 2. In a GPT the stage lies inside the
chosen partition (`StageFits`, part of `ChosenInv`), so that by `DiskAssumption`
it meets no other; behind an MBR it ends before sector 63, and the entries of a
converted table are those of the GPT (`ConvInv`). What the first 34 blocks of
4096 bytes hold is excepted (finding 4). The attempt to prove it showed that
the property said too much of the ISO 9660 descriptor (the first of the limits
at the end of section 3), which TLC then confirmed once the instance had the option and the
disk.

`RunsAdvance` is the safety part of `RunsEnd`, with a measure of lexicographic
order in place of fairness: `Place` numbers the parts of `bios_install`, `Left`
says how often the loop of a part may still go round; in the search of
`enroll_config` the place where the match under way began never moves back, and
while it stays the match grows. Only `Again`, which starts the next run, is
exempt. That a measure of naturals which always falls reaches its end is the
part left to TLC.

Only model-checked is liveness under fairness (`KeepsReporting`,
`NoTaskStarves`, `EveryCharRead`, `ReportReachesLine`, `RunsEnd`), which is out
of the prover's reach. Every invariant, action property and refinement that a
passing run checks is stated by a theorem.

## 5. Plan

Modelled: every part of the kernel that keeps state and the `limine` tool. Left
are the timer's divisor and the 32-bit product of `timer_sleep` for arguments
other than kmain's. `task_create` is one step because its only caller runs with
IF clear; callers that can be preempted would need its steps.

## 6. Not modelled

String functions (pure, without a caller that could go wrong), the encoding of
GDT and IDT entries, glyphs, numbers as digits, the divisor of the PIT, port
I/O wrappers and the build. Of the tool: byte order, CHS addresses, the texts
it prints, the buffering inside stdio between the device layer and the device
(the device is what stdio accepted), and the code of the boot stages, which is
a binary. Non-maskable interrupts and exceptions end the kernel in
`isr_handler`; they are steps of `InterruptFrame` and `SerialConsole`, not of
`Kernel`.
