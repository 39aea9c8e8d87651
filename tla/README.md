# A TLA+ verification of ktux

ktux is a small 32-bit x86 kernel with its own two-stage boot loader. This
directory holds TLA+ models of its parts, TLC configurations that check them on
small instances, and TLAPS proofs about them for every instance. File and line
references are to the sources at the commit modelled (`process.c` is
`src/src/kernel/process.c`, headers are in `src/src/include/`); `PROJECT.json`
maps each definition to the lines it models.

Contents: [the system](#the-system) · [the modules](#the-modules) ·
[the runs](#the-runs) · [fairness and deadlock](#fairness-and-deadlock) ·
[the proofs](#the-proofs) · [divergences](#where-the-code-and-its-documentation-differ) ·
[what is not modelled](#what-is-not-modelled) · [plan](#plan)

## The system

One processor, no user mode. The boot loader (`osloader/`) reads the kernel from
a floppy and jumps to `_kernel_main`, which initialises memory, the console, the
interrupt table and the interrupt controllers, creates the threads of `tasks.c`
and calls `start_scheduler`. From then on the code that booted is thread `init`,
and everything happens in threads and in interrupt handlers that run on their
stacks.

| Component | State it keeps | Operations | Interacts with |
|---|---|---|---|
| Threads and scheduler (`process.c`, the timer path of `isr.s`) | `numThreads`, the table `pThreads`, the list `lThreads`, `currentTask`, `pCurrentTask`; per thread status, pid, priority, quantum, saved stack pointer | `init_data`, `init_multitasking`, `start_scheduler`, `__task_switch`, `create_kernel_thread`, `kill`, `yield`, `nice` | called by the timer stub and by `int 0x20` of `yield()`; `kmalloc` for structs and stacks |
| Intrusive lists (`list.h`) | two pointers in every list head and entry | `list_add`, `list_del`, their `_tail`, `_init`, `move` and `splice` forms, the loops | `create_kernel_thread` and `kill` link threads; `ps()` walks them from the keyboard interrupt |
| Boot-time memory map (`memory.c:85-238`) | page directory, two page tables, the list of free pages | `init_virt_mem`, `init_heap` | leaves its list to the page allocator |
| Page allocator (`memory.c:575-625`) | `freePageList`, `freePageListEntries` | `alloc_page`, `free_page` | used by the heap, by `create_new_table` and by the page fault handler |
| Kernel heap and paging (`memory.c:290-575`, `paging.s`) | `kernelHeapEnd`, `vHeapMappedLimit`, `freeBytes`, statics of `sbrk`, the page tables of the heap | `kmalloc`, `sbrk`, `map_page_helper`, `create_new_table`, `page_fault_handler` | page faults of `kmalloc`'s own `memsetd` |
| Interrupt entry (`isr.s`, `interrupts.c`) | the stacks, registers, the interrupt flag, the IRQs in service | a stub per vector; `exception_handler`, `panic` | enters the scheduler, the keyboard handler, the page fault handler, system calls |
| Interrupt routing (`interrupts.c`, `pic.c`, `sh.c`) | the IDT, the masks of the two 8259s, `irqStatus` | `init_interrupts`, `init_pic`, `set_irqs`, `enable_irq`, `disable_irq`, `toggle_irq` | the shell's `timer` command toggles IRQ 0 inside the keyboard interrupt |
| Virtual consoles (`video.c`) | per console: escape state, attribute, cursor; display memory; the CRT controller's registers | `putch_help`, `scroll`, `set_attrib`, `move_csr`, `move_cursor`, `select_vc` | written by threads (`kprintf`) and by the keyboard interrupt (echo, function keys) |
| Keyboard and command line (`keyboard.c`, `sh.c`) | `kbd_status`, `commandBuffer`, `cmdBufPos`, the lights | `kbd_irq_handler`, `process_kbd`, `convert`, `cmd_buf_add`, `write_kbd` | echo to the console, `select_vc`, `ps()`, `processCommand` |
| Formatted output (`stdio.c`) | the scanner's flags, width and state while it runs | `do_printf`, `kprintf`, `vsprintf`, `sprintf`, `panic` | calls `putch` character by character, or writes through a caller's pointer |
| Boot loader (`bootsect.s`, `klMain.s`, `klLoadKernel.s`) | retry counters, FAT copy, cluster, load pointer, the image | reset the drive, read sectors, search the root directory, follow the FAT, A20, check and place the ELF, show an error | hands `sysInfo->kernelEnd` to `init_virt_mem` |
| System calls, timer chip, port I/O, strings, TSS | none that later code reads | — | — |

**What is hard here.** Preemption: the timer may fire between any two
instructions executed with interrupts on, and the kernel's only lock is `cli`,
used in some places and not in others (`kill` marks a thread dead *before* its
`cli`; `alloc_pid` has none). Shared indices: `currentTask` is read by `kill`
and written by the timer. Stack discipline: a context saved by one stub is
restored by another, on another stack, with end-of-interrupts that must come in
between. Two copies of one fact: `irqStatus` and the mask, echo and command
buffer, cursor of the console and of the display, three notions of the end of
the heap. Retries: a loop that begins again
from a saved place, with its count. Boundaries: a list index used as a count,
strict comparisons on regions, loop bounds taken from the wrong constant, a
scroll on the last line, loops that count down past zero.

**What makes each part correct**, in the terms the modules use: no live thread
ever drops out of the table or waits for ever, a dead one never runs again and
is reaped; the free list fits its place and holds no page twice; a page is never
handed out twice; heap blocks are disjoint and their frames distinct; an
interrupted context comes back whole and every IRQ is acknowledged; what may
interrupt has its handler; nothing is written off a console, and the screen
shows the end of what was typed; the command executed is the line that was
typed and seen, and no modifier sticks; the list of threads changes in one
instant for everybody who can look; a directive of a format leaves nothing for
the next one; the kernel is in memory as it was linked, or the loader has
stopped, after five failures of one piece and not before.

## The modules

| Module | Models | Uses |
|---|---|---|
| `CpuSharing` | abstract: one processor is given to live threads, dead ones never get it | |
| `Scheduler` | threads, context switch, create, kill, yield, nice | refines `CpuSharing` |
| `SchedulerBypass` | `Scheduler` with the history needed to state round robin | extends `Scheduler` |
| `ListHead` | `list.h`: each function as the stores it makes, each loop as what it visits | |
| `ThreadRoster` | abstract: a sequence of threads that changes in one instant | |
| `ThreadList` | `create_kernel_thread`, `kill`, `ps` on the list, store by store | extends `ListHead`, refines `ThreadRoster` |
| `BootLoader` | drive reset to the jump into the kernel | |
| `BootMemory` | `init_virt_mem` | |
| `Boot`, `MCBoot` | the two as one run, and the floppies it is run on | composes `BootLoader` (INSTANCE) and `BootMemory` |
| `PageStack`, `MCPageStack` | `alloc_page`, `free_page` | |
| `KernelHeap` | `kmalloc`, `sbrk`, page mapping, page faults | `freeFrames` abstracts `PageStack` |
| `InterruptEntry`, `MCInterruptEntry` | the stubs of `isr.s`, word by word | which thread is switched to is left to `Scheduler` |
| `InterruptRouting` | IDT, 8259 masks, timer command | its specification is `RoutingSpec`, so that one module can prove about it and `InterruptEntry` |
| `Console` | `putch_help` and the display | |
| `ConsolePaper` | abstract: an endless roll of paper, compared with the screen | extends `Console` |
| `Keyboard` | scan codes to executed command | |
| `Printf`, `MCPrintf` | `do_printf` under `kprintf` and `sprintf`, and the calls it is run on | |
| `SchedulerProofs`, `ThreadListProofs`, `MemoryProofs`, `InterruptProofs`, `BootProofs`, `KeyboardProofs`, `ConsoleProofs`, `PrintfProofs` | theorems | each extends the module it is about; `BootProofs` proves about loader and boot map together, `MemoryProofs` about page stack and heap, `InterruptProofs` about entry and routing |

### Scheduler

State: the variables carry the names of the code. A thread is known by its
creation number, so that the pid the code computes from `numThreads` can differ
from it. `esp0` is abstracted to *what it points at*: the frame
`create_kernel_thread` builds, the frame saved by the last preemption, one that
has been restored since, or the raw bottom of the stack. `pc` says where a
thread stands inside `yield`, `kill` or `create_kernel_thread`; `made` and `tmp`
are the local variable and the register these calls hold across a preemption.
`lThreads` is the set of linked threads, the order of `list.h` being of no
consequence to the scheduler; `ThreadList` has the order and the pointers.

Steps: `InitData`, `BootCreate`, `StartScheduler` are the boot sequence, which
runs with every IRQ masked. `Tick` is the timer interrupt; `TaskSwitch` is
`__task_switch` (count down, or surrender, scan and dispatch, or spin). A step of
a thread is a stretch of code between two places where a tick makes a
difference: `Yield`/`YieldInt`; `KillMark`/`KillUnlink`/`KillYield`/`KillInt`;
`Nice`; `CreateAlloc`/`AllocPidLoad`/`AllocPidStore`/`CreateLink`. A
`cli`…`sti` section is one step, `numThreads++` is two.

`CpuSharing` is implemented under the mapping `live <- Live`, `dead <- Dead`,
`cpu <- pCurrentTask` (no thread once the scan spins).

### ListHead, ThreadList, ThreadRoster

`ListHead` keeps two pointers per cell and takes an inline function of `list.h`
to the sequence of stores it makes, in the order of the source; arguments that
the caller evaluates (`head->next`) are read when the call begins, and a `move`
reads the links its deletion left. The loops are functions bounded by the number
of cells: a walk that leaves the list ends in `NULL`.

`ThreadList` makes one step of each of those stores. Until `StartScheduler` every
IRQ is masked, so that only then `Ps` and `TaskSwitch` come in between. `CreateCli`, the stores,
`CreateTable`, `Sti` are the critical section of `create_kernel_thread`;
`KillMark`, `KillCli`, the stores, `KillTable`, `Sti` are `kill`. `TaskSwitch`
and `Ps` are the interrupts, which `intFlag` admits. What `Scheduler` says about
pids, slots and the choice of the next thread is left out here: any thread in
the table may be next. `ThreadRoster` is what an observer may rely on;
`ThreadList` implements it under `roster <- list_for_each(links, lThreads)`,
where a removal takes effect with the store to `prev->next` and an insertion
with the last store. `OperationsAgree` tries the operations that have no caller yet
on the list as it is and, where they take two, on a second one that `WithSpares`
makes of spare cells.

### BootLoader, Boot

`BootLoader` goes from the reset of the drive to the jump to `KERNEL_VIRTUAL`,
with `stage` for the place in the code: `ResetDrive`; `BootRead` and
`BootSearch`, then `LoadImage`, of the boot sector; `EnableA20`;
`LoadRootDirectory`, `FindFile`, `LoadFAT`, `LoadFile`, `ParseELFHeader`,
`MoveText`, `MoveData` and `ZeroBss` of the loader, the last three a cell at a
time. Each call of the BIOS may fail (`ReadFails`,
`LoadFATFails`), which the code counts in `tries` and in places does not; the
next FAT entry is taken from the two bytes the code reads and shifts. The files
and memory (`RamSize` cells of it) are cut into cells of a cluster. What the BIOS, the disk and the
keyboard controller do is external. `Boot` puts `BootMemory` behind it:
`HandOver` is the one place where they meet, and `kernelEnd` what they share.

### BootMemory, PageStack, KernelHeap

`BootMemory` takes one step per loop iteration of `init_virt_mem` with the real
region constants; RAM and kernel size come from small sets. `PageStack` is the
stack of free pages; `owned` is the set of pages handed out, which the kernel
does not keep. `KernelHeap` follows `kmalloc` from call to return with `pc`:
`Kmalloc` or `KmallocFromFree`, `SbrkStart`, then `SbrkGrow` and `MapPage` (or
`CreateNewTable`) per page, `SbrkReturn`, and `KmallocReturn` or `PageFault`
depending on whether the pages of the block are present. Addresses are bytes
from the start of the heap. Pointer arithmetic on `unsigned int *` is modelled as
it is: adding n moves 4n bytes. A failing `alloc_page` gives frame 0, which the
code maps as if it were one.

### InterruptEntry, InterruptRouting

`InterruptEntry` keeps the words on every stack. A word is known by what it
stands for (a register of a thread, a selector, a place in the code). Each stub
is one action: push, call, pop, `iret`, in one step because interrupt gates clear
the interrupt flag, except where C code sets it again (`process_kbd` after an
`s`, `panic`); there the stub is split (`KbdIrq`, `KbdSti`, `KbdEoi`, `KbdIret`;
`Raise`). `TimerStub` switches to any thread. `shadow` is a history of the
contexts that were interrupted.

`InterruptRouting` follows `_kernel_main` from `init_interrupts` to
`start_scheduler` call by call, then takes any sequence of `timer` commands and
of driver calls. Masks are sets of bits; `set_irqs` keeps the signed comparison
of the code. Interrupts are on from the `sti` in the first
`create_kernel_thread`.

### Console, ConsolePaper, Keyboard

A step of `Console` is a stretch of `putch_help` between two accesses to state
the interrupt also uses; `call[k]` is the activation of caller `k` (a thread or
`"irq"`), with the variables it holds. A cell shows a glyph or a blank and an
attribute. `ConsolePaper` types the same characters on a roll of paper that is
never scrolled, in the step that takes the character.

`Keyboard` has both sides: the user's keys (`held`, `typed`, `lockOn`), the codes
on the way to the interrupt (`wire`), and the driver's state under its names.
Glyphs are `a`, `s` and `1` in their three tables.

### Printf

One action of `Printf` per turn of `do_printf`'s loop, by the state of the
scanner and the character met: `Echo`, `PercentSign`, `Minus`, `Width`,
`Modifier`, `Conversion`, `Return`; the fall-through from one state's case into
the next is in the conditions `InWidth` and `InModifiers`. Digits, sign and padding
are computed as the code does (`Digits`, `Padded`). The caller's side is
`items`, a sequence of directives with their arguments, taken from the constant
`Calls`; `Printed` is what they mean, written without reference to the scanner:
a numeral is the shortest sequence of digits with that value (`Numeral`), where
the code divides until nothing is left. `LONG_MAX` and `SHRT_MAX` are the sizes
of the program's types.

## The runs

Run one with `tlc -workers 2 -config <name>.cfg <module>`.

| Run (module) | Bounds | Distinct states | What it shows |
|---|---|---|---|
| `Scheduler` (`SchedulerBypass`) | 4 threads of which 3 are made at boot, slices of 2 ticks; any may kill itself, one creates at run time, two renice themselves | 203 262 | No live thread leaves the table or the list (`NoThreadLost`); `currentTask` is the running thread's index (`CurrentSlot`), which is what lets `kill` clear the right slot; `kill` never comes back (`KillNeverReturns`); the scan spins only when all are dead (`LostOnlyWhenAllDead`); a switch restores a whole frame, once (`RestoresCompleteFrame`); the scheduler implements `CpuSharing`; no thread runs twice while another live one waits (`NoOvertaking`); every runnable thread gets the processor (`RunnableRuns`) and every killed one is reaped (`ZombieReaped`) |
| `ThreadList` (`ThreadList`) | 2 boot threads and 2 made later, by any thread; a second list of up to 2 entries | 105 588 | The list of threads is whole and agrees with the table whenever an interrupt can come (`ListMatchesTable`); it implements `ThreadRoster`, and `ps` prints all of it; the operations of `list.h` with no caller yet do what their comments say, on every list reached (`OperationsAgree`) |
| `Boot` (`MCBoot`) | nine floppies, up to six failing BIOS calls anywhere, three ways for A20 to behave, two sizes of RAM, the first 12 cells of it followed | 26 138 | Files are read whole, in order and once whatever is retried (`ImagesInOrder`); the kernel is placed as linked (`PlacedAsLinked`); five failures of one piece stop the machine, no fewer and no more (`GivesUpAfterFive`); what the kernel builds is behind what was loaded (`NothingOverwritten`); the list of free pages fits its area, is mapped, ascends from free RAM (`ListFitsItsArea`, `KernelReachable`, `ListAscendsFromFreeRam`); the boot ends (`BootEnds`) |
| `PageStack` (`MCPageStack`) | 6 pages, any order of calls, frees allowed | 825 | The index stays in the list; no page is handed out twice |
| `KernelHeap` (`KernelHeap`) | pages of 16 bytes, 4 pages to a table, 5 frames, requests of 0 to 40 bytes, at most 6 blocks | 61 377 | Blocks are disjoint (despite the heap end that moves by four times the size); the clearing of a new block never looks like an invalid access; no frame backs two pages |
| `KernelHeapTable` (`KernelHeap`) | requests of 16 bytes | violation | see [below](#where-the-code-and-its-documentation-differ) |
| `InterruptEntry` (`MCInterruptEntry`) | 2 threads, handlers nested 3 deep, exceptions 0 and 6, page faults | 14 880 | Contexts come back as they were interrupted (`ContextsComeBack`), stacks hold contexts and nothing else, every IRQ in service is acknowledged |
| `InterruptRouting` (`InterruptRouting`) | the boot sequence, drivers of IRQs 3 to 7 | 2 276 | What can arrive finds its own stub; `irqStatus` is the mask |
| `Console` (`ConsolePaper`) | 2 consoles of 2×2, tab stops every 2, a letter and the five control characters | 119 808 | Nothing is written off a console; the hardware cursor follows; the screen is the end of the paper |
| `ConsoleEscapes` (`ConsolePaper`) | one console of 2×2, tab stops every 1, one caller; a letter, tab, ESC, `[`, `;`, the digits 2 and 4, `H`, `J`, `m`; arguments up to 42 | 3 703 952 | The screen is still the end of the paper for every mix of escape sequences, whole or broken off |
| `Keyboard` (`Keyboard`) | twelve keys, two down at a time, buffer of 4, lines up to 2, interrupts up to 2 codes late | 2 126 962 | What the user sees is what the buffer holds (`EchoIsCommand`) and what ENTER executes (`EnterExecutesLine`); no modifier sticks; the lights are the locks |
| `Printf` (`MCPrintf`) | pairs of directives, in either order: one is text, `%%`, illegal or a plain number, the other any out of all flags, three widths, four modifiers and seven conversions; 8-bit words | 272 412 | Nothing of the first directive is left for the second, and exactly what is meant is printed, to the screen or into the buffer (`ItemsPrinted`) |

Why the bounds are enough. *Scheduler*: two threads are needed to race, a third
to be overtaken, a fourth so that one comes into being while the others run;
with slices of two ticks a quantum is both counted down and surrendered.
*ThreadList*: four threads make lists of every length up to four, with removal
at the front, in the middle, at the end and of the only entry; a move or a splice
meets an empty, a one-entry and a longer list on the other side.
*Boot*: with five failures a loop gives up, with the sixth another has begun to
count; the floppies have odd and even clusters, chains out of order, both ends
of chain FAT12 has, a cluster above 256, a deleted entry, the files missing, and
every defect of a header the loader checks; 2 MB is the smallest round size with
memory above the last reserved region, and half a page more the case that does not
divide. *KernelHeap*: a request is below, at, just above and more than twice the
page size, the limit lands on and off a page boundary, requests run over the end
of the first table, and the frames run out inside a request. *InterruptEntry*:
three levels are a timer inside a keyboard handler inside another handler.
*Console*: on 2×2 cells every character is on an edge; rows that have left the
window are never seen again, so `ConsolePaper` keeps only the last `HEIGHT` rows
of its roll and needs no bound on its length. *Keyboard*: a line of two leaves
one place for the terminator in the buffer of four; codes that lag by two let a
modifier change before the key it applies to is read; both control keys are in
it, so that one is released while the other is down. *Printf*: what one directive
can leave for another is seen in pairs, whose plain half would show it; words of
8 bits stand for the program's 32, with 4 for its `short`, and have all the signs
and overflows. The theorem has calls and words of any length.

Where a module states a `TypeOK` that its run does not list, it is there for the
reader and for the proofs.

Every property of a passing run has a mutant in `PROJECT.json`: a plausible
mistake in one mapped definition, with which TLC finds the property violated.

## Fairness and deadlock

`Scheduler!Fairness`, in the run as `FairBypassSpec`, assumes that the boot code
goes on (nothing can stop it: every IRQ is masked until `start_scheduler`) and
that the timer interrupt keeps being taken (`WF(Tick)`): the chip runs in a
periodic mode and interrupts are off only for stretches of code that end. Nothing
is assumed of the threads: one that loops for ever, or that is never done with
its `kill`, is allowed. The assumption is false after the shell's `timer` command
has masked IRQ 0; `InterruptProofs` shows (`KeyboardStaysTheorem`) that
the command can then be given again.

`BootSpec` assumes that the processor goes on (`WF(BootNext)`): there is one
thread of control and no interrupt. That the boot ends also needs the drive to
come to its senses, which the bound `MaxFaults` gives: `loadFAT` would retry for
ever. The other modules check safety only and state no fairness.

Deadlock is checked except where the system stops: the boot ends, with a kernel
or without (`Boot`); the caller's format has been printed (`Printf`); RAM or the
blocks of the model run out (`KernelHeap`); and a thread stays in
`exception_handler`'s loop or is lost after a page fault (`InterruptEntry`).

## The proofs

| Module | Theorems | From |
|---|---|---|
| `SchedulerProofs` | `TypeCorrectness`, `NoThreadLostTheorem`, `CurrentSlotTheorem`, `KillNeverReturnsTheorem`, `LostOnlyWhenAllDeadTheorem`, `UniquePidsTheorem`, `RestoresCompleteFrameTheorem`, `NoResurrectionTheorem`, `Refinement`, `NoOvertakingTheorem` | `ConstantsAssumption`, `OneCreator` |
| `ThreadListProofs` | `ListMatchesTableTheorem`, `Refinement`, `OperationsAgreeTheorem` | `ThreadListAssumption` |
| `MemoryProofs` | `StackTypeCorrectness`, `StackInBoundsTheorem`, `NoDoubleAllocTheorem`; `BlocksDisjointTheorem`, `FaultIsValidTheorem`, `FramesDistinctTheorem`; `StackCountsLikeHeap` | the modules' own assumptions |
| `InterruptProofs` | `TypeCorrectness`, `NoIrqIsStuck`, `NothingPilesUp`, `EveryContextComesBack`; `RoutingTypeCorrectness`, `StatusMatchesMaskTheorem`, `DeliveredIsServedTheorem`, `ExceptionsServedTheorem`, `KeyboardStaysTheorem` | the modules' own assumptions |
| `BootProofs` | `GivesUpAfterFiveTheorem`, `ListFitsItsAreaTheorem`, `ListAscendsTheorem`, `KernelReachableTheorem`, `ImagesInOrderTheorem`, `PlacedAsLinkedTheorem`, `NothingOverwrittenTheorem` | the modules' own assumptions; `KernelReachableTheorem` also that kernel and list end below 4 MB; the last three that every floppy is `InOrder` |
| `KeyboardProofs` | `NoStuckModifierTheorem`, `LightsAreLocksTheorem`, `EchoIsCommandTheorem`, `EnterExecutesLineTheorem` | `KeyboardAssumption`; the last two also `MaxLine <= CMD_BUF_SIZE`, the last one `OneShift` |
| `ConsoleProofs` | `WritesOnOwnScreenTheorem`, `CursorOnScreenTheorem`, `CursorShownTheorem`, `ScreenIsWindowTheorem` | `ConsoleAssumption`, `Preempt = FALSE` |
| `PrintfProofs` | `ItemsPrintedTheorem` | `PrintfAssumption`, `CallsAssumption`, `NoLong` |

They hold for every number of threads, slice length, list of pages, set of
drivers, size of RAM, sequence of requests, floppy and number of failures, set of
keys, size of console, stream of characters, size of a long and format. Some of the conditions are real
restrictions, and each is where the code needs it:

- `OneCreator` (at most one thread creates others at run time): `numThreads++` is
  not atomic, and with two creators pids are not unique, as `SchedulerPids`
  shows; at this commit no thread creates another.
- `Preempt = FALSE` (calls of `putch_help` do not interrupt one another): with it
  lifted `WritesOnOwnScreen` is false, as `ConsoleEcho` shows.
- `NoLong` (no directive has the modifier `L`): the upper half of its argument is
  lost, as `PrintfLong` shows.
- `InOrder` (the chains of a floppy are disjoint and in clusters 2 to 257, its
  entries named `KLOADER` and `KTUXKRNL` are those files, the kernel is as long as
  its header says): a cluster further out or a namesake is misread, as
  `BootFarCluster` and `BootNamesake` show. TLC evaluates it of the floppies of
  the run (`GoodDisksInOrder`), which have both orders of clusters.
- `MaxLine <= CMD_BUF_SIZE` (lines fit the buffer) and `OneShift` (one of the two
  shift keys is used): `cmd_buf_add` stores a longer line over its own
  beginning, and the two keys share a flag, as `KeyboardShift` shows. The run uses lines with
  a place to spare, and the theorem shows that none is needed.

*Scheduler.* No safety property is inductive alone: that a tick leaves the
right thread in the right slot depends on where every other thread stands. `Inv`
is a conjunction of parts proved one action at a time. `TypeInv`; `BootInv`
(before the scheduler starts nothing has run and nobody is dead; afterwards
`currentTask` is the pid of `pCurrentTask`); `MakeInv` (where the one creator
stands in `create_kernel_thread` and what `numThreads` is there); `PidInv`
(structs exist from 0 upwards and each has its own number as pid); `TableInv` (a
slot holds its thread exactly from the link to the unlink, and so does the
list); `RunInv` (who runs, and where the others can be suspended: a ZOMBIE is
always the running thread); `FrameInv` (what `esp0` of a WAIT or READY thread
points at).
`Refinement` maps initial states to initial states and each action to a step of
`CpuSharing` or a stutter, using `Inv` for the dispatched thread being live.
`NoOvertakingTheorem` needs to know where the scan has been: `RoundInv` says that
every thread that ran while t waited lies between t and `currentTask` in the
order of the scan (`Passed`). A switch goes to the first runnable slot after
`currentTask`, so it cannot pass t, which is runnable, and cannot come to a
thread it has passed before it comes to t.

*PageStack.* The index and the number of pages handed out always add up to the
index at the start (`StackInBounds`), and no page is both listed and owned, or
listed twice (`ListedNotOwned`). `StackCountsLikeHeap` justifies the counter by
which `KernelHeap` stands for the stack: as long as nothing is freed, a call
returns the page the counter names, or fails where the counter is 0.

*ThreadList.* The properties speak of walks along links, so nothing is known of a
list before it is known to be whole. The inductive invariant is in parts:
`SubjectInv` (who is being linked or unlinked, and by whom), `CliInv` and
`StatusInv` (where every thread stands in `create_kernel_thread` or `kill`), and of
the links that they are a whole list (`Whole`: there is an order of the threads
that both pointers follow), or, inside a critical section, what the first i of
the four stores of an addition or a removal make of one. That a walk along a
whole list visits it in order is proved by induction over its turns, as are the
recursive functions themselves (lemma `Induction`, from the well-founded
induction that the naturals' smallest elements give: a set is used where the
library's theorems want an operator). `Refinement` then follows store by store: the
walk changes with the last store of `list_add` and with the second of `list_del`.
`OperationsAgreeTheorem` works with two rings that share no cell: a deletion, an
addition, a reset or a splice changes one of them to the list it should be and
leaves the other, and the longer operations are compositions of these. For the
safe loop, what it has visited and what lies ahead of it are together the list,
though each turn deletes the entry it stands on.

*InterruptRouting.* `RoutingInv` adds to the type and to `StatusMatchesMask` what
every boot step leaves for the next: the table is filled (`TableFilled`), and
once interrupts are on both controllers have their vectors and the second one is
masked (`ControllersSet`).

*Interrupt entry.* The three properties are about words at depths that depend on
everything that was pushed before, so the invariant says what every stack is made
of. `Saved` lists the words of one context in the order in which the stubs push
and pop them (the saved ESP and the selector, which nothing restores from, left
out); `Holds`: a stack is its contexts one behind the other, up to its top or, for
a thread that is switched away from, up to `esp0`; `AtLevel`: the thread's own
code has no context below it, a handler at least one. `exception_handler` never
returns, which may leave its first context somewhere deeper (`Lost`). Each stub is
then a lemma about pushing fifteen words and popping them, for any registers.
After a page fault the stack is wrong, as `InterruptPageFault` shows; the
invariant says no more then than that interrupts stay off.

*Boot memory.* `TablesInv` relates the loop variable to the length of the table it
fills. `ListInv` bounds the length of the list by its last page: the k-th page is
at least k-1 pages above `P_START_FREE_RAM`, and the last one below the end of
RAM. That gives the size, 4 bytes a page, that `freePageListSize` reserves.

*KernelHeap.* `BlocksInv` holds the reason why two ends of the heap that drift
apart do no harm: `freeBytes` is 0 whenever a request arrives, since what `sbrk`
adds is what the block takes, so each block starts at `sbrk`'s own limit, which
then moves behind it. `FramesInv` follows the page between `alloc_page` and the
page table.

*Boot.* `CountInv`: in a stage that reads, the code's counter is the number of
failures of the piece being read. The theorems about the images first show that
the loader reads the FAT right: the two bytes it takes and shifts hold the twelve
bits of the entry, for an even and for an odd cluster (`FatEntryIsFat`), and the
entry of the k-th cluster of a chain is the k+1-st (`FatOfChain`). `LoaderInv`
says how much of a file is in memory and which cluster comes next, `RamInv` what
every cell holds: the file as far as it is read (`FileRead`), then text, data and
bss as far as each is laid out (`Placed`), where a cell of the file that has not
been moved yet is still there to be moved, because data moves towards lower
addresses from its low end. A kernel with no bss would leave the last cell of its
file behind its end, but the loop that clears nothing never ends
(`AcceptedIsEntered`), so that such a kernel is not entered.

*Keyboard.* `EndInv`: for a modifier that is on, a key of it is down or a break
code of it is on the wire; and for each make code on the wire, the same *behind*
that code. The theorems about lights, echo and command relate a driver to a user
who is ahead of it by the codes on the wire. `TraceInv` says that there is a trace
of editor states, one for each code in between, which leads from the driver's
state (`Driver`) to the user's (`User`) and in which each state follows from the
one before by what the code does (`After`). The user's key lengthens the trace at
its end, the interrupt shortens it at its front; ENTER is executed where the
trace has the line the user had before it.

*Console.* `Inv`: one call at a time; at each label of `putch_help` the cursor is
where `Fits` says (at a tab's loop at most at the stop, which is at most the
width; at `wrap` at most one beyond a row or a screen); and `CursorOnScreen`
between calls. That the stop is at most the width is where `WIDTH % TABSTOP = 0`
is needed. `PortInv` adds what `move_csr` has written when it comes to each of its
four ports, and that `select_vc` leaves the start address to the selected console.
`ScreenIsWindowTheorem` says that a console shows the end of its paper. While a
call is in progress it does not: the paper has its character at once, the screen
only after the call's last step. `PaperInv` says by how much the paper is ahead:
it is what `Finish` makes of what the console shows, `Finish` being what the call
has still to do at its label (at a tab's loop, blank the cells up to the stop,
wrap and scroll; at `copy`, scroll; behind the copy, set the row). Each step of
the call does a part of that and leaves the rest, and each has a lemma. They rest
on two facts about display memory: every place of every console is a cell of its
own (`SpotIsUnique`), so that a store changes one place of one console, and the
memcpy and memsetw of `scroll` leave in each place what was one row below it
(`ShownScrolled`). The attribute is read once, when the call begins, and the
theorem needs that nobody changes it before the call ends: `PaperInv` has that as
its first part, and it is true because calls do not interrupt one another.

*Printf.* `ItemsPrinted` speaks of the moments between two directives, the loop
takes a character at a time. `ScanInv` says where the scan stands in between: in
item k+1, having passed p characters of it. It then remembers of that item what
these characters say (`Within`: the flags, and as much of the width as the digits
read amount to) and of the items before it nothing; the next argument is the
first one of item k+1, and the output is what the first k items mean, on the
screen or in the buffer in front of its untouched rest (`Wrote`). That each turn
keeps it (`FieldStep`, `PlainStep`) rests on three groups of lemmas. Recursive
functions: `Recursion` shows that a function defined by an equation over smaller
numbers exists, which `Weight`, `Digits` and the community modules' `FlattenSeq`
need before anything can be said of their values. Numerals: quotient and remainder
of a number by the radix are the numeral without its last digit and that digit
(`NumeralStep`), so that the do-while builds the shortest numeral, for every
number and every radix of the code (`DigitsAreNumeral`); and reading a
width digit by digit gives the width back without overflow (`WidthScan`). Formats:
where a directive stands in the concatenation of all spellings (`Places`,
`FieldSpelling`), and that none of its characters can be taken for one of another
state (`TailChars`). `NumberPrints` then compares `DO_NUM`, `EMIT` and `EMIT2`
with `Field` for every combination of sign, flags and width.

Only model-checked: the liveness properties `RunnableRuns`, `ZombieReaped` and
`BootEnds`, because liveness under fairness, and `ENABLED`, are beyond the proof
system as used here.

## Where the code and its documentation differ

Met while modelling. `KernelHeapTable` is in `PROJECT.json`; the others are kept
as configurations that anyone can run with `tlc -config <name>.cfg <module>`.
Each line is one statement of the sources, and TLC ends with a counterexample
(`tlc -continue` for a configuration with more than one line).

| Configuration (module) | Property | The code, and what it says |
|---|---|---|
| `KernelHeapTable` (`KernelHeap`) | `NewTableInstalled` | `memory.c:561`: the new table goes into the page directory at the index of the *page*; the directory entry of the address stays absent and `map_page_helper` calls itself for ever, taking a page each time. "a new one will be allocated and initialized" (`memory.c:439-441`) |
| `KernelHeapRemap` (`KernelHeap`) | `LiveDataKept` | `memory.c:411`: when the mapped limit is inside a page, that page is mapped again, to a fresh frame; the end of the last block loses its contents. It is to be "a memory manager" (`memory.c:348`) |
| `KernelHeapExhausted` (`KernelHeap`) | `FailureNotMapped` | `memory.c:410`: `sbrk` does not look at `alloc_page`'s result and maps physical page 0. "NULL/zero is failure (no free RAM)" (`memory.c:585`) |
| `SchedulerReap` (`Scheduler`) | `ReapedIsUnlinked` | `process.c:176`: ZOMBIE is set before `cli`; a tick in between reaps the thread while it is linked, and it never runs to unlink itself. "re-init and re-use (free if needed)" (`process.c:129-130`) |
| `SchedulerPids` (`Scheduler`) | `UniquePids` | `process.c:255`: `numThreads++` outside any `cli`; two creators get one pid and a thread loses its slot. "create a new thread of execution.  returns PID." (`process.c:185`). Latent: only boot code creates threads |
| `BootMemoryListed` (`BootMemory`) | `KernelNotListed` | `memory.c:202-207`: the test for pages of the kernel is commented out, so they are listed as free. "Add only if not found used anywhere" (`memory.c:193`) |
| `BootMemoryListed` (`BootMemory`) | `ReservedNotListed` | `memory.c:218-219`: strict comparison with a page's first byte; the first page of each region is listed. "comparing address to all known reserved regions" (`memory.c:192`) |
| `PageStackFree` (`MCPageStack`) | `FailsOnlyWhenEmpty` | `memory.c:596`: the index of the top is taken for a count; the page in slot 0 is never handed out. "NULL/zero is failure (no free RAM)" (`memory.c:585`) |
| `PageStackFree` (`MCPageStack`) | `FreedComesBackFirst` | `memory.c:622`: `free_page` overwrites the top and leaves the index on an empty slot. "we maintain page list structures as a stack" (`memory.c:580-581`). Latent: no caller |
| `InterruptPageFault` (`MCInterruptEntry`) | `PageFaultResumes` | `isr.s:230`: one word pushed, three popped; the thread is resumed from the wrong words. "Why is this needed?? \*BUG\*" (`isr.s:233`) |
| `InterruptErrorCode` (`MCInterruptEntry`) | `DumpIsRight` | `isr.s:149`: with an error code on the stack every field of the dump from `eip` on is one word off. "registers pushed from x86 hardware handling of interrupt" (`interrupts.h:106`) |
| `InterruptRoutingSetup` (`InterruptRouting`) | `OnlyTimerAndKeyboard` | `pic.c:132`: `~0x00` is the int -1, less than 0xFF, so masking everything unmasks IRQ 2. "Disable them all" (`pic.c:41`), "enable only IRQs 0&1" (`kernel.c:86`) |
| `InterruptRoutingSetup` (`InterruptRouting`) | `EveryVectorHandled` | `interrupts.c:90`: the loop stops before vector 255. "Initialize all interrupts to unimplemented handler" (`interrupts.c:88-89`) |
| `InterruptRoutingSetup` (`InterruptRouting`) | `OnlyStubsInstalled` | `interrupts.c:108`: the loop runs to 0x15 over an array of 16. "Array should contain MAX_IRQ_IMP elements" (`interrupts.c:65`) |
| `ConsoleEcho` (`Console`) | `WritesOnOwnScreen` | `video.c:274`: a key echoed inside a thread's tab lets the loop miss its stop and blank memory beyond the console. "NO PRINTF IN INTERRUPT HANDLERS - NON RE-ENTRANT!" (`keyboard.c:223`) |
| `ConsoleMove` (`Console`) | `CursorFollowsEscapes` | `video.c:230`: an escape sequence returns before `move_csr`. "ESC[num1;num2H -- move cursor to num1,num2" (`video.c:215`) |
| `PrintfLong` (`MCPrintf`) | `ItemsPrinted` | `stdio.c:143-144`: the argument of a directive with `L` is read as a `long long` into `num`, a `long`; the upper half is lost. "Now we're doing 2^64" (`stdio.c:25`) |
| `BootError` (`MCBoot`) | `ErrorIsShown` | `klMain.s:239`: `displayLoadError` reads `[bp+18]`, where its caller has left the pointer to the file's name, not the error, so that no message is the one for it. "msgNoRoot" is for `ERR_LOAD_ROOT` (`klMain.s:241-244`), and so on |
| `BootFarCluster` (`MCBoot`) | `ImagesInOrder` | `bootsect.s:305`, `klLoadKernel.s:990`: `mul byte` takes only the low byte of the cluster number; from cluster 258 on the wrong sectors are read |
| `BootNamesake` (`MCBoot`) | `ImagesInOrder` | `kloader.h:109`: `FAT_FILENAME_SIZE` is 0x0A, "8+3=11"; a file that differs in the eleventh character is taken for the kernel. "Compare 11 characters" (`bootsect.s:147`) |
| `BootNoBss` (`MCBoot`) | `AcceptedIsEntered` | `klLoadKernel.s:956`: the loop that clears the bss counts down before it tests; with no bss it runs through memory. "always returns 0" (`klLoadKernel.s:221`) |
| `KeyboardShift` (`Keyboard`) | `ShiftIsPressed` | `keyboard.c:114`: both shift keys share a flag; releasing one clears it while the other is down. "Shift is pressed" (`keyboard.h:72`) |

The properties of the passing runs hold in spite of these: the models contain the
behaviours above, except that `Console` and `ConsoleEscapes` take calls one at a
time (`Preempt = FALSE`), that `Boot` leaves out the kernel beyond cluster 257
and the namesake, `Printf` the modifier `L`, and that the listed runs leave out
exceptions with an error code: in each case the property would be the one refuted.

Smaller ones, seen in the sources and without a run of their own. `loadFAT` is to
"Reset and try 4 more times" (`klLoadKernel.s:471`) and never gives up: the
branch after `mov ax, 0x05` tests the carry flag that the reset left
(`klLoadKernel.s:480-481`). The messages for `ERR_LOAD_ROOT`, `ERR_LOAD_FAT` and
`ERR_LOAD_KERNEL` cannot be reached, because `kloaderDiskError` stops the machine
before they are returned. The comment above `LBA2CHS` gives the sector as a
quotient (`bootsect.s:283`); the code takes the remainder, which is right.

## What is not modelled

- *Whole parts.* The system call handler, the timer chip, port I/O, the hardware
  report and the string functions keep no state later code depends on. The code
  that would load the TSS is commented out. `old/` and the emulators' files are
  not built.
- *Boot loader.* Hardware detection (`klHardware.s`), text output
  (`klConsoleIO.s`), the descriptor tables and the mode switches are straight-line
  code. The conversion of a logical sector to cylinder, head and sector is a
  bijection of the disk and left out.
- *Formatted output.* A format that ends in `%` or `%0`, behind which the scan
  passes the terminator (`stdio.c:50`, `75`): the caller ends what it begins. The
  length of the buffer given to `sprintf`, which the code does not know.
- *Lists.* `list_for_each_entry` and the other macros that only add
  `container_of`; `kernel/list.c` is not compiled.
- *Memory.* The TLB (`paging.s`'s `invlpg` invalidates the stack slot of its
  argument, not the page); two threads inside `kmalloc`, where only
  `map_page_helper` runs under `cli` and ends with `sti` whatever the flag was
  (`memory.c:484`), since only boot code calls it.
- *Threads.* More than `MAX_THREADS` of them: pids are not re-used and nothing
  compares one with the size of the table (`process.c:235`), so the 1025th is
  written behind it.
- *Interrupts.* The bytes C frames take on the 512-byte stacks; the IDT limit;
  faults raised inside stubs; a second keyboard interrupt while the first is in
  service, which the 8259 holds back.
- *Console.* `clrscr`, blinking, the header lines that boot code writes straight
  to the display, `move_csr` interrupted between its port writes, two callers'
  characters mixed inside an escape sequence.
- *Keyboard.* Codes lost in the controller's one-byte buffer, the time-outs of
  `write_kbd`, lines longer than the buffer (nothing promises what they do), what
  commands print.
- *Shell.* Which string compares equal to `timer`: the model takes any result.

Where the code has a fault no property of a passing run covers, its entry under
`hazards` in `PROJECT.json` says which configuration above shows it.

## Plan

Done, in this order, because every other part stands on the first ones:
scheduler with its abstract specification and proofs; page stack, boot map and
heap; interrupt entry and routing; console and keyboard; the lists with their
abstract specification; the boot loader, composed with the boot map; formatted
output. Proved: every safety invariant and action property that a run checks,
that `Scheduler` implements `CpuSharing`, and that `ThreadList` implements
`ThreadRoster`.

Next, most important first:

1. A composition of keyboard echo, console and scheduler, with what a thread
   prints and what the interrupt echoes on one console: what can still be
   promised once `Preempt` is TRUE.
2. `putch_help`'s callers as they are, character by character from `Printf`,
   with the `cli` that `panic` puts around them.
