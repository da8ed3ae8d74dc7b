# Verification of panacheOS

TLA+ models of the panache kernel, model-checked with TLC, and theorems about
them checked with TLAPS. panacheOS is a 32-bit x86 kernel in C and NASM for one
CPU: preemptive processes in ring 3, interrupts, a frame allocator, paging, a
heap, an ELF loader, a keyboard driver and a shell. It has no tests; the models
are translated from the code, and where the order of memory accesses matters
from the objects in `src/build`.

All paths below are relative to `src/`.

## 1. The system

| Component | State | Operations | Uses / is used by |
|---|---|---|---|
| Scheduler, context switch (`proc/scheduler.c`, `proc/switch.asm`) | none of its own; writes the process table, `current_pid`, `tss_entry.esp0`, the stack pointer | `scheduler_next`, `scheduler_tick`, `context_switch` | called by `irq_handler` on every IRQ 0 |
| Process table (`proc/process.c`) | `process_table`, `current_pid`, `next_pid` | `process_init`, `process_create`, `process_exit`, `process_get_current`, the trampoline | kernel_main creates; the scheduler reads and updates |
| Interrupts (`arch/i386/interrupts.c`, `idt_flush.asm`, `k_isr128.asm`, `k_isr177.asm`) | IDT, `irq_routines`, PIC | entry stubs, `irq_handler` (EOI, scheduler, driver), `isr_handler`, `int 0x80`, `int 0xB1` | enters on the stack in the TSS or on the running one |
| Descriptors (`arch/i386/gdt.c`, `gdt_flush.asm`) | GDT, TSS, the registers that point to them | `init_gdt`, `write_tss`, `gdt_flush`, `tss_flush` | kernel_main; every entry and return of the CPU |
| Boot information (`boot/boot.asm`, `include/mb.h`) | the tags of the loader | `_start`, `parse_multiboot2` | kernel_main |
| Kernel start (`kernel/anemoia.c`) | locals on the boot stack | `kernel_main`: descriptors, paging, frames, heap, drivers, processes, iret | calls everything below |
| Frame allocator (`memory/pmm.c`) | bitmap, two counters | init, mark used/free, alloc, free, count | kernel_main, `paging_map`, `elf_load` |
| Paging (`memory/paging.c`) | page directory, 256 static tables, tables from the allocator | `init_paging`, `paging_map` | kernel_main, `elf_load` |
| ELF loader (`usr/elf_loader.c`) | none | `elf_load` | kernel_main |
| Heap (`memory/kmalloc.c`) | linked list of blocks in 1 MB | `kmalloc_init`, `kmalloc`, `kfree` | kernel_main |
| Keyboard (`drivers/keyboard/keyboard.c`) | ring of 256 bytes, two 8-bit indices | IRQ handler; `haskey`, `getchar` | the shell through system calls |
| Shell (`usr/user_main.c`) | input buffer, length, cursor row | poll, edit, execute, redraw | system calls |
| Frame buffer, font (`drivers/video`, `fonts`) | pixels | clear, rectangle, pixel, character, string | system calls of both processes |
| Serial line (`usr/serial.c`) | registers and FIFO of the UART | `debug_serial_init`, polling, writing | kernel_main, handlers, `paging_map`, a system call |
| CMOS clock (`drivers/time/cmos.c`) | the clock's registers and address port | `cmos_get_time` | a system call |
| Text console, conversions (`drivers/vga/vga.c`, `kernel/util.c`) | 80x25 cells, cursor, colour | `k_print`, `k_reset`, `k_set_color`; `k_itoa`, `itox` | `isr_handler` |
| Blinky (`usr/executables/blinky.c`) | none shared | a loop of rectangles | the second process |
| Kernel time (`interrupts.c`) | `ktime` | `timer_callback`, `sleep` | nobody |

The components interact by calls inside the kernel, by interrupts, and through
shared memory: the process table and `current_pid` are read and written by
kernel_main, by the timer handler and by the trampoline; the ring is written by
the keyboard handler and read by system calls; a stack pointer saved by one
activation of the timer handler is loaded by another.

What is hard:

* **Everything is preemptible.** All gates are trap gates (flags `0xEF`), so
  handlers run with interrupts enabled, and `irq_handler` sends the EOI before it
  calls `scheduler_tick`. A tick can arrive in the middle of an earlier tick, of a
  system call, of the keyboard handler, of `process_create`.
* **Shared devices without locks.** The UART, the clock's address port and the
  frame buffer are used by system calls of both processes, which are preempted
  between a test and the access it is for.
* **Hardware protocols.** EOIs that name no line, with nested handlers on two
  controllers; error codes that some exceptions push; descriptors in pieces; a UART
  whose registers change their meaning; a clock that changes while it is read.
* **Bookkeeping in pieces.** The current process is described by `current_pid`, by
  two process states, by the TSS and by the stack pointer, set by separate
  statements.
* **Identity map.** The kernel writes page tables and stacks through virtual
  addresses equal to the physical ones, and maps user pages over the same range.
* **Intrusive data.** Heap headers lie next to user data; merged headers stay
  behind with a valid magic number.
* **Boundaries.** Ring indices and heap sizes wrap; frame 0 is both an address and
  "out of memory"; the shell's line needs room for its terminator.

What makes the components correct:

* scheduler: the context of a process that does not run is intact and resumable;
  nobody starves; the bookkeeping names the process that runs; every interrupt
  line gets its EOI;
* start: kernel_main is never lost, and hands over a state the scheduler can use;
* frames: one use per frame, an exact counter; heap: disjoint grants, complete
  coalescing, no write into granted memory; paging: stacks and segments stay where
  they were mapped; loader: contents at their addresses, no writes elsewhere;
* keyboard: keys arrive once, in order, eventually; shell: what is shown is what
  will be executed, and what has been typed;
* interrupts: every entry and return continues in code, a handler is invisible to
  what it interrupts, every EOI retires the handler's own line;
* devices: no character lost on the serial line, no time put together from two, no
  pixel where it does not belong, a console that shows what was printed.

`PROJECT.json` lists the hazards line by line with the properties that cover them.

## 2. Modules

| Module | Models | Abstract specification |
|---|---|---|
| `Scheduler` | interrupt entry, EOI, `scheduler_tick` statement by statement, context switch, trampoline | `Multitasking` |
| `MCRoundRobin` | `Scheduler` with a counter of bypasses | |
| `Boot` | kernel_main from `process_init` to iret, `process_create` statement by statement, over `Scheduler` | |
| `Pmm` | `memory/pmm.c` and its clients' protocol | `FrameAllocator` |
| `Memory`, `MCMemory` | memory set-up of kernel_main, `paging_map`, `elf_load`, over `Pmm` | the protocol of `Pmm` |
| `Heap` | `memory/kmalloc.c` | `HeapAllocator` |
| `MCAllocators` | `Pmm` and `Heap` in one run | |
| `Keyboard` | keyboard handler, ring, HAS_KEY and GET_KEY, the polling loop | |
| `Shell` | editing, commands, drawing in rows of characters | `LineEditor` |
| `Terminal`, `MCTerminal` | `Keyboard` and `Shell` together, from scancode to screen | |
| `Traps` | entry stubs instruction by instruction, `irq_handler`, `isr_handler`, gates and descriptors, both controllers | |
| `Startup` | `_start` and kernel_main to user mode: tags, GDT, TSS, PIC, IDT, STI, `keyboard_init`, over `Traps` | |
| `Serial` | programming of the UART, concurrent writers | |
| `Clock` | `cmos_get_time` port by port against a running clock | |
| `Graphics` | every store of the drawing calls, concurrent painters | |
| `Console` | `k_print` and conversions | an ideal terminal (`paper`) |
| `MCMachine` | `Startup` over `Traps`, `Serial`, `Clock`, `Graphics` and `Console` in one run | |
| `SchedulerInv`, `SchedulerProofs` | inductive invariants of `Scheduler`, proofs about it and `MCRoundRobin` | |
| `BootProofs` | inductive invariant of `Boot`, proofs | |
| `HeapProofs` | proofs about `Heap` | |
| `MemoryProofs` | proofs about `Pmm`, and about `Memory` on top of it | |
| `TerminalProofs` | proofs about `Keyboard`, about `Shell`, and about both together | |
| `StartupProofs` | inductive invariants of `Traps` under `Startup`, proofs | |
| `DeviceProofs` | proofs about `Serial`, `Clock`, `Graphics` and `Console` | |
| `NatLemmas` | arithmetic lemmas: minima, division, remainders, induction | |

How the state corresponds to the code:

* **Scheduler.** A kernel stack is an array of activations, one per handler that
  has been entered and has not returned; an activation holds the next statement
  (`pc`), the locals `cur` and `next`, and (a ghost) the process it belongs to. A
  stack pointer is a pair of stack and depth. `process_table[i].esp` is such a
  pair. `prog` is a ghost: the process whose code the CPU executes. `prog = NULL`
  means that a context switch went to something that is not a saved context. The
  CPU takes `tss_esp0` on entry from user mode. `isr` is the in-service register of
  the PIC; a pending line is an enabled action. Nobody changes `cr3` to anything
  else (both processes share the directory), so it is left out; so is `eip`, which
  `scheduler_tick` stores and no code reads.
* **Boot** adds an activation of kind "boot" on the stack of the boot loader, whose
  `cur` is the process being created and `next` its slot. Ticks come between any two
  of its steps. The log lines that `process_create` prints by polling the UART,
  interrupts enabled (`process.c:80-86`), are the time kernel_main may spend before
  `SetCurrent`.
* **Pmm.** The bitmap is the set of frames whose bit is set; the scan by words finds
  the lowest clear bit. `held` and `reserved` are ghosts for what the clients have.
* **Memory.** One step per call. A page has `PMM_PAGE_SIZE` cells; page tables hold
  frames; `cell` holds which byte of which segment was written. Page tables and
  cells are kept apart: `NoStrayWrite` shows that no cell write hits a table.
* **Heap.** `mem` maps an address to the header last written there, stale ones
  included. Sizes are taken modulo `Word`. `asked` and `granted` are ghosts: the last
  request and its answer, which `HeapAllocator` relates.
* **Keyboard.** `key_buffer[key_write++] = c` is three accesses: load `key_write`,
  store the slot, store the index. C does not order the two stores; this is the order
  in `build/drivers/keyboard/keyboard.o` (`objdump -d`: 1e, 28, 2e). `keyboard_getchar`
  loads `key_read` once (60), compares (69), stores the new index (74) and then loads
  the slot (7a). A compiler that stored the index before the slot would let the shell
  read the slot too early. Scancodes are numbers in order of
  arrival; the map knows some of them.
* **Terminal.** GET_KEY's return and the shell's handling of the key are one step:
  nothing the shell does between two system calls is seen by anybody else.
* **Traps.** `ip` is the instruction of a stub, of kernel_main or of the user
  program; `stack` holds the words interrupts have pushed, registers that are pushed
  together being one word; a C function clobbers the caller-saved registers. 32-bit
  addresses and limits are pairs of halves, and a descriptor is cut into its fields
  as `set_gdt_gate` and `set_idt_gate` cut it; the CPU puts it together again. The
  masks and ORs of the code are remainders and sums of bits (`OrBit`).
  `ip.prog = Wild` means that it went where no code is. `shadow` is a ghost: what
  each handler interrupted. `CpuErrorCode` has every vector for which a processor
  pushes an error code (8, 10 to 14, 17, 21, 29, 30); `Entry` and `Stub` have what
  `idt_flush.asm` expects of each. One process runs; ticks that switch are `Scheduler`'s.
* **Startup.** A step per call of kernel_main, and one per round of
  `parse_multiboot2`; `Padded` is its `(size + 7) & ~7`.
* **Serial.** `uart` maps offsets to registers, with the divisor where bit 7 of the
  line control register puts it; `fifo` knows who wrote a character (ghost).
* **Clock.** An `out` and an `in` per `cmos_read`; the update in progress is
  announced, happens and ends by actions of the clock.
* **Graphics.** `memory` by address, so that a pixel behind the edge is one of the
  next line. One store per step; `alone` is a ghost: the last call of each painter
  that nobody has drawn over.
* **Console.** A call of `k_print` is one step: its only caller prints from an
  exception handler of the one process that uses `int 0xB1`.
* **Shell.** A row of the screen is a sequence of characters; system calls draw,
  clip and clear rows. Messages of the shell are one character wide.

## 3. Runs

| Run | Instance | Shows |
|---|---|---|
| `scheduler` | 3 processes, 3 slots, 2 activations per stack | the inductive invariant `IInv` (with types), `SavedContextsIntact`, `CurrentProcess`, `PicInService`, `PreemptedUntouched`, `ImplementsMultitasking` |
| `round_robin` | 3 processes, 4 slots, 2 activations | at most two bypasses; every process runs again and again; the keyboard's line is always released |
| `nested_tick` | 2 processes, 3 activations, ticks anywhere | **violated**, see section 6 |
| `boot` | 3 processes, 2 activations | `WildOnlyHalfBuilt`, `LostOnlyBeforeCurrent`, `HandedOver`, `BootResolves` |
| `boot_tick` | 2 processes, 3 activations | **violated**, see section 6 |
| `boot_lost` | as `boot_tick` | **violated**, see section 6 |
| `allocators` | 8 frames, 6 of them managed; a heap of 36 bytes with headers of 8 | `Accounting`, `Partition`, implements `FrameAllocator`; `WellFormed`, `LiveBlocks`, `PayloadUntouched`, implements `HeapAllocator` |
| `memory` | 86 executables | `StacksReachable`, `FramesExclusive`, `SegmentsLoaded`, `NoStrayWrite`, `FollowsProtocol` |
| `terminal` | ring of 3, 5 keys; and any keys at a shell with a buffer of 5, 4 rows, 2 letters | `InOrder`, `MCLineFollowsTyping`, `TypingShown`; `ScreenShown`, implements `LineEditor` |
| `keyboard_nested` | as `terminal`, ring of 4, two unfinished handlers | **violated**, see section 6 |
| `machine` | see below | `LostIffMisframed`, `EoisMatch`, `ContextRestored`, `KeysDrained`, `TagsWalked`, `NoOverrun`, `Undamaged`, `TimeWasTrue`, `DrawnExactly`, `ScreenShowsPaper` |
| `keyboard_early` | as `machine`, keys before `keyboard_init` | **violated**, see section 6 |

`allocators`, `terminal` and `machine` put parts that share no state into one run:
a behaviour exercises one part and leaves the others at their beginning, since
their product would only repeat the states of each.

Why the bounds are enough:

* `MaxDepth` bounds the activations on one stack. Two give an interrupt inside a
  handler, so that every pair of statements of two handlers meets; three (`boot_tick` and
  `boot_lost`, where kernel_main is the lowest) the same inside kernel_main. One free slot exercises the scan past DEAD entries. Three processes
  distinguish "the next" from "the other". The proofs remove these bounds except
  that `MaxDepth` stays a constant: an interrupt beyond it is not modelled, because
  the code has no answer to a stack overflow.
* `boot`: kernel_main creates two processes. Of two, the second is complete only when
  kernel_main is about to enter user mode, so that with two no other process preempts
  it while it has one left to create; the run has three. The violations need only the
  code's two.
* `allocators`: 6 managed frames, unmanaged ones on both sides; up to four blocks,
  requests that round up, that wrap to 0, that fit exactly, that are refused, and that leave remainders just above and
  below the limit of a split.
* `terminal`: the indices wrap; five keys go once and two thirds round the ring and
  make a line, a correction and a command. Only longer sequences wrap the screen and
  fill the line: there the shell takes any keys, without the ring. Five columns
  after a prompt of two clip a line of four letters; four rows wrap within two
  commands.
* `machine`. Start-up and traps: lines 0, 1 and 12, so that both controllers and the
  cascade are in use, an exception with an error code (13), the one that halts (14), one whose error
  code the stub does not expect (17),
  both software interrupts, two nested handlers (`MaxNest`), so that every pair of
  stub instructions meets; four lists of tags with sizes that are no multiples of
  eight. Serial line: three writers, a FIFO of four, characters as numbers, some of
  which would set the divisor if it were reachable. Clock: two callers, two updates
  at the turn of a year, where every field but the first changes by itself, both
  formats. Frame buffer: 12 by 3 pixels, lines of 13, a font of 9 by 2 (rows of two
  bytes), calls that overlap each other and all edges. Console: 4 by 2 cells and
  every sequence of five calls (`MaxPrints`), which wrap and scroll.
* `memory`: executables of one or two headers, in the identity map and above it
  (where page tables are allocated, on both sides of the heap), headers that are
  not loaded, empty segments, pure .bss, a bad magic, sizes that exhaust the
  allocator in the loader and after it. The run is deterministic per executable.
  The user stacks lie on pages that no executable uses and that are no kernel
  stack's frame, as in the code's layout (0x4FF000, 0x8FF000 against 0x500000
  upwards); with an executable of more than 3 MB that would no longer hold.

Deadlock is checked everywhere but in `boot` and `boot_lost`, where a process that has
gone wild stops (which `boot_tick` shows), in `memory`, where the program of
kernel_main ends (and goes on to user mode), and in `machine` and `keyboard_early`,
where the writers and the console come to their end and isr_handler may halt.

## 4. Assumptions

* `TicksSpaced` (`SchedulerInv`): no timer interrupt inside the window of
  `scheduler_tick` from the store of `current_pid` to the stack switch
  (`Window \subseteq Quiet`). Nothing in the code enforces it; what makes it hold in
  practice is that ticks come every 55 ms (the PIT is left at its reset rate) and the
  window takes well under a microsecond. `nested_tick` shows what happens otherwise.
  `round_robin` assumes the same for the whole of `scheduler_tick`, which keeps its
  liveness properties within reach; the theorem about `RoundRobin` needs no more than
  `TicksSpaced`.
  Nothing of the kind is assumed of kernel_main and `process_create`: there the windows
  last for as long as two lines of polled serial output take, milliseconds.
* `MaxHandlers = 1`: one unfinished keyboard handler at a time. A handler that is
  preempted after its EOI and after reading the port, for as long as the next key
  takes to arrive, breaks the ring: `keyboard_nested` drops the assumption.
  `MaxUnread < RingSize`: the shell keeps up; the ring has no full test
  (`keyboard.c:29`), and no run shows what an overflow does. Together they are `Unhurried`, the
  hypothesis of the theorems about `Keyboard` and `Terminal`.
* The clients of the heap return a block once and do not write outside it. Sizes above
  `Word - 4` wrap to 0 in the rounding of `kmalloc.c:37`; of the answer to such a
  request `LiveBlocks` and `HeapAllocator` (`Most`) promise only that the block is
  nobody else's. No caller asks for as much.
* Serial: no more writers at a time than places in the FIFO (16; there are three).
* Clock: the set-up is that of a 24-hour clock. An update is announced 244
  microseconds ahead, and the reads of a call that no tick interrupts fit in that.
  Calls that a tick does interrupt are left out of `TimeWasTrue`: they do go wrong.
* Traps: software uses vectors 0x80 and 0xB1 only; gates of exceptions with an error
  code are entered by the CPU. Any vector of `Faults` may strike at any instruction;
  that the kernel never switches on alignment checks, and so gets no vector 17, is not
  assumed. In `machine` keys come after `keyboard_init`;
  `keyboard_early` drops that.
  `TssAddress` is any 32-bit address. The memory map of the boot loader holds whole
  entries (`StartupAssumption`), as the Multiboot2 specification has it: otherwise the
  inner loop of `parse_multiboot2` would read on behind the tag.
* Graphics: the frame buffer ends below 2^32 and its lines are at least as long as they
  are wide; every call ends, on the right and at the bottom, at 2^32 at most
  (`GraphicsAssumption`; `Word` keeps the wrap in the code). The calls of `user_main.c` and
  `blinky.c` stay far below: they draw at fixed places and at rows of the screen.
* Console: a tab, or the letter of an unknown conversion, is not printed at a full
  row (`Fits`), where the code looks at no limit; `%u` stays below 2^31, `%d` above
  -2^31, formats do not end in `%`. Arguments of `%s` and `%c` have no tab and no
  `%`, which the inner `k_print` would take for a conversion, and no control character
  stands behind a `%` (`ConsoleAssumption`). The one caller keeps to it. The width of the screen, 80 in the
  code, is a multiple of 4: a tab ends in its row.
* Executables (`Memory`, hypotheses; `MCMemory` assumes them of `PageAligned`): `Snug`,
  a segment touches no more pages than its size says; `Unshared`, no two segments have
  a page in common; `Apart`, what the executable asks for (stacks, pages, page tables)
  comes out of a pool of frames whose identity mapping nothing replaces. The linker
  scripts of the repository make segments that are page aligned, and the pool below
  blinky's 0x800000 has 512 frames. `MemoryAssumption` has the layout of kernel_main:
  kernel, heap and pool disjoint, user stacks off the pages of executables.

## 5. Fairness

* `TimerIrq` is strongly fair: a line that cannot be delivered stays latched in the
  PIC, and the timer does not stop.
* The steps of each kind of handler (`HandlerStep`) are strongly fair: a handler may
  be interrupted before any statement, but not for ever before the same one, since
  handlers take microseconds, ticks and keys milliseconds. No user program is
  assumed to make system calls.
* `Boot` adds the same for the activation of kernel_main.
* `Terminal`: each process gets the CPU again and again (this is
  `EveryProcessRuns`), and takes steps while it has it. No key is assumed to arrive.
* `Startup`: the stubs at each depth of nesting go on (strong fairness, since they may
  be interrupted), kernel_main goes on, and a keyboard request that is deliverable
  again and again is delivered. Nothing is assumed of devices and user programs. The
  other parts of `machine` are checked for safety only.

## 6. Findings

* **A tick inside the window loses a context** (`nested_tick`). `scheduler_tick`
  sets `current_pid = next->pid` (`proc/scheduler.c:59`) and `context_switch` saves
  the stack pointer later. A tick in between finds the next process as the current
  one and saves the stack pointer of the process that is still running into its
  `esp`: its own context is gone, and two processes share a stack.
* **A tick inside process_create goes wild** (`boot_tick`). The slot is READY
  (`proc/process.c:60`) before its stack is built and `esp` is stored, and the timer
  has been running since `init_idt`. The scheduler switches to stack pointer 0.
* **A tick in process_create's log loses kernel_main** (`boot_lost`). The shell is
  complete and READY (`proc/process.c:78`), `current_pid` still 0: `process_create`
  prints two lines by polling the UART, some ten milliseconds, before kernel_main sets
  it (`kernel/anemoia.c:226`). A tick takes the first DEAD slot for the current process
  and saves kernel_main there, for good; the shell runs, blinky is never created.
  `WildOnlyHalfBuilt`, `LostOnlyBeforeCurrent` and `BootResolves` say that this window
  and that of `boot_tick` are the only two.
* **A key overtakes another** (`keyboard_nested`). A tick suspends `keyboard_handler`
  after it has read the port (`drivers/keyboard/keyboard.c:21`) and before it has stored
  the key (`:29`); the controller interrupts again, the handler of the next key runs in
  another process and stores its key first.
* **A key pressed during the boot disables the keyboard** (`keyboard_early`).
  Interrupts are on from `idt_flush`; `keyboard_init` installs the handler much later
  (`drivers/keyboard/keyboard.c:33`). In between `irq_handler` acknowledges the
  interrupt and nobody reads port 0x60; `keyboard_init` does not either, so that the
  controller's buffer stays full and no further key interrupts. `README.md:22`
  promises an interactive shell.

Seen while modelling, not stated as a run: the stubs of vectors 17, 21, 29 and 30
expect no error code though processors push one (`arch/i386/idt_flush.asm:52-65`), so
that their IRET goes astray: `LostIffMisframed` says that exactly these do. `elf_load`
maps a new frame for every page of every segment, so that a segment that starts in the
page in which another ends takes that page's contents away (`usr/elf_loader.c:55`).
`shell_print` on the last row is followed
by `shell_newline`, which clears the screen, so that output is erased at once;
`isr_handler` has a branch for `int 0x80`, which `isr128` does not go through;
`int 0xB1` ends in `isr_handler`, which drops the result of the system call;
`GET_TIME` interrupted by a tick may return a time that never was.

## 7. Proofs

TLAPS proves, for every value of the constants that satisfies the assumptions, the
theorems below. Every inductive invariant named here was checked with TLC on the run
of its component before it was proved.

* **Scheduler** (`SchedulerProofs`): `Spec => []IInv`, and from it `NeverWild`,
  `SavedContextsIntact`, `CurrentProcess`, and the action property
  `PreemptedUntouched`. The properties are not inductive: that a saved context is
  intact depends on who may write it. `IInv` is `SwitchInv(NProc)` and that no other
  process is there (`Unborn`, `NoBoot`). `SwitchInv(n)`, the switch works among the
  first `n` processes, says that every activation
  on a process's stacks belongs to that process and has locals that fit its `pc`
  (`RunningInv`, `ParkedInv`), what the bookkeeping means statement by statement
  inside the window (`BookInv`), and that above an activation in the window there
  are keyboard handlers only, which is where `TicksSpaced` enters. The table itself
  (`TableInv`) keeps slots and pids in step, so that `process_get_current` finds the
  process that runs. The preservation proof has one lemma per action; lemmas common
  to them are `EnterInv` (push), `ContinueInv` (a step that stays in its activation),
  `PopInv` (return) and `WindowInv` (a step inside the window). It is done for every
  `n`, since `Boot` needs it while processes are being added. `PicInService` needs
  `PicInv` besides: at most one activation owes an EOI for each line, the timer's is
  the innermost of all, and none of them is left behind by a context switch.
* **Round robin** (`SchedulerProofs`): `RoundRobin`, for every number of processes and
  slots and with ticks anywhere outside the window, those inside an unfinished
  `scheduler_tick` included. The processes form a ring (`Succ`). `DecidedInv`: every
  decision that an activation of `scheduler_tick` has taken and not carried out, of a
  preempted process too, is to go on to the successor of its own process, so that a
  stale one does no harm. `TurnsInv` then bounds each counter by the distance on the
  ring from its process to the one that runs.
* **Start** (`BootProofs`): with nothing assumed of the ticks but `TicksSpaced`,
  `WildOnlyHalfBuilt`, `LostOnlyBeforeCurrent` and `HandedOver` for the whole of
  kernel_main's creation of processes. `BootInv` has five cases. `Early`: there is no
  process yet, and a tick finds none to switch to. `Shared(n)`: the switch works among
  the `n` processes created so far (`SwitchInv(n)`), kernel_main is the outermost
  activation of the boot stack, which is the shell's, and the slot it is filling holds
  what its `pc` says. `IInv`: kernel_main has gone. The last store of `process_create`
  makes `n` processes `n + 1`; at the iret nothing of kernel_main is left and `IInv`
  holds: what is proved of `Scheduler` from its initial state holds after the real
  start as well. `Lost` and `Wild` are what a tick in one of the two windows leaves:
  kernel_main in a DEAD slot where nothing will pick it, or a switch to no context.
  Each says at which `pc` kernel_main has stopped, which is what the first two theorems
  read off.
* **Multitasking** (`SchedulerProofs`): `Spec => ImplementsMultitasking`. Under
  `IInv'` as well, each action is an `Enter`, a `Leave`, a `Dispatch` or a stutter of
  `Multitasking` on the continuations read off the stacks.
* **Frame allocator** (`MemoryProofs`): `Spec => []PmmInv`, and from it `Accounting`,
  `Partition` and the refinement `ImplementsAllocator`. `PmmInv` joins the three
  properties, since each call needs the others: that the lowest clear bit is a managed
  frame nobody has, that the counter stays in range because clear frames are managed.
  `CounterFollows` carries the counter over a step from the change of one bit.
* **Heap** (`HeapProofs`): `WellFormed`, `LiveBlocks`, `PayloadUntouched` and the
  refinement `ImplementsHeap`, for every heap, header size, word and set of requests.
  What the properties speak of, the blocks, is what the recursive `Walk` finds; the
  proofs work with a set of addresses as witness instead. `Chain(m, B)` says that
  memory `m` holds a doubly linked list of exactly the blocks `B` that tiles the heap,
  and `ListIs`, by induction over the walk, that the walk then finds `B` and nothing
  else. So a call is followed by naming the new set: one block more (`SplitChain`),
  one less (`AbsorbChain`), the same (`Remarked`). `kfree` is three of those in
  sequence, and `Coalesced` is broken after the first: `FreePairs` says which pairs
  of free neighbours each of them leaves. That a refusal is right (`NoRoom`) needs
  `Coalesced`: memory that is free and in one piece is one block; and that a block of a
  size that is a multiple of four holds the request when it holds it rounded up.
* **Memory set-up** (`MemoryProofs`): all five properties of the run. `MemInv` takes
  `PmmInv` over to the composition and adds where kernel_main is (`BootInv`,
  `SetupInv`) and that every use of a frame has one of its own, counted: uses are as
  many as frames used (`UseInv`). From it, with no hypothesis, `FollowsProtocol`
  (kernel_main is a client the allocator's theorems apply to: `KernelAllocatorHolds`)
  and `FramesExclusive`. `StacksReachable` needs `PageInv` and the hypothesis `Room`
  (`Apart` of every executable): a stack stays mapped because its frame comes from
  below everything an executable replaces, and that follows only by counting frames
  held against frames below (`BudgetInv`). `NoStrayWrite` adds `Tight` (`Snug`): the
  copy of a segment stays on pages that were mapped for it. `SegmentsLoaded` adds
  `Disjoint` (`Unshared`), without which it is false.
* **Keyboard** (`TerminalProofs`): `Unhurried` implies `[]InOrder`, for every size of
  the ring, every number of processes and keys, and ticks anywhere. `KeyInv` says
  for each of the five accesses to the ring what its activation has read so far and
  what part of the ring is between the two indices, modulo `RingSize`.
* **Shell and terminal** (`TerminalProofs`): `ShellSpec` keeps `ScreenShown` and
  implements `LineEditor`. Under `Unhurried` the composition keeps `KeyInv`,
  implements the shell by itself, and hands each key to it in order
  (`KeysHandledInOrder`); so `Terminal` inherits the shell's theorems
  (`TerminalHolds`). `MCLineFollowsTyping` is a fold over all keys read; the proof writes
  the fold as a recursive function, whose step `KeysHandledInOrder` then takes, and
  keeps `LineInv`: the buffer holds the line that the keys handled so far mean.
* **Start-up and interrupts** (`StartupProofs`): `LostIffMisframed`, `EoisMatch`,
  `ContextRestored` and `TagsWalked`, for every nesting of interrupts, exceptions and
  system calls at every instruction. An IRET takes what lies on top of the stack, so
  that none of the first three is inductive without a statement about every word below.
  `StartInv`
  holds until the processor has been lost, after which nothing moves. It has three
  parts besides types. `SetUp`: what kernel_main has passed tells
  what GDT, TSS, controllers and IDT hold, so that the first interrupt that can come
  finds all of them. `Laid`: the stack is cut into one part per handler in progress, and
  each part holds exactly the words that the rest of its stub will take off, with
  the values of what it interrupted (`Holds`; `Height` counts them by instruction), the
  error code that a stub of the wrong kind leaves below the frame included.
  `EoiInv`: the lines in service at each controller are those of the handlers that still
  owe it an EOI, with priorities rising towards the innermost one, so that an EOI that
  names no line retires the right one. `WalkInv` is about `parse_multiboot2` alone: `ptr`
  is where a tag begins, and what is left of a memory map is whole entries.
* **Serial line** (`DeviceProofs`): `SerialSpec => []SerialInv` and from it `NoOverrun`,
  for any number of writers that fit the FIFO. Others may write
  between a writer's test and its write; the invariant counts: the characters in it and the writers
  about to write are together at most the writers. `Undamaged` is about order, which
  `UndamagedInv` puts in ranks: the character of a writer with `k` of its own before it,
  heard or in the FIFO, is the `k+1`st of its message.
* **Clock** (`DeviceProofs`): `ClockSpec => []TimeWasTrue`. `ClockInv` says that what an
  uninterrupted caller has read so far agrees with one and the same time, since an
  update cannot begin before the notice given to its test of the update bit is over.
* **Frame buffer** (`DeviceProofs`): `GraphicsSpec => []DrawnExactly`, for every screen, pitch
  and font, any number of painters and calls. `DrawInv` says that a call nobody has
  drawn over has shown its first `step` stores, that nobody is drawing in its area, and
  that nothing off the screen has been written. The lemmas are about a single call: the
  loops store in its area only (`Aimed`), at every pixel of it (`Covered`), distinct pixels
  have distinct addresses (`PixelsApart`), and the bit that `font_renderer.c` picks
  from a row of bytes is that pixel of the glyph (`GlyphPixel`).
* **Console** (`DeviceProofs`): `ConsoleSpec => []ScreenShowsPaper`, for screens of any size
  (with a width that is a multiple of 4) and any formats. The invariant, `Synced`, relates the
  cells, numbered through, with the rows on paper, cell by cell, and adds the colour that
  comes next and that nothing behind the screen is written. `PutSynced`
  and `NewLineSynced` say that a character and a new line, with or without a scroll, keep it;
  the loops of `k_print` over strings and formats follow by induction. The other half is
  that numbers come out as usual: `DecimalSame` (the digits
  taken off so far, reversed, behind the notation of the rest are the whole) and `HexSame`
  (shifting is repeated division, `DivDiv`). The conversions are recursive functions, so
  that the induction is over a number of steps and within the provers' reach.
* `NatLemmas`: minimum of a set of naturals and, from it, induction in the form of a
  set that has 0 and every successor (`Induction`, which the provers can instantiate,
  unlike the library's theorems); division of a multiple, division in two steps, quotients and remainders.

Only model-checked: liveness, and with it the fairness of the specifications (beyond
TLAPS). Every safety property that a passing run checks is stated by a theorem.

## 8. Not modelled

* Code that no execution reaches: `process_exit` (and with it the reuse of slots),
  `timer_callback`, `sleep`, `init_time`, `pit_set_freq`, `irq_uninstall_handler`,
  `serial_init`, `fb_init`, `arch/i386/enter_user_mode.asm`,
  `kernel/syscall_entry.asm`, the empty `usr/daemons/sundial.c`.
* Data: font files (`fonts/*.c` but for the renderer). `Graphics` has the layout of the
  glyphs in the font that is used, `term-28x14-data.c`, and takes their bits as a parameter.
  `KERNEL_IGNORE_COMP/blinky_elf.c`, which is generated, `keymap.h`. They
  are two thirds of the lines under `src/`.
* Page flags, the frame buffer's page table and the TLB; code that only prints
  (`kmalloc_dump`, `debug_serial_hex`); blinky's cycle of colours.
* What happens after the allocator is exhausted during start-up (frame 0 becomes a
  stack or a page table), after a stack overflow, and after a block is freed twice.

## 9. Plan

Built in the order of importance: scheduler and its proofs, start, frame allocator
and its proofs, heap, keyboard, memory set-up, shell; then traps and start-up,
devices, and the way from key to screen; then the proofs of keyboard, shell, clock,
memory set-up, heap, round robin and start; last those of start-up and interrupts, of
the typed line, the serial line, the frame buffer and the console. Left: an account of what
an overflow of the keyboard's ring loses, and `HeapAllocator` for the sizes that wrap.
