# A TLA+ verification of the piggyOS kernel

piggyOS (`src/`) is a 32-bit x86 kernel: a multiboot2 image that brings up
paging, a heap, interrupts, a few drivers, an in-memory file system and
preemptive multitasking on one processor. This directory holds TLA+ models of
the kernel, TLC configurations that check them on small instances, and TLAPS
proofs of the central properties for instances of any size. `PROJECT.json`
lists the components, the source lines of every definition, the runs, the
hazards each property is aimed at, a mutant per property (a plausible bug that
makes the run fail) and the theorems.

## The system and its hazards

| Part | Source (`src/kernel/`) | State | Model |
|---|---|---|---|
| physical memory | `memory/pmm.c` | bitmap, `used_blocks` | `Pmm`, `PageFrames`, `Boot` |
| virtual memory | `memory/vmm.c` | page directory, tables, `temp_mem`, CR3 | `PageFrames`, `Boot`, `Kheap` (`ksbrk`) |
| heap | `memory/kheap.c` | `heap_curr`, `heap_end`, blocks | `Kheap` (allocation) |
| linked list | `utils/dsa/list.c` | `head`, `tail`, `size`, node links | `List`, `ListSpec`, `AbstractList`, `ListRefinement` |
| tasks | `sys/task.c`, `context_switch.asm`, timer, yield and exit calls | `current_task`, `task_list`, stacks, ticks, TSS, CR3 | `Scheduler` (over `List`) |
| directories | `fs/rootfs.c`, `fs/devfs.c`, `sys/spinlock.c` | locks, node lists, `root_files` | `Registry` |
| interrupts and system calls | `cpu/interrupt.asm`, `isr.c`, `idt.c`, `fpu.c`, `sys/syscall.c`, `drivers/timer.c` | frames, `ifr`, controllers, `timer_ticks`, CR0.TS | `Interrupts` |
| console | `drivers/vga.c`, `utils/display.c` | cursor, video memory, CRT registers | `Vga`, `Console` |
| start-up order | `kernel.c` | | `KernelMain` |
| keyboard, serial port, clock | `drivers/keyboard.c`, `serial.c`, `rtc.c`, `fs/devices/com.c` | `shift`, receive queue, `dt` | `Keyboard`, `Serial`, `Rtc`, composed in `Drivers` |
| ramdisk and VFS | `fs/tarfs.c`, `fs/vfs.c`, `kernel.c` | headers, nodes | `Initrd` (over `Elf`) |
| program loader | `sys/elf.c`, `memory/vmm.c` | page table, frames, memory | `Elf` |

The parts lean on each other in ways no single file shows:

* `vmm_init` never says which frame a kernel page should get. The kernel only
  survives the switch of CR3 because the allocator hands out blocks in
  ascending order and nothing was allocated before.
* Page 0 is mapped, so stores through NULL succeed silently.
  `list_insert_front` stores through the NULL head of an empty list each time.
  This is harmless only because the frame of page 0 belongs to no other page.
* The heap grows by mapping pages; mapping a page may need a page table from
  the heap. `malloc` therefore calls itself in the middle of `ksbrk`.
* The timer can interrupt every line that runs with interrupts enabled and
  calls `schedule` from there.
* The page directory of a task is a copy made when it is created; page tables
  added to the kernel's directory later are not in it.
* Interrupts are enabled at the end of `idt_init`, before most drivers have
  installed a handler, while their devices already work.
* The timer's handler does not return to its caller but switches to another task,
  with a frame, and an acknowledgement to the controller, still to be dealt with.
* `klog` and the echo of the keyboard share one cursor, and nothing guards it.
* The boot modules are read where the boot loader put them, after `pmm_init` has
  cleared a bitmap behind one of them.

What can go wrong and is hard to test: exhaustion of blocks and drift of the
counter; overlapping early allocations; the two ends of a list that has been
emptied; ticks in the middle of task creation and switching; freed tasks that
are still referred to; wrap-around of tick counters; starvation; the recursion
of the allocator; races between look-up and insertion; interrupts before, during
and after the installation of their handlers; values kept in registers across an
interrupt; circular queues at their limit; sums that wrap around; archives and
binaries at the edge of what is accepted. `PROJECT.json` has the list with source
lines.

## Modules

**`Pmm`** has the bitmap as the set of blocks whose bit is set, and the unsigned
counter modulo `CounterMod` (2^32). `pmm_exhausted` is an equality since the
subtraction in `pmm.c:40` is unsigned; `first_free_block` scans whole words only
(`WordBits`), so the blocks of a last partial word are never found.

**`PageFrames`** is one page directory over `Pmm`: `allocate_page` with a frame
from the allocator (`AllocatePage`) or a given one (`IdenMapPage`), and
`free_page` with and without giving the frame back.

**`Boot`** is `pmm_init` and `vmm_init` step by step, for every set of boot
modules: the place of the bitmap, `dumb_kmalloc` with the `ALIGN` that always
skips to the next page, one action per round of the mapping loops, and the
switch of CR3. Stores outside the 4 MiB boot mapping lead to `fault`.

**`List`** has the pointers of `list_t` and the nodes, and the operations as
actions over them. `list_insert_front` consists of two halves, `link_front` and
`publish_front`, so that `Scheduler` can interrupt it. **`ListSpec`** lets callers
choose freely among the operations, until the first of three misuses: the only node is
taken away at the back; a node is inserted at the back of a list that was emptied at
the front (removal does not reset the opposite end pointer); or NULL is removed from a
list that has nodes, which is what `list_remove_by_index` does with an index out of
range. `misused` records them, and the model ends there. The kernel inserts at the
front and removes nodes that are listed. **`AbstractList`** is a list as a sequence;
**`ListRefinement`** maps `ListSpec` to it.

**`Scheduler`** is `task.c`, one action per line that matters. Each thread is a
stack of frames with a line, the local variables and the interrupt flag. A timer
interrupt pushes a frame that runs `schedule` with interrupts disabled;
`context_switch` leaves a frame `switched` behind, where the thread continues
when it is next chosen. The boot thread calls `task_create` with interrupts enabled; tasks
would call it with interrupts disabled, as in a system call (in the present kernel none
does, the call in `stage2` being commented out, `kernel.c:34`). Reads through NULL see zeros. Once the kernel would use a
freed node or panic, `outcome` says which and the model stops.

**`Kheap`** is allocation without reuse: `kmalloc`, `kmalloc_a`, `malloc`, `ksbrk`
and `allocate_page` as a stack of frames. Nothing in the running kernel frees
memory at present (no task exits: the start of the first user task is commented
out in `stage2`), so `bestfit` finds nothing. Addresses count 4-byte words, which
makes the pointer arithmetic in `malloc` visible: the trailing size goes to
`b + 4*size - 4` words and the payload starts 12 words into the block.

**`Registry`** is the two directories with their spin locks. One test of the lock,
one round of `foreach`, linking and publishing a node, and the count are separate
steps. The list a task has read does not change behind its back, because nodes are
only ever put in front. `rootfs_readdir` does not lock, but unlocks; `ReadsRoot`
are the tasks that call it, `WritesRoot` those that register in the root
directory. `Guarded` are the directories nobody reads that way.

**`Interrupts`** has tasks that compute, make system calls, raise exceptions, use
the FPU and sleep, and two interrupt lines, one on each controller. Each `regs_t`
on a task's stack is a frame with the place its handler has reached; `ifr` is the
index of the frame the dispatcher works on. `irq` is delivery by priority,
`irq_handler` the acknowledgement, `iret` the end of a stub. Gates are interrupt
gates, so a task with a frame runs with interrupts disabled. `schedule` is only its
round robin; `Scheduler` has the rest. `slept` in a sleeper counts the ticks since
`sleep` was called and is history.

**`Vga`** is `vga_putc` store by store: the row and the column it has loaded are in
registers, and an interrupt handler that prints can come between any two stores.
**`Console`** turns a call of `kprintf` or `klog` into the calls it makes of the
two drivers, number conversions included, and lets the keyboard's echo interrupt.
`Paper`, an endless page, is the reference for scrolling, and `TextOf`, written
without the conversions of `display.c`, that for messages.

**`KernelMain`** is the order of initialisation, as far as interrupts see it.
**`Keyboard`** has the controller's one-byte buffer and `keyboard_irq_handler` with
its modifiers, locks and extended codes. **`Serial`** has the port's FIFO, whose
line the interrupt controller sees only when it rises, the circular queue, and
`serial_getc` line by line. **`Rtc`** has the update flag, which must be read for
the next interrupt to come, and `get_seconds` reading two fields in either order, since
C leaves that open and `dt` is not volatile, and adding them, each with its weight,
modulo 2^32. `shown` is the time in `dt` and is history. **`Drivers`**
composes the three: the boot thread initialises all, one device per behaviour is
`busy`.

**`Elf`** is `elf_load`, one step per program header: the checks, the mapping of the
pages, the copy and the clearing. It starts from the page table of `vmm_init`: the
frames at `KERN_BASE`, the identity-mapped low pages, which show the first of those
frames a second time, and page 0. A page that is new gets the lowest free frame, and
frame 0 once there is none (`vmm.c:75`); a page that is present is left as it is.
`mem` has the bytes by frame, so that stores through one page are seen through
another. The copy and the clearing stop at the first byte that is not mapped, and the
copy may stop, or bring in `Foreign` bytes, where its source is outside the file
(`elf.c:53` does not check `p_offset`). A mapping loop that ends in the last page of
all never ends (`hang`); a store over the kernel is `lost`; neither is followed
further. Addresses are modulo `Span`. The page tables of new pages come from the heap
and are not part of this module.

**`Initrd`** is the ramdisk from the tags of the boot loader on: the choice of the
module, one round of `tar_parse` per step, one node per step in `tarfs_init`, then
`read_fs`, `readdir_fs`, `finddir_fs` and `close_fs` of any node, device and directory
included, in any order, and `elf_load` of what was found. Sizes and addresses of the
walk are taken modulo `Span`, as 32 bits are. A read is known by its first byte, always
the first of the file (`tarfs.c:48`), and its length.

The **`MC`** modules give the constants that a configuration file cannot express.
Modules named **`...Proofs`** hold the theorems.

## Runs

| Run | Properties | What happens in it |
|---|---|---|
| `PageFrames` | `ExclusiveFrames`, `BitmapExact`, `AllocationFindsFreeBlock` | 7 pages, 5 blocks in words of 2: memory runs out, block 0 is handed out again, a partial word is left over |
| `Boot` | `DirectMap`, `TablesDisjoint`, `NullPageIsolated`, `BootCompletes` | all subsets of 10 module ends: aligned, unaligned, barely fitting, too large |
| `List` | `WellFormed`, `IsAbstractList` | 4 nodes, every operation, in range and out of it: a middle node has neighbours on both sides that are not ends |
| `Sched` | `RunsOnLiveMemory`, `NoTaskLost`, `UsageAddsUp`, `OwnContext`, `EveryTaskRuns`, `ZombiesAreReaped` | 3 tasks; creation, yield, exit, ticks; counters of one bit, so they wrap at once |
| `Kheap` | `PayloadsDisjoint`, `OnlyOneWordHit`, `MallocReturns` | small blocks, stacks, directories, large buffers, to the end of the heap; nesting up to 3 |
| `Registry` | `UniqueNames`, `LookupsAreRight`, `LocksAreReleased` | 2 tasks, 2 names, 2 directories of 2 nodes |
| `Interrupts` | `NothingInService`, `OwnAnswers`, `SleepsLongEnough`, `SleepEnds` | 2 tasks with calls (known, unknown, yielding), exceptions, FPU traps, timer and clock interrupts; one of them sleeps; every first value of a counter that wraps at 5 |
| `Console` | `CursorOnScreen`, `StoresInVideoMemory`, `ScreenShowsTail`, `MessagesComplete` | `kprintf` or `klog` called twice, a typed character or backspace at any store in between |
| `Drivers` | `BytesInOrder`, `StallsHaveReasons`, `AnswersAreShown`, `ModifiersAreHeld`, `BytesAreRead`, `ClockKeepsTime` | keys, bytes and updates of the clock from before `idt_init` on; the queue of 3 overflows, is emptied and goes round |
| `Initrd` | `WalkFindsEntries`, `AnswersAreRight`, `ImageIsComplete`, `KernelUntouched` | 159 archives, each cut short, ending at once or in zeros, in 3 orders of tags, some with sizes that do not fit an address; binaries of up to two of 15 segments, within the file and beyond it, for a memory with two frames left |

`SchedTryAgain` and `InitrdRegular` are expected to fail, see below.

What the less obvious properties say:

* `WellFormed`: a list is sound exactly until the first of the three misuses, so there
  is no fourth way to break a list, and none of the three is harmless.
  `IsAbstractList`: up to there it is a sequence.
* `NothingInService`: no line is blocked while a task runs with interrupts enabled.
  `OwnAnswers`: `eax` of a task changes only when its own call returns, to the
  answer of that call. `SleepsLongEnough`, `SleepEnds`: a sleep has its length also
  when `timer_ticks` wraps, and ends unless it would end in the last `NumTasks` ticks
  before the counter wraps, or beyond.
* `CursorOnScreen`: the cursor is on the screen whenever nobody is in `vga_putc`,
  although it leaves it on the way. `StoresInVideoMemory`: stores with a stale row or
  column still hit video memory. `MessagesComplete`: both drivers get every message
  whole. `ScreenShowsTail`: text printed without overlap looks as on an endless page,
  and the hardware cursor is right unless the last calls overlapped.
* `BytesInOrder`: readers get what was received, with two exceptions that `lost`
  records (see below), to one reader: `read_com` takes no lock, and two readers in
  `serial_getc` could both get a byte. `StallsHaveReasons`: reception stops for three reasons only.
  `ModifiersAreHeld`, `BytesAreRead`: no modifier sticks and the keyboard never falls
  silent, whatever was typed during start-up. `AnswersAreShown`: an answer of
  `get_seconds` is made of fields that `dt` had since the call began, and of one
  time unless the upper field changed meanwhile. Nothing says that answers grow: a
  month counts 2629800 seconds whatever its days, and the sum wraps around.
  `ClockKeepsTime`: the clock stands still for one reason only.
* `WalkFindsEntries`: the walk counts exactly the complete entries at the start of the
  archive, all below the bitmap, unless a size makes the address wrap around (`Fits`);
  `tarfs.c:30` has no test for that. `AnswersAreRight`: lookups answer the latest entry of
  type `REGTYPE` and that name; listings go backwards and repeat a file where an entry is
  none; reads have the right length, and the right bytes from offset 0. `ImageIsComplete`:
  a loaded program, read through its own pages, has each segment's bytes and cleared
  tail in place, if its segments lie in the file, do not wrap and there were frames; and
  which segments fault. `KernelUntouched`: loading a segment that does not wrap changes no
  byte of the frames from the kernel image on, through whatever page, even when memory is
  exhausted. Frame 0, which holds nothing of the kernel, is not spared.

Two runs show that the code does not do what a comment in it says. `SchedTryAgain`
(`DestroyThenTryAgain`): after `task_destroy(next)` the search of `schedule` "tries
again" with the node that has just been freed. `InitrdRegular`
(`RegularFilesAreFound`): `tarfs.h:17` calls the type `AREGTYPE` a "regular file", and
`tarfs_init` makes no node for it (`tarfs.c:119`), so it is never found.

Other things met while modelling, which the models contain as they are in the code
and the properties name as exceptions:

* `pmm.c:75` compares with a limit that no module can reach; a module that ends
  beyond 4 MiB faults later instead of reaching the panic.
* A tick between `list_create` and the first insertion (`task.c:76`) finds an empty
  list, and panics.
* `rootfs_readdir` releases a lock it does not hold (`rootfs.c:31`).
* `sleep` never ends if its end lies beyond the wrap of `timer_ticks`
  (`timer.c:18`).
* TS is never set again after the first FPU trap (`fpu.c:9`), and `fpu_state` is
  never allocated.
* The test for a full queue (`serial.c:64`) sees only one of the positions of a full
  queue; a byte that arrives while `serial_getc` takes the last one is lost
  (`serial.c:38`); the handler reads one byte per edge, so a FIFO that stays above the
  trigger level, or a byte received before `idt_init`, stops reception.
* `list_remove_by_index` passes the NULL it gets for an index out of range on to
  `list_remove_node`, which counts `size` down (`list.c:127`).
* The month of `get_seconds` has 30.4 days, so its answer falls from a 31st to the 1st
  that follows (`rtc.c:22`).
* An update of the clock between the reading of status C in `rtc_init` and the
  installation of the handler stops the clock (`rtc.c:59`).
* For an entry that is not a regular file `tarfs_init` inserts the previous node again
  (`tarfs.c:143`); `close_fs` frees a node that stays listed (`vfs.c:21`).
* `tarfs_read` copies from the start of the file whatever the offset (`tarfs.c:48`).
* `elf_load` relocates also a binary whose header it has refused (`elf.c:73`), the end of
  a segment is compared with `KERN_BASE` after it may have wrapped (`elf.c:47`), its place
  in the file is not compared with anything (`elf.c:53`), and when memory is exhausted
  its pages all get frame 0 (`vmm.c:75`).

### Bounds

* `Pmm`: `WordBits` 2 or 4 for 32 and `CounterMod` 64 for 2^32; the code uses
  only that a word divides evenly and that `MaxBlocks < CounterMod`.
* `Boot`: a page of 8 bytes, a table of 4 pages, 12 kernel and 8 heap pages. The
  numbers are chosen so that several tables are needed and the last boot module
  can leave just enough room, or just too little.
* `List`: 4 nodes give every position a node can have relative to its neighbours.
* `Scheduler`: three tasks are the least with a task that is neither the first nor
  the last; `TickMod` 2 makes the counters wrap all the time. A task is created
  once (its node is not reused), so reuse of a freed address is not explored.
* `Kheap`: a page of 16 words and a table of 11 pages keep the proportions that
  matter (a trailing size that falls beyond the block and the page; requests below,
  at and above a page). No request exceeds the span of one page table, 4 MiB.
  `MaxDepth` stands for the size of the kernel stack.
* `Registry`: `MaxNodes` bounds the calls of registration, not the list itself.
* `Interrupts`: two tasks are enough for one to act inside another's call. `TickMod` 5
  leaves room for sleeps of `MaxSleep` 2 that do and that do not cross the wrap. A
  tick comes only after the task has made a step since it was scheduled: the
  period of the timer is longer than the handler and an instruction.
* `Console`: 2 rows of 3 columns wrap and scroll within one message; two further rows
  of video memory (`SlackRows`) are what interrupted calls can reach below the
  screen; the text buffer of 32 KiB has far more. Integers have 5 bits, so that
  the most negative number, -16, has the same trouble as -2^31. The position register has base 4.
* `Drivers`: a queue of 3 has every position of front and rear, an overflow at each of
  them included; a FIFO of 3 with trigger level 2 can stay above the level. Two
  values of bytes tell order from loss. A time has two fields, the lower of 3 values, and
  runs to 8, so that the upper one changes twice. Its weight is less than what the carry
  takes away, as that of a month is at the end of a 31st, and the sum wraps. `MaxBytes` bounds the bytes the
  keyboard has yet to send when the next key is pressed. The keys are both control
  keys, one of them extended, a shift key and a lock.
* `Initrd`: blocks of 8 bytes and three octal digits give sizes below, at and above a
  multiple of a block, and above `Span`, 192 for 2^32; `NUM_TARFILES` 3 for 64 is exceeded
  by some archives. `MaxClosed` bounds the nodes that callers close.
* `Elf`: pages of 8 bytes, the kernel at page 5 and in frames 2 and 3, one identity-mapped
  page, two free frames for three pages below the kernel: segments lie within a page,
  across two, share pages, end at the kernel's first byte, go around the end of memory,
  exhaust the frames, and come from beyond the file.

### Fairness

`Boot` and `Kheap` assume that the processor goes on. `Scheduler` assumes that the
processor executes (`WF(Step)`) and that the timer ticks when interrupts stay
enabled (`WF(timer_irq_handler)`); nothing is assumed about tasks yielding or
exiting. `Registry` assumes that every task that can take a step eventually does,
which is `EveryTaskRuns`. Weak fairness is not enough for a particular task to get
the lock, and the test-and-set loop does not promise it; the liveness property is
only that a taken lock is released.

`Interrupts` assumes that handlers run to their end (weak fairness of `Handle`), that
the timer is raised, and, strongly fair, that it is delivered and that the running task
executes. The last two are enabled only between handlers, and a device that
interrupts without pause could otherwise take every such moment; the devices here do
not interrupt faster than the processor returns. `Drivers` assumes that the boot
thread goes on and that handlers run, not that anybody types, sends or reads.
`Console` and `Initrd` assume nothing: their properties are safety properties.

Deadlock checking is off in `Boot` and `Kheap`, which end (booted, faulted,
stopped), in `List`, where all nodes may be in use, in `Console` and `Drivers`, where
calls, bytes and time are bounded, and in `Initrd`, whose walk may run over its
array.

## Proofs

TLAPS checks these for every value of the constants that satisfies the named
assumptions.

* **`MemoryProofs`**, frames: `TypeCorrect`, `FramesAreExclusive`, `BitmapIsExact`,
  `AllocationsFindFreeBlocks`. Exclusive frames are not inductive alone: an
  allocation avoids the frames of other pages only because each has its bit set. The
  inductive invariant is the types, the exact bitmap and exclusiveness together. For
  the counter it bounds `used_blocks`, read as a signed number, from both sides: by
  the pages that may still be freed below, and above by the bits set among the
  scanned blocks and the blocks no search looks at. The assumption is that the
  pages and blocks together are fewer than the counter's values (2^32).
* **`MemoryProofs`**, bring-up: `KernelIsDirectMapped`, `NullPageIsIsolated`,
  `TablesAreDisjoint`. The invariant says
  that while page `i` of the high loop is next, exactly the blocks below
  `i - KernPage` are taken, so that the lowest free block is the offset of the page;
  that page 0 then gets the first block after the heap; and that the identity-mapped
  pages lie below it. For the tables it says that each lies above the directory and
  below the next aligned address `dumb_kmalloc` answers. Assumptions (`BootAssumption`):
  finitely many modules, memory for all pages `vmm_init`
  maps and one more, and the low mapping shorter than kernel and heap. On a
  machine with less than 12 MiB the second fails and heap pages share frame 0.
* **`MemoryProofs`**, loader: `KernelIsUntouched`, `ImagesAreComplete`, for every binary, page
  size, address space and number of frames. The invariant says that no page below the
  kernel shows a frame of the kernel, and that the free frames lie behind those and are
  shown by no page; what a segment that does not wrap stores goes through pages below
  the kernel.
  For complete images it adds that two pages below the kernel never show one frame, unless
  it is frame 0, so that a store through one page is not seen through another, and that
  the segments before the next header are in place, the last one that covers a byte
  deciding what it holds. Assumption (`ElfAssumption`): the order of the frames and pages
  that `vmm_init` leaves.
* **`KheapProofs`**: `PayloadsAreDisjoint`, `OneWordIsHit`, for every size of pages,
  tables, heap and requests. `malloc` computes the places of a payload and of its own
  bookkeeping from different offsets than it reserves; the blocks
  themselves follow each other, and a payload ends at most eight words behind its block.
  What keeps the payloads under the initial page tables is that a request that makes the
  heap grow stores its second size behind everything `ksbrk` has mapped and faults.
  The invariant therefore also follows the calls in progress: all but the
  outermost are for the one page table behind the initial heap.
* **`SchedulerProofs`**: `TasksRunOnLiveMemory`, `TasksRunInOwnContext`, for any number of
  tasks and any width of the counters. The first half is about `list.c`: for each
  operation it gives the new sequence of nodes as a witness, by lemmas on cutting and
  extending the old one. The second half is the invariant `TaskInv` of the scheduler. It
  says which frames a thread may have (its own code, or one call into the kernel with
  interrupts disabled, below which `sys_exit` may spin); that outside `list_insert_front`
  the nodes from `head` on are exactly the tasks that have not been freed, the first task
  last; and what `next`, the TSS and CR3 hold at each line of `schedule`. A task that is switched away
  stays at the line behind `context_switch`, which makes it safe for another
  task to free it once it is a zombie. `next` has not been
  freed when it is switched to, although `schedule` does not look. The assumption
  (`IdleAssumption`) is that the first task, which runs `stage2`, does not exit; if it
  did, the list could become empty, and `schedule` would go on with NULL.
* **`TraversalProofs`**: `ListIsWellFormed`, `ListImplementsSequence`, `TasksAreNeverLost`:
  what a `foreach` loop finds. A loop that leaves the chain of nodes would have a first
  round in which it does, so the well-foundedness of the naturals is needed, and the
  bound on the loop in `Traversal` and `Reachable` needs finitely many nodes. That
  traversal is unique makes it a refinement mapping; each operation of `ListSpec`
  prepends, appends or removes one element of it, as `AbstractList` says, or is a misuse,
  after which no sequence of `size` nodes is linked as it should be.
  `TasksAreNeverLost` follows from `TaskInv`.
  `EveryTickIsCharged`, for finitely many tasks: the sum of what the tasks were charged is
  `prev_ticks` modulo the width of the counters, except between the two stores of
  `schedule` that charge the time and remember it, when it is ahead of `prev_ticks` by
  what was charged. A lemma says how a sum over the tasks changes with one of them.
* **`VgaProofs`**: `CursorStaysOnScreen`, for every screen and any number of threads
  that interrupt each other. While threads are in `vga_putc` the cursor may be
  anywhere; the invariant is that a column beyond the screen has a thread at the
  end of the row, and a row beyond it one that is about to scroll.
  `StoresStayInVideoMemory` is for the kernel's own two callers, one thread and the
  keyboard handler, stated as the hypothesis `OneThread`; with more threads that are
  switched inside `vga_putc` stale rows add up, and no number of rows is enough. The
  thread reads the cursor only when it is on the screen; the handler reads at most the
  row below it or a column up to a tab stop to its right, never both. The other
  hypotheses are two rows, one more row of memory, and a tab stop no wider
  than a row.
  `ScreenIsTail`, again for `OneThread`: `PageInv` compares the screen with the endless page
  at every line of `vga_putc`. Before the store the screen is that of the page without the
  character, behind it that of the page with it, and while rows are copied up the rows
  above the copy are those of the new screen. `CrtInv` follows the four port writes of
  `move_cur`. What the endless page holds after another character is one step of its
  recursion.
* **`DriversProofs`**: `QueueKeepsOrder`, `StallsAreExplained`, `AnswersAreOfTimesShown`,
  `ModifiersNeverStick`, in the composed system with its boot order and interrupts.
  For the queue: until a byte is lost, the slots from front to rear, around the end of the
  array, hold the bytes received and not yet read, at every point of `serial_getc`. For the
  line: an edge is pending or is still to come unless a reason was
  recorded. For the clock: `dt` has the fields of the time in `shown`, which only grows,
  and a field that has been read is that of a time shown since; if the upper field is the
  same at both reads, the other one belongs to a time with that upper field too. For the keyboard: every modifier bit that is set,
  or that a byte on its way will set, has a key down or a release behind that byte; and
  the byte behind an E0 is none of those that mean something else there. Assumptions: a queue and a
  trigger level that are not empty, at least one value of a field, any weights, and keys with make codes
  1 to 95 (`KeysAssumption`). The codes E0 2A and E0 36, which some keyboards send
  around other keys, are left out.
* **`TasksProofs`**, interrupts: `LinesAreFree`, `AnswersAreOwn`, `SleepsAreLongEnough`,
  for any number of tasks and any width of the tick counter. The invariant says that a
  task has at most one frame; that the frame of a call holds its number until the
  dispatcher has run and its answer afterwards, and any other frame the task's own
  `eax`; that a task that is not running stands at the end of its frame or in
  `sys_yield`; that the lines in service are those of a frame that `irq_handler` has yet
  to see; and that a sleeper that has seen too few ticks is still before its end. No
  fairness is used.
* **`TasksProofs`**, directories: `LocksExclude`, `NamesAreUnique`,
  `LookupsAnswerRightly`, for guarded directories. The invariant adds what a task knows
  about the directory it has locked: the nodes `foreach` has passed do not have its
  name; the rest of its walk is a suffix of the list; a name about to be inserted is not
  there and the list behind its node is current. Only `publish_front` changes a list,
  and `LockExcludes` says nobody else is relying on it at that moment.
* **`InitrdProofs`**: `EntriesAreFound`, `RamdiskAnswers`, for every archive, boot
  module and list of tags, as long as sizes and addresses fit (`Fits`). `Places`, where tar puts the entries, is a recursive
  function; that it exists and grows along the archive is shown first. `TarInv` is
  what holds of the headers in any case, wrapped around or not, and all that reads need.
  `Walk` says, if everything fits, that the walk has counted leading entries, each at its place, up to one that ends in
  the module; that its address is the place of the next one; and that once it has
  stopped, the next one, if any, would end behind the module. `NodesInv` says that the
  list is the archive backwards and that an entry that is no regular file stands for the
  last regular file before it, or for `NULL`; the first node of a name is therefore the
  last file of that name. Assumptions (`InitrdAssumption`): names are not empty, sizes
  are octal digits, and the boot loader passes at least one module.

The provers have no rule for induction over data. Where a theorem rests on a recursive
function, the proof takes the smallest argument at which the claim fails, which exists
because the naturals are well founded, and shows that the claim fails earlier still.

Only model-checked: all liveness, which like `ENABLED` is beyond TLAPS; and messages
(`MessagesComplete`), which would need the digits of a number to be right for every
width of an integer, a fact about powers that no installed prover knows.

## Not modelled

* `free`, `realloc` and the reuse of blocks in the heap: `free` subtracts 144 bytes from an
  address that `malloc` made by adding 48, so its effect depends on the contents of
  other allocations. Nothing in the running kernel frees.
* Tasks that create others with interrupts enabled. No task of the kernel does; if two did,
  or one was preempted while another is reaped, nodes of `task_list` could get lost.
* A list after a misuse, and the stores of `malloc` through NULL when the heap has
  reached its limit of 256 MiB, which no caller comes near: the models end there.
* Code nothing calls: `list_merge` and `list_destroy` (called only by the tree), the tree, PCI, ACPI, `ksbrk` with a
  negative size, `clone_fs`, `copy_page_table`, the jump to user mode. Tasks are
  therefore modelled in kernel mode, where the gates' privilege level does not matter.
* Encodings and direct input and output: descriptor tables, CPU identification, the
  programming of the PIT and the controllers, `write_com`, and the null, port and
  random devices; `write_fs` and `ioctl_fs`, which no node of the ramdisk implements.
* The contents of the FPU's registers.
* The remaining string functions, which have no state, and the tool chain and user
  programs, which are not part of the kernel.
