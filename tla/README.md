# SwallowOS in TLA+

SwallowOS is a small 64-bit kernel: a preemptive scheduler for one CPU, a
kernel heap, page frames and user address spaces, an ELF loader over a FAT12
floppy, a keyboard, a text terminal and a handful of system calls. This
directory holds a formal model of it, from the boot loader's memory map to the
system calls of the shell, the TLC configurations that check the model on
small instances, and proofs checked by TLAPS.

Paths below are relative to `src/kernel/arch/x86_64/` unless they start with
`src/`.

## 1. Inventory

| component | state | operations | what makes it correct |
|---|---|---|---|
| scheduler (`sched/task.c`, `switch.s`) | `current_task_TCB`, the state and one list node per thread, four list pointers, slice, `irq_disable_counter`, postpone counter and flag | `lock_scheduler`, `lock_stuff`, `schedule`, `block_task`, `unblock_task`, `nano_sleep_until`, `terminate_task`, the clean task, `create_task` | locks balance across switches; no thread is lost, linked twice or run while blocked; the queue is first in, first out and starves nobody |
| timer (`driver/timer.c`, hook in `task.c`) | `timer_count`, sleep expiries | one interrupt per tick: wake the sleepers that are due, charge the slice | every due sleeper is woken in the tick; the walk over a list it modifies ends |
| semaphore (`sched/semaphore.c`) | count, waiting ring | `acquire_semaphore`, `release_semaphore` | at most `max_count` holders; a waiter gets its permit |
| keyboard (`driver/keyboard.c`), PIC masks | ring of characters, two indices, mask bits | IRQ1 handler, `sys_getchar` | the ring is first in, first out; the masks stay what the lock counters say |
| page frames (`mm/pagemanager.c` 15-159, `mm/ram.c`) | memory map, layout, bitmap | `kalloc_frame_init`, `alloc_pages`, `free_pages` | frames and bitmap lie in memory, apart, where the first page tables lead; a bit is set exactly for a frame in use; runs do not overlap |
| address spaces (`mm/pagemanager.c` 161-371, `mm/mm.c`, `pgtable.c`) | page tables, `mm_struct`, list of mapped areas | `do_mmap`, `do_ummap_user`, page fault, `mm_clean`, duplication | every user frame belongs to one address space; a page holds the bytes of its segment |
| heap (`mm/malloc.c`) | page tags, each with a ring of chunks, a ring per size class and `mem_free` | `kmalloc`, `kfree`, `kmcheck` | blocks are disjoint and as large as asked for, neighbours coalesce, rings are exact, pages go with their last block |
| interrupts (`boot/boot.s`, `cpu/`, `driver/pic.c`) | GDT, TSS, IDT, MSRs, controllers, the words on each kernel stack | the stubs of interrupts and exceptions, `iretq`, end of interrupt | every word is popped by the code and thread it was pushed for; registers are kept; no line stays in service |
| system calls and user mode (`syscall/`, `cpu/cpu.s`) | interrupt flag, `tss_rsp0`, `tcb->rsp0` | entry, return, `get_to_ring3`, fork, exit, getchar, putchar | interrupts are on again in user mode; each thread enters the kernel on its own stack |
| ELF loader and exec (`fs/elfloader.c`, `exec.c`) | the mm being built, the scheduler lock | `kernel_exec`, `load_elf` | the lock is given back once on every path |
| FAT12 (`fs/fat.c`) | the mounted geometry, sector buffers | mount, search by name, read a file | the cluster chain is followed to its end; the file is the one of that name |
| floppy (`driver/floppy.c`) | IRQ6 flag, motor, DMA buffer | reset, seek, read, write, calibrate | a result belongs to the command that waits for it |
| terminal (`boot/tty.c`, `vga.h`), `printk` | row, column, cells, cursor, serial port | put, scroll, format | the screen shows what was written; a format prints what it means |
| libc (`src/libc`), programs (`src/app`) | - | string functions, `printf`, system call functions, shell | they agree with the kernel on numbers and bytes |
| i386 port | - | - | not built for the default host, not modelled |

**How they interact.** Everything that blocks goes through `block_task` and
`schedule`. A *lock* is not a mutex between threads but a masked timer:
`lock_scheduler` masks IRQ0 and counts, so that the running thread cannot be
preempted; `lock_stuff` also counts postponed switches, so that a thread can
block itself, go on with what it was doing, and lose the CPU only in
`unlock_stuff`. A lock taken before a switch is given back by whichever thread
is switched to. The timer handler runs on the stack of the thread it
interrupts and may switch away in the middle of itself. IRQ1 is not covered by
the locks, and its handler unmasks IRQ0. The heap, the page frames and the
loader run under `lock_scheduler`; the loader waits for IRQ6 by polling.
System calls run with the interrupt flag off.

**What is hard.** The interleavings of the timer with every statement of the
services; locks that cross context switches; one list node for all lists; a
walk over a list that is changed by the walk; a clean task that frees stacks
that were in use a moment before; a flag, a stack pointer and a mask that mean
something else for the thread that runs next; a controller that answers late;
pointer arithmetic and boundaries in the allocators. `PROJECT.json` lists each
under `hazards` at its line.

## 2. Modules

| module | models | checked with |
|---|---|---|
| `Scheduler` | `sched/task.c`, `switch.s`, the timer's tick, `list.h` | `MCScheduler`, `SchedulerProofs` |
| `RoundRobin` | the promise of the scheduler: a FIFO queue for one CPU | as a property of `Scheduler` |
| `Semaphore` | `sched/semaphore.c`; extends `Scheduler` | `MCSemaphore`, `SemaphoreProofs` |
| `Keyboard` | `driver/keyboard.c` and the masks; extends `Scheduler` | `MCUserMode`, `UserModeProofs` |
| `Terminal` | `boot/tty.c`, `boot/vga.h` | `MCUserMode`, `UserModeProofs` |
| `UserMode` | ring 3, flag and TSS over scheduler, keyboard and terminal | `MCUserMode`, `UserModeProofs` |
| `BootPages`, `PageFrames` | first page tables; memory map, layout, allocator of frames | `MCPageFrames`, `PageFramesProofs` |
| `AddressSpace` | `mm/mm.c`, `do_mmap`, `do_ummap_user` | `MCExec`, `ExecProofs` |
| `Heap` | `mm/malloc.c` | `MCHeap`, `HeapProofs` |
| `Allocator` | the promise of the heap: disjoint blocks in owned memory | as a property of `Heap` |
| `Floppy` | `driver/floppy.c`: reads | `MCExec`, `ExecProofs` |
| `FloppyWrite` | `driver/floppy.c`: writes and calibration; extends `Floppy` | `ExecProofs` |
| `Strings`, `Fat12` | string functions; `fs/fat.c` over `Floppy` | `MCExec`, `ExecProofs` |
| `Exec` | `fs/exec.c`, `fs/elfloader.c` over `Fat12` and `AddressSpace` | `MCExec`, `ExecProofs` |
| `Devices` | `cpu/io.c`, `driver/pic.c`, `driver/timer.c`, `cpu/nmi.c`, the serial port | `MCInterrupts`, `InterruptsProofs` |
| `Printf` | `src/libc/stdio/printf.c` | `MCInterrupts`, `InterruptsProofs` |
| `Interrupts` | `boot/boot.s`, `cpu/`, `syscall/do_syscall.s`, `sched/switch.s` at the level of stacks and registers; extends `Printf`, `Devices` | `MCInterrupts`, `InterruptsProofs` |

`NumberProofs` holds lemmas about sets of numbers that the proofs of frames,
address spaces and heap share: least and greatest members, and counting.

### Scheduler

*State.* `current_task_TCB`, `time_slice_remaining`, `irq_disable_counter`,
`postpone_task_switches_counter` and `task_switches_postponed_flag` are the
variables of `task.c`; `state[t]` is the field of the TCB, with `"NONE"` for a
TCB that is not allocated. `lists[n]` is the sequence of threads met from the
list pointer along `next`; the `"waiting"` list is the ring of the semaphore.
`masked` is the mask bit of IRQ0. `left[t]` is `sleep_expiry - timer_count`
with floor 0, which keeps the clock out of the state. Each thread has a `pc`
(the statement of a service it will execute next), the service `call[t]` and
its argument `target[t]`, and `isr[t]`, its position in the timer handler if
one was started on its stack. A switch only changes `current_task_TCB`; the
thread that is switched away from keeps its `pc` and `isr`, and goes on from
there when it is switched to. That is exactly what `switch.s` saves.

*Actions.* An action is a piece of code between two points at which the timer
may come or which another piece relies on: `StartUp` (`task_start_up`),
`BlockLock`/`BlockState`/`BlockLink`/`BlockSchedule`/`BlockUnlock`
(`block_task`), `UnblockLock`/`UnblockMove`/`UnblockUnlock`
(`unblock_task`), `SleepPast`/`SleepSet` (`nano_sleep_until`),
`ExitWakeClean` (`terminate_task`), `Reclaim`/`ReclaimDone` (the loop of
`kernel_clean_work`), `UnlockPostpone`/`UnlockIrq` (`unlock_stuff`), `Fork`
(`create_task` in a system call), `SectionEnter`/`SectionLeave` (any section
under `lock_scheduler`, such as `kmalloc`). `TimerIRQ`, `WalkWake`,
`WalkNext`, `HookTail`, `HookReturn` are the timer handler. What a thread's
own code calls is the constant `Calls`; `work()` of
`src/kernel/kernel/kernel.c` is the model for it, and pauses only while it
counts fewer than three paused tasks (`list_size`).

*Undefined behaviour.* `kernel_clean_work` has no loop and no caller: when the
clean task is woken a second time it returns off its stack. The model puts
such a thread at the label `"wild"` and stops there. With a single
`terminate_task`, as in `work()`, and nobody who unblocks the clean task from
the paused list, this does not happen (`sem_live` checks deadlock).

### RoundRobin

`running` and a `queue`; `Arrive`, `Preempt`, `GiveWay`, `GoIdle`. It is
instantiated in `Scheduler` with `current_task_TCB` and the ready list:
`RoundRobinSteps` says that every step of the kernel is one of these or leaves
both alone, and `RoundRobinSpec` adds the initial state and the fairness.

### Semaphore

Adds `current_count` and the history variable `holding`. `ReleaseToWaiter`
moves the waiting pointer without unlinking the first waiter's node, as the
code does. The history variable `stray` remembers a release by a thread that
held no permit; `work()` makes such releases.

### Keyboard

Adds the ring, its indices, the mask bit of IRQ1 and the history `accepted`.
`ClearMasks` is what the handler and the empty path of `sys_getchar` do to
both masks, regardless of `irq_disable_counter`.

### Terminal

`screen` maps a row and a column to a cell, a character with its attribute
byte, as `vga_entry` packs them; a scrolled-in line has blanks in the
terminal's colours, the line that `terminal_delete_last_line` clears holds
zero words. `cursor` is the pair of registers that `update_cursor` writes.
`text` is the history of the last lines written. The hardware cursor is taken
to start at the top left corner.

### UserMode

*State.* `interrupts` is the CPU's flag and `saved[t]` the one that
`switch_to_task` pushed for `t`; `tss_rsp0` names the thread whose stack the
TSS points to; `left_for_idle[t]` tells in which branch of `schedule` a thread
was switched away from, since only the other one sets `tss_rsp0` when it is
resumed. `mode[t]` is what code a thread runs between services. `printing` and
the history `raced` follow `terminal_putchar`, which threads in ring 0 may be
preempted in.

*Actions.* Each step of the scheduler with its effect on flag and TSS
(`UKernelStep`, `UTimerIRQ`, `UHandlerStep`, ...), `GetToRing3`, the system
calls `SysGetChar`, `SysPutChar`, `SysFork`, `SysExit`, and `PrintBegin` and
`PrintEnd` of the threads that run `kernel_idle_work`. The programs are the
sets of calls they make (`shell`, `hello`, `_start`'s `exit`).

*What it shows and what not.* A key press unmasks IRQ0 in the middle of locked
sections, so that the timer switches threads there: the lock counter is then
what *all* threads have taken (`LocksConserved`), and `switch.s`'s "Caller is
expected to disable IRQs before calling" is not kept. The statements of a
section stay one step each as in `Scheduler`. `OwnKernelStack` is about
loaders that sleep before they go to ring 3 while another thread is ready, as
`test_elf` does while `init_fs` loops. With a loader that goes there at once
(`user_work_wrapper`, which has no caller), or one that is dispatched after an
empty ready list, a thread reaches ring 3 with another's stack in the TSS.
`get_to_ring3` writes `tcb->rsp0` only, although its comment (`cpu/cpu.s` 24)
names `tss_rsp0`.

### BootPages and PageFrames

`BootPages` says what the tables of `boot.s` map: an address is the indices
that `pgtable.h` takes it apart into, and `Reached(x)` holds when the kernel's
name for the byte `x` of memory leads there. `PageFrames` has the boot
loader's information as words at the offsets of `multiboot_info` and the map
as a sequence of ranges, which the code takes to be `sizeof` apart (24 bytes,
as the loader writes them); `Found`, `ram_end`, `Estimate`, `startframe` and
`npages` are the steps of `init_ram` and `kalloc_frame_init`, in the word
arithmetic of its `uint64_t` pointers. `PageFramesAssumption` excludes a map
without a range around the kernel and a range without room for a page, for
which `npages` wraps. `RemapFrames` are the frames that
`remap_lower_kernel_range` takes before anybody else; what it writes into
them is left out. Then `frame_map` over `0..npages-1` and what each caller was
given. `FreeIndex` is the code's pointer difference: words, not bytes, divided
by the page size.

### AddressSpace

A table or page is named by the indices that lead to it; `tree[p]` maps the
names that are present to frames, `mm[p]` is the `mm_struct` with its areas in
list order, `loaded[p]` the bytes a page was filled with. Frames are given
lowest first and come back as `free_pages` promises (what it really does to
the bitmap is the subject of `PageFrames`). `Copy` is `mm_dup_pgd`, table by
table in the order of its loops, `CopyFailed` what is left when a frame is
missing half-way, with the kernel's own tables zeroed and freed (`spoiled`);
after that the task is `"wild"` and the kernel is not followed. `Unmap` frees
what `do_ummap_user` and `mm_clean` free: the copy of the table behind
PML4[511] and the PML4, and nothing below the other entries, because the
kernel's entries it compares with are never NULL once `HIGHER_HALF_OFFSET` is
added to them. Huge pages are left out. Tables have 512 entries
in the code and `ENTRY_NUM` in the model.

### Heap

*State.* A tag of `mm_pages` has the number of its pages (0 while it owns
none), `chunks` (the offsets in the ring `all`, with the two sentinels),
`used`, one sequence per size class for the free rings, and `mem_free` modulo
`SizeMax`. `cur_page_tag_index` is the code's. `live` is the history of
blocks handed out. A ring is a sequence that starts at the class head; taking
an entry out of the middle of a ring moves the head to the entry behind it, as
`remove_free` does. `chunks` can be a set because a chunk is only ever inserted
behind the one it was cut from; its successor is the next higher offset.

*Actions.* `KMalloc(size, ok)` and `KFree(b)`, one step each, since both hold
the scheduler lock from the first statement to the last; `ok` says whether
`alloc_pages` would find frames. The operators follow the code:
`OnCurPage`/`Carve` (`kmalloc_on_cur_page`), `Try` (the search over the tags,
a fold in their order, with the current tag changing under the search),
`PageInit`, `MergeNext`, `MergePrevOrPush`, `AllUnused`, `GiveBack`.

*Undefined behaviour.* After `GiveBack` the class heads still point into the
pages; the tag keeps these classes in `dangling`, and taking or linking a
chunk there, or walking it in the `kmcheck` that `kmalloc` runs when it finds
nothing, sets `wild` to `"dangling"`. A block smaller than its request is
handed out with `wild = "overrun"`, because the `memset` of `kmalloc` writes
over the next chunk. The properties say what holds up to there.

*Seen on the way.* `mem_free` is debited when a chunk leaves a free ring and
not credited when `kfree` puts one there, so that it drifts away from the
unused bytes (and may wrap); the model has the same drift, so the refusals it
leads to are part of every run. `kmcheck` compares an entry of a free ring
with itself (line 310 repeats line 309) and reports -1 for any ring of two or
more; `FreeListsExact` is what it means to check, and says when it is content.
`km_freecheck` has no return statement and no caller.

### Allocator

Blocks as byte ranges in regions. `Alloc` adds a range that is disjoint from
the others, and may acquire its region; `Free` ends one range, and gives the
region back exactly with its last one. In `Heap` it is instantiated with the
live blocks and the pages of each tag.

### Floppy and FloppyWrite

*State.* `fdpc` is the statement of `floppy_read_chs`; `irq6_fired`, `motor`
and `tries` are the driver's. The controller has one `command` under way, or
result bytes (`"result"`) that must be fetched before it takes another:
`fdc_write` then spins. A sector is its number; cylinder, head and sector are
computed as `lba_to_chs` does. `DMA_BUF` names the sector whose bytes lie at
0x1000, `unseen` remembers that the skipped result bytes told of an error. The
DMA controller takes address and count byte by byte (`DmaArea`), and a command
only fits if these name the whole buffer.

*Faults.* Waits may time out while the drive is still at work, seeks may end
elsewhere, reads and writes may fail; `MaxFaults` bounds how often. The IRQ6
of the reset at boot may set the flag after `fdc_reset` is through.

`FloppyWrite` adds `floppy_write_lba` and `fdc_calibrate`, which no file of
the kernel calls. The write command puts the head in bit 5 of its second byte
where the read command has bit 2; the drive is taken to look where the read
command puts it. The module has no run of its own: its properties are proved
for every constant, and by hand TLC agrees over `Lba = {0, 20, 40, 3000}` and
`MaxFaults = 3` (416,746 states).

### Strings and Fat12

The disk is given by `BootSector`, `RootDir` (slot by slot), and `Fat` (12-bit
entries, packed into bytes by `FatByte`); names are sequences of bytes, and
`upper_padding`, the comparison of long names and `memcmp` work on these. A
job (`mount`, `size`, `file`) is a series of steps, one per sector that
arrives. Where the code uses bytes that are not what it takes them for - a
buffer of another sector after an error, an entry across two sectors, a short
entry behind the end of the sector buffer - the outcome is any, and `sound`
is FALSE. Left out: more than one sector per cluster, short entries that
follow a long name of another file (the parts of a long name are assumed to
follow each other), `kmalloc` failing in the long-name check.
`fat12_write_file` is a stub.

The contents of a disk are the user's, and `fat.c` reads them without a test.
`FatAssumption` says what the fields are; `DiskAssumption` that the disk is in
order: the directory fills its sectors, the parts of a long name are followed by
a short entry, every file has the clusters that its size takes, the entries of
the table come in pairs, and one sector makes a cluster, as `mkfs.fat`
chooses for a 1.44 MB floppy and as the loop of `fat12_read_file` takes for
granted. `NothingCut` is about the names: `upper_padding` cuts a longer name to
eight and three characters, so that `name.text` would be found under the short
name of another file, `NAME.TEX`; such a pair is not on the disk. Under these
assumptions `FileIsRead` says that the file read is the one of that name:
`Called` are the entries with that short or long name, `FileOf` is the first of
them, and `ClusterOf` its chain.

### Exec

`kernel_exec` under the scheduler lock: `ExecCall`, `Copy`, the two passes
over the file, `AddSegment` per `PT_LOAD` header, `AddStack`, `MapStack` page
by page, `ToRing3`; each has its failing twin, and all failures meet in
`Fail`. `heap[p]` counts the blocks a task got. The ELF headers are a constant
per file, and `IsExecutable` makes the loader's tests. `PageFault` maps a page
of the running program, `Exit` and `CleanTask` end it. `owner` is the task
that holds the scheduler lock. Undefined behaviour (a missing frame used as
one, a `kmalloc` that is not tested) ends at `"wild"`. `Hung` is the state in
which the driver spins on a controller whose last answer it did not take.

### Devices, Printf and Interrupts

`Devices` is a record of the controllers, the timer's divisor, the NMI
register and the serial port, and operators that say what `outb` does to
them. `Printf` is `vprintk_func` as a recursive function over the format:
`itoa_*`, the widths of `int` and `long` as constants, `%d` cutting a long to
an int. `ArgumentAssumption` says that the numbers a piece may print fit an
`int`, as `%d` needs to print them whole; `LongAssumption` that a `long` holds
the vectors, codes, selectors and addresses of a dump, as the model numbers them.

`Interrupts` models boot and the ways into the kernel and back word by word:
`stack[t]` holds what is on the kernel stack of `t`, tagged with what was
pushed by whom; `regs` holds for each register whose value it is; `cs`, `ss`,
`ring` and the flag are the CPU's. Descriptors are bit fields decoded from
the GDT's numbers, gates from the IDT's entries. Exceptions push an error code
or not as the hardware does, while `isr.s` pushes a zero for those it knows to
have none. A dump of `exception_handler` goes through `printk` and the serial
port and is read back in the property. `"wild"` is a jump to what is not code
of the kernel, and no run reaches it. Abstracted: masks (`Keyboard`), which
thread is next (`Scheduler`), frames of C functions on the stack, `cr2` and
`rsp` in the dump, arguments of system calls.

*Seen on the way.* `do_syscall` destroys `rbx` and `r12` of its caller;
`switch_to_task` saves no callee-saved register; `get_to_ring3` sets IF in an
undefined `r11`; entries 2 to 5 of the table of IRQ stubs are null although
`PIC_remap` unmasks every line; `panic`'s `hlt` returns with the next
interrupt where the flag is on.

## 3. Runs

| run | question | states |
|---|---|---|
| `sched_blocking` | three tasks that pause, unblock, sleep and work in locked sections, one that terminates and one that forks the reclaimed TCB; slice 2, sleeps up to 2 ticks: locks, lists, wake-ups, the freeing of stacks, steps of the round robin | 366,318 |
| `sem_live` | three tasks on a mutex, one terminates and one sleeps, under fairness: permits, liveness of ready threads, sleepers and the clean task, refinement of `RoundRobin` with its fairness; deadlock | 29,303 |
| `sem_stranded` | a waiter that was picked is in no list (violated) | - |
| `interrupts` | boot, two programs in ring 3 and a kernel task, with every interrupt, system call and exception where it may come: stacks, registers, end of interrupt, the dump of an exception; the formatter on formats of three pieces | 184,200 |
| `lost_registers` | registers that C code may destroy are saved (violated) | - |
| `user_mode` | the shell in ring 3 beside `init_fs` and the idle tasks: flag, `tss_rsp0`, masks, key ring, screen | 2,472,199 |
| `page_first_fit` | three owners, runs of up to four frames: layout of memory and first fit | 139,483 |
| `page_map` | the bitmap tells the frames in use (violated) | - |
| `heap_lists` | three page tags, five sizes, seven calls: rings, merging, pages, refinement of `Allocator` | 24,458 |
| `heap_memset` | a block is as large as was asked for (violated) | - |
| `heap_give_back` | only owned pages are used (violated) | - |
| `exec` | two tasks execute four names from a floppy with one fault and failing allocations: sectors, files, frames, pages, the scheduler lock, and that `kernel_exec` ends | 344,775 |

**Why the bounds are enough.**

- *Scheduler and semaphore.* Three tasks, with the idle and the clean task,
  give every shape the list code tells apart: an empty list, a single entry
  (the pointer becomes `NULL`) and several; a slice of 2 reaches both branches
  of the slice test; two different expiries, with ticks in between, make the
  walk meet due and not-due sleepers in every order. Sleeps, slices and tasks
  are the only counters, each bounded by its constant. A mutex with three
  users has a holder and a ring of two waiters.
- *User mode.* Two tasks at boot, as in `kernel_main`, and a third for
  `fork`. A slice and a sleep of one tick are the shortest that
  switch and wake; longer ones are the subject of `sched_blocking`. A ring of
  three slots holds two characters, so that it is empty, full and wraps, and
  two characters tell an order. A screen of two by two cells fills a line,
  wraps and scrolls; one glyph and the newline are enough because cells are
  compared with the history of lines. `SYMMETRY Keys` over the characters typed
  is sound: no action and no property names one of them.
- *Interrupts.* Two loaders tell the running stack from another's. Of the
  exceptions, 0 and 6 push no error code, 8, 13 and 17 do. 20
  words hold the deepest nesting, an interrupt within a system call after a
  switch, as `StaysOnTrack` proves of any number of threads. An `int` of 8
  and a `long` of 16 bits keep the difference that `%d` cuts off; the
  arguments include 0, the base, a carry and negative numbers.
- *Page frames.* The boot loader's map has low memory, a hole, a reserved
  range and the range of the kernel, with 440 kB behind it, of which the
  shrunk `npages` leaves thirteen frames, three of them for the remapping: room
  for three owners, fragmentation and the excluded last frame. The misplaced free lands on
  other owners' frames from index 1 on.
- *Heap.* Pages are 512 bytes instead of 4096, with the real header and
  chunk sizes, so that one to four chunks fit; the sizes are a small one, two
  that split a page's chunk in the same or in another class, one that needs
  two pages only because of the headers and one that needs two by itself;
  seven calls are enough to merge with neither, either and both neighbours, to
  give a tag back and take it again with another number of pages, and to search
  every tag. The first call is the one for the idle task's TCB, whose block
  stays for ever.
- *Exec.* The disk is a 1.44 MB floppy as `mkfs.fat -F 12` lays it out. Its
  files are one that is found by its long name and has two clusters far apart,
  one whose chain goes through entry 341, which straddles two sectors, one
  whose long name ends at the end of a directory sector, and a name that is
  not there. The second of these has two segments that share a page, the first a
  segment that ends within a page, the third is not executable. Tables of 4
  entries and pages of 2 bytes keep the four levels; 19 frames are enough for
  one address space and not for two. One fault is enough for each path of the
  driver; the proofs of `Floppy` are for any number.

**Where deadlock is not checked.** `sched_blocking`, `exec` and the heap runs
stop in `"wild"` states, where the C code leaves what the model follows (see
above), in `Hung` and at `MaxCalls`. In `interrupts` the machine stops for good
after a panic, as `panic` halts with the flag off in a fault of the kernel. In
`user_mode` nothing happens any more when both interrupts are masked while
`init_fs` is in its final loop. The other runs check deadlock.

**Fairness.** `FairSpec` and `FairSemSpec` assume, for each thread, strong
fairness of its kernel steps while it is the running one - a CPU executes
instructions, but other threads may run in between; weak fairness of the
handler's steps, which run with interrupts off; and strong fairness of
`TimerIRQ`, as the PIT ticks for ever and the PIC keeps a masked request
pending, so that a timer that is unmasked again and again is served. Nothing
is assumed of the tasks' own code (`ThreadCall`): a task may compute for ever.
`FairExecSpec` assumes weak fairness of `LockedStep`: while the scheduler is
locked no other thread runs, so the one that holds it goes on, or waits for
the drive, which ends what it was told to do or lets the wait time out.

**Violated properties.** (1) `NoWaiterStranded`: `release_semaphore` hands a
waiter to `unblock_task`, which searches only the sleeping and the paused
list. (2) `ClobberedAreSaved`: `cpu.h` 17 names the registers that a function
may destroy, and the stubs of the floppy interrupt (`irq.s` 16-18) and of the
page fault (`isr.s` 42-44) call C code without saving them. (3)
`MapMarksUse`: `free_pages` clears the wrong bits. (4) `MemsetStaysInChunk`: a
size class holds sizes up to twice its lower bound and `kmalloc` takes its
head unseen. (5) `NoUseAfterGiveBack`: `kfree` gives pages back that
`cur_page_tag_index` and the class heads still name.

**Mutants.** Definitions whose comment starts with "Mutant" are variants of
the definition that follows them with a plausible bug; `PROJECT.json` pairs
each property of each passing run with one that violates it.

## 4. Proofs

Each theorem holds for every value of the constants that satisfies the named
`ASSUME` of the modules it is about, and rests on nothing else.
`PROJECT.json` lists them.

- **`SchedulerProofs`**, under `SchedulerAssumption`, in two parts. *Locks:*
  `TypeCorrect`, `LocksBalanced` (`Spec => []LockBalance`),
  `SwitchesPostponed`. `TypeOK` is not inductive: `irq_disable_counter \in
  0..2` survives an unlock only if the thread that unlocks holds the lock. The
  invariant `LockInv` adds `LockBalance` itself; `CallOK`, which ties the
  service a thread is in to the label it is at, so that every path through a
  service gives back what it took; `HandlerOK`, that a timer handler never runs
  over a thread that holds a lock, and that a thread switched away from inside
  its handler has only to unlock; and `TerminatedOK`, that the threads on the
  terminated list are distinct tasks on their way out of `terminate_task`, so
  that the clean task's reset of a TCB disturbs nobody's lock depth.
  *Lists:* `NodeLinkedOnce`, `ListsMatchStates`, `ThreadsKept`, `SwitchKept`,
  `DueSleepersWoken`, `StackFreedSafely` and `RoundRobinImplemented`. Their
  invariant `PlaceInv` says that each thread is once in exactly the list its
  state names. Two things keep it from being inductive by itself: `block_task`
  writes the state, the list and the switch in three steps, so `BlockOK` says
  what holds in between and that only the running thread can be there; and the
  clean task starts on the paused list in state READY, so `ListsOK` says that
  it is never on both lists. `WalkOK` is about the timer's walk: from the anchor
  on, what was seen was not due. `RoundRobinImplemented` is the refinement of
  `RoundRobin` without its fairness: the initial state, and every step of the
  kernel is a step of the round robin or stutters.
- **`SemaphoreProofs`**, under `SemaphoreAssumption`: every step of the
  semaphore keeps the scheduler's two invariants (`SemThreadsKept`,
  `SemRoundRobin`), and `SemTypeCorrect`, `WaitersOnlyWhenFull`,
  `PermitsBounded`. `SemInv` adds `WaiterOK`, that a thread which is in
  `acquire_semaphore` and does not run is blocked there, and `PermitOK`, which
  counts the permit that is being taken or given back with those that are held.
- **`UserModeProofs`** has the proofs of `Keyboard`, `Terminal` and
  `UserMode`. *Ring:* `RingCorrect` and, since every step of the composition is
  a step of the ring or leaves it alone, `UserRingCorrect`: the key ring is a
  queue for every size of the buffer. `RingInv` adds the types to `RingIsFifo`,
  by which the characters between the two indices, counted modulo the size, are
  the last of the history. *Screen:* `ScreenCorrect`, whose invariant is `raced
  \/ TermInv`; `TermInv` is the type, `TextFits` (the history is no longer than
  the screen and the last line ends at the column) and `ScreenShowsText`.
  *Flag and locks:* `InterruptFlag`, `LocksCounted` and `TimerStops`.
  `LockInv` does not hold here: a key press unmasks IRQ0 in the middle of
  locked sections, and the counter then has no bound but the number of
  threads. `CpuInv` has `SwitchedOK` in the place of `LockBalance` and
  `HandlerOK`: wherever a thread was switched away from, it has a lock to give
  back and is not between `lock_stuff` and `unlock_stuff`. That is enough for
  the flag of every thread (`FlagOK`), and for the sum over all threads that
  `LocksConserved` states, since a switch takes from one thread what it gives to
  another. *Stack:* `OwnStack`, that a thread in ring 3 has its kernel stack in
  the TSS. Its hypotheses are that loaders sleep first and that one task of
  `Boot` calls neither `nano_sleep_until` nor `terminate_task`: `test_elf` does
  the one (`kernel.c` 269), and `init_fs` is the other, whose loop never ends.
  A thread sets `tss_rsp0` only if it resumes where `schedule` found a ready
  list with something in it, so the proof follows that task: it is on the ready
  list or runs (`AlwaysReady`), hence every switch is to the head of that list
  and nobody is left for the idle task. Going on from one switch to the next
  needs what the lists hold here, where `ListMatchesState` need not be known
  (`LinksOK`: no thread twice, none that runs, but for one that blocks and has
  not switched yet, and that one is not the head of the ready list although the
  timer may have woken it), and that `block_task`'s switch is noted until it is
  made (`OwedOK`). `StackOK` then says of every thread past its sleep that the
  TSS has its stack, or that it is still on the way to the switch it owes.
- **`PageFramesProofs`**, under `PageFramesAssumption`: `TypeCorrect`;
  `LayoutCorrect`, which is arithmetic: the range found has a greatest end,
  the estimate of the bitmap is large enough for the frames behind it, the
  division of words by the page size rounds down, and whatever lies in the
  first gigabyte is reached by the tables of `boot.s`; `FirstFit`, from the
  lemma that the least candidate of the search is a run of clear bits and
  every lower run is none.
- **`HeapProofs`**, under `HeapAssumption`: `NeighboursMerged`, `RingsExact`,
  `ChunksLargeEnough` and `AllocatorImplemented`, the refinement of
  `Allocator`. `HeapInv` says of every tag that its chunks are apart by at
  least a chunk's size and aligned, that a used chunk lies between any two
  unused ones, and that each unused chunk is once in the ring of its class; of
  a tag without pages that only dangling heads are left; and that used chunks
  and live blocks are one to one. None of the three about unused chunks is
  inductive alone: a split or a merge changes the size of a chunk, which would
  then hang in the wrong ring, were it an unused neighbour; and that the wrong
  heads of a tag that was given back never reach a tag that owns pages is what
  keeps `push_free` of `kfree` inside the heap. `MergeNextIs`,
  `MergePrevOrPushIs`, `CarveIs` and `PageInitIs` take a tag through the four
  pieces of the code, `SearchIs` and `AllocatedIs` through the search over the
  tags. The invariant says nothing of `wild`; the two violated properties of
  the heap are about what the code writes outside the chunks. TLC agrees with
  `HeapInv` on the states of `heap_lists`.
- **`ExecProofs`** has the proofs of what lies on the way from the drive to a
  program, under `ExecAssumption` and those below it. *Floppy,* under
  `FloppyAssumption`: of reads alone `FloppyTypeCorrect` and `ReadCorrect`,
  with writes and calibrations `WriteCorrect`, `FirstSideOnly` and
  `ReadAmongWrites`. `FloppyInv` adds to the types that tries remain while the
  driver seeks (`TriesLeft`), that a read or its result is with the controller
  only while the driver waits for it or after a wait that timed out, when the
  next seek finds the controller busy (`CommandOfRead`), that the command names
  the sector that is wanted (`CommandNames`), and that the result is the
  driver's own (`ResultIsOwn`): a flag left over from an earlier command can at
  worst end a wait early. `WriteInv` extends it by `OneCall` (a single call is
  in the driver), `CommandOfCall` (whose command the controller has) and
  `WriteIsGiven` (what the buffer and the controller hold during a write).
  *Loader and address spaces:* `LockGivenBack`, whose `LockInv` is the type of
  `epc` and `owner` and `LockedWhileWorking`, and `FramesPrivate`. Its
  invariant `FramesInv` adds to `PrivateFrames` that a task between the copy of
  the kernel's tables and their end has a PML4 (`Rooted`), without which the
  next table would be hung in nothing. The lemmas count frames: the i-th free
  frame from below exists, differs from the j-th, and is no longer free once it
  is given.
  *Image:* `SegmentsMapped`. A page is looked at when it is filled, but the
  areas are added one by one, under a stack that was mapped first, and the file
  may be read only in part when the process fails. `ImageInv` says of every
  process (`ImageOK`) that it has pages only from the stack's mapping on,
  that in ring 3 the whole file is known, and that a page which is filled holds
  what a segment that is alone on it gives (`PageHolds`). A page of the stack
  has the stack's area on it, whose number `ImageOK` keeps while the page is
  filled, so that no segment is alone there. That the header stays that of the
  file while the segments are added is `LockInv`: nobody else calls the file
  system under the scheduler lock.
  *Files:* `FilesRead`, of `FileIsRead`, under `FatAssumption` and
  `DiskAssumption`. It says what a successful read gives in terms of the
  directory as a whole (`Called`, `FileOf`, `ClusterOf`), while the code looks
  at one slot of one sector at a time. Three things meet in it. *The name:*
  `upper_padding` and `memcmp` accept a short entry exactly when the name, as it
  is written with its blanks left out, is the one asked for
  (`ShortNameMatches`, `MatchIsShortName`), and `check_long_file_name` accepts
  the parts of a long name exactly when their characters are
  (`LongNameIsChars`). *The search:* the first slot where it stops leads to the
  first entry of that name (`FoundIsFirst`): each entry of the name has a slot
  that matches, itself or the last part of its long name (`CalledMatches`), and
  the slots between a last part and its short entry hold only parts. *The
  chain:* the two bytes of a table entry give its 12 bits back unless they lie
  in two sectors (`EntryRead`), and the loop of `fat12_read_file` ends neither
  before the size is read nor after it (`FollowKeeps`). `FileInv` says for each
  place where the file system waits which part of this is known, and
  `CallersInStep` that between `fat12_get_file_size` and `fat12_read_file` the
  size stays that of the name, for which `LockInv` is needed: another task would
  call the file system in between. TLC agrees with both on the states of `exec`.
- **`InterruptsProofs`**, under `InterruptsAssumption` and, for `DumpsTell`,
  `LongAssumption`: `StaysOnTrack`, `AcknowledgedInTime`, the action property
  `RegistersAreKept`, `DumpsTell`, of `DumpTellsException`, and, under
  `ArgumentAssumption`, `PiecesTold`, of `PiecesPrinted`. `OnTrack`
  is a statement about the next pop, and whether that finds the right word was
  decided when the stack was left, perhaps long before. `MachineInv` therefore
  follows every nesting of entries. `WaitOK` says what a thread that waits has
  on its stack: the flags alone before its first switch and asleep; a frame of
  its own code, its own fifteen registers and the flags of `switch_to_task`
  (`Preempted`) when the timer took the CPU from it. `RunOK` says at each label
  how deep the running thread's stack is, what is on it and whose the registers
  are: interrupts come only to own code, which is user code or has an empty
  kernel stack (`OwnOK`); on the way in and back the first word is the frame of
  that code (`EnteredOK`); in a system call the two words above `rsp0` are the
  call's (`CallOK`). `DevicesOK` says that a line is in service exactly from
  the interrupt to its handler's end of interrupt, and that the controllers
  take what is written to the data port for masks. `BootOK` says what
  `kernel_main` has done: the gates, offsets and MSRs are in place before the
  flag is first set. A kernel stack holds at most the seventeen words of a
  preempted thread and the two of a system call, so that 20 are enough
  (`DeepestUser`). The proof goes through `Devices` as well: writing to one
  device leaves the others as they were.
  *Dumps:* `DumpInv` says that the serial port has received nothing until the
  machine halts, and that its divisor and line are right once the driver takes
  it to be set up (`PortGood`); that the stub of an exception finds on its stack
  the frame and the error code that the CPU raised (`IsrOK`), the frame alone
  where the CPU pushes no code, and that of a page fault both (`FaultOK`).
  `MachineInv` says where the words are, `DumpInv` whose they are. The rest is
  about the code that prints: `itoa` gives the digits of a number, most
  significant first and none too many (`ItoaReads`, `UnsignedReads`); a
  directive prints its own argument and text goes to the next `%`
  (`DirectivePrints`, `CharPrints`, `PercentPrints`); each character leaves the
  port once, in order, also when the first one has to set the port up
  (`SerialOut`); and from the text the number behind each name is read back
  (`Stands`), so that no other number can be taken for it. The same lemmas give
  `PiecesTold`: a piece prints what it means wherever it stands in a format and
  whatever follows it (`PiecePrints`, `PieceTold`).

**Induction over data.** What the joining of the parts of a long name, the walk
along a chain, the digits of a number and the places of a format give is proved
without an induction theorem: the least number for which a function with that
recursion does not exist, or differs from what is claimed, is looked at
(`LeastExists`, `FlattenExists`, `FlattenIs`, `ChainExists`, `ClusterOfIs`).

**Only model-checked.** Liveness under fairness, which is out of the prover's
reach: `ReadyRuns`, `SleeperRuns`, `TerminatedReclaimed`, `ExecEnds`, and of
`RoundRobinSpec` the fairness; its safety part is `RoundRobinImplemented`. Every
invariant and every action property that a run checks is also a theorem.

## 5. Limits

**Not modelled.**

- *Scheduler*: `time_used` and `update_time_used`, `cr3` (the address space
  goes with the thread), and the unlocked walks over the ready list in
  `kernel_idle_work` and `print_list`; `list_size` is taken as one step.
- *Masks*: reading, changing and writing a mask register is one step, so
  that an IRQ1 between the `inb` and the `outb` of `lock_scheduler` is left
  out.
- *Memory*: huge pages and the rights in an entry, the contents of the
  remapped kernel tables, what the kernel does after its own tables were freed
  (`"wild"`), a memory map without the kernel's range, and the interplay of
  the wrong bits that `free_pages` clears with address spaces.
- *Loader*: `read_elf`, whose call is commented out; the code does not look at
  `p_filesz`, and neither does the model. `fat12_write_file` is a stub;
  `file.c` and `inode.h` are not called by the reader.
- *Functions without a caller*: `user_work_wrapper`,
  `print_valid_memory`, `terminal_setcolor`, `enable_cursor`,
  `disable_cursor`, `get_cursor_position`, `keyboard_init`, the functions that
  read the PIC's registers, `PIC_disable`, `memmove`, `abort`, `mm_init`,
  `km_freecheck`.
- *Boot*: the tests for long mode and the switch into it in `boot.s`.
- *The i386 port*: an earlier port without a scheduler, which the build's
  default host (x86_64) does not compile.
