# GravityOS: TLA+ models, model checking and proofs

GravityOS (`src/`) is a hobby x86-64 kernel for one CPU: a Limine-booted
monolithic kernel with a preemptive round-robin scheduler, a first-fit heap,
PS/2 input, an E1000 network card with a small IPv4 stack, a FAT32 file system
on an ATA PIO disk, a framebuffer console, a shell and ring 3 programs.  This
directory holds models of its logic, the TLC runs that check them and the
TLAPS proofs about them.

## 1. Inventory

| part | state | operations | interacts with |
|---|---|---|---|
| process table (`kernel/process.c`) | `processes[64]`, `current_process_index`, `next_pid` | `process_init`, `process_create`, `process_schedule`, `process_track_allocation`, `process_exit` | timer IRQ calls `process_schedule`; heap for stacks; PMM for the pages of a dead process |
| timer (`drivers/timer.c`) | `timer_ticks` | IRQ0 handler, `sleep_ms` | scheduler |
| system calls (`kernel/syscall.c`, `cpu/syscall_entry.asm`) | one shared kernel stack, `saved_user_rsp` | entry, dispatch, `sysret` | `process_exit`, console |
| heap (`kernel/heap.c`) | doubly linked block list, `heap_mapped_limit` | `kmalloc`, `kfree`, `heap_expand` | PMM, VMM; `kfree` is called from the timer interrupt |
| PMM, VMM (`kernel/pmm.c`, `kernel/vmm.c`) | page bitmap; one page table for everything | alloc/free a page; map/unmap/query | heap, user address space |
| user address space (`kernel/usermode.c`, `kernel/elf_loader.c`) | the user region of the one page table | reset, map a range, load, enter ring 3 | PMM, VMM, process table |
| PS/2 (`drivers/keyboard.c`, `drivers/mouse.c`) | ring buffer, modifier flags, mouse packet phase | IRQ1, IRQ12, `keyboard_getchar` | each handler forwards bytes to the other |
| E1000 (`drivers/e1000.c`) | RX and TX descriptor rings shared with the card | `e1000_send`, `e1000_receive` | network stack |
| network (`net/net.c`) | ARP cache, ping state | `net_poll`, `arp_resolve`, `net_ping` | E1000 |
| FAT32 (`drivers/fat32.c`) | FAT, directory, static sector buffers | read, write, delete, free space | ATA |
| ATA (`drivers/ata.c`) | `disk_present`; the drive's registers | `ata_init`, `ata_read_sectors`, `ata_write_sectors` | FAT32; the drive |
| console (`drivers/fbcon.c`) | the cells, printing position, the block's recorded place and flag | `fbcon_putchar`, `fbcon_clear`, `fbcon_cursor_blink` | everything that prints; the clock process blinks; the mouse interrupt draws over it |
| shell (`shell/shell.c`) | line buffer | commands | all of the above |

One CPU executes everything.  The hard behaviours are: the timer interrupt,
which may hit kernel code of a process between any two instructions (no lock
and no `cli` protects the process table or the heap); the single kernel stack
that all system calls share; one address space for all programs; failures in
the middle of a multi-step operation (out of pages, disk full); rings shared
with a device; a drive that is slow, fails or loses power; and one screen that a
process, the clock and an interrupt draw on.  PROJECT.json lists each hazard at its line.

What makes each part correct:

* process table: the CPU never resumes a slot whose registers are not written,
  never runs on a freed stack, loses no stack, and every READY process runs;
* heap: the block list is disjoint, ordered and coalesced, growth suffices, and
  a caller gets memory nobody else has;
* pages: the bitmap is exact, a program runs on its own pages only;
* PS/2: no byte stays unread, packets stay in step, a typed character is read;
* E1000: both rings are FIFO queues whatever the load;
* network: a packet goes to the right MAC, an answer carries its request's
  contents, a ping reports its own reply and ends;
* FAT32: no cluster has two owners, other files keep their contents at every
  sector write, nothing is lost, every operation ends;
* ATA: a sector holds what the last successful write put there, also after a
  loss of power; a successful read brings its own sectors; every call returns;
* console: the current line stands in front of the cursor, and every cell shows
  its character.

## 2. Plan and status

| # | module | abstract specification | status |
|---|---|---|---|
| 1 | `Scheduler` (invariant in `SchedulerInv`, proofs in `SchedulerProofs`) | `Dispatcher` | modelled, checked, proved |
| 2 | `Heap` (proofs in `HeapProofs`), `HeapRace` | `Allocator` | modelled, checked, proved |
| 3 | `UserMemory` (`UserMemoryProofs`) | - | modelled, checked, proved |
| 4 | `PS2` (`PS2Proofs`) | `BoundedQueue` | modelled, checked, proved |
| 5 | `E1000`, `E1000Rings` (proofs in `NetProofs`) | `BoundedQueue`, twice | modelled, checked, proved |
| 6 | `Fat32` (`Fat32Proofs`) | - | modelled, checked, proved |
| 7 | `Net` (`NetProofs`) | - | modelled, checked, proved |
| 8 | `Ata` (`AtaProofs`) | - | modelled, checked, proved |
| 9 | `Console` (`ConsoleProofs`): printing, scrolling, the blinking cursor, the mouse pointer | - | modelled, checked, proved |

"Proved" is the safety part, under the hypotheses section 7 names.

Composition: `SchedulerInv` and `HeapRace` extend the component they are about;
`BoundedQueue` is instantiated by `PS2` and `E1000Rings`, `Dispatcher` by
`Scheduler`, `Allocator` by `Heap`; `E1000` extends
`E1000Rings`, and `NetProofs` instantiates it as `Card`: the card's proofs stand
beside those of the stack that uses it.
`Scheduler` takes `kmalloc`/`kfree` as
atomic; `HeapRace` shows what that hides.  `Fat32` takes the write of a sector
as atomic, and lets a sector access fail; `Ata` shows when a call may be believed
and when not (a late error, a flush that had not begun, an old DRQ: sections 5 and
6), and these lie outside `Fat32`.  `Console` composes the console, the clock and the
mouse's drawing; `PS2` holds the rest of the mouse.
What is left without a proof, and why, is at the end of section 7.

## 3. Modules: state and actions

`PROJECT.json` maps every definition to its lines.  In all modules a definition
marked "Mutant" is not part of the specification: it is a plausible bug that
shows that a property can fail.

**`Scheduler`** - `state`, `pid`, `stack_base`, `alloc_count` and `context` are
the fields of `processes[]`; `cpu` is the register image of the CPU with the
program point, the stack it runs on, the interrupt flag and two locals.  The
stores of `process_create` are the actions `CreatePick` (the scan),
`CreateReserve` (SLEEPING, pid, counters), `CreateKmalloc` or
`CreateKmallocFails` (the undo), `CreateStack`, `CreateRegisters`,
`CreatePublish` (READY).  `Tick` is the timer interrupt: `process_schedule` as
a whole (it runs with interrupts off), with the save, the circular search, the
switch and the reaping of dead stacks.  The handler runs on the stack it
interrupted, `irq_stack` (ring 3 comes in on the shared one), and leaves it only
with `IrqReturn`, the `iretq` of `isr_stub.asm`; nothing else happens between the
two (`HandlerReturned`: an interrupt gate).  `TrackAllocation`, `EnterUser`, `SyscallEnter`, `SyscallReturn`,
`ExitCall`, `ExitFreeAllocations`, `ExitDie`, `ExitWait` are what a process
does.  System calls run on the one shared stack with interrupts masked.
The stores of `process_create` come in the order of the source.  Nothing in the
code (no `volatile`, no barrier) keeps an optimising build from moving the READY
store forward; the results hold for builds that do not (hazard at
`process.c:49`).

**`Heap`** - `blk` maps the address of each header to its fields.  `kmalloc` is
`KmallocFit`, `KmallocGrow` (`heap_expand`, then the second walk) or
`KmallocOutOfMemory` (pages run out in the middle of `heap_expand`); `kfree`
merges with the next and then with the previous block; `OtherPageUse` takes
pages away.  **`HeapRace`** cuts `kmalloc` where the timer's `kfree` can see the
difference.

**`UserMemory`** - the frame bitmap and counter of the PMM, the user part of the
page table, the frames of page tables and heap, and per process its list of
recorded pages and its place in loading: `Start`, `Reject` (bad header),
`Reset` (`usermode_reset_address_space`), then page by page `SkipMapped`,
`RefuseSegment`, `AllocTest`/`AllocSet` (the two halves of `pmm_alloc_page`
with the record), `OutOfMemory`, `AllocTable`, `MapPage`, at last `Enter` and
`SysExit`.  `TableOutOfMemory` is `vmm_map_page` without memory for a table: it
returns nothing, the caller writes to the unmapped page and the machine halts.

**`PS2`** - the controller (one byte of output, the command byte, answers on
their way), the PIC (latched and masked lines), both handlers with their loop
and their routing by status bit 5, the modifier flags, the ring, packet
assembly with the nine-bit movement, and process 0: `keyboard_init`,
`mouse_init` step by step, then `keyboard_getchar` (`TestInput`, `Hlt`,
`ReadSlot`, `AdvanceTail`) and `readline`.  The devices are external actors.

**`Fat32`** - both copies of the FAT, what every cluster holds, and the step and
locals of the operation under way; each action ends with one sector write.
`WriteExisting`, `WriteNew`, `WriteExtending` and `Delete` start an operation,
`Proceed` holds its steps.  `Faults` is what can go wrong between two of them:
`Crash` stops the machine; `ErrorReturns` and `ErrorFreesChain` are a sector that
cannot be read or written, with the returns that leave the chain in the FAT (-2,
-3, -4, -6, -8, and the first cluster's -5) and those that free it (-5, -7), also
between the two copies of `fat_set_entry`; `FreeCutShort` is `fat_next_cluster`,
which answers a read error with the end of the chain, in `fat_free_chain`.
Reading is the operator `Contents`.  `Slack` are the FAT entries beyond the end
of the disk.

**`E1000`** - `E1000Rings` holds both descriptor rings with the registers TDH, TDT,
RDH, RDT and the queues they stand for; `E1000` the operations.
`e1000_send` is `SendFill`, `SendTail` or `SendStuck` (the descriptor is still
in use), `e1000_receive` is `ReceiveCopy` and `ReceiveTail`; `CardSend`,
`CardReceive` and `CardDrop` are the card.

**`Net`** - ARP cache, receive ring, `rx_frame`, the ping variables, and
`calls`, the stack of `send_ipv4` calls that wait for a MAC: `net_poll` answers
an echo request by resolving its sender, which polls again.  `PingSends` and
`PingResolves` start a ping; `PingPolls`, `PingChecks`, `PingTimesOut` are its
loop; `Resolve*` the loop of `net_arp_resolve`; `PollEnds`, `handle_arp`,
`handle_echo`, `handle_echo_reply`, `PollIgnores` are `net_poll`.

**`Ata`** - the drive is an actor: `drive` is the command it works on, `shown`
what the status port shows (which may lag), `cache` and `medium` what it holds.
A client has its step, its call and the words moved so far: `Call`,
`IssueRegisters`, `IssueCommand` (`ata_issue`), `WaitDrq`, `TransferWord` (one
`inw` or `outw`), `NextSector`, then `ReadReturns`, or `DataSent`, `Flush`,
`WriteReturns`; `CallFails` is an error and `Timeout` a polling loop that gives
up.  The status may go on showing what it showed before, after a word of data and
after a command, until `StatusCatchesUp`; a call that waits first (`ata_io_wait`)
sees it caught up.  `IssueRegisters` keeps the low 28 bits of an address (`LBA28`).  The actions `Init...` are `ata_init`; `Crash` is a loss of power and the
next boot.  `allowed` is a history variable: the contents a sector may have,
given which writes returned 0 and which failed; `lags` is another: what a status
shown too long has led to so far (`STALE`: a command was sent over a transfer that
was given up, whose DRQ still shows; `UNFLUSHED`: a write returned while its flush
was still to be done; `LOST`: the power went in that state).  The code's callers ask for one
sector at a time; the model also asks for two, so that the loop is exercised.

**`Console`** - the variables of `fbcon.c`, the screen as one value per cell,
the mouse's saved pixels, and per writer its step.  `HideTest`, `HideClear` and
`HideDraw` are `cursor_hide`; `Body` decides on the character; `Store`,
`DrawStored`, `Pass`; `Back`; `NextRow`; `Scroll`, `Scrolled`, `RedrawCell`,
`Redrawn` are the rest of `fbcon_putchar`; `fbcon_clear` and `Cleared` the
clearing.  `BlinkOff` and `BlinkOn` are the clock, `draw_mouse_cursor` the mouse
interrupt.  History variables: `line`, the characters of the current line;
`overdrawn`, the cells drawn while the pointer was on them; and `misled`, that a
blink has moved the recorded place between the two halves of `cursor_hide` and the
whole screen has not been redrawn since.

## 4. Runs

All bounds are named constants of the modules.  Between them the passing runs
fire every action and every disjunct of the next-state relations.

| run | bounds | shows |
|---|---|---|
| `scheduler` | 4 slots, 2 stacks, 3 creations | the five safety properties below at every interleaving of the timer; refinement of `Dispatcher` with its fairness, no starvation, reaping, creation ends |
| `heap` | pages of 8 units, header 2, unit 2, 4 pages, requests 1, 4, 8 | list structure, growth, refinement of `Allocator` |
| `user_memory` | 8 frames, 2 levels of tables, 3 kinds of program, one at a time | own pages, exact bitmap, through loads that fail anywhere |
| `ps2` | 3 keys, 2 packets, ring of 3, loop of 2 bytes | no byte stuck, packets in step, ring is a queue, every key read |
| `fat32` | 4 clusters and a slack entry, 2 files of up to 2 clusters, 1 fault (a stop, or a sector that fails) | ownership, contents, consistency, termination |
| `e1000` | rings of 3, 6 frames each way | both rings are queues; sent unless full |
| `net` | 3 hosts, cache of 1, 2 ARP attempts, 2 pings, 3 arrivals | next hop, answers, own reply, termination |
| `ata` | 2 sectors of 2 words, 2 values, addresses of 2 bits, 3 calls of 1 or 2 sectors, 1 loss of power | contents of the drive and the medium, reads, termination |
| `console` | 2 rows, 2 columns, 2 characters and all controls, 5 calls, pointer on one cell or off | line in front of the cursor, text shown, nothing outside |
| `heap_race`, `fat32_full`, `ata_error` | as above or smaller | the findings of section 5 |

Why the bounds are enough.  The scheduler needs one slot being created, one
dying and one running beside the shell: four slots, and fewer stacks than
processes so that reuse and failure happen.  The heap reaches splits with and
without a rest, merges on both sides, growth that merges with a free tail and
growth behind a used one, and growth that fails half-way.  Frames are few enough
that every load can run out of memory at each page, and the programs share a
page between segments, contain a refused segment, or are the built-in one.  The
keyboard ring wraps and fills, the handler's loop reaches its limit, and both
handlers get bytes of the other device.  The FAT32 directory has one slot per
cluster, so it grows; the disk has fewer clusters than two large files need.
Both E1000 rings wrap twice and fill.  The ARP cache has one slot, so that
entries are evicted while a resolve waits; a request is answered inside the wait
of another.  A sector of two words can be torn, two sectors make the transfer
loop turn, and three calls let a late answer meet a retry and then a read.  Four
cells and five calls let a line wrap, scroll (a tab alone fills the screen) and
be erased back over the start of a row, with blinks and moves in between.

The properties are stated in the modules with a comment each.  The ones that
carry most: `RunsInitialised` (whoever can be picked has registers),
`RunsOnOwnStack` and `NoStackLost` (no stack freed in use, twice or never),
`SharedStackExclusive` (no live frame of a second process on the shared kernel
stack), `GrowthSuffices`, `RunsOnOwnPages`, `BitmapExact`, `ByteAnnounced`,
`EveryKeyRead` (the interrupt between test and `hlt`), `ContentsKept` at every
sector write, `EchoAnswersRequest` (a nested poll overwrites `rx_frame`),
`SectorsAsWritten` over timeouts, aborted commands and losses of power,
`TextShown` with three parties drawing, and the refinements of `Dispatcher`,
`Allocator` and `BoundedQueue`.  Most modules also state a `TypeOK`; the one of
`Scheduler` is part of `IInv`, the one of `Heap` is part of `HeapSafe`, and the
others hold in the runs' configurations when they are added to them.

### Deadlock

It is checked except in `user_memory` (a kernel exception or exhausted memory
stops the machine), `e1000`, `net`, `ata` and the violation runs (the bounds on
frames or calls end a behaviour).

### Fairness

* `Scheduler`: the PIT raises IRQ0 a hundred times a second and the PIC keeps it
  pending while interrupts are off: strong fairness of `Tick`.  A handler returns:
  weak fairness of `IrqReturn`.  Code with
  interrupts off keeps the CPU: weak fairness of `MaskedStep`.  A quantum is
  long against the few stores of `process_create`: strong fairness of
  `CreateProgress`.
* `PS2`: the CPU runs what can run, the timer ticks (which ends `hlt`), a device
  answers a command.
* `Fat32`: `Proceed`, the code has no other wait.  `E1000`: the card sends what
  it was given, a driver call ends.  `Net`: the shell's process gets the CPU and
  time passes.
* `Ata`: weak fairness of each client and of `ata_init`: the CPU comes back and a
  loop of 4,000,000 polls ends.  Nothing is assumed of the drive.

No key press, frame, call or crash is assumed to happen.

### Assumptions of the models

* `Heap`: `heap_expand` maps every page it gets.  `vmm_map_page` returns silently
  when there is no frame for a page table (`vmm.c:56`) while `heap_mapped_limit`
  moves on (`heap.c:51`); the first access to the new memory then faults and halts
  the machine.
* `UserMemory`: `MaxLive = 1` in the passing run, and `ShellWaits`: the shell
  allocates nothing while a program loads.  It sleeps 300 ms after `run`
  (`shell.c:161`), which makes this likely and does not guarantee it: the races on
  `pmm.c:87` are outside the run (section 6).  The reset and the loop of `process_exit` are one step each,
  as is the allocation of one table level.
* `PS2`: an interrupt that can be taken is taken before the next step of process
  0.  `KeysDuringInit = FALSE`.  Answers come within the count of `mouse_wait`.
  The firmware has enabled the keyboard interrupt.
* `Fat32`: a sector write is atomic and, if it returns 0, done; a cluster is one
  sector (`scripts/make_disk.py`).  A fault is a stop or a sector that cannot be
  read or written.  `Room` keeps out overwrites that do not fit (section 5).
  `FaultsAnywhere = FALSE` keeps faults out of an overwrite, where only the reads of
  `fat_free_chain` may fail, and out of the moment between the linking and the
  clearing of a new directory cluster (`fat32.c:334-338`), after which old data would
  be read as entries; section 6 has what happens in an overwrite.  Not modelled are read errors in the searches of the directory:
  `find_entry_location` answers one like "not found", so that a write adds a second
  entry with the name, and `find_free_dir_slot` takes an unreadable link for the end
  of the directory and lets `extend_directory` overwrite it.
* `Ata`: one client, which `shell.c:115` does not guarantee (section 6), and a drive
  that reports an error before it takes the data (`LateErrors = FALSE`, section 5).
  Addresses lie below `LBA28`; a larger one would reach another sector
  (`ata.c:134-139`).  A busy drive takes no notice of a command; a command ends a
  transfer that was given up.
* `Console`: one writer (section 6).  A blink is one step: the clock resumes at
  the start of its time slice and draws one cell.  The drawing of a cell is one
  step: the mouse interrupt in the middle of it spoils only a cell under the
  pointer, which `TextShown` excepts.  The pointer lies in one cell.
* `E1000`, `Net`: frames are numbered or tagged; a MAC is its host.  Frames may
  come late, twice or never.  Time is counted up to the limit the code compares
  it with.

## 5. Findings

1. **`heap_race`** - `README.md:149-150` of the repository says the heap without
   a lock is no problem on one core.  The timer's `kfree` between `kmalloc`'s
   choice of a block (`heap.c:120`) and its marking (`heap.c:122`) merges the
   chosen block away; `kmalloc` hands out a block the list does not know as used.
2. **`fat32_full`** - overwriting a file frees its clusters first
   (`fat32.c:386`); if the disk is full the entry keeps pointing at them, and the
   next file gets them.
3. **`ata_error`** - `ata.h:27` promises -1 on an error.  After the data and
   after FLUSH CACHE `ata_write_sectors` waits for BSY only (`ata.c:191`, `193`):
   a sector that the drive could not store is reported as written.

## 6. Other results of the model checker

These definitions are in the modules and hold for the passing runs' constants or
are not promised by the code; with the constants given TLC refutes them.

| definition | constants | what happens |
|---|---|---|
| `Scheduler!HandlerStackLive` | `MCScheduler.cfg`'s | a kernel thread that called `process_exit` takes the next tick on its own stack (the gates use no IST); `process_schedule` frees that stack (`process.c:125`) while the handler and the frame `iretq` needs are on it, against the comment at `process.c:118-120`.  `RunsOnOwnStack` shows what saves it: until the return nobody else gets the block.  `kfree` itself writes to the block's header only, which lies outside the stack |
| `UserMemory!NoLeftoverMapping` | `Images <- OutsideImages` | a program linked outside the user region meets its predecessor's mapping, whose frame was given back (`usermode.c:43`) |
| `UserMemory!AllReturned` | `Images <- LargeImages`, `MAX_ALLOCATIONS_PER_PROC = 2` | pages beyond the record limit stay marked for ever (`process.c:151`) |
| `UserMemory!HeapFramesMarked` | `ShellWaits = FALSE` | the heap and a loading program get one frame, and the program's exit frees it under the heap (`pmm.c:87`) |
| `UserMemory!ResetFindsNoLivePage` | `Images <- SmallImage`, `MaxLive = 2`, `NFrames = 6`, `LEVELS = 1` | `usermode.c:28-29` says the reset meets only dead entries; a second `run` while a program is alive unmaps the live one's pages |
| `PS2!MouseInSync`, `PS2!CommandByteKept` | `KeysDuringInit = TRUE` | a key pressed during `mouse_init` is taken for an answer of the controller (`mouse.c:181-182`) |
| `Fat32!DirectoryReadable` | `MCFat32.cfg`'s | on a full disk the directory is extended by an entry that has no sector: it is linked before it is cleared (`fat32.c:334`) |
| `Fat32!FreeSpaceUsable` | `MCFat32.cfg`'s | `fat32_free_space` counts FAT entries beyond the end of the disk (`fat32.c:478`) |
| `Fat32!NoSharedCluster` | `FaultsAnywhere = TRUE` | a stop or an error in an overwrite leaves an entry with freed clusters, which the next file gets (`fat32.c:386`) |
| `Ata!FlushedOnReturn` | `MCAta.cfg`'s | after FLUSH CACHE the status is polled without the `ata_io_wait` for which `ata.c:41` gives the reason and which `ata.c:82` makes (`ata.c:192-193`); if the port still shows the old status the write returns 0 before the flush has begun, against `ata.c:190`, and a loss of power loses the data |
| `Ata!ReadAlwaysRight` | `MCAta.cfg`'s | a read times out, the drive then offers its data; the next `ata_issue` (`ata.c:140`) is not followed by `ata_io_wait` either, `ata_wait_drq` takes the old DRQ for the new one and the read returns 0 with words that are no data, against `ata.h:24` |
| `Ata!ReadsTheseSectors` | `Clients <- TwoClients`, `MaxCount = 1`, `MaxCalls = 2` | the shell and a loading process (`shell.c:115`) write the address registers in turn; a read returns the other one's sector |
| `Console!EveryCellShown` | `MCConsole.cfg`'s | a blink between the two halves of `newline` leaves the block behind the printing position; if the next one falls between `fbcon.c:124` and `126` it moves the recorded place, and the old block stays on the screen until it is redrawn, against `fbcon.c:154` |
| `Console!InsideRectangle` | `Writers <- TwoWriters` | the shell and the process it has just created print at once; `cur_col` moves between the test and the store (`fbcon.c:187-189`), and a character lands beside the rectangle |
| `E1000!EveryFrameSent` | `MCE1000.cfg`'s | with all descriptors in use TDT equals TDH and the card takes the ring for empty (`e1000.c:295`); the next send starts it again only if a descriptor were free, so it stays stuck |
| `Net!ReplyIsOurs` | `MaxPings = 3`, `Attempts = 1`, `PingTicks = 1`, `MaxArrivals = 2` | a reply that comes after its ping timed out is taken for the reply of a ping of the next command: sequence numbers start again at 1, and neither sender nor id is compared (`net.c:276`, `shell.c:240`) |
| `Net!FramesHandled` | `MCNet.cfg`'s | only `net_ping` calls `net_poll`: frames wait while no ping runs, although `net.h:20` speaks of a process that polls |

## 7. Proofs

`tlapm` checks every theorem to its last leaf.  They hold for every value of the
constants that satisfies the named assumptions of the modules: sizes of tables,
rings, sectors, screens and pages are positive (descriptor rings have two places
at least), bounds are natural numbers, names that mean "nothing" are not hosts,
stacks, files or characters, bytes are bytes, clusters are numbers from 2 on,
those beyond the end of the disk after those on it.  What a theorem needs beyond that is a
hypothesis (`ASSUME`) of the theorem itself, named below with its reason; each
passing run satisfies the hypotheses of the theorems about its module.

| theorem | states | hypotheses |
|---|---|---|
| `SchedulerProofs!TypeCorrect`, `SchedulingSafe`, `StacksSafe`, `DeadSlotsClean` | the safety properties of the scheduler and its type | - |
| `SchedulerProofs!RefinesDispatcher` | every step is a step of `Dispatcher` or a stutter | - |
| `HeapProofs!HeapSafe`, `GrowthIsEnough` | list structure, growth | - |
| `HeapProofs!RefinesAllocator` | `ImplementsAllocator` | - |
| `PS2Proofs!KeyRingRefinesQueue` | the keyboard ring implements `BoundedQueue` | - |
| `PS2Proofs!CommandByteStays`, `NoByteForgotten`, `PointerStaysTrue` | `CommandByteKept`, `ByteAnnounced`, `PointerFollows` | `QuietBoot` |
| `UserMemoryProofs!BitmapStaysExact` | `BitmapExact` | `ShellWaits`, `ImagesFit` |
| `UserMemoryProofs!ProgramsRunOnOwnPages` | `RunsOnOwnPages` | `ShellWaits`, `ImagesFit`, `MaxLive = 1` |
| `NetProofs!SendsCorrectly`, `NoAnswerMissed` | `SentToNextHop`, `EchoAnswersRequest`, `GivesUpUnanswered` | - |
| `NetProofs!ReportsOwnReply` | `ReplyIsOurs` | `MaxPings <= SeqCount` |
| `NetProofs!TxRefinesQueue`, `RxRefinesQueue` | both rings of the card implement `BoundedQueue` | - |
| `Fat32Proofs!ClustersNotShared`, `FilesKeepTheirContents`, `VolumeStaysConsistent` | `NoSharedCluster`, `ContentsKept`, `VolumeConsistent` | `Room`, `~FaultsAnywhere` |
| `AtaProofs!SectorsStayAsWritten`, `ReadsTheRightSectors` | `SectorsAsWritten`, `ReadsTheseSectors` | `Alone`, addresses below 2^28 (`LbasAssumption`); the properties themselves except what `lags` records |
| `ConsoleProofs!StaysInside`, `ScreenShowsText`, `LineStands` | `InsideRectangle`, `TextShown`, `LineBeforeCursor` | one writer; `TextShown` itself says "unless `misled`" |

**`SchedulerProofs`.**  The safety properties are not inductive: that a READY
slot has registers says nothing about the slot `process_create` is still filling.
`IInv` (module `SchedulerInv`) adds where the shell and `process_create` are and
which slot they own (`ShellInv`, `CreateInv`), at which program points and on
which stack every other process can be (`ThreadInv`), and what dead slots, pids
and the stack in the local variable look like.  TLC checks it in
`scheduler`; the proof has one lemma per action, and `ScheduleEffect`
gives the timer step its normal form.  `Invariance` is `Spec => []IInv`;
`TypeCorrect`, `SchedulingSafe`, `StacksSafe` and `DeadSlotsClean` follow from
it, and `RefinesDispatcher` shows that the initial states are the dispatcher's
and that every step is one of its steps or a stutter.

**`HeapProofs`.**  A list predicate (types, disjoint, ordered, linked both ways)
is shown to survive `split_block`, the marking, both forms of `heap_expand` and
the absorption of a neighbour, each as a lemma on block functions that knows
nothing of the actions.  Coalescing needs its own lemmas: which pairs of blocks
a step leaves that could be merged, and that merging forward and then backward
removes the two pairs `kfree` can create.  `HeapSafe` is the invariance of type,
`NoOverlap`, `AddressOrdered` and `Coalesced`; `GrowthIsEnough` the action
property that a successful `heap_expand` makes the second walk succeed, from
`PagesEnough` (rounding) and the merge with a free tail.

`RefinesAllocator` maps the heap to `InUse`, the areas of the blocks that are not
free.  Cutting a free block, joining free blocks and adding one leaves `InUse`
alone (`SameUse`, `ExpandUse`, `MergeUse`); that the area `kmalloc` hands out
overlaps no other is the list predicate applied to the block it takes (`TakeUse`).

**`UserMemoryProofs`.**  `BitmapExact` alone is not inductive because the scan for
a clear bit and its setting are two steps.  `Turns` says that one process loads at
a time and not while the shell allocates, so that the frame found stays free;
`Accounts` that owned frames are marked and the counter counts the bitmap.  The
first needs `ShellWaits`, which the code makes likely and does not guarantee
(section 6).  Exactness needs the
converse, `NothingLost`: every marked frame is in somebody's list.  It holds if
no list overflows and the reset finds every mapping, which is `ImagesFit`:
programs lie in the user region and need no more pages than the list records
(section 6 shows both failing otherwise).  `LoadInv` follows a load page by page:
what is mapped so far, and that it lies on frames of this process.
`RunsOnOwnPages` moreover needs that no second program resets the one page table
under the first, `MaxLive = 1`.

**`NetProofs`.**  `CacheTrue` (a used slot holds the MAC of its address),
`OwnPacketFirst` (the ping's packet lies at the bottom of the stack of waiting
calls), `AskedFor` (what waits to be read or to be answered was asked) and
`Unanswered` (at the head of the loop the answer is not in the cache) are
preserved by every step of the nested `net_poll`.  That a reported reply belongs
to the request just sent needs sequence numbers to be different, hence one
command, `MaxPings <= SeqCount` (`OneCommand`); section 6 shows the counterexample
across commands.

Its second part is about the card. `TxInv`: the driver's index is the tail
register, as many places after TDH as frames were handed over and not sent, and
none of the descriptors in use (those, and the one being filled between
`SendFill` and `SendTail`) shows DD; so a full ring is told from an empty one
although TDT equals TDH in both. `RxInv`: the driver's index is one place after
RDT, and only descriptors from the next one to read up to RDH show DD. The
queue is the sequence of frames from TDH, or from the next descriptor to read,
on; a step of the driver or the card appends to it, takes its head or leaves it
alone. `Places` and `Ways` turn the code's `%` into case distinctions.

**`Fat32Proofs`.**  The properties speak of the clusters a walk along the FAT
reaches, and `Chain` computes them by recursion over the number of turns.  The
module first shows what that recursion yields: if a sequence is a path (`Path`: it
follows the links, repeats no cluster and ends at an end mark), the walk from its
first cluster is that sequence (`ChainIs`).  The two inductions, on the turns and
on the length of the path, are arguments by the least counterexample (`Least`).
From there on chains are handled as sequences: what stays a chain when another
entry is set (`ChainSame`), when a cluster is linked to its end (`ChainLink`) and
when its first one is freed (`ChainFree`).  `LegibleIs` does the same for the part
of the directory that can be read, and `FindIs` for the searches: `find_entry`
finds the one slot with the name.

The inductive invariant `FatInv` says that the directory is such a path, of which
only the last cluster can be unreadable (`DirInv`); that behind an unused slot all
are unused and no name occurs twice (`NamesInv`), without which a search would miss
a file; that the slot an operation uses is still free or holds the name it replaces
(`SlotInv`); how far the chain being built or freed has come (`WorkInv`); that the
files' chains have their size and contents (`FilesInv`); that directory, files,
this chain and a cluster taken but not yet linked are disjoint (`Apart`); that an
overwrite still finds the clusters it needs (`SpaceInv`); and that without a stop
everything in use is one of these and the copies of the FAT differ at most in the
entry being written (`NothingLost`), with faults in one more per fault
(`CopiesInv`).  One lemma per action (`Keeps...`) shows that
it is preserved.  `SpaceInv` is what `Room` gives: without it an overwrite that
fails leaves an entry with freed clusters (section 5), as does a fault in the middle
of one, hence `~FaultsAnywhere` (section 6).  A write of a new file may find the disk
full at any step; in it or in a deletion the machine may stop, and sectors fail, any
number of times, and what a failed call leaves marked in the FAT belongs to nobody.

**`AtaProofs`.**  `Justified`: all that the medium and the drive's cache hold, or
that the drive is about to store, is among the contents the history allows.
`CallInv` relates the client's step and the number of words it moved to the
drive's command.  A write that has moved d sectors finds the drive storing the
last of them, waiting for the next or holding part of it (`Pending`, `Waiting`,
`Taking`), with the earlier ones stored (`Kept`); a read finds it looking for the
next sector or offering the rest of it (`Looking`, `Offering`), and every word
read so far is the right one (`Right`).  All that is
`AtaInv`, and what is invariant is `AtaSound`: `AtaInv` until a command has been sent
over a transfer that was given up and still shows DRQ.  Before that a command is sent
to an idle drive or to one that still flushes, whose status lags (`StatusInv`,
`Lagging`); a flushing drive does not hear it, and the call then sees no DRQ until it
times out (`Ignored`, `IgnoredFlushes`).  `Lawful` says what the cache and the medium
may hold when a flush was left behind.  `LbaFits`: the registers hold the address.
`Alone` is: one client, and errors reported before the drive takes the data; without
each of them TLC finds a counterexample (sections 5 and 6).

**`ConsoleProofs`.**  `PlaceInv` says where the printing position may be at each
step of `fbcon_putchar` (`AtStep`); in particular a column just past the edge is
reached only where the code wraps before it stores.  With it `TextShown` is
inductive: each drawing step makes one cell right; a blink paints the cell it
records, and while `cursor_hide` has yet to draw the recorded place it either leaves
that place alone or sets `misled`; a clearing or a scroll draws every cell again
(`ShowReset`), whatever was on the screen before.  `LineInv` tells what part of `line` is stored at
each step (`StoredText`) and where it ends (`EndOfText`), through the shift by a
row that a scroll makes.  All three need one writer (section 6).

**`PS2Proofs`.**  `RingInv`: between the test and the advance of
`keyboard_getchar` the ring stays non-empty and the character read stays the
first, since handlers only add.  The other three need the whole set-up sequence:
`SetupInv` gives the command byte at each step of `mouse_init`, says that a byte
in the buffer has its interrupt latched or a handler that will still read it
(`Latched`), and who may have filled the buffer; so the answer that the keyboard
handler reads before `mouse_init` polls is still in the data register.
`PacketInv` says that the driver's count and the bytes of a packet still under way
make up one packet, `PointerInv` that the pointer is where the movements so far
put it, also between the last byte and its decoding.  `QuietBoot` is: the firmware
left the keyboard interrupt enabled, and no key is pressed while `mouse_init`
runs (section 6 shows what happens then).

### Only model-checked

* All liveness properties (`NoStarvation`, `DeadStackReaped`, `CreateCompletes`,
  `EveryKeyRead`, `OperationEnds`, `SentUnlessFull`, `PingEnds`, `CallEnds`) and the
  fairness part of `ImplementsDispatcher`: fairness and ENABLED are out of the
  prover's reach.
* `HeapRace`, and the cases outside the hypotheses above (an overwrite that does
  not fit or is cut off, a shell that does not wait, two programs, two writers, two
  clients of the disk, late errors, a key during `mouse_init`, replies across
  commands): TLC refutes the properties there.

## 8. Not modelled

PCI, serial port, GDT/TSS, IDT stubs, the string and formatting routines of the
library: no state that outlives a call, or tables written once.  The window
stub draws rectangles.  Boot: a straight line whose result is the `Init` of the
modules.  The set-up of the E1000 (PCI, EEPROM, registers) and the kernel's own
mappings: written once, before anything runs beside them.  What commands print,
checksums, header layouts, glyphs, colours and pixels: data that no property
tells apart.  The VFS mock: constant answers nobody asks for.  Build and test
scripts: not part of the running system.
