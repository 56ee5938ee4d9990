# A verification project for the x86 kernel

TLA+ models of the parts of this kernel that keep state: the EXT2 file system
driver, the shell's commands on top of it, boot and interrupt dispatch, the
keyboard driver, the terminal with the shell's line editor, the shell's pipes and
the page frame allocator, with TLC configurations that check them on small
instances and TLAPS proofs for every size. Paths below are relative to the repository (`src/...` is its `src/`
directory).

## 1. The system

| Component | Source | State | Operations | Correct when |
|---|---|---|---|---|
| EXT2 driver | `src/filesystem/ext2.c`, `src/header/filesystem/ext2.h` | blocks 0..255 of the disk: signature, superblock, group descriptor, two bitmaps, inode table, data; cached superblock and descriptor; `g_filesystem_initialized` | `initialize_filesystem_ext2`, `create_ext2`, `read`, `read_directory`, `write`, `delete`, `stat` | names form a tree, each block has one owner, counters agree with bitmaps, calls are all or nothing, also across a power failure |
| ATA driver | `src/driver/disk.c` | none; PIO to the controller, cache flushed after each block | `read_blocks`, `write_blocks` | a returned write is durable, writes are ordered |
| Keyboard | `src/driver/keyboard.c` | ring of characters, `head`, `tail`, E0 mode, on/off | `keyboard_isr` (IRQ 1), `get_keyboard_buffer`, `keyboard_state_activate` | accepted keys are delivered once and in order, although the handler interrupts GETCHAR |
| Page frames | `src/memory/paging.c` | frame map, free counter, page directory; the processor's translation cache | check, allocate, free, `flush_single_tlb` | frames exclusive, counter exact, kernel stays mapped, no stale translation |
| Interrupts, system calls | `src/cpu/interrupt.c`, `intsetup.s`, `idt.c` | gates of the IDT; the interrupt controller's requests, lines in service and mask; the kernel stack | dispatch of IRQs, exceptions and `int 0x80`, `pic_remap`, `pic_ack` | handlers are not interrupted, every request is served and acknowledged, the stack stays bounded |
| Terminal | `src/driver/framebuffer.c`, PUTCHAR/PUTS in `interrupt.c` | text memory, `sys_row`, `sys_col`, cursor | write, erase, wrap, scroll, clear | the cursor stays on the screen, nothing old is shown after it |
| Shell | `src/user/shell.c` | working directory (inode and path), directory and file buffers, line, pipe buffers and modes | `cd ls mkdir cat cp rm mv find grep echo clear`, line editor, pipes | commands do what they say and lose no file; the line run is the line shown; a pipeline is the composition of its commands |
| Boot, user mode, GDT | `src/kernel.c`, `kernel-entrypoint.s`, `gdt.c`, `usermode.s` | descriptor tables, what is set up so far | `kernel_setup`, `enter_user_mode` | nothing can enter before its way in is built |
| Inserter | `src/external/external-inserter.c` | disk image on the host | formats it and inserts files | same as the driver |

**Interaction.** The shell is the only user program. It reaches the drivers
through `int 0x80`, a trap gate: interrupts stay enabled, so the timer and the
keyboard handler run in the middle of a system call. IRQ handlers enter through
interrupt gates and run to their end. Nothing preempts the shell in favour of
another process (`src/process/process.c` is not built), so at most one system
call is in progress and the EXT2 driver needs no lock. The keyboard ring and the
keyboard's switch are what two contexts share. `kernel_setup` itself runs with
interrupts on from the end of `initialize_idt`.

**What is hard.** In the file system, not concurrency but partial effects: an
operation is up to dozens of block writes, each durable when `write_blocks`
returns (`disk.c:46` flushes the cache), and it can stop between any two of them
because the power fails, or take another path because a block, an inode or a
directory slot is missing. In the keyboard driver, an interrupt between any two
steps of GETCHAR. In the allocator, the processor loading translations whenever
it likes. In boot and dispatch, interrupts between any two steps, and an
acknowledgement that names no line. In the shell, two views of one line (buffer
and screen) and globals that one command leaves to the next. `PROJECT.json` lists these hazards at their lines.

## 2. Modules

| Module | Models |
|---|---|
| `Ext2Layout` | geometry, inodes, variable-length directory records; insertion and removal of records as operators |
| `Ext2` | the driver: boot, mkfs, write, delete, power failure |
| `FileSystem` | abstract specification: a tree of names, atomic calls, error codes with reasons |
| `Shell` | the shell's commands, composed with `Ext2` |
| `Kernel` | boot, interrupt controller, gates, dispatcher, system calls and faults as frames of a stack |
| `Keyboard` | handler and GETCHAR over the ring |
| `KeyQueue` | abstract specification: a bounded FIFO queue |
| `Terminal` | text memory, cursor, one character of PUTCHAR or PUTS |
| `Console` | the shell's main loop over `Keyboard` and `Terminal`: prompt, line editor, output |
| `Pipe` | cutting and parsing a line, the pipe buffers, `grep`; its meaning as a composition |
| `Paging` | allocator, page directory, translation cache |
| `MCExt2`, `MCShell`, `MCConsole`, `MCPipe` | values of the constants for TLC |
| `Ext2Proofs`, `Ext2TreeProofs`, `Ext2RefinementProofs`, `FileSystemProofs`, `PagingProofs`, `KernelProofs`, `ConsoleProofs`, `PipeProofs` | theorems |

### Ext2

*State.* One variable per region of the disk: `signature` (boot sector),
`superblock`, `bgdt`, `block_bitmap` and `inode_bitmap` (as sets of used
numbers), `inode_table`, `blk` (the data area). `sb`, `bgd` and `initialized`
are the driver's globals. `pc` and `fr` are the place and the locals of the call
in progress, `ret` the code it returned.

*Grain.* An action does the work of the code up to and including **one block
write**. So `allocate_block` is three actions (bitmap, `WriteSuperblock`,
`WriteBgdt`), and a file of three blocks takes more than a dozen. `Crash` may
come between any two: memory is lost, the disk keeps what was written.

| Code | Actions |
|---|---|
| `initialize_filesystem_ext2` | `Boot` |
| `create_ext2` | `Boot` (signature), `MkfsSuperblock` ... `MkfsRootDir`, one per block write (the zeroing of the inode table is one: on a disk never formatted the single writes cannot be told apart) |
| `write` | `WriteRefused`, `AllocateNode`, `DirectBlock`/`StoreDirect`, `IndirectBlock`/`IndirectTable`, `PointerBlock`/`StorePointer`, `WriteTable`, `DirectoryBlock`/`WriteDots`, `WriteInode` |
| `add_entry_to_dir` | `AddEntry`, `GrowDirectory`/`GrowInode`/`GrowBlock`, `NoEntry` |
| `delete`, `deallocate_node` | `DeleteRefused`, `Unlink`, `FreeBlock`, `ClearInode`, `ClearNode`, `DeleteDone` |
| `read` | the operator `read`, used where a property needs what a file contains |
| callers (system calls, shell) | `CallWrite`, `CallDelete` |

*Abstractions.* A file is a sequence of block-sized chunks, so `i_size` counts
blocks. A name is a value with a length; only its length matters to the layout.
Callers pass a directory reachable from the root, or 0; names are not empty.
A freed block becomes `Stale`, since nothing may depend on it until it is
written again; `MappedBlocksWritten` checks that nothing does. A scan of a block
that holds no directory is taken to see zeroes. The over-read of
`get_dir_first_child_offset` (a directory whose first record spans the block)
is a choice between its possible outcomes.

### FileSystem

The tree as a set of entries (directory, name, node, kind, data). `Create`
makes one and returns; `Remove` drops one and the call returns later; an error
code is returned only for its reason and without effect; `PowerFailure` ends a
call at any point. `Truncates` says whether a file may keep only a prefix of
what was written. A name is in a directory once, whatever its kind, as in the code
(section 3).

### Shell

*State.* The shell's globals: `current_dir_inode`, `cwd`, `dir_buffer`,
`file_buffer`, `find_stack`, `found` and `current_inode`; the command in progress with the system
call it waits for (`cmd`, `stage`) and the file it writes (`job`, the
`write_req` of the code); `says`, what the last message states. `Shell` EXTENDS
`Ext2` and shares its variables: a command calls the driver (`Invoke`), the
driver's own actions run (`Driver`), and the command goes on (`Returned`).
`CallWrite` and `CallDelete` of `Ext2` do not occur here; `CallsAllowed` checks
that what the shell does is one of the behaviours `Ext2` allows its callers, so
that the results about `Ext2` apply to it.

| Code | Actions |
|---|---|
| `main` | `Prompt`, `AtPrompt` |
| `cmd_cd` | `CdRoot`, `CdUp`, `CdName` |
| `cmd_ls`, `cmd_cat`, `cmd_grep` | `Ls`, `Cat`, `Grep`, one step each: they only read |
| `cmd_mkdir`, `cmd_echo` | `Mkdir`, `Echo`, then `Made` |
| `cmd_rm` | `Rm`, `RmDirectory`, `Removed` |
| `cmd_cp`, `cmd_mv`, `is_directory` | `Cp`, `Mv`, `DeleteTarget`, `Retry`, `DropSource`; `Copied` (also the failure of `mv`), `Moved` |
| `cmd_find`, `find_push`, `find_pop` | `Find`, `find_pop` and `FindVisit` per directory, `FindDone` |
| `read_directory`, `stat`, `read` | the operators `read_directory`, `Lookup`, `Readable`, `Loaded` |

`dir_buffer` is never cleared by the code: `read_directory` replaces its front
blocks and leaves the others, and the model does the same.

*Abstractions.* A message is what it claims (created, moved, failed, a list, a
count), not its words. An argument is one name. `cwd` is a sequence of
components; `cd` stops at `MaxPath` of them, a bound of the model (the code appends to
`cwd` without one, `shell.c:388`). A text of `echo` fills one block. The
paths `find` prints are left out. How the line is typed is in `Console`, how it
is cut into commands and what flows between them in `Pipe`. `rm .` and `rm ..` are not among the commands of the
runs (see section 3).

### Keyboard, KeyQueue

`KeyboardIsr(code)` is one interrupt, atomic. `get_keyboard_buffer` is three
steps (compare, read the slot, move the tail) and a handler may run between
them. Scancodes are a set with a plain and an E0 translation.
`keyboard_state_deactivate` has no caller.

### Kernel

*State.* `pc` counts the calls of `kernel_setup`, `ready` collects what they set
up. `stack` holds a frame for the program and one for each handler that
interrupted it: where it is, the line it serves, and the interrupt flag. `irr`,
`isr` and `imr` are the interrupt controller's registers as sets of lines, `port`
says whether the keyboard controller holds a byte that nobody has read.

| Code | Actions |
|---|---|
| `kernel_setup` | `load_gdt`, `pic_remap`, `initialize_idt` (which switches interrupts on), `activate_keyboard_interrupt`, `activate_timer_interrupt`, `Sti`, `initialize_filesystem_ext2`, `SwitchPaging`, `AllocateOrHalt` twice, `LoadShell`, `enter_user_mode`; `KernelSetup` is their order |
| stubs of `intsetup.s`, gates of `idt.c` | `Enter`, `KeepsInterrupts`, `Return` |
| `main_interrupt_handler` | `KeyboardInterrupt` and `KeyboardAcknowledged`, `TimerInterrupt`, `Exception` (the default case) |
| `syscall`, `syscall_handler` | `Syscall`, `syscall_handler` |
| the `hlt` of `cmd_quit`, which faults in ring 3, or a bad address | `Faults` |
| controller, processor, devices (external) | `Deliverable`, `Interrupt`, `Executes`, `Tick`, `KeyPressed`, `OtherDevice` |

What a system call does is in the other modules; here it may switch the keyboard
on. An instruction runs only when no interrupt can be taken (`Executes`).

### Terminal, Console

`Terminal` has the two system calls' common treatment of one character: `Erased`,
`LineEnded` or `Shown`, then `Scrolled`. A whole PUTS is a sequence of `Display`
steps of `Console`, so keys arrive in its middle; the hardware cursor moves with
the last character, as in the code.

`Console` EXTENDS `Keyboard` and `Terminal`. `sh` is the place in `main`:
`Start`, `Prompt`, `Poll` (one step of GETCHAR), `Edit` (one character of the
line), `Run` (a command prints one of `Outputs`), `cmd_clear`; `Interrupted` is
the keyboard handler at any moment. `Init` has the letters that `kernel_setup`
leaves in the first row. The prompt and a full line together are assumed to fit
above the last row (`ConsoleAssumption`); with 80 by 25 they do for every path
that `cwd` can hold.

### Pipe

A line is a sequence of words, spaces and bars; texts are sequences of
characters. What the file system answers is constant: the content of a file, what
a command other than `echo` and `grep` says, and what `echo` reports of a file it is
to write (`Report`). `ReadLine` cuts the line as `main` does, `SetUp` sets the modes,
`Execute` runs a command, `GrepLine` is one turn of `grep`'s loop over
`pipe_getline`, `NextCommand` transfers the buffers, `LineDone` resets them.
`Meaning` says independently what a line should show: segments between bars,
lines of a text, selection by pattern, composition.

### Paging

Allocation and free up to their `invlpg`, then `flush_single_tlb` as a step of
its own; `TlbFill` and `TlbEvict` are the processor (external). The kernel never
has a second page directory, so the model has one.

## 3. Runs

| Run | Bounds | Shows |
|---|---|---|
| `ext2_grow` | blank disk, 4 inodes of which 2 reserved, 15 blocks, records of 12 and 16 bytes in blocks of 36, so directories grow to a second block; two names; no crash | the driver implements `FileSystem` exactly; records tile blocks; dots lead home; nothing leaks |
| `ext2_scarce` | files of 1, 3 and 5 blocks, 2 direct and 2 indirect pointers, 5 data blocks, 3 inodes, one spare directory block | whatever runs out, and wherever, the loops stay inside their arrays, the counters hold, every call returns, and the driver implements the truncating `FileSystem` |
| `ext2_crash` | 1 direct and 1 indirect pointer, files of 2 blocks, nested directories, 2 power failures | all or nothing for every call at every block write; ownership and names hold after reboot; the counters miss the bitmaps by at most one per failure |
| `shell_files` | 15 command lines over the names `d` and `f` (a directory, a file or nothing), 3 inodes to give away, blocks for all of them, directories of one block | a move keeps the content at every step, nothing disappears that the command does not name, reports are true, every command but `find` comes back to the prompt, and the driver is called as it expects |
| `shell_walk` | 11 command lines, directories nested up to three deep, 1 power failure, `FIND_MAX_DEPTH` 1, which is exactly what a chain of directories needs | reports (also `find`'s count and `ls`'s list) are true; the path in the prompt shows the way to the working directory, if sometimes more |
| `kernel` | lines 0, 1 and 14 (one the kernel never unmasks), any requests and mask left by the BIOS | interrupts and user mode only when everything they enter through is ready; at most one call and one handler on the stack; lines in service are those of running handlers; timer and keyboard are served for ever, whatever the program does |
| `console` | ring of 4, up to 7 key events with E0, Enter, Backspace and a release, screen of 3 by 3, lines of up to 4, outputs of none, one and three rows | the ring is a bounded queue under every interleaving; the line on the screen is the line in the buffer across wraps, scrolling and erasing; `clear` clears; a typed-ahead Enter is taken up |
| `pipe` | buffer of 5, 3 commands, lines of 2; lines of up to 4 commands over 8, with and without spaces | buffers stay in bounds, the screen shows the composition, every line ends |
| `paging` | 4 frames, 6 pages | counter, exclusivity, kernel mapping, no stale translation, an exact check |

Three runs expect a violation; each is a disagreement between the code and what
its headers or comments say, described under `findings` in `PROJECT.json`:
`ext2_mkfs` (a power failure during mkfs leaves a signed disk without a root),
`shell_move_self` (`mv f f` deletes the file) and `shell_find` (two directories in a
root of two blocks: `find` visits one of them for ever, because `read_directory`
leaves the root's second block in `dir_buffer` and `find` scans the buffer to its end,
`shell.c:893`).

Met in the same way, and allowed by the properties or left out of the passing runs
by the bounds named:

* A directory made on a full disk has no dots, and is deleted with its first two
  children inside (`ext2.c:675`); in `ext2_grow` blocks last.
* `write` refuses a name that is in use by an entry of either kind (`ext2.c:603`),
  while `ext2.h:356` and `:363` say that a file may have the name of a folder, and
  `test.c:594`, which is not built, refuses only the same kind. The model follows the
  code: `NamesResolve`, and `TreeOK` of `FileSystem`, say that a directory has a name
  only once (a finding in `PROJECT.json`).
* `write` returns 0 for a file that found no block for its tail
  (`ext2.c:628,645,655`); `Truncates` allows it in the abstract file system.
* `delete` of `.` or `..` frees a directory that is still named (`ext2.c:743`);
  `DeleteNames` holds no dots.
* `ls` shows what a larger directory left in `dir_buffer` (`shell.c:422`), and
  stops at an unused record (`shell.c:424`); one block per directory.
* `find` drops directories when its stack is full (`shell.c:832`); stack size.
* `cd ..` from two levels down leaves the path as it was (`shell.c:341`);
  `PathShown` asks that the way to the working directory is in the path, in order, and
  allows names of directories that were left; in the root it allows none.
* `get_keyboard_buffer` takes one character, while `keyboard.h:61` says that it
  flushes the buffer.
* `paging_allocate_check` overflows within a frame of 2^32 (`paging.c:44`) and
  says yes; `CheckIsExact` leaves these amounts out.
* A key pressed before `pic_remap` stays in the port without an interrupt
  (`interrupt.c:31`); `ScancodesRead` speaks of requests after it.
* `grep` skips lines of 256 characters and more in a file (`shell.c:1041`), and
  reads them in pieces from a pipe (`shell.c:200`); `Means` says both.
* Commands past the eighth of a line are dropped silently (`shell.c:1202`);
  `Meaning` takes the first `MAX_CMDS`.
* `quit` executes `hlt` in user mode (`shell.c:1114`), which faults; the fault
  handler returns to it for ever. Interrupts go on (`RequestsServed`).

*Why the bounds suffice.* The driver treats all names, inodes and blocks alike;
what matters is that a directory has a record to split, to merge into, and a
second block to grow to; that a file uses no, some and all of its direct and
indirect pointers; that each resource runs out at each place it is asked for.
Each of these happens in some run. The three EXT2 runs split the cases because
their product is too large: crashes and growing directories do not meet (see
section 5).

*Shell runs.* The passing ones of the shell keep directories within one block, where no
leftovers and no unused records can occur, and a move off its own name. The
two that expect a violation drop one restriction each. `shell_move_self` checks the
part of `ReportsTrue` that the passing runs ask except for a file moved onto itself;
`shell_find` checks for `find`, with a root of two blocks, what `CommandsEnd` says of
the other commands. `shell_walk` goes three levels down (`MaxPath`), so that `cd ..`
ends in directories other than the root. `FIND_MAX_DEPTH` is 32 in
the code; with 1 instead, two directories side by side exceed the stack as 33
would. Blocks never run out in the shell runs: then `write` reports success for a
truncated file and `mv` deletes the whole one.

*Where NothingLeaks is claimed.* Only in `ext2_grow`, where the parent can
always take the new entry. When it cannot (`NoEntry`), the code keeps the inode
and the blocks of the file; after a power failure it keeps those of the
interrupted call. `NothingEverLeaks` proves it with exactly these two cases
excluded, and with a block for every new directory.

*Fairness.* `Ext2!FairSpec` assumes that the driver goes on once called: the
kernel does not abandon a system call and the disk becomes ready. `Crash` and the
callers are not fair. `Shell!ShellFairSpec` adds that a command goes on when its
call has returned; the user is not fair. `shell_files` and `shell_find` use it, and
the power does not fail there.
`Kernel!FairSpec` assumes that handlers and system calls go on and that the
running program executes instructions; there is one processor and only
interrupts take it away. Devices are not fair, and the timer and the keyboard
raise their line again only after an instruction ran (`raised`): they are slower
than a handler. `Console!ConsoleFairSpec` assumes that the shell goes on, although
keys interrupt it; `Pipe!FairSpec` the same. The user need not type anything.

*Faults.* The definitions commented `Fault:` are plausible errors in the
definition that follows. Nothing uses them; `PROJECT.json` names, for each
property of a passing run, a fault that it detects.

## 4. Proofs

| Theorem | States | Argument |
|---|---|---|
| `Ext2Proofs!DriverStaysInBounds` | for every geometry, names and contents, with power failures anywhere: types and `IndicesInBounds` | neither conjunct is inductive alone: what a store writes is a chunk only because its index is inside the content, and the index bound says something because the frame is typed. `IndicesInBounds` speaks of the label a call will go on at (`Reaching`), so that the bound survives the two counter writes between allocation and store. Lemmas per helper (`InsertType`, `RemoveType`, `BlocksOfType`, `AtType`), then one case per action |
| `Ext2Proofs!RecordsAlwaysTile` | the same generality: `RecordsTile` | `TileInv` states tiling with an explicit function of offsets, so that the prover never unfolds the recursion. `InsertShape` and `RemoveShape` say record by record what `add_entry_to_dir` and `remove_entry_from_dir` make of a block; `InsertTiles` and `RemoveTiles` shift the offsets |
| `Ext2TreeProofs!TreeAlways`, `BlocksAlwaysOwnedOnce`, `NamesAlwaysResolve` | for `Orderly` callers (below), every geometry and content, at every block write and across power failures: ownership of blocks, resolution of names | `TreeInv`, see below |
| `Ext2TreeProofs!CountersAlwaysTrack` | for `Orderly` callers: the counters miss the bitmaps by at most one per power failure | `CountInv`, see below |
| `Ext2TreeProofs!MappedAlwaysWritten` | for `Orderly` callers, until the power first fails: `MappedBlocksWritten` | `WrittenInv`, see below |
| `Ext2RefinementProofs!WriteAndDeleteAreAtomic` | for `Orderly` callers, every geometry and content, with power failures anywhere: `Spec /\ []Roomy` implies `ImplementsTruncatingFileSystem` | `RefInv`, see below |
| `Ext2RefinementProofs!DotsAlwaysLeadHome` | under the same hypotheses: `DotsLeadHome` always | part of `RefInv` (`DotsHome`) |
| `Ext2RefinementProofs!WrittenFilesAreWhole` | with contents that fit an inode (`FilesFit`) and a block for whatever is written (`Ample`): `ImplementsFileSystem`, the one that never truncates | `RefInv` and `WholeInv`, see below |
| `Ext2RefinementProofs!NothingEverLeaks` | with `Roomy` and `Placed`, until the power first fails: `NothingLeaks` | `MarkInv`, see below |
| `FileSystemProofs!TreeInvariant`, `TreeHasNoCycle` | for any nodes, names and contents (`FileSystemAssumption`, which `DriverIsInstance` shows for both instances `Ext2` makes): types, tree of names, parent of a call exists, no cycle | the conjunction is inductive. Creation needs the node to be fresh: a set closed under "named from inside" that contained it would have been closed before. Removal needs the node to have no children |
| `ConsoleProofs!DriverInvariant` | for any ring size: indices in range, what GETCHAR saw is still so | inductive as it stands: the handler moves only the head and never onto the tail |
| `ConsoleProofs!DriverIsQueue`, `DriverHoldsChars` | the driver implements `KeyQueue` and holds only characters | the mapped queue is the ring from tail to head; modular arithmetic is first replaced by case distinctions (`QueueFact`), then each step appends, takes the head, or leaves the queue alone |
| `PagingProofs!AllocatorExact`, `FramesAlwaysExclusive`, `KernelAlwaysMapped`, `TranslationsFresh`, `CheckAlwaysExact` | for any number of frames and pages: counter, exclusivity, kernel mapping, fresh translations, an exact check | one invariant; `TlbInv` in it strengthens the fourth: during a call only the page about to be flushed may be cached stale. The counter is related to the map by cardinality of the free set. The check is exact because the counter is, and because rounding up to frames keeps the order (`RoundingUp`) |
| `KernelProofs!EntriesAreReady`, `StackIsBounded`, `ServiceIsHandled` | for any set of devices: `EntriesReady`, `NestingBounded`, `InServiceHandled` | one invariant for all three. `Progress` says what is ready at each step of `kernel_setup`; `Shape` which frames may stand on which; `Flags` that a handler runs with interrupts off, so only a program can be interrupted; `Serving` that what is in service is the line of the top frame, or nothing. The last needs the first three, and makes the unnamed acknowledgement hit the right line |
| `ConsoleProofs!TerminalStaysOnScreen`, `NothingIsBelow` | for any screen, texts and ring: the cursor and what is written stay inside, nothing is shown after the cursor | lemmas per kind of character on row-major positions; blank ahead is inductive once the first newline of the banner has left the row with the boot letters (`BootScreen` until then) |
| `ConsoleProofs!LineAlwaysOnScreen`, `ClearAlwaysClears` | for any screen, prompt and line length: the line in the buffer is the line shown; `clear` clears | both speak of the shell when it waits for a key; `ScreenInv` says what holds while it still prints: the part of prompt and line that is out already stands before the cursor (`LineShown`; a pending backspace counts as one character more), and while `clear` prints newlines every row is blank below the ones they will push out (`Clearing`). It needs `ConsoleInv`: that a line grows into blank cells is `BlankAhead`. `PutGlyph`, `PutBackspace` and `PutNewline` say how far the screen moves up |
| `ConsoleProofs!ConsoleKeepsQueue` | the console's keyboard implements `KeyQueue` | every step of `Console` is a step of `Keyboard` or leaves it alone, so `DriverIsQueue` applies |
| `PipeProofs!PipeStaysInBounds` | for every buffer size, table size and line: `PipeInBounds` | `PipeInv` adds that the buffers hold characters and the table segments without bars. That needs the loops of `main`, `parse_input` and `cmd_grep` to have a value: `Ascending` and `Descending` say so of any loop over the places of a sequence |

The assumptions are the `ASSUME`s of the modules, about the constants only; TLC
evaluates them in the runs. `FileSystem` has no run of its own: what the theorems
about it ask of its constants is their hypothesis. `RecordsAlwaysTile` needs the one on the length of
names: a record with the longest name fits a block (255 bytes and 512 in the
code).

*Orderly.* The theorems of `Ext2TreeProofs` and `Ext2RefinementProofs` carry one
hypothesis on the callers: no name given to `write` or `delete` is `.` or `..`, and where the kernel formats
the disk itself the power does not fail. Both are needed: `delete("..")` frees a
directory that is still named, and a failure inside `create_ext2` leaves a disk
that boots as formatted (run `ext2_mkfs`). A disk that mkfs has formatted may lose
power any number of times. Every EXT2 run satisfies `Orderly` except `ext2_mkfs`.

*TreeInv.* `BlocksOwnedOnce` and `NamesResolve` speak of what can be reached from
the root, and reachability is not local: one write can cut off or join a whole
subtree. `WellFormed` instead speaks of every directory block on the disk,
reachable or not: an inode has at most one record naming it anywhere and is then
marked used (`OneName`, `NamesUsed`), a block has at most one named owner and is
marked used (`OneOwner`, `BlocksUsed`), the block map of a directory has no holes
(`NoHoles`), and a directory has no name twice (`OneEntry`). `CallGood` says what
the call in progress holds at each label: the inode and blocks `write` has taken
are used and nobody's, so giving them a name breaks nothing; what `delete` frees
has lost its name first. `Formatting` covers `create_ext2` on a blank disk. A power
failure drops `CallGood` and keeps `WellFormed`: this is where the order of the
block writes in `write` and `delete` matters.

*CountInv.* The bitmap is written first, then the superblock, then the group
descriptor, so the three differ within a call. `Counted` says by how much at each
of the two labels, that the counters in memory are right throughout, and that the
superblock leads the descriptor by the same number in memory and on disk. A
failure between two of the writes then adds one to what the disk misses. `TreeInv`
is needed too: freeing must hit a bit that is set.

*WrittenInv.* Every block a named inode points at holds what that pointer is for
(data, records or a table), and so do the blocks of the inode `write` is making
(`HeldWritten`), which is why naming it is safe; its table is the last to be
written (`Built`). `OneOwner` is needed: a write to one block must not change what
another pointer leads to. The theorem ends at the first power failure for a
reason: `add_entry_to_dir` writes the grown directory's inode before its new block,
and a failure between the two leaves a block nobody wrote. The invariant goes on
past it and allows exactly that, a direct pointer of a directory; `ext2_crash`, where
directories do not grow, checks the property across failures.

*RefInv.* The abstract tree is a set of entries reached from the root, so one block
write may in principle change any part of it. The proof first describes that set
without its recursion: `Lists` says that a directory calls an inode by a name, and
`Linked` that the directories reached are the least set that holds the root and
what its members list. Then every block write is one of two kinds. A `Quiet` one
changes no inode with a name and no block with an owner, and the tree stays as it
was; `TreeInv` is what makes allocation, the stores into a new file and the
clearing of a deleted one quiet. The others are the write of the record in
`AddEntry` (or of the grown directory's new block in `GrowBlock`), which must be
the abstract `Create`, and the one in `Unlink`, which must be `Remove`. For these
`RefInv` says what the call has done when it gets there (`DoneAt`: the parent can
still be reached, the new inode holds a prefix of the content or the two dots),
that the label agrees with the kind of call (`OpAt`), and where the dots of every
named directory stand and lead (`DotsHome`), since `delete` skips the first
two records when it asks whether a directory is empty. A power failure is
`PowerFailure` at whichever label it comes. The steps that allocate, return or
fail answer with a code for which the abstract specification has the same reason.

*Roomy.* At the label where `write` asks for the block of a new directory, there
is one. Without it the code makes a directory that has no dots, and `delete` later
takes its first two names for them: neither the refinement nor `DotsLeadHome` is
true then (section 3). Nothing is assumed of the blocks of files, of inodes or of
a directory's growth: they may run out anywhere.

*FilesFit, Ample, WholeInv.* `ImplementsFileSystem` needs every block of a file to
be found (`Ample`, which contains `Roomy`) and no content to be longer than an
inode's direct and indirect pointers together. `WholeInv` then says that the loops
over the direct and over the indirect blocks end with the content and not before,
so that a finished inode holds all of it. `Ample` is an invariant of the
instances of `ext2_grow` and `ext2_crash`, so both theorems speak of behaviours that
exist, with and without failures.

*MarkInv, Placed.* Leaks are the other direction of `TreeInv`, which says that what
is in use is marked. `MarkInv` says that each marked inode is reserved, has a name
or is the one the call works on (`InodesMarked`); each marked block is reserved, has
an owner, or is claimed by the call, as one of its new inode's, as the one just
allocated or as one still to be freed (`BlocksMarked`); and that whatever has a name
can be reached from the root (`AllReached`), which is preserved because only an empty
directory loses its name. `Placed` says that `add_entry_to_dir` finds a place for
the record: it gives up (`NoEntry`) without returning the inode and the blocks that
`write` took. The theorem stops at the first power failure, since the inode and the
blocks of the interrupted call stay marked. `Roomy` and `Placed` are invariants of the
instance of `ext2_grow`.

*A block never written.* Like the model, these proofs read a block that was never
written as a directory as zero-filled. It matters in one place: a power failure
between the two writes by which a directory grows leaves such a block in it. What
the theorems say of the time after that failure holds if the block was zero, and
section 5 names the case as not modelled.

*Recursion.* The library's induction theorems take an operator, which the provers
cannot instantiate; `SetInduction`, `LeastNat` and `UpTo` state induction about a
set instead, from the well-foundedness of the natural numbers. With them the
recursive functions of the model can be reasoned about: that they have a value,
of which type, and an invariant of their loop.

Before they were proved, TLC checked `TreeInv`, `CountInv`, `WrittenInv`, `RefInv`,
`WholeInv` and `MarkInv` on the instances of the EXT2 runs that satisfy their
hypotheses, and `ConsoleInv` and `ScreenInv` on that of `console`.

Only model-checked:

* Liveness: `CallsReturn`, `CommandsEnd`, `RequestsServed`, `ScancodesRead`,
  `EntersTaken`, `LinesEnd`.
* `PipelineComposes` compares two recursive definitions of what a line means.
* `Shell`: `ReportsTrue` holds under the bounds of the runs and not beyond
  (directories of two blocks, a full search stack, a full disk: section 3);
  `MoveKeepsContent` likewise with room on the disk. `PathShown`, `CallsAllowed` and
  `OnlyNamedGo` speak of what commands find in `dir_buffer`,
  through selections from sequences that the provers do not expand.

## 5. Not modelled

* Bytes within a block, and with them the copy arithmetic of the last block.
* A power failure in the two writes by which a directory grows (`ext2.c:225` and
  `:235`): afterwards the directory names a block with leftover bytes, and what
  a scan makes of them depends on the bytes.
* `initialize_filesystem_ext2` reading whole blocks into its smaller variables.
* Groups other than 0: the code never uses them; they only scale the totals.
* Disk errors: the driver has no error path, it waits for the ready bit.
* The byte sizes of the shell's `cwd`, `cmd`, `arg1`, `arg2` (words and paths are
  values), the paths `find` prints; `cmd_wc` and `cmd_testuser`, which `main` calls
  but the repository does not define.
* The bits of segment descriptors, gates and the temporary page table of
  `kernel-entrypoint.s`; spurious interrupts, which the code does not handle.
* The port protocol of `disk.c`: it waits for a status bit and has no other
  branch.
* `string.c`: its routines are part of the models that use them. `process.c`,
  `test.c`, `driver.c`, `backup.s` and `.kit/` are not built.

## 6. Plan

Done, in this order: `Ext2Layout`, `Ext2`, `FileSystem`; `Keyboard`, `KeyQueue`;
`Paging`; `Shell` over `Ext2`; `Kernel`; `Terminal` and `Console` over `Keyboard`;
`Pipe`; the theorems above.

Next, most important first:

1. Growth and power failure together, with leftover directory blocks.
2. Proofs: that `find`'s stack in `Shell` stays within its bound; `RefInv` without
   `Roomy`, for a driver that refuses a directory when it finds no block.
3. The inserter as a caller of `Ext2` on the host.
