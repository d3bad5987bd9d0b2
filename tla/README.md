# TLA+ models of the OS-Implement kernel

This directory holds TLA+ specifications of the kernel in `src/`, TLC
configurations that check small instances of them, and TLAPS proofs.
Paths like `task.c:184` are files of `src/src/`.

To check a module: `tlc -config Tasks.cfg MCTasks`. To check proofs:
`tlapm TasksProofs.tla`. `PROJECT.json` lists the runs, the mutated definitions
that show each property can fail, the source lines of every definition, the
hazards of the code and the theorems.

## The system

A 32-bit x86 kernel, booted by GRUB, single processor, no user mode. `main()`
sets up the tables, enables interrupts, and forks once: the parent idles, the
child runs a small shell for ever.

| part | state | operations | talks to |
|---|---|---|---|
| multitasking (`task.c`, `timer.c`) | `head_task`, `cur_task`, `next_pid`, the pcbs, `cur_vm_page_dir` | `init_multitask`, `fork`, `task_switch`, `task_exit_pid`, `task_exit` (never called) | called by the clock interrupt and by the shell; clones page directories; allocates pcbs |
| keyboard (`keyboard.c`) | the 256-byte ring, its two cursors, the control bits | the IRQ1 handler, `keyboard_getchar`, `scanf` | the handler writes, the shell's task reads |
| shell (`shell.c`) | its line buffer, 256 bytes | `p -a`, `f -a/-c/-n/-d`, `t -a/-c/-n/-k` | keyboard, tasks, file system, page status |
| paging (`page.c`, `process.s`) | the frame bitmap, page directories and tables | `init_paging`, `get_page`, `alloc_frame`, `free_frame`, `clone_dir`, `expand`'s mapping | heap, multitasking |
| kernel heap (`kheap.c`, `sorted_array.c`, `kernel_malloc.c`) | headers and footers in the heap, the index of holes, `placement_address` | `create_heap`, `alloc`, `expand`, `free`, `contract` | paging; used by every other part |
| file system (`initrd.c`, `fs.c`) | the node array, `nfiles`, the file headers | `initialise_initrd`, open, close, readdir, finddir, read | shell |
| interrupts (`isr.c`, `interrupt.s`, `descriptor_tables.c`, `timer.c`) | handler table, PIC, IF | the stubs, `irq_handler`, `isr_handler`, registration | devices, handlers |
| console (`monitor.c`, `printf.c`) | the screen, the cursor | `monitor_put`, `vprintf` | everyone who prints |
| lock (`lock.c`) | one word | `spinlock_lock`, `spinlock_unlock` | nobody: it is not built |

How the parts meet: the clock interrupt enters `irq_handler()`, which
acknowledges it and calls `timer_callback()`, which calls `task_switch()`, which
may leave through another task's saved context. The keyboard interrupt writes
the ring that the shell's task reads. The shell's commands fork and kill tasks
and create and remove files. `fork()` clones the current page directory, which
takes memory from the heap and frames from the bitmap. Everything the kernel
allocates after `init_paging()` comes from the heap, and nothing is ever given
back.

### What is hard, and what makes each part correct

* **Multitasking.** Clock ticks fall anywhere outside `cli`/`sti`; contexts are
  saved in one place and loaded in another; the list changes under the rotation.
  Correct: the list holds the live tasks, a switch loads a context its task
  saved, a killed task stays dead, there is one shell, everyone gets a turn.
* **Keyboard.** `keyboard_getchar()` reads `start`, advances it, loads the
  character and masks `start` without holding off the interrupt. Correct: first
  in, first out, nothing overwritten while it is being taken, no bit stuck.
* **Paging.** Frames are handed out while directories are cloned from clones;
  the identity mapping allocates the tables it is mapping. Correct: one owner per
  frame, the kernel mapped in every task, stacks private and copied.
* **Heap.** Holes are split in front of and behind page-aligned blocks, with size
  fields that do not always say the distance to the next header. Correct: blocks
  are apart, holes are clear of them, aligned blocks are aligned.
* **Files.** One static `dirent`, `strcpy()` without a terminator, removal by
  shifting. Correct: a listing finds what it names, a removal keeps the others.
* **Interrupts.** A switch in the middle of an interrupt, two chained
  controllers, a controller byte that must be read. Correct: no line stays in
  service, requests arrive, keys get through.
* **Console.** Edge, tab, newline and scrolling move one cursor; numbers are built
  backwards in a buffer that the lowest int fills. Correct: the cursor stays on the
  screen, the screen shows the last lines, numbers read back. Only one task ever
  prints (the parent of `main()`'s fork and the shell's children loop for ever), so
  nothing interleaves here.
* **Shell.** One buffer serves all lines, cleared only after a known command and
  written without a terminator or a bound. Correct: what runs is what was typed and
  what the screen shows.

## Modules

| module | models | composed with |
|---|---|---|
| `Scheduler` | the rotation that multitasking promises: `ready`, `issued`, `running` | abstract; instantiated by `Tasks` |
| `Tasks` | `task.c` under the clock, the keyboard and the shell's commands | implements `Scheduler` |
| `TasksProofs` | theorems about `Tasks` | |
| `CharQueue` | the bounded queue that the keyboard buffer promises | abstract; instantiated by `Keyboard` |
| `Keyboard` | IRQ1 handler and reader of `keyboard.c` | implements `CharQueue` until an overrun |
| `KeyboardProofs` | theorems about `Keyboard`, the refinement of `CharQueue` among them | |
| `Paging` | `page.c`, the pages of `move_stack()`, the clone of `fork()` | |
| `PagingProofs` | theorems about `Paging`: frames and the kernel's mapping | |
| `PagingLayoutProofs` | theorems about `Paging`: which frame a page has, the stacks | extends `PagingProofs` |
| `KHeap` | `alloc()` of `kheap.c` with the kernel's requests | |
| `KHeapProofs` | theorems about `KHeap` | |
| `Interrupts` | `irq_handler()`, the stubs, the 8259As, the order of `main()` | |
| `InterruptsProofs` | theorems about `Interrupts` | |
| `Initrd` | `initrd.c` and the listing of `fs.c` | |
| `InitrdProofs` | theorems about `Initrd` | |
| `Teletype` | the end of an endless roll of paper, what a console promises | abstract; instantiated by `Monitor` |
| `Monitor` | `monitor.c`: the text memory, the cursor, `monitor_put()` | implements `Teletype`; extended by `Printf` and `Shell` |
| `Printf` | `vprintf()`, character by character and digit by digit | prints on `Monitor` |
| `Shell` | `init_shell()`, `scanf()`'s stores, `test_process()` | echoes on `Monitor` |
| `ConsoleProofs` | theorems about `Monitor`, `Printf` and `Shell`, the refinement of `Teletype` among them | |
| `MC...` | the instances for TLC | |

### Tasks

`head_task`, `cur_task`, `next_pid`, `cur_vm_page_dir` are the globals; `next` is
`pcb->next`. A pcb's saved registers are the place they resume (`ctx`); a stack is
the code it is in (`pc`). What the code does between `cli` and `sti` is one action.
`task_switch` is the clock interrupt, `main_fork` and `create_task` are the two
callers of `fork()`, `task_exit_pid` and `task_exit_pid_missing` the two ways
through that function, `other_command` any other line. A jump through a context
that is not the task's own is the code `"lost"`, so that the model would run into it.

### Keyboard

The handler runs with interrupts off and is one action per scancode: `release`,
`press_control` (first make code and typematic repeats), `press_character`. The
reader takes one step per access: `check`, `claim` (`start++`), `load`, `mask`,
`use`. The unoptimised build (`CFLAGS` has no `-O`) makes them in that order.
`lost` records that a write made a full buffer look empty.

### Paging

`dirs` and `pages` hold the directories and tables in the order they are made;
table entries are frame fields. `phase` says which loop runs and `i`, `clone` are
its counters; a step is one page of a loop. `frames` is the bitmap, `memory`
the content of frames, `placement` the placement address in pages.
`cur_vm_page_dir` follows `switch_page_directory()` and the task switch. When no
frame is left, `first_frame()` answers -1 and the bitmap write is outside what is
mapped: `page_fault` ends the run in phase `"fault"`.

### KHeap

Addresses and sizes are those of the source, in words. `index` is the array of
holes in array order (its comparison is never negative, so holes are inserted at
the front), each with the size field of its header, including what a footer wrote
over it. `pending` is the rest of the requests that one kernel function makes; no
other function allocates in between. `create_task`, `initrd_open` and
`initrd_close` enter their requests. `root_nodes` is where boot put the node array:
it is never moved, so a node that `initrd_open()` adds lies behind it, in a hole of
the heap. What keeps that node whole is the order of the holes: new ones are inserted
at the front and found first, so that no later request is served from this hole while
there is a page left behind the blocks. What bounds the nodes is the hole: it ends
where the page directory of `main()`'s fork begins, and on the kernel's addresses 17
nodes of 46 words fit. The 18th file is written over that directory:
`NodesClearInLead` says that nodes are clear of blocks exactly as long as they end
before that page. What the machine does then is not modelled, `Idle` accepts no
further command.

### Interrupts

`irr`, `master`, `slave` are the requests and lines in service of the two 8259As,
modelled from how `idt_init()` programs them; `irq` and `step` follow
`irq_handler()` through acknowledge, handler and return. `switch_away` is what a
`timer_callback()` does as soon as `init_multitask()` has made a task: it turns
interrupts on and goes on with a context, the same task's too. `unwinding` says that
this context is a `timer_callback()` itself, which returns (`unwind`) through
`irq_handler()` and the stub with interrupts on, so that other handlers are entered
meanwhile. `stage` follows `main()`. `cli` and `sti` are those of the kernel's
functions; nothing obliges a `sti` to follow, because `task_exit_pid()` can return
without one. `bytes` and `full` are the keyboard and its controller's output byte.

### Initrd

A name is a tuple of cells, because `strcpy()` copies no terminator, old characters
show behind a shorter name, and an empty one is copied with what lies behind it. A name
that fills its cells ends in a node at `mask`, which is 0, and goes on in the dirent
into `ino` (`DirentName`). `Garbage` is what the memory behind the
array may hold when `initrd_open()` begins to use it. `entry` is one round of
`print_all_file_content()`.

### Monitor and Teletype

`screen` is `video_memory`, `cursor_x` and `cursor_y`, a cell being its character.
`Applied`, `Wrapped` and `scroll` are the three parts of `monitor_put()` in order;
between them the cursor may be off the screen. The abstract `Teletype` has lines and
a column, no second coordinate and no memory below the line: the mapping takes the
rows down to the cursor's, so that the memory below must be blank when a line feed
reaches it.

### Printf

`fmt` and `ap` are what is still to be read, `u` and `buf` the division. `plain`,
`percent_c`, `string` and `dump` put one character each. An `int` is a word of `BITS`
bits, `-i` is taken in that width. A digit behind the end of `buf` would end the model
in `"overrun"`. `number` and `shown` record what was to be printed and what was.

### Shell

`stage` is where `init_shell()`'s loop is, `v` the buffer, `t_v` the pointer that
`scanf()` stores through, `key` one
character of a line, echoed and stored, backspaces included. `enter` runs
`test_process()`: `command` is what it did, with the operand it took from `v` (the
name copied by `memcpy()`, the pid's digit). Its `case 't'` ends without a return; the
build has no `-O`, so that `eax` still holds `thread_test()`'s result, which is what the
model returns. `known` clears the buffer, `unknown` does
not. `lines` records what was typed since the buffer was last cleared. A store behind
the buffer ends the model in `"overrun"`. What a command does is in `Tasks`, `KHeap` and
`Initrd`, where commands come in any order; what it prints is one of `Outputs`.

## Runs

| run | asks | bounds | states |
|---|---|---|---|
| `tasks` | do the tables stay consistent, do they implement the rotation, does everyone get a turn | six pids, two lines of type-ahead: tasks die at the front, middle and end of the list | 12453 |
| `tasks_runnable` | violated: does each task on the list run again | four pids | |
| `keyboard` | is the ring a queue, are modifiers released, does a line come back | four slots; a letter, Enter, F1, Ctrl, right Shift | 746091 |
| `keyboard_overrun` | violated: are overruns avoided | the same | |
| `kheap_alloc` | are blocks apart and aligned and holes clear of them, up to where are nodes behind their array, does a request that fits behind the blocks get a block | real sizes; 18 forks to the end of the heap, 18 file creations and a removal in any order before the first of them and after the fifteenth (`FileTimes`) | 31220 |
| `kheap_align` | violated: is what `alloc()` takes a hole that holds the block | 20 forks | |
| `paging_safety` | one owner, kernel mapped, stacks private | 13 frames, tables of 4 pages, 5 entries, 4 directories | 440320 |
| `interrupts_live` | is nothing left in service, do requests and keys arrive | lines 0, 1, 6 and 8, two bytes | 2552 |
| `interrupts_early_key` | violated: is the keyboard ready after its driver | one key during boot | |
| `initrd_safety` | does a listing find, does a removal keep | two files in the image, three nodes, four cells; an empty name, one of one letter and one of four | 996034 |
| `console` | do numbers read back and fit, is the screen a teletype's paper | two calls; every number of 5 bits in every conversion, every string of up to three of six characters; 2 rows of 4 | 145592 |
| `shell` | is what runs what was typed, and what is shown | 8 bytes, 14 lines of up to 9 characters, three lines without a known command; 2 rows of 10 | 13891 |

Why the bounds are enough: with six pids a kill can hit first, middle and last
positions with forks behind it; a ring of four slots wraps, fills and overruns
while a slot is claimed; 13 frames are used up by the second fork, so the run goes
to the end of memory; the heap runs on the
real numbers until it is used up: 16 forks go well, and the directory of the
seventeenth passes the size test of its hole and reaches outside the heap
(`kheap_align`), where `kheap_alloc` ends whatever file commands came between;
17 nodes fit behind their array, and `kheap_alloc` creates one more; file commands move
the next directory within its page, so that gaps in front of it differ, of one, two
and four words among them;
a slave line and a master line of lower priority than the keyboard cover both
acknowledgements; four cells hold an empty name, short ones with a stale suffix, `dev`, which
as in the source is shorter than the cells, and a name that fills them, with inode 0 after
all files were removed and with others; a third node is written over old memory and over
what a removal left;
five bits give the lowest int, whose three characters fill a buffer of three as eleven
fill the source's, and two rows of four are wrapped, tabbed over and scrolled by two
strings; the lines of `shell` are commands with and without operand, ones completed by
what an earlier line left, and ones of six, seven, eight and nine characters, the
lengths at which a copied name loses its terminator and the buffer ends.

Deadlock is not checked where the system may stop: killed or idle tasks with no
bound left (`Tasks`), the end of memory (`Paging`, `KHeap`), the bounds on
commands (`KHeap`, `Initrd`), calls (`Printf`) and lines (`Shell`), the store behind
the shell's buffer (`Shell`).

### What the violated runs show

* `t -k` with a pid that is not on the list returns between `cli` and `sti`
  (`task.c:194`): from then on there is no clock.
* The test of the keyboard ring against `start-1` fails for `start` 0
  (`keyboard.c:289`): the buffer then looks empty.
* `& 0x00000FFF != 0` is `& 1` (`kheap.c:23`): an aligned block may not fit. The
  property also rules out what happens when no hole fits: the scan is bounded by the
  index's capacity (`kheap.c:17`), so an empty entry is taken for a header at
  address 0.
* A key pressed before `init_keyboard_driver()` leaves the controller's byte unread
  for ever (`keyboard.c:213`).

More facts of the code that the models show, where the checked properties say
exactly how far what one would expect holds:

* The 18th file's node is written over the page directory in which the shell runs,
  because `initrd_open()` allocates room for it and does not use it (`initrd.c:73`).
  `NodesClearInLead` is an equivalence, both sides of which are true and false in
  states of `kheap_alloc`.
* In front of an aligned block a gap of one or two words can be left, to which
  `alloc()` gives a header and a footer all the same: the block's own header then
  writes `HEAP_MAGIC`, or 0, into the size of the hole. Thirteen file creations and a
  removal before a fork leave such a hole, which counts more words than the heap has.
  `BlocksDisjoint` and `HolesClearOfBlocks` are stated up to there (`LeadsWhole`).
* The terminator behind a name of 128 characters goes into the dirent's inode, which is
  assigned next (`initrd.c:47`): a listing finds no file of the longer name and goes on
  with a null pointer (`fs.c:70`). `ListedIsFound` is an equivalence, too.
* Keys without a character put `'\0'` into the ring, which `keyboard_getchar()` returns
  like "none"; the typematic repeat of a held Shift inverts its bit (`keyboard.c:272`).
* A backspace is stored in the line like any character, so an edited command is not
  known, and a short line may run with the tail of an unknown one (`f` after `x -n a`
  runs `f -n a`), which `CommandAsTyped` states exactly.
* Once a file was removed, `initrd_open()` may give a new file the inode of an old one,
  so that both show one content. No property forbids this, because nothing in the
  repository does; `OthersStay` has the inodes of the files that stay.

### Fairness

* `Tasks`: the processor executes `main()`'s boot code (weak fairness of
  `init_multitask`, `main_fork`) and the timer chip goes on ticking (weak
  fairness of `task_switch`); nothing masks IRQ0. `RoundRobin` adds the premise
  that interrupts are on again and again; without it the property is
  `RunnableRuns`, which fails.
* `Keyboard`: the shell's task runs on, which is `RoundRobin`. `LineReturned` is
  claimed of behaviours without an overrun.
* `Interrupts`: the processor finishes handlers, the keyboard's controller delivers its
  bytes (weak fairness), and a request that is again and again the most urgent one with
  interrupts on is taken (strong fairness). That interrupts come back on is no fairness
  of the code: `t -k` with an unknown pid turns them off for good (`tasks_runnable`). It
  is the premise of each property, with what a line needs of the lines of higher
  priority (`Unloaded`), which holds while handlers are short against the timer's 10 ms.

## Proofs

For every value of the constants, under the named assumptions of the modules. Most say
only that bounds are numbers of the right size. `LayoutAssumption` adds that the heap
begins behind the memory that boot used and that the stack is in tables above the
heap's, as the source's addresses are; `InitrdAssumption`, that a name is a sequence
of characters; `PrintfAssumption`, that calls pass the arguments that their formats name
(`Fits`), as those of the kernel do.

* **Tasks** (`TasksAssumption`: `MaxPid` is a positive number). Invariant:
  `TypeOK /\ Consistent /\ NoLostTask`. The list properties alone are not
  inductive: that a switch finds a saved context needs `ContextsSaved` (exactly the
  waiting tasks have one), and that a kill leaves no one out needs `Ordered`
  (list order is pid order, each task's successor is the next live pid). One
  lemma per action; from the invariant follow `KilledNeverRuns`, `ListIsLive` (the
  least live pid that is missing would be the successor of a listed one),
  `OneShell`, and that every step implements a step of `Scheduler` or a stutter.
* **Keyboard** (`KeyboardAssumption`: two slots or more). `TypeOK` needs `Cursor`:
  between `claim` and `mask`, `start` is `idx + 1` and may be `SIZE`. From it
  follows that the handler, which stops below `start`, never writes the claimed
  slot. `NoStuckModifier` holds because the keys whose bits count are those that
  break codes clear. `QueueUntilOverrun` (a ring of any size is the queue while
  `lost` is false) needs `ClaimsOne`: what `check` saw in the ring is still there at `claim`, unless an
  overrun came between. `Ring` is the run of slots from `start` to `end`,
  whichever way they lie; `Written` and `Taken` say what one more slot at the end and
  one less at the front do to it, `Masked` what `& (SIZE-1)` does to a cursor.
* **Paging** (`PagingAssumption`). `FramesPrivate` needs `FramesMarked`, because
  what `first_frame()` finds is only known to be unmarked; `KernelMapped` needs the
  clone in progress (`CopiedSoFar`: the entries behind it are linked; `Copying`: the
  entry whose table is copied is the source's own). One lemma per action; two
  lemmas state what giving one page one new frame, or none, does to ownership.
* **Paging layout** (`LayoutAssumption`). Which frame a page has follows from the
  order of boot: `EarlyLayout` says, phase by phase, that the frames marked are exactly those below
  a counter (so that the lowest free frame is the next page's own number), also while
  the identity mapping makes the tables it is filled with; `LateLayout`, that what
  boot mapped stays. `IdentityMapped` and `HeapContiguous` follow.
  `StacksIsolated` and `ChildStackIsCopy` need `TablesPrivate` (a table in two directories
  is the kernel's), `OwnTable` (the clone fills a new one), `StackMapped` (every task
  that runs has all stack pages) and `CopyFaithful` (each page of the clone so far has the
  content of its original).
* **Heap** (`KHeapAssumption`: the heap has room for a header and a footer, and is
  smaller than its address and than `HEAP_MAGIC` bytes, so that neither, written over a
  size field, counts too little). That blocks stay apart is false without a premise: the
  fit test of an aligned request does not count the padding (`kheap_align`), and the end
  of the heap is reached. The premise is about the state alone, not about what was
  requested: `RoomLeft`, a page is left behind the last block (`PageLeft`), and each
  aligned block has nothing in front of it or room for the header and footer that
  `alloc()` writes there (`LeadsWhole`). In every such state, however it was reached,
  `FirstIsLast` (the first hole of the index lies behind all blocks, and its size field
  counts no less than is left of the heap) and `LeadsBetween` (any other hole is what
  alignment left between blocks, and its size field tells no more words than it has) hold
  with `BlocksApart`; blocks are apart and holes clear of them. `RequestsAreServed` is
  the half of `FirstIsLast` that says the size field, from which `alloc()` takes three
  words too few for a lead and which footers are written over, never counts too little: a
  request that fits behind the blocks is served. For the nodes behind their array:
  from the order of boot's requests (`BootNodes`, `NodesToCome`) follows that the
  directory requested next is placed on the page behind the array and, with
  `FirstIsLast`, every later block behind it (`NodesBetween`), for any number of
  commands: `NodesClearInLead`, nodes that end before that page (`NodesInLead`) overlap
  nothing, and others overlap that directory. The kernel ensures no bound on them. The
  theorems have the premise `RoomLeft`; of it, `kheap_alloc` checks `BlocksDisjoint` and
  `HolesClearOfBlocks` under `LeadsWhole` alone.
* **Interrupts** (`InterruptsAssumption`). `NothingInService` needs `InService` (which line
  each controller has in service while a handler is before its acknowledgement)
  and `HandlersAlone` (from its entry to its return or to the switch a handler runs with
  interrupts off). A resumed `timer_callback()` runs with interrupts on and is interrupted
  by others; it was acknowledged before it was left.
* **Initrd** (`InitrdAssumption`). `ListedIsFound` needs `CellsRead`: a name
  copied into the static `dirent`, whatever that held, reads as it did before, up to the
  width of the cells; and `DirentReads`: that is the dirent's string, unless the name
  fills the cells and the inode behind them has a first byte; then it is too long to be any
  node's (`DirentRunsOn`), and `finddir_fs()` finds nothing. `OthersStay` is about
  the sequence without one element (`Removing`).
* **Monitor and Printf** (`MonitorAssumption`: the screen fits two uint8 cursors, glyphs
  are no control characters). `Sound` is the screen's type and `BlankBelow`: rows below
  the cursor's are blank. The refinement needs it, because a line feed above the last
  row prints nothing. `RowsApart` and `CellsApart` give the arithmetic of rows
  (`y * MONITOR_WIDTH + x` is one cell, for any width); `Feeding`, `Writing` and
  `Advancing` follow the three parts of `monitor_put()`; then every character, and every
  step of `vprintf()`, is a step of `Teletype` or a stutter, for any formats. The types of
  `Printf` need that what is left of the format fits what is left of the arguments
  (`FitsCharacter`, `FitsConversion`). `NumeralsFit` needs `Room`: a number still to be
  divided is below the power of ten for which there is room, and one character is left
  for the sign. `NumberReads` needs, while digits are made, that what is left times the
  radix, with the digits of `buf` taken one by one (`Expands`), gives the magnitude
  (`Left`, one division of which is `OneMore`), and while they are printed, that what is
  shown with what is left of `buf` read backwards is the numeral.
* **Shell** (`ShellAssumption`: the glyph set does not hold `'\0'`, no line holds a newline). The
  invariant says what the lines since the last known command spell when laid over each
  other (`Layers`), that `v` begins with it and is zero behind (`Holds`), that `t_v` is one behind
  what was typed, and that the cursor's row is the prompt and the line up to the
  cursor and blank behind it (`RowShows`); a newline gives that blank row because
  the screen is `Sound`. `Understood` relates the parser's reading of `v` to
  that of the text, with the copied name's terminator as the reason for `SIZE - 2`.

Induction over data: what a text does to the screen (`After`), what digits denote
(`Value`) and what lines over each other spell (`Overlaid`) are recursive functions
whose arguments are naturals. The library's induction theorems cannot be instantiated
here, but well-foundedness can be used directly: the set of naturals at which the fact
fails would have a least element (`LeastOf`), and the step before it gives the
contradiction (`ValueIs`, `Printing`, `OverlaidIs`).

Only model-checked: every liveness property (`RoundRobin`, `LineReturned`,
`RequestsAccepted`, `KeyboardReady`), because they are under fairness, which the prover
does not reach; and the properties that the runs show violated. Every other property of
the runs is a theorem.

## Not modelled

* Code without a caller: `task_exit()`, `kfree()` and below it `free`, `contract`,
  `free_frame`, `free_all_page` (which compare `p = 0`, lower `size` instead of
  `cur`, and pass an index for an address); `lock.c`, which is not linked.
* The expansion of the heap, which `alloc()` cannot reach (`kheap.c:17`).
* The copy of the boot stack by `move_stack()` and the relocation of the pointers in it
  (`task.c:12-37`); the pages it is copied into are in `Paging`.
* What happens after a file's node was written over a page directory: `KHeap` ends there;
  and what `fs.c:70` makes of a null pointer: in `Initrd` the listing goes on or ends.
* Names of more than 128 characters, which overwrite the fields behind them in `Initrd`'s
  nodes.
* What a store behind the shell's buffer does to the heap: `Shell` stops there. Its
  commands are chosen freely in `Tasks`, `KHeap` and `Initrd`.
* The colours of the screen and the position sent to the video controller; the texts
  of messages, of which `Shell` keeps that something is printed.
* Exceptions other than the page fault: `isr_handler()` prints them.
* What a name of more than 16 characters, written behind the end of `root_nodes`, does
  to the heap: it overwrites the size of the hole there. Shorter ones overwrite a
  footer and the part of a header that `alloc()` does not read.
* The content of files; `read` and `write` are pure and called with one size.
* The encoding of the GDT and IDT, the multiboot header, the build scripts.

## Plan

Done, in order of importance: `Tasks` with `Scheduler` and its proofs; `Keyboard`
with `CharQueue` and its proofs; `KHeap`; `Paging` and its proofs; `Interrupts`;
`Initrd`; `Monitor` with `Teletype`, `Printf` and their proofs; `Shell`. Then the proofs
of `Paging`'s layout and stacks, `KHeap`, `Interrupts`, `Initrd`, the keyboard's queue,
`printf()`'s arguments, buffer and numbers, the shell's lines and the nodes behind their
array.

Next:

1. Composition: `Tasks` with `Paging`, so that a fork's directory and the list of
   tasks are one state and "the child returns into its own copy of the stack" is
   derived instead of modelled.
