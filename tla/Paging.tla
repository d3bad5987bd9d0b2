------------------------------- MODULE Paging -------------------------------
(***************************************************************************)
(* page.c: the frame bitmap, the kernel's page directory vm_page_dir, the  *)
(* directories cloned from it for the tasks, and the private tables that   *)
(* move_stack() gives a task's stack.                                      *)
(*                                                                         *)
(* Directories and tables are numbered in the order they are made; an      *)
(* entry of a directory is a table or NULL, an entry of a table is the     *)
(* frame field of its page_struct, where 0 is "no frame".  A step is one   *)
(* page of one of the loops, so that each step allocates at most one       *)
(* frame; no task switch falls into any of them: there is no task yet, or  *)
(* interrupts are off.                                                     *)
(***************************************************************************)
EXTENDS Naturals, Sequences, FiniteSets

CONSTANTS FRAMES,     \* frames of physical memory, FRAME_COUNT
          PAGES,      \* pages of a table, 1024 in the source
          ENTRIES,    \* entries of a directory
          KERNEL,     \* pages below placement_address when init_paging() starts
                      \* with the bitmap and vm_page_dir in place
          HEAP,       \* the directory entry of KHEAP_START
          HEAP_PAGES, \* pages of the heap's initial size, in one table
          STACK,      \* move_stack()'s pages in order: <<entry, page>>
          DATA,       \* what a page of a stack may hold
          MaxDirs     \* bound: directories made

NULL == 0
NONE == 0           \* page->frame of a page that has none
BAD  == FRAMES      \* first_frame() = -1, no frame of physical memory

ASSUME PagingAssumption ==
  /\ {FRAMES, PAGES, ENTRIES, KERNEL, HEAP_PAGES, MaxDirs} \subseteq Nat \ {0}
  /\ HEAP \in 0..(ENTRIES - 1) /\ HEAP_PAGES <= PAGES
  /\ STACK \in Seq((0..(ENTRIES - 1)) \X (0..(PAGES - 1)))
  /\ DATA # {}

\* The heap begins above the kernel and the tables that map it, the stacks above
\* the heap's table: KHEAP_START and move_stack()'s address.
ASSUME LayoutAssumption ==
  /\ KERNEL + 2 + HEAP <= HEAP * PAGES
  /\ \A k \in DOMAIN STACK : STACK[k][1] > HEAP

Frames  == 0..(FRAMES - 1)
Entries == 0..(ENTRIES - 1)
Indexes == 0..(PAGES - 1)
VM      == 1                        \* vm_page_dir is the first directory

VARIABLES
  frames,     \* the frames whose bit is set
  dirs,       \* the page_table array of each directory
  pages,      \* the pages array of each table
  cur_vm_page_dir,
  memory,     \* what the frames hold
  placement,  \* placement_address, in pages
  phase,      \* which loop runs
  i,          \* its counter
  clone       \* clone_dir(): source, copy, entry, page of the entry's table

kernel == <<frames, dirs, pages>>
vars == <<kernel, cur_vm_page_dir, memory, placement, phase, i, clone>>

Phases == {"tables", "identity", "heap", "clone", "stack", "run", "fork", "fault"}

TypeOK ==
  /\ frames \subseteq Frames
  /\ dirs \in Seq([Entries -> 0..Len(pages)])
  /\ pages \in Seq([Indexes -> Frames])
  /\ cur_vm_page_dir \in DOMAIN dirs
  /\ memory \in [Frames -> DATA]
  /\ placement \in Nat /\ i \in Nat
  /\ phase \in Phases
  /\ clone \in [src : DOMAIN dirs, dst : DOMAIN dirs, entry : 0..ENTRIES,
                page : 0..PAGES, table : BOOLEAN]

NoTable == [x \in Indexes |-> NONE]
NoDir   == [e \in Entries |-> NULL]

Init ==
  /\ frames = {}
  /\ dirs = <<NoDir>> /\ pages = <<>>
  /\ cur_vm_page_dir = VM
  /\ memory \in [Frames -> DATA]
  /\ placement = KERNEL
  /\ phase = "tables" /\ i = 0
  /\ clone = [src |-> VM, dst |-> VM, entry |-> 0, page |-> 0, table |-> FALSE]

-----------------------------------------------------------------------------
\* set_frame()
MutReplaces(f) == {f}
MutTwoBits(f) == frames \cup {f, f + 1}
Marked(f) == frames \cup {f}

\* first_frame(): the lowest frame whose bit is clear.
MutHighest ==
  IF Frames \subseteq frames THEN BAD
  ELSE CHOOSE f \in Frames \ frames : \A g \in Frames \ frames : g <= f
first_frame ==
  IF Frames \subseteq frames THEN BAD
  ELSE CHOOSE f \in Frames \ frames : \A g \in Frames \ frames : f <= g

Has(d, e, x) == dirs[d][e] # NULL /\ pages[dirs[d][e]][x] # NONE

\* alloc_frame(get_page(entry e, page x, make, directory d)): a missing table is
\* made first; a page that has a frame keeps it.  (init_paging() never runs out
\* of frames: it maps little of the 16 MB.)
get_page_and_alloc_frame(d, e, x) ==
  /\ Has(d, e, x) \/ first_frame # BAD
  /\ IF dirs[d][e] = NULL
     THEN /\ dirs' = [dirs EXCEPT ![d][e] = Len(pages) + 1]
          /\ pages' = Append(pages, [NoTable EXCEPT ![x] = first_frame])
     ELSE /\ dirs' = dirs
          /\ pages' = IF Has(d, e, x) THEN pages
                      ELSE [pages EXCEPT ![dirs[d][e]][x] = first_frame]
  /\ frames' = IF Has(d, e, x) THEN frames ELSE Marked(first_frame)

\* init_paging(): the heap's table and the heap_t are the last things put at
\* placement_address, apart from the tables of the identity mapping itself.
AfterHeapTable == KERNEL + 2
init_heap_table ==
  /\ phase = "tables" /\ phase' = "identity" /\ i' = 0
  /\ dirs' = [dirs EXCEPT ![VM][HEAP] = Len(pages) + 1] /\ pages' = Append(pages, NoTable)
  /\ placement' = AfterHeapTable
  /\ UNCHANGED <<frames, cur_vm_page_dir, memory, clone>>

\* while (i < placement_address): each new table moves placement_address on.
MutStopAtKernel == i < AfterHeapTable
IdentityGoesOn == i < placement
identity_map ==
  /\ phase = "identity"
  /\ IF IdentityGoesOn
     THEN /\ i \div PAGES \in Entries
          /\ get_page_and_alloc_frame(VM, i \div PAGES, i % PAGES)
          /\ placement' = placement + (Len(pages') - Len(pages))
          /\ i' = i + 1 /\ phase' = phase
     ELSE /\ phase' = "heap" /\ i' = 0
          /\ UNCHANGED <<kernel, placement>>
  /\ UNCHANGED <<cur_vm_page_dir, memory, clone>>

\* clone_dir(src) begins with a new, empty directory.
begin_clone(src) ==
  /\ Len(dirs) < MaxDirs
  /\ dirs' = Append(dirs, NoDir)
  /\ clone' = [src |-> src, dst |-> Len(dirs) + 1, entry |-> 0, page |-> 0, table |-> FALSE]
  /\ UNCHANGED <<frames, pages>>

map_heap ==
  /\ phase = "heap"
  /\ IF i < HEAP_PAGES
     THEN /\ get_page_and_alloc_frame(VM, HEAP, i)
          /\ i' = i + 1 /\ UNCHANGED <<phase, clone>>
     ELSE /\ begin_clone(VM)
          /\ phase' = "clone" /\ i' = 0
  /\ UNCHANGED <<cur_vm_page_dir, memory, placement>>

\* init_multitask(): the pages that move_stack() gives the first task's directory.
\* What it then copies there, and the pointers it relocates, are not modelled.
move_stack ==
  /\ phase = "stack"
  /\ IF i < Len(STACK)
     THEN /\ get_page_and_alloc_frame(cur_vm_page_dir, STACK[i + 1][1], STACK[i + 1][2])
          /\ i' = i + 1 /\ phase' = phase
     ELSE phase' = "run" /\ i' = 0 /\ UNCHANGED kernel
  /\ UNCHANGED <<cur_vm_page_dir, memory, placement, clone>>

-----------------------------------------------------------------------------
Cloning == phase \in {"clone", "fork"}
MutNotLinked == NULL
Source == dirs[clone.src][clone.entry]

\* An entry that is empty or the same as vm_page_dir's is linked.
MutLinkAll(e) == TRUE
Linked(e) == dirs[clone.src][e] \in {NULL, dirs[VM][e]}
link_table ==
  /\ Cloning /\ clone.entry \in Entries /\ Linked(clone.entry)
  /\ dirs' = [dirs EXCEPT ![clone.dst][clone.entry] = Source]
  /\ clone' = [clone EXCEPT !.entry = @ + 1]
  /\ UNCHANGED <<frames, pages, cur_vm_page_dir, memory, placement, phase, i>>

\* clone_table() for any other entry: a new table, ...
new_table ==
  /\ Cloning /\ clone.entry \in Entries /\ ~Linked(clone.entry) /\ ~clone.table
  /\ pages' = Append(pages, NoTable)
  /\ dirs' = [dirs EXCEPT ![clone.dst][clone.entry] = Len(pages) + 1]
  /\ clone' = [clone EXCEPT !.table = TRUE, !.page = 0]
  /\ UNCHANGED <<frames, cur_vm_page_dir, memory, placement, phase, i>>

\* ... and a frame with the source page's content for each page that has one.
MutCopyNothing(from, to) == memory
copy_page_phy(from, to) == [memory EXCEPT ![to] = memory[from]]
SourceFrame == pages[Source][clone.page]
clone_page ==
  /\ Cloning /\ clone.table /\ clone.page \in Indexes
  /\ clone' = [clone EXCEPT !.page = @ + 1]
  /\ IF SourceFrame = NONE
     THEN UNCHANGED <<frames, pages, memory>>
     ELSE /\ first_frame # BAD
          /\ pages' = [pages EXCEPT ![dirs[clone.dst][clone.entry]][clone.page] = first_frame]
          /\ frames' = Marked(first_frame)
          /\ memory' = copy_page_phy(SourceFrame, first_frame)
  /\ UNCHANGED <<dirs, cur_vm_page_dir, placement, phase, i>>

\* Without a frame, set_frame(-1) writes beyond what is mapped, now that paging
\* is on; page_fault() never returns.
page_fault ==
  /\ first_frame = BAD
  /\ \/ phase = "stack" /\ i < Len(STACK) /\ ~Has(cur_vm_page_dir, STACK[i + 1][1], STACK[i + 1][2])
     \/ Cloning /\ clone.table /\ clone.page \in Indexes /\ SourceFrame # NONE
  /\ phase' = "fault"
  /\ UNCHANGED <<kernel, cur_vm_page_dir, memory, placement, i, clone>>

end_table ==
  /\ Cloning /\ clone.table /\ clone.page = PAGES
  /\ clone' = [clone EXCEPT !.entry = @ + 1, !.table = FALSE, !.page = 0]
  /\ UNCHANGED <<kernel, cur_vm_page_dir, memory, placement, phase, i>>

\* clone_dir() returns: init_paging() switches to the clone, fork() does not.
end_clone ==
  /\ Cloning /\ clone.entry = ENTRIES
  /\ IF phase = "clone"
     THEN phase' = "stack" /\ cur_vm_page_dir' = clone.dst
     ELSE phase' = "run" /\ UNCHANGED cur_vm_page_dir
  /\ UNCHANGED <<kernel, memory, placement, i, clone>>

\* fork()
fork ==
  /\ phase = "run" /\ phase' = "fork"
  /\ begin_clone(cur_vm_page_dir)
  /\ UNCHANGED <<cur_vm_page_dir, memory, placement, i>>

\* task_switch() and task_exit_pid(): cr3 and cur_vm_page_dir become another
\* task's.  vm_page_dir is no task's.
switch ==
  /\ phase = "run"
  /\ cur_vm_page_dir' \in (DOMAIN dirs) \ {VM}
  /\ UNCHANGED <<kernel, memory, placement, phase, i, clone>>

\* The frame of the k-th page of a task's stack.
StackPage(d, k) == pages[dirs[d][STACK[k][1]]][STACK[k][2]]

\* The running task stores into a page of its stack.
store ==
  /\ phase = "run"
  /\ \E k \in DOMAIN STACK, v \in DATA :
       memory' = [memory EXCEPT ![StackPage(cur_vm_page_dir, k)] = v]
  /\ UNCHANGED <<kernel, cur_vm_page_dir, placement, phase, i, clone>>

Next ==
  \/ init_heap_table \/ identity_map \/ map_heap \/ move_stack
  \/ link_table \/ new_table \/ clone_page \/ page_fault \/ end_table \/ end_clone
  \/ fork \/ switch \/ store

Spec == Init /\ [][Next]_vars

-----------------------------------------------------------------------------
Allocated == {p \in (DOMAIN pages) \X Indexes : pages[p[1]][p[2]] # NONE}

(* No frame is given to two pages: neither two tasks' stacks nor a stack   *)
(* and the kernel ever share memory (alloc_frame under clone_table and     *)
(* move_stack), up to the frame that is not there.                         *)
FramesPrivate ==
  \A p, q \in Allocated : pages[p[1]][p[2]] = pages[q[1]][q[2]] => p = q

(* A frame in use is marked in the bitmap.                                 *)
FramesMarked == \A p \in Allocated : pages[p[1]][p[2]] \in frames

(* The directories a task can run on: finished clones, other than the one  *)
(* a page fault left unfinished.                                           *)
Ready ==
  {d \in DOMAIN dirs : d # VM /\ ~(phase \in {"clone", "fork", "fault"} /\ d = clone.dst)}

(* Every task's directory maps the kernel and its heap through the tables  *)
(* of vm_page_dir, so an interrupt or a switch finds its code, its stack   *)
(* of pcbs and the other directories whichever task runs (clone_dir).      *)
KernelMapped ==
  \A d \in Ready, e \in Entries : dirs[VM][e] # NULL => dirs[d][e] = dirs[VM][e]

\* Page x of the low region and its frame field.
Low(x) == pages[dirs[VM][x \div PAGES]][x % PAGES]

(* Once init_paging() has mapped it, everything below placement_address is *)
(* mapped to itself, the tables that were made on the way included: paging *)
(* is turned on with page_table_phy and cr3 holding such addresses.        *)
IdentityMapped ==
  phase \notin {"tables", "identity"} =>
    \A x \in 0..(placement - 1) : dirs[VM][x \div PAGES] # NULL /\ Low(x) = x

(* Neighbouring heap pages have neighbouring frames: clone_dir takes       *)
(* phyAddr + 0x1000 for the second page of a directory.                    *)
HeapContiguous ==
  phase \notin {"tables", "identity", "heap"} =>
    \A x \in 1..(HEAP_PAGES - 1) :
      pages[dirs[VM][HEAP]][x] = pages[dirs[VM][HEAP]][x - 1] + 1

StackOf(d) == [k \in DOMAIN STACK |-> memory[StackPage(d, k)]]

(* A task's stack changes only while it is the one that runs: stores of    *)
(* the others, and their forks, leave it alone.                            *)
StacksIsolated ==
  [][\A d \in Ready :
       phase \in {"run", "fork"} /\ d # cur_vm_page_dir =>
         StackOf(d)' = StackOf(d)]_vars

(* When fork()'s clone_dir() returns, the child's stack reads like the     *)
(* parent's, page by page.                                                 *)
ChildStackIsCopy ==
  [][phase = "fork" /\ phase' = "run" => StackOf(clone.dst) = StackOf(clone.src)]_vars
=============================================================================
