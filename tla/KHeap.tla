------------------------------- MODULE KHeap --------------------------------
(***************************************************************************)
(* The kernel heap: kheap.c's alloc() over the index of holes kept by      *)
(* sorted_array.c, called through kernel_malloc.c for what the kernel      *)
(* allocates: a page directory, page tables and a pcb per fork(), nodes    *)
(* per file command.                                                       *)
(*                                                                         *)
(* Addresses and sizes are counted in 4-byte words; every request is a     *)
(* multiple of a word.  Sizes are uint32 bytes, so words wrap at 2^30.     *)
(* free() is not here: nothing that runs calls kfree().                    *)
(***************************************************************************)
EXTENDS Integers, Sequences, SequencesExt

CONSTANTS PAGE,         \* words of a page, 1024 in the source
          START, END,   \* heap->start_address and end_address
          DIR, TABLE,   \* words of a page directory and of a page table
          PCB, NODE, NAME, \* words of a pcb, a file node, a shell buffer
          STACK_TABLES, \* page tables of a task's own, for its stack
          InitialFiles, \* nfiles of the initrd image
          MaxForks,     \* bound: "t -n" commands
          MaxOpens,     \* bound: "f -n" commands
          MaxCloses,    \* bound: "f -d" commands
          FileTimes     \* bound: numbers of forks after which files are changed

HEADER == 3   \* is_hole, magic, size
FOOTER == 2   \* magic, header
MAGIC  == 76424234   \* HEAP_MAGIC, 0x123890AB bytes, taken as a size
Word(n) == n % (2^30)

ASSUME KHeapAssumption ==
  /\ {PAGE, START, END, DIR, TABLE, PCB, NODE, NAME} \subseteq Nat \ {0}
  /\ {STACK_TABLES, InitialFiles, MaxForks, MaxOpens, MaxCloses} \subseteq Nat
  /\ START + HEADER + FOOTER < END /\ END < 2^30
  /\ END - START <= START /\ END - START <= MAGIC

VARIABLES
  index,     \* the holes of heap->index in array order: position, size field
  blocks,    \* what alloc() handed out: position of the header, words, align
  pending,   \* requests of the running kernel function still to be made
  root_nodes,  \* the words of the node array, 0 before there is one
  nfiles, forks, opens, closes,
  state      \* "ok", or how alloc() ended

vars == <<index, blocks, pending, root_nodes, nfiles, forks, opens, closes, state>>

\* A directory or table begins on a page, as cr3 and page_table_phy need.
Block(b) ==
  /\ b \in [pos : Nat, words : Nat, align : BOOLEAN]
  /\ b.align => (b.pos + HEADER) % PAGE = 0

TypeOK ==
  /\ index \in Seq([pos : Nat, size : Nat])
  /\ \A b \in blocks : Block(b)
  /\ pending \in Seq([words : Nat, align : BOOLEAN])
  /\ root_nodes \in Nat /\ nfiles \in Nat
  /\ forks \in 0..MaxForks /\ opens \in 0..MaxOpens /\ closes \in 0..MaxCloses
  /\ state \in {"ok", "null hole", "fault"}

-----------------------------------------------------------------------------
\* The requests of the kernel's functions, in order.
Plain(words)   == [words |-> words, align |-> FALSE]
Aligned(words) == [words |-> words, align |-> TRUE]

clone_dir == <<Aligned(DIR)>> \o [i \in 1..STACK_TABLES |-> Aligned(TABLE)]
fork == clone_dir \o <<Plain(PCB)>>

\* init_paging()'s clone, whose tables are all vm_page_dir's; move_stack()'s
\* tables and init_multitask()'s pcb; the initrd's nodes; main()'s fork(); the
\* shell's line.
boot ==
  <<Aligned(DIR)>> \o [i \in 1..STACK_TABLES |-> Aligned(TABLE)] \o
  <<Plain(PCB), Plain(NODE), Plain(NODE), Plain(NODE * InitialFiles)>> \o
  fork \o <<Plain(NAME)>>

Init ==
  /\ index = <<[pos |-> START, size |-> END - START]>>
  /\ blocks = {} /\ pending = boot /\ root_nodes = 0
  /\ nfiles = InitialFiles /\ forks = 0 /\ opens = 0 /\ closes = 0 /\ state = "ok"

-----------------------------------------------------------------------------
\* The size field of the header at h after a footer has been written at f.
Overwritten(h, f, size) ==
  IF f = h + 2 THEN MAGIC ELSE IF f = h + 1 THEN h ELSE size

\* find_hole_fit_first(): the indexes it may stop at before the empty entries.
\* (location + 12) & 0x00000FFF != 0 is (location + 12) & 1, which is 0 for
\* every header, so alignment plays no part.
Fitting(new) == {i \in DOMAIN index : new <= index[i].size}

\* insert_sorted_array(): the comparison is never negative, so the item goes to
\* the front.
MutInsertLast(hole, s) == Append(s, hole)
insert_sorted_array(hole, s) == <<hole>> \o s

Gap(pos) == PAGE - ((pos + HEADER) % PAGE)

\* Where the block's header goes in a hole at pos.
MutHeaderAligned(pos, align) ==
  IF align THEN pos + (PAGE - (pos % PAGE)) ELSE pos
Placed(pos, align) ==
  IF align /\ (pos + HEADER) % PAGE # 0 THEN pos + Gap(pos) ELSE pos

\* A remainder too small for a header and a footer goes to the block.
Absorbed(hole, new) == IF hole.size - new < HEADER + FOOTER THEN hole.size - new ELSE 0

\* The size field in front of an aligned block when alloc() takes it off the
\* hole's: three words less than there are, and footer is written by then.
LeadSize(hole, pos) ==
  Overwritten(hole.pos, pos - FOOTER, Word(Gap(hole.pos) - HEADER))

\* What is left in front: the block's header, written last, may lie over the
\* size field with its magic or its is_hole, which is 0.
MutLeadToBlock(hole, pos) ==
  [pos |-> hole.pos, size |-> Gap(hole.pos) + HEADER]
Lead(hole, pos) ==
  [pos  |-> hole.pos,
   size |-> CASE pos = hole.pos + 1 -> MAGIC
              [] pos = hole.pos + 2 -> 0
              [] OTHER -> LeadSize(hole, pos)]

\* The hole behind a block of new words at pos, carved from left words.
MutTailInsideBlock(pos, new, left) ==
  [pos |-> pos + new - HEADER - FOOTER, size |-> Word(left - new)]
MutCountedTwice(pos, new, left) ==
  [pos |-> pos + new, size |-> Word(left - new - new)]
Rest(pos, new, left) ==
  LET at     == pos + new
      footer == pos + left - new - FOOTER
      size   == Word(left - new)
  IN  [pos  |-> at,
       size |-> IF footer < END THEN Overwritten(at, footer, size) ELSE size]

InHeap(block) == START <= block.pos /\ block.pos + block.words <= END

\* The request of initialise_initrd() for root_nodes: main()'s fork() and the
\* shell's line come after it.
AllocatesNodes == root_nodes = 0 /\ Len(pending) = Len(fork) + 2

\* alloc() with the hole of entry i.
take(i, request) ==
  LET hole == index[i]
      new  == request.words + HEADER + FOOTER + Absorbed(hole, request.words + HEADER + FOOTER)
      pos  == Placed(hole.pos, request.align)
      left == IF pos = hole.pos THEN hole.size ELSE Word(hole.size - LeadSize(hole, pos))
      kept == IF pos = hole.pos THEN RemoveAt(index, i)
              ELSE [index EXCEPT ![i] = Lead(hole, pos)]
      block == [pos |-> pos, words |-> new, align |-> request.align]
  IN  /\ blocks' = blocks \cup {block}
      /\ root_nodes' = IF AllocatesNodes THEN pos + HEADER ELSE root_nodes
      /\ index' = IF left > new THEN insert_sorted_array(Rest(pos, new, left), kept)
                  ELSE kept
      /\ state' = IF InHeap(block) THEN "ok" ELSE "fault"

\* The next request of the function that runs.  With no hole that fits, the
\* scan goes on over the empty entries of the index: NULL is a header at
\* physical address 0, whose size field lies in the BIOS vectors.
alloc ==
  /\ state = "ok" /\ pending # <<>>
  /\ pending' = Tail(pending)
  /\ LET request == Head(pending)
         fits == Fitting(request.words + HEADER + FOOTER)
     IN IF fits = {}
        THEN state' = "null hole" /\ UNCHANGED <<index, blocks, root_nodes>>
        ELSE take(CHOOSE i \in fits : \A j \in fits : i <= j, request)
  /\ UNCHANGED <<nfiles, forks, opens, closes>>

Apart(a, b) == a.pos + a.words <= b.pos \/ b.pos + b.words <= a.pos

(* The nodes that initrd_open() writes behind the array it never moves     *)
(* overlap no block that _malloc() has handed out for something else.      *)
NodesClearOfBlocks ==
  LET behind == [pos |-> root_nodes + NODE * InitialFiles,
                 words |-> NODE * (nfiles - InitialFiles)]
  IN  nfiles > InitialFiles =>
        \A b \in blocks : b.pos + HEADER = root_nodes \/ Apart(behind, b)

\* The shell waits for a command.  Once a node lies over a page directory, what
\* the next command asks for depends on what the node holds: the model ends.
Idle ==
  /\ state = "ok" /\ pending = <<>> /\ NodesClearOfBlocks
  /\ UNCHANGED <<index, blocks, root_nodes, state>>

\* "t -n"
create_task ==
  /\ Idle /\ forks < MaxForks
  /\ forks' = forks + 1 /\ pending' = fork
  /\ UNCHANGED <<nfiles, opens, closes>>

\* "f -n".  Behind the array a node is written over the array's footer and the
\* header of the hole there, and over the next page's block when there are too
\* many.  A name of at most 16 characters leaves that header's size, the one
\* field alloc() reads; longer names are outside this model.
initrd_open ==
  /\ Idle /\ opens < MaxOpens /\ forks \in FileTimes
  /\ opens' = opens + 1 /\ nfiles' = nfiles + 1
  /\ pending' = <<Plain(NAME), Plain(NODE * nfiles')>>
  /\ UNCHANGED <<forks, closes>>

\* "f -d", while there is a file.
initrd_close ==
  /\ Idle /\ closes < MaxCloses /\ forks \in FileTimes /\ nfiles > 0
  /\ closes' = closes + 1 /\ nfiles' = nfiles - 1
  /\ pending' = <<Plain(NAME), Plain(NODE * nfiles')>>
  /\ UNCHANGED <<forks, opens>>

Next == alloc \/ create_task \/ initrd_open \/ initrd_close

Spec == Init /\ [][Next]_vars

-----------------------------------------------------------------------------
\* Where a block ends, or the heap begins.
Ends == {START} \cup {b.pos + b.words : b \in blocks}

\* Nothing blocks have taken reaches into the last page of the heap.
PageLeft == \A e \in Ends : e + PAGE + HEADER + FOOTER <= END

\* In front of each aligned block there is nothing, or room for the header and
\* the footer that alloc() writes there.
LeadsWhole ==
  \A b \in blocks, e \in Ends : b.align => e >= b.pos \/ e + HEADER + FOOTER <= b.pos

RoomLeft == PageLeft /\ LeadsWhole

(* No two blocks that alloc() returned overlap, headers and footers        *)
(* included, until a block's header has been written over the hole that    *)
(* alignment left in front of it.                                          *)
BlocksApart == \A a, b \in blocks : a = b \/ Apart(a, b)
BlocksDisjoint == LeadsWhole => BlocksApart

(* Until then no indexed hole reaches into a block, whatever mix of        *)
(* aligned and plain requests split it: the next alloc() cannot hand out   *)
(* used memory.                                                            *)
HolesApart ==
  \A i \in DOMAIN index, b \in blocks :
    Apart([pos |-> index[i].pos, words |-> index[i].size], b)
HolesClearOfBlocks == LeadsWhole => HolesApart

(* While there is a page left behind the blocks, the nodes behind their    *)
(* array are clear of blocks exactly as long as they end before the page   *)
(* that follows the array: no later request, of whatever mix of forks and  *)
(* file commands, is served from the hole that they lie in, and the page   *)
(* is a directory's, that of main()'s fork.                                *)
NodesInLead ==
  nfiles > InitialFiles =>
    root_nodes + NODE * nfiles <= Placed(root_nodes + NODE * InitialFiles + FOOTER, TRUE)
NodesClearInLead == RoomLeft => (NodesClearOfBlocks <=> NodesInLead)

(* alloc() does not fail early: a request for which there is room behind   *)
(* the last block, with a page for alignment, gets a block inside the      *)
(* mapped heap, though size fields count words that are not there.         *)
RoomFor(request) ==
  \A e \in Ends : e + request.words + PAGE + 2 * (HEADER + FOOTER) <= END
RequestsServed == [][alloc /\ RoomFor(Head(pending)) /\ LeadsWhole => state' = "ok"]_vars

(* kheap.c:8-10, find the first fit hole one by one and notice whether it  *)
(* is page aligned: what alloc() takes is a hole of the index, with room   *)
(* for the block where alignment puts it.                                  *)
HoleFitsAligned ==
  [][/\ state' # "null hole"
     /\ \A b \in blocks' \ blocks :
          \E i \in DOMAIN index :
            /\ index[i].pos <= b.pos
            /\ b.pos + b.words <= index[i].pos + index[i].size]_vars
=============================================================================
