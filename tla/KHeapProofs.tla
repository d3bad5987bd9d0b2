---------------------------- MODULE KHeapProofs ----------------------------
(***************************************************************************)
(* Proofs about KHeap for a heap of any place and size, any page and any   *)
(* number of requests: its types, and with them that what alloc() places   *)
(* for a page directory or a page table begins on a page; that blocks,     *)
(* holes and the nodes behind their array are apart in every state with    *)
(* words left behind the last block; and that a request which the words    *)
(* behind the blocks can hold is served, whatever was served before it.    *)
(*                                                                         *)
(* In a state without such words they need not be: the fit test knows      *)
(* nothing of alignment, and an aligned block may reach behind the hole it *)
(* was taken from.                                                         *)
(***************************************************************************)
EXTENDS KHeap, SequenceTheorems, WellFoundedInduction, NaturalsInduction, TLAPS

Hole    == [pos : Nat, size : Nat]
Request == [words : Nat, align : BOOLEAN]

(* Every nonempty set of naturals has a least element.                     *)
LEMMA LeastOf == ASSUME NEW S \in SUBSET Nat, S # {}
                 PROVE  \E f \in S : \A g \in S : f <= g
<1> DEFINE R == {ss \in Nat \X Nat : ss[1] < ss[2]}
<1>1. IsWellFoundedOn(R, Nat)
  BY NatLessThanWellFounded DEF OpToRel
<1>2. PICK f \in S : \A g \in S : ~(<<g, f>> \in R)
  <2> HIDE DEF R
  <2> QED BY <1>1, WFMin
<1>3. ASSUME NEW g \in S PROVE f <= g
  <2>1. f \in Nat /\ g \in Nat /\ ~(<<g, f>> \in R)
    BY <1>2
  <2>2. ~(g < f)
    BY <2>1
  <2> QED BY <2>1, <2>2
<1> QED BY <1>3

-----------------------------------------------------------------------------
(* Words of 32-bit sizes stay naturals, also when a difference wraps.      *)
LEMMA WordIsNat == \A n \in Int : Word(n) \in Nat
BY DEF Word

(* A whole number of pages leaves nothing of a page.                       *)
LEMMA MultipleOf == ASSUME NEW P \in Nat \ {0}, NEW q \in Nat
                    PROVE  (q * P) % P = 0
OBVIOUS

(* The next multiple of a page is what is left of this page away.          *)
LEMMA NextPage ==
  ASSUME NEW P \in Nat \ {0}, NEW x \in Nat
  PROVE  /\ (x % P) \in 0..(P - 1)
         /\ (x + (P - (x % P))) % P = 0
<1>1. PICK q \in Nat, r \in 0..(P - 1) : x = q * P + r /\ r = x % P
  <2>1. /\ x = (x \div P) * P + (x % P)
        /\ x \div P \in Nat /\ (x % P) \in 0..(P - 1)
    OBVIOUS
  <2> QED BY <2>1
<1>2. x + (P - (x % P)) = (q + 1) * P
  BY <1>1
<1>3. ((q + 1) * P) % P = 0
  BY MultipleOf
<1> QED BY <1>1, <1>2, <1>3

(* An aligned block's first word, behind the header, begins a page.        *)
LEMMA PlacedAligned ==
  ASSUME NEW pos \in Nat, NEW align \in BOOLEAN
  PROVE  /\ Gap(pos) \in Nat /\ Placed(pos, align) \in Nat
         /\ align => (Placed(pos, align) + HEADER) % PAGE = 0
<1>1. PAGE \in Nat \ {0} /\ HEADER = 3
  BY KHeapAssumption DEF HEADER
<1>2. PICK x \in Nat : x = pos + HEADER
  BY <1>1
<1>3. (x % PAGE) \in 0..(PAGE - 1) /\ (x + (PAGE - (x % PAGE))) % PAGE = 0
  BY <1>1, NextPage
<1>4. PICK gap \in Nat : gap = Gap(pos) /\ gap = PAGE - (x % PAGE)
  <2>1. Gap(pos) = PAGE - (x % PAGE)
    BY <1>2 DEF Gap
  <2>2. PAGE - (x % PAGE) \in Nat
    <3> DEFINE r == x % PAGE
    <3>1. r \in 0..(PAGE - 1)
      BY <1>3
    <3> HIDE DEF r
    <3>2. PAGE - r \in Nat
      BY <1>1, <3>1
    <3> QED BY <3>2 DEF r
  <2> QED BY <2>1, <2>2
<1>5. (pos + gap) + HEADER = x + gap
  BY <1>1, <1>2
<1>6. CASE align /\ (x % PAGE) # 0
  <2>1. Placed(pos, align) = pos + gap
    BY <1>2, <1>4, <1>6 DEF Placed
  <2> QED BY <1>3, <1>4, <1>5, <2>1
<1>7. CASE ~(align /\ (x % PAGE) # 0)
  <2>1. Placed(pos, align) = pos
    BY <1>2, <1>7 DEF Placed
  <2> QED BY <1>2, <1>4, <1>7, <2>1
<1> QED BY <1>6, <1>7

(* No more than a page is left free for alignment.                         *)
LEMMA GapWithin == ASSUME NEW pos \in Nat PROVE Gap(pos) <= PAGE
<1>1. PAGE \in Nat \ {0} /\ pos + HEADER \in Nat
  BY KHeapAssumption DEF HEADER
<1>2. PICK r \in 0..(PAGE - 1) : r = ((pos + HEADER) % PAGE)
  BY <1>1, NextPage
<1>3. Gap(pos) = PAGE - r
  BY <1>2 DEF Gap
<1> QED BY <1>1, <1>2, <1>3

(* A hole's size field is a natural, whatever footer was written into it.  *)
LEMMA OverwrittenIsNat ==
  ASSUME NEW h \in Nat, NEW f, NEW size \in Nat
  PROVE  Overwritten(h, f, size) \in Nat
BY DEF Overwritten, MAGIC

(* What alignment leaves in front of a block is an entry of the index.     *)
LEMMA LeadIsHole ==
  ASSUME NEW hole \in Hole, NEW pos \in Nat
  PROVE  LeadSize(hole, pos) \in Nat /\ Lead(hole, pos) \in Hole
<1>1. hole.pos \in Nat /\ Gap(hole.pos) \in Nat
  BY PlacedAligned DEF Hole
<1>2. Word(Gap(hole.pos) - HEADER) \in Nat
  BY <1>1, WordIsNat DEF HEADER
<1>3. Overwritten(hole.pos, pos - FOOTER, Word(Gap(hole.pos) - HEADER)) \in Nat
  BY <1>1, <1>2, OverwrittenIsNat
<1>4. LeadSize(hole, pos) \in Nat
  BY <1>3 DEF LeadSize
<1>5. PICK size \in Nat :
        size = CASE pos = hole.pos + 1 -> MAGIC
                 [] pos = hole.pos + 2 -> 0
                 [] OTHER -> LeadSize(hole, pos)
  <2>1. CASE pos = hole.pos + 1
    BY <1>1, <2>1 DEF MAGIC
  <2>2. CASE pos = hole.pos + 2
    BY <1>1, <2>2
  <2>3. CASE pos # hole.pos + 1 /\ pos # hole.pos + 2
    BY <1>4, <2>3
  <2> QED BY <2>1, <2>2, <2>3
<1>6. Lead(hole, pos) = [pos |-> hole.pos, size |-> size]
  BY <1>5, Zenon DEF Lead
<1> QED BY <1>1, <1>4, <1>5, <1>6 DEF Hole

(* What a block leaves behind it is an entry of the index.                 *)
LEMMA RestIsHole ==
  ASSUME NEW pos \in Nat, NEW new \in Nat, NEW left \in Nat
  PROVE  Rest(pos, new, left) \in Hole
<1>1. pos + new \in Nat /\ Word(left - new) \in Nat
  BY WordIsNat
<1>2. Overwritten(pos + new, pos + left - new - FOOTER, Word(left - new)) \in Nat
  BY <1>1, OverwrittenIsNat
<1> QED BY <1>1, <1>2 DEF Rest, Hole

(* Removing an entry of the index leaves an index.                         *)
LEMMA Removed ==
  ASSUME NEW s \in Seq(Hole), NEW k \in DOMAIN s
  PROVE  RemoveAt(s, k) \in Seq(Hole)
<1>1. k \in 1..Len(s) /\ Len(s) \in Nat
  BY LenProperties
<1>2. \A j \in 1..Len(s) : s[j] \in Hole
  BY LenProperties
<1>3. SubSeq(s, 1, k - 1) \in Seq(Hole) /\ SubSeq(s, k + 1, Len(s)) \in Seq(Hole)
  <2>1. \A j \in 1..(k - 1) : s[j] \in Hole
    BY <1>1, <1>2
  <2>2. \A j \in (k + 1)..Len(s) : s[j] \in Hole
    BY <1>1, <1>2
  <2> QED BY <1>1, <2>1, <2>2, SubSeqProperties
<1> QED BY <1>3, ConcatProperties DEF RemoveAt

-----------------------------------------------------------------------------
(* What the kernel's functions ask for.                                    *)
LEMMA Requests ==
  ASSUME NEW n \in Nat
  PROVE  /\ fork \in Seq(Request) /\ boot \in Seq(Request)
         /\ <<Plain(NAME), Plain(NODE * n)>> \in Seq(Request)
<1>1. \A w \in Nat : Plain(w) \in Request /\ Aligned(w) \in Request
  BY DEF Plain, Aligned, Request
<1>2. /\ {DIR, TABLE, PCB, NODE, NAME} \subseteq Nat
      /\ STACK_TABLES \in Nat /\ InitialFiles \in Nat
  BY KHeapAssumption
<1>3. NODE * n \in Nat /\ NODE * InitialFiles \in Nat
  BY <1>2
<1> DEFINE tables == [k \in 1..STACK_TABLES |-> Aligned(TABLE)]
           nodes == NODE * InitialFiles
           plains == <<Plain(PCB), Plain(NODE), Plain(NODE), Plain(nodes)>>
<1>4. tables \in Seq(Request)
  BY <1>1, <1>2
<1>5. <<Aligned(DIR)>> \in Seq(Request) /\ <<Plain(PCB)>> \in Seq(Request)
      /\ <<Plain(NAME)>> \in Seq(Request)
  BY <1>1, <1>2
<1>6. plains \in Seq(Request)
  <2> HIDE DEF nodes
  <2>1. nodes \in Nat
    BY <1>3 DEF nodes
  <2>2. Plain(PCB) \in Request /\ Plain(NODE) \in Request /\ Plain(nodes) \in Request
    BY <1>1, <1>2, <2>1
  <2> QED BY <2>2
<1>7. <<Plain(NAME), Plain(NODE * n)>> \in Seq(Request)
  <2>1. Plain(NAME) \in Request /\ Plain(NODE * n) \in Request
    BY <1>1, <1>2, <1>3
  <2> QED BY <2>1
<1> HIDE DEF tables, plains, nodes
<1>8. clone_dir \in Seq(Request) /\ clone_dir = <<Aligned(DIR)>> \o tables
  BY <1>4, <1>5, ConcatProperties DEF clone_dir, tables
<1>9. fork \in Seq(Request)
  BY <1>5, <1>8, ConcatProperties DEF fork
<1>10. boot = <<Aligned(DIR)>> \o tables \o plains \o fork \o <<Plain(NAME)>>
  BY DEF boot, tables, plains, nodes
<1>11. boot \in Seq(Request)
  <2>1. <<Aligned(DIR)>> \o tables \in Seq(Request)
    BY <1>8
  <2>2. <<Aligned(DIR)>> \o tables \o plains \in Seq(Request)
    BY <1>6, <2>1, ConcatProperties
  <2>3. <<Aligned(DIR)>> \o tables \o plains \o fork \in Seq(Request)
    BY <1>9, <2>2, ConcatProperties
  <2> QED BY <1>5, <1>10, <2>3, ConcatProperties
<1> QED BY <1>7, <1>9, <1>11

(* The kernel's first requests, of the one hole there is.                  *)
LEMMA InitTypes == Init => TypeOK
<1> SUFFICES ASSUME Init PROVE TypeOK
  OBVIOUS
<1>1. START \in Nat /\ END - START \in Nat /\ InitialFiles \in Nat
      /\ MaxForks \in Nat /\ MaxOpens \in Nat /\ MaxCloses \in Nat
  BY KHeapAssumption DEF HEADER, FOOTER
<1>2. index \in Seq([pos : Nat, size : Nat])
  BY <1>1 DEF Init
<1>3. pending \in Seq([words : Nat, align : BOOLEAN])
  BY Requests DEF Init, Request
<1>4. blocks = {} /\ root_nodes = 0 /\ nfiles = InitialFiles /\ forks = 0
      /\ opens = 0 /\ closes = 0 /\ state = "ok"
  BY DEF Init
<1> QED BY <1>1, <1>2, <1>3, <1>4 DEF TypeOK

(* alloc() with a hole that fits: what it leaves of the hole, and where    *)
(* the block is.                                                           *)
LEMMA Take ==
  ASSUME TypeOK, NEW request \in Request, NEW k \in DOMAIN index,
         request.words + HEADER + FOOTER <= index[k].size, take(k, request)
  PROVE  /\ index' \in Seq(Hole) /\ \A b \in blocks' : Block(b)
         /\ root_nodes' \in Nat /\ state' \in {"ok", "null hole", "fault"}
<1>1. index \in Seq(Hole) /\ \A b \in blocks : Block(b)
  BY DEF TypeOK, Hole
<1>2. PICK hole \in Hole : hole = index[k]
  BY <1>1, LenProperties
<1>3. hole.pos \in Nat /\ hole.size \in Nat
  BY <1>2 DEF Hole
<1>4. request.words \in Nat /\ request.align \in BOOLEAN
  BY DEF Request
<1>5. PICK new \in Nat :
        new = request.words + HEADER + FOOTER + Absorbed(hole, request.words + HEADER + FOOTER)
  BY <1>2, <1>3, <1>4 DEF Absorbed, HEADER, FOOTER
<1>6. PICK pos \in Nat : pos = Placed(hole.pos, request.align)
  BY <1>3, <1>4, PlacedAligned
<1>7. PICK left \in Nat :
        left = IF pos = hole.pos THEN hole.size ELSE Word(hole.size - LeadSize(hole, pos))
  <2>1. hole.size - LeadSize(hole, pos) \in Int
    BY <1>2, <1>3, LeadIsHole DEF Hole
  <2> QED BY <1>3, <2>1, WordIsNat
<1>8. PICK kept \in Seq(Hole) :
        kept = IF pos = hole.pos THEN RemoveAt(index, k)
               ELSE [index EXCEPT ![k] = Lead(hole, pos)]
  <2>1. RemoveAt(index, k) \in Seq(Hole)
    BY <1>1, Removed
  <2>2. [index EXCEPT ![k] = Lead(hole, pos)] \in Seq(Hole)
    BY <1>1, <1>2, LeadIsHole, ExceptSeq
  <2> QED BY <2>1, <2>2
<1>9. PICK block : block = [pos |-> pos, words |-> new, align |-> request.align]
  OBVIOUS
<1>10. /\ blocks' = blocks \cup {block}
       /\ root_nodes' = IF AllocatesNodes THEN pos + HEADER ELSE root_nodes
       /\ index' = IF left > new THEN insert_sorted_array(Rest(pos, new, left), kept)
                   ELSE kept
       /\ state' = IF InHeap(block) THEN "ok" ELSE "fault"
  BY <1>2, <1>5, <1>6, <1>7, <1>8, <1>9 DEF take
<1>11. index' \in Seq(Hole)
  <2>1. insert_sorted_array(Rest(pos, new, left), kept) \in Seq(Hole)
    <3>1. PICK rest \in Hole : rest = Rest(pos, new, left)
      BY RestIsHole
    <3>2. <<rest>> \in Seq(Hole)
      OBVIOUS
    <3> QED BY <3>1, <3>2, ConcatProperties DEF insert_sorted_array
  <2> QED BY <1>10, <2>1
<1>12. Block(block)
  <2>1. block \in [pos : Nat, words : Nat, align : BOOLEAN]
    BY <1>4, <1>9
  <2>2. block.align => (block.pos + HEADER) % PAGE = 0
    BY <1>3, <1>4, <1>6, <1>9, PlacedAligned
  <2> QED BY <2>1, <2>2 DEF Block
<1>13. \A b \in blocks' : Block(b)
  BY <1>1, <1>10, <1>12
<1>14. root_nodes' \in Nat
  <2>1. pos + HEADER \in Nat /\ root_nodes \in Nat
    <3>1. root_nodes \in Nat
      BY DEF TypeOK
    <3>2. pos + HEADER \in Nat
      BY DEF HEADER
    <3> QED BY <3>1, <3>2
  <2>2. root_nodes' = pos + HEADER \/ root_nodes' = root_nodes
    BY <1>10, Zenon
  <2> QED BY <2>1, <2>2
<1> QED BY <1>10, <1>11, <1>13, <1>14

(* alloc() of the next request, from the first hole that fits it.          *)
LEMMA Alloc == ASSUME TypeOK, alloc PROVE TypeOK'
<1>1. pending \in Seq(Request) /\ pending # <<>> /\ index \in Seq(Hole)
  BY DEF TypeOK, alloc, Request, Hole
<1>2. PICK request \in Request : request = Head(pending)
  BY <1>1, HeadTailProperties
<1>3. pending' \in Seq([words : Nat, align : BOOLEAN])
  BY <1>1, HeadTailProperties DEF alloc, Request
<1>4. UNCHANGED <<nfiles, forks, opens, closes>>
  BY DEF alloc
<1>5. PICK fits : fits = Fitting(request.words + HEADER + FOOTER)
  OBVIOUS
<1>6. CASE fits = {}
  <2>1. state' = "null hole" /\ UNCHANGED <<index, blocks, root_nodes>>
    BY <1>2, <1>5, <1>6 DEF alloc
  <2> QED BY <1>3, <1>4, <2>1 DEF TypeOK
<1>7. CASE fits # {}
  <2>1. fits \subseteq DOMAIN index /\ fits \in SUBSET Nat
    BY <1>1, <1>5, LenProperties DEF Fitting
  <2>2. \E k \in fits : \A j \in fits : k <= j
    BY <1>7, <2>1, LeastOf
  <2>3. PICK k \in fits : k = CHOOSE h \in fits : \A j \in fits : h <= j
    BY <2>2
  <2>4. take(k, request)
    BY <1>2, <1>5, <1>7, <2>3 DEF alloc
  <2>5. k \in DOMAIN index /\ request.words + HEADER + FOOTER <= index[k].size
    BY <1>5, <2>1 DEF Fitting
  <2>6. /\ index' \in Seq(Hole) /\ \A b \in blocks' : Block(b)
        /\ root_nodes' \in Nat /\ state' \in {"ok", "null hole", "fault"}
    BY <2>4, <2>5, Take
  <2> QED BY <1>3, <1>4, <2>6 DEF TypeOK, Hole
<1> QED BY <1>6, <1>7

(* A command of the shell queues its function's requests.                  *)
LEMMA Commands ==
  ASSUME TypeOK, create_task \/ initrd_open \/ initrd_close PROVE TypeOK'
<1>1. UNCHANGED <<index, blocks, root_nodes, state>>
  BY DEF create_task, initrd_open, initrd_close, Idle
<1>2. /\ nfiles \in Nat /\ MaxForks \in Nat /\ MaxOpens \in Nat /\ MaxCloses \in Nat
      /\ forks \in 0..MaxForks /\ opens \in 0..MaxOpens /\ closes \in 0..MaxCloses
  BY KHeapAssumption DEF TypeOK
<1>3. CASE create_task
  <2>1. pending' = fork /\ forks' = forks + 1 /\ forks < MaxForks
        /\ UNCHANGED <<nfiles, opens, closes>>
    BY <1>3 DEF create_task
  <2>2. pending' \in Seq([words : Nat, align : BOOLEAN])
    BY <2>1, Requests DEF Request
  <2>3. forks' \in 0..MaxForks
    BY <1>2, <2>1
  <2> QED BY <1>1, <2>1, <2>2, <2>3 DEF TypeOK
<1>4. CASE initrd_open \/ initrd_close
  <2>1. /\ pending' = <<Plain(NAME), Plain(NODE * nfiles')>> /\ UNCHANGED forks
        /\ \/ /\ nfiles' = nfiles + 1 /\ closes' = closes
              /\ opens' = opens + 1 /\ opens < MaxOpens
           \/ /\ nfiles' = nfiles - 1 /\ nfiles > 0 /\ opens' = opens
              /\ closes' = closes + 1 /\ closes < MaxCloses
    BY <1>4 DEF initrd_open, initrd_close
  <2>2. nfiles' \in Nat
    BY <1>2, <2>1
  <2>3. pending' \in Seq([words : Nat, align : BOOLEAN])
    BY <2>1, <2>2, Requests DEF Request
  <2>4. opens' \in 0..MaxOpens /\ closes' \in 0..MaxCloses
    BY <1>2, <2>1
  <2> QED BY <1>1, <2>1, <2>2, <2>3, <2>4 DEF TypeOK
<1> QED BY <1>3, <1>4

(* TypeOK of the KHeap module for any heap: sizes stay words though they   *)
(* wrap and footers are written over them, and each page directory and     *)
(* page table that alloc() placed begins on a page.                        *)
THEOREM TypeCorrectness == Spec => []TypeOK
<1>1. TypeOK /\ [Next]_vars => TypeOK'
  <2>1. TypeOK /\ UNCHANGED vars => TypeOK'
    BY DEF vars, TypeOK
  <2> QED BY <2>1, Alloc, Commands DEF Next
<1> QED BY <1>1, InitTypes, PTL DEF Spec

-----------------------------------------------------------------------------
(***************************************************************************)
(* Blocks and holes are apart while there is a page left behind the blocks *)
(* and room for a header and a footer in front of the aligned ones         *)
(* (RoomLeft).  The first hole then lies behind all blocks, its size field *)
(* counts at least the words to the end of the heap, and the other holes   *)
(* are what alignment left between blocks, whose size fields tell no more  *)
(* words than they have, and never more than a page.                       *)
(***************************************************************************)
Words(hole) == [pos |-> hole.pos, words |-> hole.size]

FirstIsLast ==
  /\ index # <<>> /\ index[1].size < 2^30 /\ START <= index[1].pos
  /\ \A b \in blocks : b.pos + b.words <= index[1].pos
  /\ index[1].pos \in Ends
  /\ END - index[1].pos <= index[1].size

\* A hole that alignment left lies before the first and among no blocks.
LeftOver(hole, first) ==
  /\ hole.size <= PAGE /\ hole.pos + hole.size <= first.pos
  /\ \A b \in blocks : Apart(Words(hole), b)

LeadsBetween == \A k \in DOMAIN index : k # 1 => LeftOver(index[k], index[1])

HInv == FirstIsLast /\ LeadsBetween /\ BlocksApart

(* More blocks leave less room.                                            *)
LEMMA RoomWas == ASSUME blocks \subseteq blocks' PROVE RoomLeft' => RoomLeft
<1>1. Ends \subseteq Ends'
  BY DEF Ends
<1> QED BY <1>1 DEF RoomLeft, PageLeft, LeadsWhole

(* A difference that does not wrap is its word.                            *)
LEMMA WordIs == \A n \in Nat : n < 2^30 => Word(n) = n
BY DEF Word

(* The index without its first entry.                                      *)
LEMMA RemovedFirst ==
  ASSUME NEW s \in Seq(Hole), s # <<>>
  PROVE  /\ RemoveAt(s, 1) \in Seq(Hole) /\ Len(RemoveAt(s, 1)) = Len(s) - 1
         /\ \A k \in 1..(Len(s) - 1) : RemoveAt(s, 1)[k] = s[k + 1]
<1>1. PICK n \in Nat : n = Len(s) /\ n > 0 /\ \A k \in 1..n : s[k] \in Hole
  BY LenProperties, EmptySeq
<1>2. /\ SubSeq(s, 2, n) \in Seq(Hole) /\ Len(SubSeq(s, 2, n)) = n - 1
      /\ \A k \in 1..(n - 1) : SubSeq(s, 2, n)[k] = s[k + 1]
  <2>1. /\ SubSeq(s, 2, n) \in Seq(Hole)
        /\ Len(SubSeq(s, 2, n)) = IF 2 <= n THEN n - 2 + 1 ELSE 0
        /\ \A k \in 1..(n - 2 + 1) : SubSeq(s, 2, n)[k] = s[2 + k - 1]
    <3>1. \A k \in 2..n : s[k] \in Hole
      BY <1>1
    <3> QED BY <1>1, <3>1, SubSeqProperties
  <2>2. n - 2 + 1 = n - 1 /\ \A k \in 1..(n - 1) : 2 + k - 1 = k + 1
    BY <1>1
  <2>3. Len(SubSeq(s, 2, n)) = n - 1
    BY <1>1, <2>1
  <2> QED BY <2>1, <2>2, <2>3
<1>3. RemoveAt(s, 1) = SubSeq(s, 2, n)
  <2>1. SubSeq(s, 1, 0) = <<>>
    BY <1>1
  <2>2. RemoveAt(s, 1) = SubSeq(s, 1, 0) \o SubSeq(s, 2, n)
    BY <1>1 DEF RemoveAt
  <2> QED BY <1>2, <2>1, <2>2, ConcatEmptySeq
<1> QED BY <1>1, <1>2, <1>3

(* An entry put in front.                                                  *)
LEMMA PutInFront ==
  ASSUME NEW s \in Seq(Hole), NEW hole \in Hole
  PROVE  /\ insert_sorted_array(hole, s) \in Seq(Hole)
         /\ insert_sorted_array(hole, s) # <<>> /\ insert_sorted_array(hole, s)[1] = hole
         /\ \A k \in DOMAIN insert_sorted_array(hole, s) :
              k # 1 => k - 1 \in DOMAIN s /\ insert_sorted_array(hole, s)[k] = s[k - 1]
<1>1. <<hole>> \in Seq(Hole) /\ Len(<<hole>>) = 1 /\ <<hole>>[1] = hole
  OBVIOUS
<1>2. PICK q \in Seq(Hole) : /\ q = <<hole>> \o s /\ Len(q) = 1 + Len(s)
                             /\ \A k \in 1..(1 + Len(s)) :
                                  q[k] = IF k <= 1 THEN <<hole>>[k] ELSE s[k - 1]
  <2> DEFINE h == <<hole>>
  <2>1. h \in Seq(Hole) /\ Len(h) = 1
    BY <1>1
  <2> HIDE DEF h
  <2>2. PICK q \in Seq(Hole) : q = h \o s
    BY <2>1, ConcatProperties
  <2>3. Len(q) = 1 + Len(s)
    BY <2>1, <2>2, ConcatProperties
  <2>4. ASSUME NEW k \in 1..(1 + Len(s))
        PROVE  q[k] = IF k <= 1 THEN h[k] ELSE s[k - 1]
    <3>1. \A j \in 1..(Len(h) + Len(s)) :
            (h \o s)[j] = IF j <= Len(h) THEN h[j] ELSE s[j - Len(h)]
      BY <2>1, ConcatProperties, Zenon
    <3> QED BY <2>1, <2>2, <3>1
  <2> QED BY <2>2, <2>3, <2>4 DEF h
<1>3. Len(s) \in Nat /\ DOMAIN s = 1..Len(s) /\ DOMAIN q = 1..(1 + Len(s))
  BY <1>2, LenProperties
<1>4. q # <<>> /\ q[1] = hole
  BY <1>1, <1>2, <1>3, EmptySeq
<1>5. ASSUME NEW k \in DOMAIN q, k # 1 PROVE k - 1 \in DOMAIN s /\ q[k] = s[k - 1]
  BY <1>2, <1>3, <1>5
<1> QED BY <1>1, <1>2, <1>4, <1>5 DEF insert_sorted_array

(* alloc() takes the first hole if any: with a page left behind the        *)
(* blocks, that one fits whatever a hole in front of a block fits.         *)
LEMMA TakesFirst ==
  ASSUME TypeOK, HInv, PageLeft, alloc
  PROVE  \E request \in Request :
           /\ request = Head(pending) /\ 1 \in DOMAIN index /\ index[1] \in Hole
           /\ \/ /\ request.words + HEADER + FOOTER > index[1].size
                 /\ state' = "null hole" /\ UNCHANGED <<index, blocks, root_nodes>>
              \/ /\ request.words + HEADER + FOOTER <= index[1].size
                 /\ take(1, request)
<1>1. pending \in Seq(Request) /\ pending # <<>> /\ index \in Seq(Hole) /\ index # <<>>
  BY DEF HInv, TypeOK, alloc, Request, Hole, FirstIsLast
<1>2. PICK request \in Request : request = Head(pending)
  BY <1>1, HeadTailProperties
<1>3. 1 \in DOMAIN index /\ DOMAIN index \in SUBSET Nat /\ \A k \in DOMAIN index : 1 <= k
  <2>1. Len(index) \in Nat \ {0} /\ DOMAIN index = 1..Len(index)
    BY <1>1, LenProperties, EmptySeq
  <2> QED BY <2>1
<1>4. /\ \A k \in DOMAIN index : index[k] \in Hole
      /\ index[1].pos \in Nat /\ index[1].size \in Nat /\ request.words \in Nat
      /\ PAGE \in Nat /\ END \in Nat
  <2>1. \A k \in DOMAIN index : index[k] \in Hole
    BY <1>1, LenProperties
  <2> QED BY <1>3, <2>1, KHeapAssumption DEF Hole, Request
<1>5. PAGE + 5 <= index[1].size
  <2>1. index[1].pos + PAGE + HEADER + FOOTER <= END
    BY DEF HInv, FirstIsLast, PageLeft
  <2>2. END - index[1].pos <= index[1].size
    BY DEF HInv, FirstIsLast
  <2> QED BY <1>4, <2>1, <2>2 DEF HEADER, FOOTER
<1>6. PICK new \in Nat : new = request.words + HEADER + FOOTER
  BY <1>4 DEF HEADER, FOOTER
<1>7. PICK fits : fits = Fitting(new)
  OBVIOUS
<1>8. CASE new <= index[1].size
  <2>1. 1 \in fits /\ fits \subseteq DOMAIN index
    BY <1>3, <1>7, <1>8 DEF Fitting
  <2>2. 1 = CHOOSE h \in fits : \A j \in fits : h <= j
    <3>1. \A j \in fits : 1 <= j
      BY <1>3, <2>1
    <3>2. ASSUME NEW h \in fits, \A j \in fits : h <= j PROVE h = 1
      <4>1. h \in Nat /\ h <= 1 /\ 1 <= h
        BY <1>3, <2>1, <3>2
      <4> QED BY <4>1
    <3> QED BY <2>1, <3>1, <3>2
  <2>3. take(CHOOSE h \in fits : \A j \in fits : h <= j, request)
    BY <1>2, <1>6, <1>7, <2>1 DEF alloc
  <2>4. take(1, request)
    BY <2>2, <2>3
  <2> QED BY <1>2, <1>3, <1>4, <1>6, <1>8, <2>4
<1>9. CASE new > index[1].size
  <2>1. fits = {}
    <3>1. ASSUME NEW k \in fits PROVE FALSE
      <4>1. k \in DOMAIN index /\ new <= index[k].size
        BY <1>7 DEF Fitting
      <4>2. k # 1 /\ index[k].size \in Nat
        BY <1>4, <1>6, <1>9, <4>1 DEF Hole
      <4>3. index[k].size <= PAGE
        BY <4>1, <4>2 DEF HInv, LeadsBetween, LeftOver
      <4> QED BY <1>4, <1>5, <1>6, <1>9, <4>1, <4>2, <4>3
    <3> QED BY <3>1
  <2>2. state' = "null hole" /\ UNCHANGED <<index, blocks, root_nodes>>
    BY <1>2, <1>6, <1>7, <2>1 DEF alloc
  <2> QED BY <1>2, <1>3, <1>4, <1>6, <1>9, <2>2
<1>10. new <= index[1].size \/ new > index[1].size
  BY <1>4, <1>6
<1> QED BY <1>8, <1>9, <1>10

(* What the hole in front of an aligned block is, and what is left behind. *)
LEMMA LeadIs ==
  ASSUME NEW hole \in Hole, hole.size < 2^30, NEW words \in Nat,
         words + Gap(hole.pos) <= hole.size, Gap(hole.pos) >= 5
  PROVE  LET pos == hole.pos + Gap(hole.pos)
             lead == Lead(hole, pos)
         IN  /\ lead.pos = hole.pos /\ lead.size <= PAGE /\ lead.pos + lead.size <= pos
             /\ Word(hole.size - LeadSize(hole, pos)) = hole.size - Gap(hole.pos) + 3
<1> DEFINE pos == hole.pos + Gap(hole.pos)
<1>1. hole.pos \in Nat /\ hole.size \in Nat /\ PAGE \in Nat \ {0}
  BY KHeapAssumption DEF Hole
<1>2. PICK gap \in Nat : gap = Gap(hole.pos) /\ gap <= PAGE /\ gap >= 5
  <2>1. Gap(hole.pos) \in Nat /\ Gap(hole.pos) <= PAGE
    BY <1>1, PlacedAligned, GapWithin
  <2> QED BY <2>1
<1>3. Word(gap - HEADER) = gap - 3
  <2>1. gap - 3 \in Nat /\ gap - 3 < 2^30 /\ gap - HEADER = gap - 3
    BY <1>1, <1>2 DEF HEADER
  <2> QED BY <2>1, WordIs
<1>4. PICK p \in Nat : p = hole.pos + gap /\ p = pos
  BY <1>1, <1>2
<1>5. LeadSize(hole, p) = gap - 3
  <2>1. p - FOOTER # hole.pos + 2 /\ p - FOOTER # hole.pos + 1
    BY <1>1, <1>2, <1>4 DEF FOOTER
  <2>2. Overwritten(hole.pos, p - FOOTER, gap - 3) = gap - 3
    BY <2>1 DEF Overwritten
  <2> QED BY <1>2, <1>3, <2>2 DEF LeadSize
<1>6. Lead(hole, p) = [pos |-> hole.pos, size |-> gap - 3]
  <2>1. p # hole.pos + 1 /\ p # hole.pos + 2
    BY <1>1, <1>2, <1>4
  <2> QED BY <1>5, <2>1 DEF Lead
<1>7. Word(hole.size - (gap - 3)) = hole.size - gap + 3
  <2>1. hole.size - (gap - 3) \in Nat /\ hole.size - (gap - 3) < 2^30
        /\ hole.size - (gap - 3) = hole.size - gap + 3
    BY <1>1, <1>2
  <2> QED BY <2>1, WordIs
<1>8. Lead(hole, pos).pos = hole.pos /\ Lead(hole, pos).size = gap - 3
  BY <1>4, <1>6
<1>9. hole.pos + (gap - 3) <= hole.pos + gap /\ gap - 3 <= PAGE
  BY <1>1, <1>2
<1> QED BY <1>2, <1>4, <1>5, <1>7, <1>8, <1>9

(* That hole begins where the block ends; its size is a word, and the words *)
(* behind the block, or more when a footer was written over it.            *)
LEMMA RestIs ==
  ASSUME NEW pos \in Nat, NEW new \in Nat, NEW left \in Nat,
         START <= pos, new <= left, left < 2^30, END <= pos + left
  PROVE  /\ Rest(pos, new, left).pos = pos + new /\ Rest(pos, new, left).size < 2^30
         /\ END - (pos + new) <= Rest(pos, new, left).size
<1>1. START \in Nat /\ END \in Nat /\ END < 2^30 /\ MAGIC \in Nat /\ MAGIC < 2^30
      /\ END - START <= START /\ END - START <= MAGIC
  BY KHeapAssumption DEF MAGIC
<1>2. PICK w \in Nat : w = Word(left - new) /\ w = left - new /\ w < 2^30
  <2>1. left - new \in Nat /\ left - new < 2^30
    OBVIOUS
  <2> QED BY <2>1, WordIs
<1>3. PICK at \in Nat : at = pos + new /\ START <= at
  BY <1>1
<1>4. PICK f \in Int : f = pos + left - new - FOOTER
  BY DEF FOOTER
<1>5. PICK size : size = IF f < END THEN Overwritten(at, f, w) ELSE w
  OBVIOUS
<1>6. size = w \/ size = MAGIC \/ (f < END /\ f = at + 1 /\ size = at)
  BY <1>5 DEF Overwritten
<1>7. size \in Nat /\ size < 2^30 /\ END - at <= size
  <2>1. CASE size = w
    BY <1>1, <1>2, <1>3, <2>1
  <2>2. CASE size = MAGIC
    BY <1>1, <1>3, <2>2
  <2>3. CASE f < END /\ f = at + 1 /\ size = at
    BY <1>1, <1>3, <2>3
  <2> QED BY <1>6, <2>1, <2>2, <2>3
<1>8. Rest(pos, new, left) = [pos |-> at, size |-> size]
  BY <1>2, <1>3, <1>4, <1>5 DEF Rest
<1> QED BY <1>3, <1>7, <1>8

\* The block that a request gets from the first hole, and what that leaves.
NextBlock(request, block) ==
  /\ block.pos \in Nat /\ block.words \in Nat
  /\ block.pos = Placed(index[1].pos, request.align) /\ block.pos >= index[1].pos
  /\ block.words = request.words + HEADER + FOOTER
  /\ blocks' = blocks \cup {block} /\ index'[1].pos = block.pos + block.words
  /\ root_nodes' = IF AllocatesNodes THEN block.pos + HEADER ELSE root_nodes

(* alloc() from the first hole: the block follows all others, what is left *)
(* behind it is the first hole, what is left in front of it is clear.      *)
LEMMA AllocFromFirst ==
  ASSUME TypeOK, HInv, RoomLeft', NEW request \in Request,
         1 \in DOMAIN index, index[1] \in Hole, take(1, request),
         request.words + HEADER + FOOTER <= index[1].size
  PROVE  HInv' /\ state' = "ok" /\ \E block : NextBlock(request, block)
<1>2. PICK hole \in Hole : hole = index[1] /\ hole.size < 2^30
  BY DEF HInv, FirstIsLast
<1>3. /\ hole.pos \in Nat /\ hole.size \in Nat /\ PAGE \in Nat \ {0}
      /\ START \in Nat /\ END \in Nat /\ START <= hole.pos
      /\ hole.pos \in Ends /\ END <= hole.pos + hole.size
  <2>1. hole.pos \in Nat /\ hole.size \in Nat /\ END \in Nat /\ END - hole.pos <= hole.size
    BY <1>2, KHeapAssumption DEF Hole, HInv, FirstIsLast
  <2>2. START <= hole.pos /\ hole.pos \in Ends
    BY <1>2 DEF HInv, FirstIsLast
  <2>3. END <= hole.pos + hole.size
    BY <2>1
  <2>4. PAGE \in Nat \ {0} /\ START \in Nat
    BY KHeapAssumption
  <2> QED BY <2>1, <2>2, <2>3, <2>4
<1>4. PICK words \in Nat, align \in BOOLEAN :
        words = request.words /\ align = request.align
  BY DEF Request
<1>5. PICK gap \in Nat : gap = Gap(hole.pos) /\ gap <= PAGE
  BY <1>3, PlacedAligned, GapWithin
<1>6. PICK new \in Nat :
        /\ new = request.words + HEADER + FOOTER
                   + Absorbed(hole, request.words + HEADER + FOOTER)
        /\ new >= words + 5
        /\ new = words + 5 \/ new = hole.size
  <2>1. words + 5 = request.words + HEADER + FOOTER /\ words + 5 <= hole.size
    BY <1>2, <1>4 DEF HEADER, FOOTER
  <2>2. \/ Absorbed(hole, words + 5) = 0
        \/ Absorbed(hole, words + 5) = hole.size - (words + 5)
    BY DEF Absorbed
  <2> QED BY <1>3, <2>1, <2>2
<1>7. PICK pos \in Nat :
        /\ pos = Placed(hole.pos, align) /\ pos >= hole.pos /\ pos <= hole.pos + PAGE
        /\ pos = hole.pos \/ (align /\ pos = hole.pos + gap)
  <2>1. Placed(hole.pos, align) \in Nat
    BY <1>3, PlacedAligned
  <2>2. \/ Placed(hole.pos, align) = hole.pos
        \/ align /\ Placed(hole.pos, align) = hole.pos + gap
    BY <1>5 DEF Placed
  <2> QED BY <1>3, <1>5, <2>1, <2>2
<1>8. PICK lead \in Hole : lead = Lead(hole, pos)
  BY LeadIsHole
<1>13. PICK block : block = [pos |-> pos, words |-> new, align |-> align]
  OBVIOUS
<1>22. blocks' = blocks \cup {block}
  BY <1>2, <1>4, <1>6, <1>7, <1>13 DEF take
<1>23. pos + new + PAGE + 5 <= END
  <2>1. block.pos + block.words \in Ends'
    BY <1>22 DEF Ends
  <2>2. pos + new \in Ends'
    BY <1>13, <2>1
  <2>3. pos + new + PAGE + HEADER + FOOTER <= END
    BY <2>2 DEF RoomLeft, PageLeft
  <2> QED BY <1>3, <2>3 DEF HEADER, FOOTER
<1>24. new = words + 5
  BY <1>3, <1>6, <1>7, <1>23
<1>25. pos # hole.pos => align /\ pos = hole.pos + gap /\ gap >= 5
  <2> SUFFICES ASSUME pos # hole.pos PROVE gap >= 5
    BY <1>7
  <2>1. hole.pos \in Ends' /\ block \in blocks' /\ block.align
    BY <1>3, <1>7, <1>13, <1>22 DEF Ends
  <2>2. hole.pos >= block.pos \/ hole.pos + HEADER + FOOTER <= block.pos
    BY <2>1 DEF RoomLeft, LeadsWhole
  <2>3. hole.pos >= pos \/ hole.pos + 5 <= pos
    BY <1>3, <1>13, <2>2 DEF HEADER, FOOTER
  <2> QED BY <1>3, <1>5, <1>7, <2>3
<1>9. PICK left \in Nat :
        /\ left = IF pos = hole.pos THEN hole.size ELSE Word(hole.size - LeadSize(hole, pos))
        /\ left > new /\ left < 2^30 /\ END <= pos + left
        /\ pos # hole.pos => /\ lead.pos + lead.size <= pos /\ lead.pos = hole.pos
                             /\ lead.size <= PAGE
  <2>1. CASE pos = hole.pos
    BY <1>2, <1>3, <1>7, <1>23, <2>1
  <2>2. CASE pos # hole.pos
    <3>4. PICK hp \in Nat, hs \in Nat :
            hp = hole.pos /\ hs = hole.size /\ hs < 2^30 /\ END <= hp + hs
      BY <1>2, <1>3
    <3>5. pos = hp + gap /\ gap >= 5
      BY <1>25, <2>2, <3>4
    <3>6. hp + gap + words + 5 + PAGE + 5 <= END
      BY <1>3, <1>23, <1>24, <3>5
    <3>7. words + gap <= hs
      BY <1>3, <3>4, <3>6
    <3>1. pos = hole.pos + Gap(hole.pos) /\ gap >= 5 /\ words + Gap(hole.pos) <= hole.size
      BY <1>5, <3>4, <3>5, <3>7
    <3>2. /\ lead.pos = hole.pos /\ lead.size <= PAGE /\ lead.pos + lead.size <= pos
          /\ Word(hole.size - LeadSize(hole, pos)) = hole.size - gap + 3
      BY <1>2, <1>5, <1>8, <3>1, LeadIs
    <3>8. /\ hs - gap + 3 \in Nat /\ hs - gap + 3 > new
          /\ hs - gap + 3 < 2^30 /\ END <= pos + (hs - gap + 3)
      BY <1>3, <1>24, <3>4, <3>5, <3>6
    <3>3. /\ hole.size - gap + 3 \in Nat /\ hole.size - gap + 3 > new
          /\ hole.size - gap + 3 < 2^30 /\ END <= pos + (hole.size - gap + 3)
      BY <3>4, <3>8
    <3> QED BY <2>2, <3>2, <3>3
  <2> QED BY <2>1, <2>2
<1>10. index \in Seq(Hole) /\ index # <<>>
  BY DEF HInv, TypeOK, FirstIsLast, Hole
<1>11. PICK kept \in Seq(Hole) :
         /\ kept = IF pos = hole.pos THEN RemoveAt(index, 1)
                   ELSE [index EXCEPT ![1] = lead]
         /\ \A k \in DOMAIN kept :
              \/ pos # hole.pos /\ kept[k] = lead
              \/ \E j \in DOMAIN index : j # 1 /\ kept[k] = index[j]
  <2>1. Len(index) \in Nat /\ DOMAIN index = 1..Len(index)
    BY <1>10, LenProperties
  <2>2. CASE pos = hole.pos
    <3>1. PICK q \in Seq(Hole) : /\ q = RemoveAt(index, 1) /\ Len(q) = Len(index) - 1
                                 /\ \A k \in 1..(Len(index) - 1) : q[k] = index[k + 1]
      BY <1>10, RemovedFirst
    <3>2. ASSUME NEW k \in DOMAIN q
          PROVE  \E j \in DOMAIN index : j # 1 /\ q[k] = index[j]
      <4>1. k \in 1..(Len(index) - 1)
        BY <3>1, LenProperties
      <4>2. k + 1 \in DOMAIN index /\ k + 1 # 1 /\ q[k] = index[k + 1]
        BY <2>1, <3>1, <4>1
      <4> QED BY <4>2
    <3> QED BY <2>2, <3>1, <3>2
  <2>3. CASE pos # hole.pos
    <3>1. PICK q \in Seq(Hole) : /\ q = [index EXCEPT ![1] = lead] /\ Len(q) = Len(index)
                                 /\ \A k \in 1..Len(index) :
                                      q[k] = IF k = 1 THEN lead ELSE index[k]
      <4>1. 1 \in 1..Len(index) /\ index \in [1..Len(index) -> Hole]
        BY <1>10, <2>1, LenProperties
      <4>2. PICK q \in Seq(Hole) : q = [index EXCEPT ![1] = lead] /\ Len(q) = Len(index)
        <5> DEFINE q == [index EXCEPT ![1] = lead]
        <5>1. q \in Seq(Hole)
          BY <1>10, <4>1, ExceptSeq
        <5>2. DOMAIN q = 1..Len(index)
          BY <4>1
        <5> HIDE DEF q
        <5>3. Len(q) = Len(index)
          BY <2>1, <5>1, <5>2, LenProperties
        <5> QED BY <5>1, <5>3 DEF q
      <4>3. \A k \in 1..Len(index) : q[k] = IF k = 1 THEN lead ELSE index[k]
        BY <4>1, <4>2
      <4> QED BY <4>2, <4>3
    <3>2. ASSUME NEW k \in DOMAIN q
          PROVE  q[k] = lead \/ \E j \in DOMAIN index : j # 1 /\ q[k] = index[j]
      <4>1. k \in 1..Len(index)
        BY <3>1, LenProperties
      <4> QED BY <2>1, <3>1, <4>1
    <3> QED BY <2>3, <3>1, <3>2
  <2> QED BY <2>2, <2>3
<1>12. PICK rest \in Hole :
         /\ rest = Rest(pos, new, left)
         /\ rest.pos = pos + new /\ rest.size < 2^30 /\ END - rest.pos <= rest.size
  <2>1. START <= pos /\ new <= left
    BY <1>3, <1>7, <1>9
  <2> QED BY <1>9, <2>1, RestIsHole, RestIs
<1>14. /\ index' = insert_sorted_array(rest, kept)
       /\ state' = IF InHeap(block) THEN "ok" ELSE "fault"
  <2>1. left > new
    BY <1>9
  <2> QED BY <1>2, <1>4, <1>6, <1>7, <1>8, <1>9, <1>11, <1>12, <1>13, <2>1 DEF take
<1>15. /\ index' # <<>> /\ index'[1] = rest
       /\ \A k \in DOMAIN index' : k # 1 =>
            \/ pos # hole.pos /\ index'[k] = lead
            \/ \E j \in DOMAIN index : j # 1 /\ index'[k] = index[j]
  <2>1. /\ index' # <<>> /\ index'[1] = rest
        /\ \A k \in DOMAIN index' : k # 1 =>
             k - 1 \in DOMAIN kept /\ index'[k] = kept[k - 1]
    BY <1>14, PutInFront
  <2>2. ASSUME NEW k \in DOMAIN index', k # 1
        PROVE  \/ pos # hole.pos /\ index'[k] = lead
               \/ \E j \in DOMAIN index : j # 1 /\ index'[k] = index[j]
    <3>1. PICK h \in DOMAIN kept : index'[k] = kept[h]
      BY <2>1, <2>2
    <3> QED BY <1>11, <3>1
  <2> QED BY <2>1, <2>2
<1>16. /\ \A b \in blocks : /\ b.pos \in Nat /\ b.words \in Nat
                           /\ b.pos + b.words <= hole.pos
       /\ \A a, b \in blocks : a = b \/ Apart(a, b)
  BY <1>2 DEF HInv, TypeOK, Block, FirstIsLast, BlocksApart
<1>17. block.pos = pos /\ block.words = new /\ rest.pos \in Nat /\ rest.pos >= pos
  BY <1>12, <1>13
<1>18. FirstIsLast' /\ state' = "ok"
  <2>1. ASSUME NEW b \in blocks' PROVE b.pos + b.words <= rest.pos
    <3>1. CASE b = block
      BY <1>12, <1>17, <3>1
    <3>2. CASE b # block
      <4>1. b \in blocks
        BY <1>22, <3>2
      <4> QED BY <1>3, <1>7, <1>16, <1>17, <4>1
    <3> QED BY <3>1, <3>2
  <2>2. START <= rest.pos
    BY <1>3, <1>7, <1>17
  <2>3. InHeap(block)
    <3>1. START <= pos /\ pos + new <= END
      BY <1>3, <1>7, <1>23
    <3> QED BY <1>17, <3>1 DEF InHeap
  <2>4. rest.pos \in Ends'
    <3>1. rest.pos = block.pos + block.words /\ block \in blocks'
      BY <1>12, <1>17, <1>22
    <3> QED BY <3>1 DEF Ends
  <2>5. END - rest.pos <= rest.size
    BY <1>12
  <2> QED BY <1>12, <1>14, <1>15, <2>1, <2>2, <2>3, <2>4, <2>5 DEF FirstIsLast
<1>19. LeadsBetween'
  <2> SUFFICES ASSUME NEW k \in DOMAIN index', k # 1
               PROVE  /\ index'[k].size <= PAGE
                      /\ index'[k].pos + index'[k].size <= index'[1].pos
                      /\ \A b \in blocks' : Apart(Words(index'[k]), b)
    BY DEF LeadsBetween, LeftOver, Apart, Words
  <2>1. PICK over \in Hole :
          /\ over = index'[k] /\ over.size <= PAGE /\ over.pos + over.size <= pos
          /\ \A b \in blocks : Apart(Words(over), b)
    <3>1. CASE pos # hole.pos /\ index'[k] = lead
      <4>1. \A b \in blocks : b.pos + b.words <= lead.pos
        BY <1>9, <1>16, <3>1
      <4> QED BY <1>9, <3>1, <4>1 DEF Apart, Words
    <3>2. ASSUME NEW j \in DOMAIN index, j # 1, index'[k] = index[j]
          PROVE  /\ index'[k] \in Hole /\ index'[k].size <= PAGE
                 /\ index'[k].pos + index'[k].size <= pos
                 /\ \A b \in blocks : Apart(Words(index'[k]), b)
      <4>1. index[j] \in Hole
        BY <1>10, LenProperties
      <4>2. /\ index[j].size <= PAGE /\ index[j].pos + index[j].size <= hole.pos
            /\ \A b \in blocks : Apart(Words(index[j]), b)
        BY <1>2, <3>2 DEF HInv, LeadsBetween, LeftOver
      <4>3. index[j].pos + index[j].size \in Nat
        BY <4>1 DEF Hole
      <4>4. hole.pos \in Nat /\ pos \in Nat /\ hole.pos <= pos
        BY <1>3, <1>7
      <4>5. index[j].pos + index[j].size <= pos
        BY <4>2, <4>3, <4>4
      <4> QED BY <3>2, <4>1, <4>2, <4>5
    <3> QED BY <1>15, <3>1, <3>2
  <2>2. over.pos + over.size <= rest.pos
    BY <1>17, <2>1 DEF Hole
  <2>3. Apart(Words(over), block)
    BY <1>17, <2>1 DEF Apart, Words
  <2>4. \A b \in blocks' : Apart(Words(over), b)
    BY <1>22, <2>1, <2>3
  <2> QED BY <1>15, <2>1, <2>2, <2>4
<1>20. BlocksApart'
  <2>1. ASSUME NEW b \in blocks PROVE Apart(b, block) /\ Apart(block, b)
    <3>1. b.pos + b.words <= block.pos
      BY <1>3, <1>7, <1>16, <1>17
    <3> QED BY <3>1 DEF Apart
  <2>2. \A a, b \in blocks' : a = b \/ Apart(a, b)
    BY <1>16, <1>22, <2>1
  <2> QED BY <2>2 DEF BlocksApart, Apart
<1>21. NextBlock(request, block)
  <2>1. root_nodes' = IF AllocatesNodes THEN pos + HEADER ELSE root_nodes
    BY <1>2, <1>4, <1>7 DEF take
  <2>2. block.pos = Placed(index[1].pos, request.align) /\ block.pos >= index[1].pos
    BY <1>2, <1>4, <1>7, <1>17
  <2>3. block.pos \in Nat /\ block.words \in Nat /\ block.words = request.words + HEADER + FOOTER
    BY <1>4, <1>17, <1>24 DEF HEADER, FOOTER
  <2>4. index'[1].pos = block.pos + block.words
    BY <1>12, <1>15, <1>17
  <2> QED BY <1>17, <1>22, <2>1, <2>2, <2>3, <2>4 DEF NextBlock
<1> QED BY <1>18, <1>19, <1>20, <1>21 DEF HInv

(* A request adds a block or none.                                         *)
LEMMA Grows == ASSUME alloc PROVE blocks \subseteq blocks'
BY DEF alloc, take

(* The layout of the heap, while there is room left.                       *)
LEMMA FirstStays == Spec => [](TypeOK /\ (RoomLeft => HInv))
<1>1. Init => TypeOK /\ HInv
  <2> SUFFICES ASSUME Init PROVE HInv
    BY InitTypes
  <2>1. index = <<[pos |-> START, size |-> END - START]>> /\ blocks = {}
    BY DEF Init
  <2>2. START \in Nat /\ END \in Nat /\ END < 2^30 /\ END - START < 2^30
    BY KHeapAssumption
  <2>3. /\ index # <<>> /\ DOMAIN index = {1} /\ index[1].size < 2^30
        /\ START <= index[1].pos /\ END - index[1].pos <= index[1].size
        /\ index[1].pos = START
    BY <2>1, <2>2
  <2>4. index[1].pos \in Ends
    BY <2>3 DEF Ends
  <2> QED BY <2>1, <2>3, <2>4 DEF HInv, FirstIsLast, LeadsBetween, BlocksApart
<1>2. TypeOK /\ (RoomLeft => HInv) /\ [Next]_vars => (TypeOK /\ (RoomLeft => HInv))'
  <2> SUFFICES ASSUME TypeOK, RoomLeft => HInv, [Next]_vars
               PROVE  TypeOK' /\ (RoomLeft' => HInv')
    OBVIOUS
  <2>1. TypeOK'
    <3>1. CASE UNCHANGED vars
      BY <3>1 DEF TypeOK, vars
    <3> QED BY <3>1, Alloc, Commands DEF Next
  <2>2. CASE UNCHANGED <<index, blocks>>
    <3>1. (RoomLeft' <=> RoomLeft) /\ (HInv' <=> HInv)
      BY <2>2 DEF RoomLeft, PageLeft, LeadsWhole, Ends, HInv, FirstIsLast, LeadsBetween,
                  LeftOver, Words, Apart, BlocksApart
    <3> QED BY <2>1, <3>1
  <2>3. CASE ~(UNCHANGED <<index, blocks>>)
    <3>1. alloc
      BY <2>3 DEF vars, Next, create_task, initrd_open, initrd_close, Idle
    <3> SUFFICES ASSUME RoomLeft' PROVE HInv'
      BY <2>1
    <3>2. RoomLeft /\ PageLeft /\ HInv
      BY <3>1, Grows, RoomWas DEF RoomLeft
    <3>3. PICK request \in Request :
            /\ 1 \in DOMAIN index /\ index[1] \in Hole
            /\ request.words + HEADER + FOOTER <= index[1].size /\ take(1, request)
      BY <2>3, <3>1, <3>2, TakesFirst
    <3> QED BY <3>2, <3>3, AllocFromFirst
  <2> QED BY <2>2, <2>3
<1> QED BY <1>1, <1>2, PTL DEF Spec

(* For any heap and any requests, in any order, no two blocks of alloc()   *)
(* overlap while a page of the heap is left and leads are whole.           *)
THEOREM BlocksStayApart == Spec => [](RoomLeft => BlocksDisjoint)
BY FirstStays, PTL DEF HInv, BlocksDisjoint

(* ... and no hole of the index reaches into a block, those included that  *)
(* are in front of a directory or a table.                                 *)
THEOREM HolesStayClear == Spec => [](RoomLeft => HolesClearOfBlocks)
<1>1. HInv => HolesApart
  <2> SUFFICES ASSUME HInv, NEW k \in DOMAIN index, NEW b \in blocks
               PROVE  Apart(Words(index[k]), b)
    BY DEF HolesApart, Words
  <2>1. CASE k = 1
    BY <2>1 DEF HInv, FirstIsLast, Apart, Words
  <2>2. CASE k # 1
    BY <2>2 DEF HInv, LeadsBetween, LeftOver
  <2> QED BY <2>1, <2>2
<1> QED BY <1>1, FirstStays, PTL DEF HolesClearOfBlocks

(* Room behind the blocks is found: the size field of the hole there never *)
(* counts too little, so alloc() neither comes to NULL behind the holes    *)
(* nor leaves the heap for a request that fits with a page for alignment.  *)
THEOREM RequestsAreServed == Spec => RequestsServed
<1>1. TypeOK /\ (RoomLeft => HInv) /\ alloc /\ RoomFor(Head(pending)) /\ LeadsWhole
        => state' = "ok"
  <2> SUFFICES ASSUME TypeOK, RoomLeft => HInv, alloc, RoomFor(Head(pending)), LeadsWhole
               PROVE  state' = "ok"
    OBVIOUS
  <2>1. PICK request \in Request : request = Head(pending)
    <3>1. pending \in Seq(Request) /\ pending # <<>>
      BY DEF TypeOK, alloc, Request
    <3> QED BY <3>1, HeadTailProperties
  <2>2. /\ request.words \in Nat /\ PAGE \in Nat /\ START \in Nat /\ END \in Nat
        /\ \A e \in Ends : e \in Nat
        /\ \A e \in Ends : e + request.words + PAGE + 10 <= END
    <3>1. \A b \in blocks : b.pos \in Nat /\ b.words \in Nat
      BY DEF TypeOK, Block
    <3>2. \A b \in blocks : b.pos + b.words \in Nat
      BY <3>1
    <3>3. request.words \in Nat /\ PAGE \in Nat /\ START \in Nat /\ END \in Nat
      BY KHeapAssumption DEF Request
    <3>4. \A e \in Ends : e \in Nat
      BY <3>2, <3>3 DEF Ends
    <3>5. ASSUME NEW e \in Ends PROVE e + request.words + PAGE + 10 <= END
      <4>1. e + request.words + PAGE + 2 * (HEADER + FOOTER) <= END
        BY <2>1 DEF RoomFor
      <4> QED BY <4>1 DEF HEADER, FOOTER
    <3> QED BY <3>3, <3>4, <3>5
  <2>3. RoomLeft /\ PageLeft /\ HInv
    <3>1. ASSUME NEW e \in Ends PROVE e + PAGE + HEADER + FOOTER <= END
      BY <2>2 DEF HEADER, FOOTER
    <3> QED BY <3>1 DEF RoomLeft, PageLeft
  <2>4. PICK hole \in Hole : hole = index[1]
    BY <2>3, TakesFirst
  <2>5. /\ hole.pos \in Nat /\ hole.size \in Nat /\ START <= hole.pos
        /\ hole.pos + request.words + PAGE + 10 <= END
        /\ request.words + PAGE + 10 <= hole.size
    <3>1. hole.pos \in Nat /\ hole.size \in Nat
      BY DEF Hole
    <3>2. hole.pos \in Ends /\ END - hole.pos <= hole.size /\ START <= hole.pos
      BY <2>3, <2>4 DEF HInv, FirstIsLast
    <3>3. hole.pos + request.words + PAGE + 10 <= END
      BY <2>2, <3>2
    <3> QED BY <2>2, <3>1, <3>2, <3>3
  <2>6. take(1, request)
    <3>1. ~(request.words + HEADER + FOOTER > hole.size)
      BY <2>2, <2>5 DEF HEADER, FOOTER
    <3> QED BY <2>1, <2>3, <2>4, <3>1, TakesFirst
  <2>7. Absorbed(hole, request.words + HEADER + FOOTER) = 0
    BY <2>2, <2>5 DEF Absorbed, HEADER, FOOTER
  <2>8. PICK pos \in Nat : /\ pos = Placed(hole.pos, request.align)
                           /\ hole.pos <= pos /\ pos <= hole.pos + PAGE
    <3>1. Placed(hole.pos, request.align) \in Nat /\ Gap(hole.pos) \in Nat /\ Gap(hole.pos) <= PAGE
      BY <2>5, PlacedAligned, GapWithin DEF Request
    <3>2. \/ Placed(hole.pos, request.align) = hole.pos
          \/ Placed(hole.pos, request.align) = hole.pos + Gap(hole.pos)
      BY DEF Placed
    <3> QED BY <2>2, <2>5, <3>1, <3>2
  <2>9. PICK block : block = [pos |-> pos, words |-> request.words + HEADER + FOOTER + 0,
                              align |-> request.align]
    OBVIOUS
  <2>10. state' = IF InHeap(block) THEN "ok" ELSE "fault"
    BY <2>4, <2>6, <2>7, <2>8, <2>9 DEF take
  <2>11. InHeap(block)
    <3>1. START <= pos /\ pos + (request.words + HEADER + FOOTER + 0) <= END
      BY <2>2, <2>5, <2>8 DEF HEADER, FOOTER
    <3> QED BY <2>9, <3>1 DEF InHeap
  <2> QED BY <2>10, <2>11
<1>2. TypeOK /\ (RoomLeft => HInv) /\ [Next]_vars
      => [alloc /\ RoomFor(Head(pending)) /\ LeadsWhole => state' = "ok"]_vars
  BY <1>1
<1> QED BY <1>2, FirstStays, PTL DEF Spec, RequestsServed

-----------------------------------------------------------------------------
(***************************************************************************)
(* What initrd_open() writes behind the array.  When boot allocates the    *)
(* array, a directory is next: it is placed behind what alignment leaves,  *)
(* and every later block behind that.                                      *)
(***************************************************************************)
AfterNodes == fork \o <<Plain(NAME)>>
FromNodes  == <<Plain(NODE * InitialFiles)>> \o AfterNodes

\* Where the directory that is requested behind the array begins.
ArrayEnd == root_nodes + NODE * InitialFiles + FOOTER
NextPageBlock == Placed(ArrayEnd, TRUE)

NodesToCome ==
  root_nodes = 0 =>
    /\ nfiles = InitialFiles
    /\ state = "ok" => \E front \in Seq(Request) : pending = front \o FromNodes

\* The next request is the directory's, which comes to that page.
DirectoryNext ==
  /\ nfiles = InitialFiles
  /\ state = "ok" => pending = AfterNodes /\ index[1].pos = ArrayEnd

\* It is there, and the first hole behind it.
DirectoryBehind ==
  /\ \E b \in blocks : b.pos = NextPageBlock /\ b.words > 0
  /\ state = "ok" => NextPageBlock <= index[1].pos

\* Blocks lie before the nodes or from that page on.
NodesBetween ==
  root_nodes # 0 =>
    /\ \A b \in blocks : \/ b.pos + HEADER = root_nodes
                         \/ b.pos + b.words <= root_nodes
                         \/ NextPageBlock <= b.pos
    /\ DirectoryNext \/ DirectoryBehind

NodesInv == TypeOK /\ (RoomLeft => HInv /\ NodesToCome /\ NodesBetween)

(* What comes first in a concatenation comes off it first.                 *)
LEMMA HeadFirst ==
  ASSUME NEW s \in Seq(Request), NEW t \in Seq(Request), s # <<>>
  PROVE  /\ s \o t # <<>> /\ Head(s \o t) = s[1]
         /\ Tail(s \o t) = Tail(s) \o t
         /\ Len(s) = 1 => Tail(s \o t) = t
<1>1. Len(s) \in Nat \ {0} /\ Len(t) \in Nat
  BY LenProperties, EmptySeq
<1>2. PICK u \in Seq(Request) :
        /\ u = s \o t /\ Len(u) = Len(s) + Len(t)
        /\ \A i \in 1..(Len(s) + Len(t)) : u[i] = IF i <= Len(s) THEN s[i] ELSE t[i - Len(s)]
  <2>1. \A i \in 1..(Len(s) + Len(t)) :
          (s \o t)[i] = IF i <= Len(s) THEN s[i] ELSE t[i - Len(s)]
    BY ConcatProperties, Zenon
  <2>2. s \o t \in Seq(Request) /\ Len(s \o t) = Len(s) + Len(t)
    BY ConcatProperties
  <2> QED BY <2>1, <2>2, Zenon
<1>3. u # <<>> /\ Head(u) = s[1]
  <2>1. u # <<>> /\ u[1] = s[1]
    BY <1>1, <1>2
  <2> QED BY <2>1
<1>4. PICK w \in Seq(Request) : /\ w = Tail(s) /\ Len(w) = Len(s) - 1
                          /\ \A i \in 1..Len(w) : w[i] = s[i + 1]
  BY HeadTailProperties
<1>5. PICK x \in Seq(Request) :
        /\ x = w \o t /\ Len(x) = Len(w) + Len(t)
        /\ \A i \in 1..(Len(w) + Len(t)) : x[i] = IF i <= Len(w) THEN w[i] ELSE t[i - Len(w)]
  <2>1. \A i \in 1..(Len(w) + Len(t)) :
          (w \o t)[i] = IF i <= Len(w) THEN w[i] ELSE t[i - Len(w)]
    BY ConcatProperties, Zenon
  <2>2. w \o t \in Seq(Request) /\ Len(w \o t) = Len(w) + Len(t)
    BY ConcatProperties
  <2> QED BY <2>1, <2>2, Zenon
<1>6. PICK y \in Seq(Request) : /\ y = Tail(u) /\ Len(y) = Len(u) - 1
                          /\ \A i \in 1..Len(y) : y[i] = u[i + 1]
  <2>1. u \in Seq(Request) /\ u # <<>>
    BY <1>2, <1>3
  <2> HIDE <1>2
  <2> QED BY <2>1, HeadTailProperties
<1>7. x = y
  <2>1. Len(x) = Len(y) /\ Len(x) \in Nat
    BY <1>1, <1>2, <1>4, <1>5, <1>6
  <2>2. ASSUME NEW i \in 1..Len(x) PROVE x[i] = y[i]
    <3>1. i \in 1..(Len(s) - 1 + Len(t)) /\ y[i] = u[i + 1]
      BY <1>1, <1>4, <1>5, <1>6, <2>1, <2>2
    <3>2. i + 1 \in 1..(Len(s) + Len(t)) /\ (i + 1 <= Len(s) <=> i <= Len(w))
          /\ i + 1 - Len(s) = i - Len(w)
      BY <1>1, <1>4, <3>1
    <3>3. y[i] = IF i <= Len(w) THEN s[i + 1] ELSE t[i - Len(w)]
      BY <1>2, <3>1, <3>2
    <3>4. x[i] = IF i <= Len(w) THEN w[i] ELSE t[i - Len(w)]
      BY <1>1, <1>4, <1>5, <3>1
    <3>5. i <= Len(w) => w[i] = s[i + 1]
      BY <1>1, <1>4, <3>1
    <3> QED BY <3>3, <3>4, <3>5
  <2> QED BY <2>1, <2>2, SeqEqual
<1>8. Len(s) = 1 => x = t
  <2>1. Len(s) = 1 => w = <<>>
    BY <1>4, EmptySeq
  <2> QED BY <1>5, <2>1, ConcatEmptySeq
<1> QED BY <1>2, <1>3, <1>4, <1>5, <1>6, <1>7, <1>8

(* Requests of one function and the next.                                  *)
LEMMA Joined ==
  ASSUME NEW s \in Seq(Request), NEW t \in Seq(Request)
  PROVE  /\ s \o t \in Seq(Request) /\ Len(s \o t) = Len(s) + Len(t)
         /\ \A u \in Seq(Request) : (s \o t) \o u = s \o (t \o u)
<1>1. s \o t \in Seq(Request) /\ Len(s \o t) = Len(s) + Len(t)
  BY ConcatProperties
<1>2. ASSUME NEW u \in Seq(Request) PROVE (s \o t) \o u = s \o (t \o u)
  BY ConcatAssociative
<1> QED BY <1>1, <1>2

(* Boot asks for the array, and then for a directory.                      *)
LEMMA BootNodes ==
  /\ FromNodes \in Seq(Request) /\ FromNodes # <<>> /\ Len(FromNodes) = Len(fork) + 2
  /\ Head(FromNodes) = Plain(NODE * InitialFiles) /\ Tail(FromNodes) = AfterNodes
  /\ AfterNodes # <<>> /\ Head(AfterNodes) = Aligned(DIR)
  /\ \E front \in Seq(Request) : boot = front \o FromNodes
<1>1. \A w \in Nat : Plain(w) \in Request /\ Aligned(w) \in Request
  BY DEF Plain, Aligned, Request
<1>2. /\ {DIR, TABLE, PCB, NODE, NAME} \subseteq Nat
      /\ STACK_TABLES \in Nat /\ NODE * InitialFiles \in Nat
  BY KHeapAssumption
<1> DEFINE dir == <<Aligned(DIR)>>
           tables == [k \in 1..STACK_TABLES |-> Aligned(TABLE)]
           pcb == <<Plain(PCB)>>
           name == <<Plain(NAME)>>
           nodes == <<Plain(NODE * InitialFiles)>>
           plains == <<Plain(PCB), Plain(NODE), Plain(NODE)>>
<1>3. /\ dir \in Seq(Request) /\ dir # <<>> /\ dir[1] = Aligned(DIR)
      /\ pcb \in Seq(Request) /\ name \in Seq(Request) /\ Len(name) = 1
      /\ plains \in Seq(Request) /\ tables \in Seq(Request)
  BY <1>1, <1>2
<1>4. nodes \in Seq(Request) /\ nodes # <<>> /\ Len(nodes) = 1 /\ nodes[1] = Plain(NODE * InitialFiles)
  <2>1. Plain(NODE * InitialFiles) \in Request
    BY <1>1, <1>2
  <2> QED BY <2>1
<1>5. <<Plain(PCB), Plain(NODE), Plain(NODE), Plain(NODE * InitialFiles)>> = plains \o nodes
  OBVIOUS
<1> HIDE DEF dir, tables, pcb, name, nodes, plains
<1>6. fork \in Seq(Request) /\ fork = dir \o (tables \o pcb) /\ tables \o pcb \in Seq(Request)
  <2>1. fork = (dir \o tables) \o pcb
    BY DEF fork, clone_dir, dir, tables, pcb
  <2>2. (dir \o tables) \o pcb = dir \o (tables \o pcb) /\ tables \o pcb \in Seq(Request)
    BY <1>3, Joined
  <2>3. dir \o (tables \o pcb) \in Seq(Request)
    BY <1>3, <2>2, Joined
  <2> QED BY <2>1, <2>2, <2>3
<1>7. /\ AfterNodes \in Seq(Request) /\ AfterNodes = dir \o ((tables \o pcb) \o name)
      /\ (tables \o pcb) \o name \in Seq(Request) /\ Len(AfterNodes) = Len(fork) + 1
  <2>1. AfterNodes = fork \o name
    BY DEF AfterNodes, name
  <2>2. fork \o name \in Seq(Request) /\ Len(fork \o name) = Len(fork) + 1
    <3>1. fork \in Seq(Request) /\ name \in Seq(Request) /\ Len(name) = 1
      BY <1>3, <1>6
    <3> QED BY <3>1, Joined
  <2>3. (dir \o (tables \o pcb)) \o name = dir \o ((tables \o pcb) \o name)
    <3>1. PICK t \in Seq(Request) : t = tables \o pcb
      BY <1>6
    <3>2. dir \in Seq(Request) /\ name \in Seq(Request)
      BY <1>3
    <3>3. (dir \o t) \o name = dir \o (t \o name)
      BY <3>2, Joined
    <3> QED BY <3>1, <3>3
  <2>4. (tables \o pcb) \o name \in Seq(Request)
    BY <1>3, <1>6, Joined
  <2> QED BY <1>6, <2>1, <2>2, <2>3, <2>4
<1>8. AfterNodes # <<>> /\ Head(AfterNodes) = Aligned(DIR)
  <2>1. PICK t \in Seq(Request) : AfterNodes = dir \o t
    BY <1>7
  <2> QED BY <1>3, <2>1, HeadFirst
<1>9. /\ FromNodes \in Seq(Request) /\ FromNodes # <<>> /\ Len(FromNodes) = Len(fork) + 2
      /\ Head(FromNodes) = Plain(NODE * InitialFiles) /\ Tail(FromNodes) = AfterNodes
  <2>1. FromNodes = nodes \o AfterNodes
    BY DEF FromNodes, nodes
  <2>2. Len(FromNodes) = 1 + Len(AfterNodes) /\ FromNodes \in Seq(Request) /\ Len(fork) \in Nat
    BY <1>4, <1>6, <1>7, <2>1, Joined, LenProperties
  <2>3. FromNodes # <<>> /\ Head(FromNodes) = nodes[1] /\ Tail(FromNodes) = AfterNodes
    BY <1>4, <1>7, <2>1, HeadFirst
  <2>4. Len(FromNodes) = Len(fork) + 2
    BY <1>7, <2>2
  <2> QED BY <1>4, <2>2, <2>3, <2>4
<1>10. boot = ((((dir \o tables) \o (plains \o nodes)) \o fork) \o name)
  BY <1>5 DEF boot, dir, tables, name
<1>11. PICK front \in Seq(Request) : front = (dir \o tables) \o plains
  BY <1>3, Joined
<1>12. (dir \o tables) \o (plains \o nodes) = front \o nodes
  <2>1. dir \o tables \in Seq(Request)
    BY <1>3, Joined
  <2>2. PICK early \in Seq(Request) : early = dir \o tables
    BY <2>1
  <2>3. plains \in Seq(Request) /\ nodes \in Seq(Request)
    BY <1>3, <1>4
  <2>4. (early \o plains) \o nodes = early \o (plains \o nodes)
    BY <2>3, Joined
  <2> QED BY <1>11, <2>2, <2>4
<1>13. boot = front \o FromNodes
  <2>1. boot = ((front \o nodes) \o fork) \o name
    BY <1>10, <1>12
  <2>2. ((front \o nodes) \o fork) \o name = (front \o nodes) \o (fork \o name)
    <3>1. front \o nodes \in Seq(Request)
      BY <1>4, Joined
    <3> QED BY <1>3, <1>6, <3>1, Joined
  <2>3. (front \o nodes) \o AfterNodes = front \o (nodes \o AfterNodes)
    BY <1>4, <1>7, Joined
  <2> QED BY <2>1, <2>2, <2>3 DEF AfterNodes, FromNodes, nodes, name
<1> QED BY <1>8, <1>9, <1>13

(* Where the first hole is and the array ends, as naturals.                *)
LEMMA NodeTypes ==
  ASSUME TypeOK, FirstIsLast
  PROVE  /\ index[1].pos \in Nat /\ root_nodes \in Nat
         /\ NODE * InitialFiles \in Nat /\ ArrayEnd \in Nat /\ NextPageBlock \in Nat
         /\ \A b \in blocks : /\ b.pos \in Nat /\ b.words \in Nat
                              /\ b.pos + b.words <= index[1].pos
<1>1. index \in Seq(Hole) /\ index # <<>> /\ root_nodes \in Nat
      /\ \A b \in blocks : b.pos \in Nat /\ b.words \in Nat /\ b.pos + b.words <= index[1].pos
  BY DEF TypeOK, FirstIsLast, Hole, Block
<1>2. index[1].pos \in Nat
  <2>1. Len(index) \in Nat \ {0}
    BY <1>1, LenProperties, EmptySeq
  <2>2. index[1] \in Hole
    BY <1>1, <2>1, LenProperties
  <2> QED BY <2>2 DEF Hole
<1>3. PICK original \in Nat : original = NODE * InitialFiles
  BY KHeapAssumption
<1>4. ArrayEnd \in Nat
  <2>1. ArrayEnd = root_nodes + original + 2
    BY <1>3 DEF ArrayEnd, FOOTER
  <2> QED BY <1>1, <2>1
<1> QED BY <1>1, <1>2, <1>3, <1>4, PlacedAligned DEF NextPageBlock

(* A request of boot or of a command: the array's own block, the directory *)
(* behind it, and those that follow.                                       *)
LEMMA AllocNodes ==
  ASSUME NodesInv, alloc, RoomLeft', NEW request \in Request, request = Head(pending),
         NEW block, NextBlock(request, block), state' = "ok", TypeOK', HInv'
  PROVE  (NodesToCome /\ NodesBetween)'
<1>1. RoomLeft /\ HInv /\ NodesToCome /\ NodesBetween /\ state = "ok"
  BY Grows, RoomWas DEF NodesInv, alloc
<1>2. /\ pending' = Tail(pending) /\ pending # <<>> /\ pending \in Seq(Request)
      /\ nfiles' = nfiles
  BY DEF alloc, NodesInv, TypeOK, Request
<1>3. /\ root_nodes \in Nat /\ index[1].pos \in Nat
      /\ \A b \in blocks : b.pos \in Nat /\ b.words \in Nat /\ b.pos + b.words <= index[1].pos
  BY <1>1, NodeTypes DEF NodesInv, HInv
<1>4. PICK original \in Nat : original = NODE * InitialFiles
  BY KHeapAssumption
<1>5. PICK first \in Nat : first = index[1].pos
  BY <1>3
<1>6. /\ blocks' = blocks \cup {block} /\ block.pos \in Nat /\ block.words \in Nat
      /\ index'[1].pos = block.pos + block.words /\ first <= block.pos
  BY <1>5 DEF NextBlock
<1>7. CASE root_nodes = 0 /\ ~AllocatesNodes
  <2>1. root_nodes' = 0
    BY <1>7 DEF NextBlock
  <2>2. PICK front \in Seq(Request) : pending = front \o FromNodes
    BY <1>1, <1>7 DEF NodesToCome
  <2>3. front # <<>>
    <3>1. SUFFICES ASSUME front = <<>> PROVE FALSE
      OBVIOUS
    <3>2. FromNodes \in Seq(Request)
      BY BootNodes
    <3>3. pending = FromNodes
      BY <2>2, <3>1, <3>2, ConcatEmptySeq
    <3> QED BY <1>7, <3>3, BootNodes DEF AllocatesNodes
  <2>4. Tail(pending) = Tail(front) \o FromNodes
    BY <2>2, <2>3, BootNodes, HeadFirst
  <2>5. Tail(front) \in Seq(Request)
    BY <2>3, HeadTailProperties
  <2>6. nfiles' = InitialFiles
    BY <1>1, <1>2, <1>7 DEF NodesToCome
  <2>7. \E f \in Seq(Request) : pending' = f \o FromNodes
    BY <1>2, <2>4, <2>5
  <2>8. FromNodes' = FromNodes
    BY DEF FromNodes, AfterNodes, fork, clone_dir, Plain, Aligned
  <2> QED BY <2>1, <2>6, <2>7, <2>8 DEF NodesToCome, NodesBetween
<1>8. CASE root_nodes = 0 /\ AllocatesNodes
  <2>1. pending = FromNodes
    <3>1. PICK front \in Seq(Request) : pending = front \o FromNodes
      BY <1>1, <1>8 DEF NodesToCome
    <3>2. Len(pending) = Len(front) + Len(FromNodes)
      BY <3>1, Joined, BootNodes
    <3>3. Len(pending) = Len(FromNodes) /\ Len(front) \in Nat /\ Len(FromNodes) \in Nat
      BY <1>8, <3>1, BootNodes, LenProperties DEF AllocatesNodes
    <3>4. Len(front) = 0
      BY <3>2, <3>3
    <3>5. front = <<>>
      BY <3>4, EmptySeq
    <3> QED BY <3>1, <3>5, BootNodes, ConcatEmptySeq
  <2>2. request.words = original /\ request.align = FALSE
    BY <1>4, <2>1, BootNodes DEF Plain
  <2>3. block.pos = first /\ block.words = original + 5
    BY <1>4, <1>5, <2>2 DEF NextBlock, Placed, HEADER, FOOTER
  <2>4. root_nodes' = first + 3 /\ root_nodes' # 0
    BY <1>5, <1>8, <2>3 DEF NextBlock, HEADER
  <2>5. index'[1].pos = ArrayEnd'
    <3>1. index'[1].pos = first + 3 + original + 2
      BY <1>6, <2>3
    <3>2. ArrayEnd' = root_nodes' + original + 2
      BY <1>4 DEF ArrayEnd, FOOTER
    <3> QED BY <2>4, <3>1, <3>2
  <2>6. pending' = AfterNodes /\ AfterNodes' = AfterNodes
    <3>1. AfterNodes' = AfterNodes
      BY DEF AfterNodes, fork, clone_dir, Plain, Aligned
    <3> QED BY <1>2, <2>1, <3>1, BootNodes
  <2>7. ASSUME NEW b \in blocks'
        PROVE  b.pos + HEADER = root_nodes' \/ b.pos + b.words <= root_nodes'
    <3>1. CASE b = block
      BY <2>3, <2>4, <3>1 DEF HEADER
    <3>2. CASE b \in blocks
      BY <1>3, <1>5, <2>4, <3>2
    <3> QED BY <1>6, <2>7, <3>1, <3>2
  <2>8. nfiles' = InitialFiles
    BY <1>1, <1>2, <1>8 DEF NodesToCome
  <2> QED BY <2>4, <2>5, <2>6, <2>7, <2>8 DEF NodesToCome, NodesBetween, DirectoryNext
<1>9. CASE root_nodes # 0
  <2>1. root_nodes' = root_nodes
    BY <1>9 DEF NextBlock, AllocatesNodes
  <2>2. NextPageBlock' = NextPageBlock
    BY <2>1 DEF NextPageBlock, ArrayEnd, Placed, Gap
  <2>3. PICK page \in Nat : page = NextPageBlock
    BY <1>1, NodeTypes DEF NodesInv, HInv
  <2>4. page <= block.pos /\ (DirectoryBehind \/ block.pos = page)
    <3>1. CASE DirectoryBehind
      <4>1. page <= index[1].pos
        BY <1>1, <2>3, <3>1 DEF DirectoryBehind
      <4> QED BY <1>5, <1>6, <2>3, <3>1, <4>1
    <3>2. CASE DirectoryNext
      <4>0. pending = AfterNodes /\ index[1].pos = ArrayEnd
        BY <1>1, <3>2 DEF DirectoryNext
      <4>1. request.align = TRUE
        BY <4>0, BootNodes DEF Aligned
      <4>2. block.pos = Placed(index[1].pos, request.align)
        BY DEF NextBlock
      <4>3. block.pos = Placed(ArrayEnd, TRUE)
        BY <4>0, <4>1, <4>2
      <4>4. block.pos = page
        BY <2>3, <4>3 DEF NextPageBlock
      <4> QED BY <2>3, <4>4
    <3> QED BY <1>1, <1>9, <3>1, <3>2 DEF NodesBetween
  <2>5. page <= index'[1].pos
    BY <1>6, <2>4
  <2>6. ASSUME NEW b \in blocks'
        PROVE  \/ b.pos + HEADER = root_nodes \/ b.pos + b.words <= root_nodes
               \/ page <= b.pos
    <3>1. CASE b \in blocks
      BY <1>1, <1>9, <2>3, <3>1 DEF NodesBetween
    <3> QED BY <1>6, <2>4, <2>6, <3>1
  <2>7. \E b \in blocks' : b.pos = page /\ b.words > 0
    <3>1. CASE DirectoryBehind
      BY <1>6, <2>3, <3>1 DEF DirectoryBehind
    <3>2. CASE block.pos = page
      <4>1. block.words > 0
        <5>1. PICK words \in Nat : words = request.words
          BY DEF Request
        <5>2. block.words = words + 5
          BY <5>1 DEF NextBlock, HEADER, FOOTER
        <5> QED BY <5>1, <5>2
      <4> QED BY <1>6, <3>2, <4>1
    <3> QED BY <2>4, <3>1, <3>2
  <2>8. DirectoryBehind'
    BY <2>2, <2>3, <2>5, <2>7 DEF DirectoryBehind
  <2> QED BY <1>9, <2>1, <2>2, <2>3, <2>6, <2>8 DEF NodesToCome, NodesBetween
<1> QED BY <1>7, <1>8, <1>9

(* Nothing moves the array, and a command waits until boot is over.        *)
LEMMA NodesStay == Spec => []NodesInv
<1>1. Init /\ TypeOK /\ (RoomLeft => HInv) => NodesInv
  BY BootNodes DEF Init, NodesInv, NodesToCome, NodesBetween
<1>2. NodesInv /\ (TypeOK /\ (RoomLeft => HInv))' /\ [Next]_vars => NodesInv'
  <2> SUFFICES ASSUME NodesInv, (TypeOK /\ (RoomLeft => HInv))', [Next]_vars, RoomLeft'
               PROVE  (NodesToCome /\ NodesBetween)'
    BY DEF NodesInv
  <2>0. TypeOK' /\ HInv'
    OBVIOUS
  <2>1. RoomLeft /\ HInv /\ NodesToCome /\ NodesBetween
    <3>1. blocks \subseteq blocks'
      BY Grows DEF Next, vars, create_task, initrd_open, initrd_close, Idle
    <3> QED BY <3>1, RoomWas DEF NodesInv
  <2>2. CASE UNCHANGED vars
    BY <2>1, <2>2 DEF vars, NodesToCome, NodesBetween, DirectoryNext, DirectoryBehind,
                NextPageBlock, ArrayEnd, FromNodes, AfterNodes, fork, clone_dir, Plain, Aligned, Placed, Gap
  <2>3. CASE alloc
    <3>1. PICK request \in Request :
            /\ request = Head(pending) /\ 1 \in DOMAIN index /\ index[1] \in Hole
            /\ \/ /\ request.words + HEADER + FOOTER > index[1].size
                  /\ state' = "null hole" /\ UNCHANGED <<index, blocks, root_nodes>>
               \/ /\ request.words + HEADER + FOOTER <= index[1].size
                  /\ take(1, request)
      BY <2>1, <2>3, TakesFirst DEF NodesInv, RoomLeft
    <3>2. CASE state' = "null hole" /\ UNCHANGED <<index, blocks, root_nodes>>
      <4>1. nfiles' = nfiles /\ state' # "ok"
        BY <2>3, <3>2 DEF alloc
      <4> QED BY <2>1, <3>2, <4>1
            DEF NodesToCome, NodesBetween, DirectoryNext, DirectoryBehind,
                NextPageBlock, ArrayEnd, Placed, Gap
    <3>3. CASE /\ request.words + HEADER + FOOTER <= index[1].size
               /\ take(1, request)
      <4>1. state' = "ok" /\ \E block : NextBlock(request, block)
        BY <2>1, <3>1, <3>3, AllocFromFirst DEF NodesInv
      <4>2. PICK block : NextBlock(request, block)
        BY <4>1
      <4> QED BY <2>0, <2>3, <3>1, <4>1, <4>2, AllocNodes
    <3> QED BY <3>1, <3>2, <3>3
  <2>4. CASE create_task \/ initrd_open \/ initrd_close
    <3>1. UNCHANGED <<index, blocks, root_nodes, state>> /\ pending = <<>> /\ state = "ok"
      BY <2>4 DEF create_task, initrd_open, initrd_close, Idle
    <3>2. root_nodes # 0
      <4>1. SUFFICES ASSUME root_nodes = 0 PROVE FALSE
        OBVIOUS
      <4>2. PICK front \in Seq(Request) : front \o FromNodes = <<>>
        BY <2>1, <3>1, <4>1 DEF NodesToCome
      <4> QED BY <4>2, BootNodes, ConcatEqualIffEmpty
    <3>3. DirectoryBehind
      BY <2>1, <3>1, <3>2, BootNodes DEF NodesBetween, DirectoryNext
    <3> QED BY <2>1, <3>1, <3>2, <3>3
          DEF NodesToCome, NodesBetween, DirectoryBehind, NextPageBlock, ArrayEnd, Placed, Gap
  <2> QED BY <2>2, <2>3, <2>4 DEF Next
<1> QED BY <1>1, <1>2, FirstStays, PTL DEF Spec

(* The nodes behind the array end before the page of the directory.        *)
LEMMA NodesBeforeDirectory ==
  ASSUME NodesInv, RoomLeft, nfiles > InitialFiles
  PROVE  NodesClearOfBlocks <=> NodesInLead
<1> DEFINE behind == [pos |-> root_nodes + NODE * InitialFiles,
                      words |-> NODE * (nfiles - InitialFiles)]
<1>1. /\ nfiles \in Nat /\ root_nodes \in Nat /\ NODE \in Nat /\ InitialFiles \in Nat
      /\ \A b \in blocks : b.pos \in Nat /\ b.words \in Nat
  BY KHeapAssumption DEF NodesInv, TypeOK, Block
<1>2. root_nodes # 0
  BY <1>1 DEF NodesInv, NodesToCome
<1>3. PICK original \in Nat : original = NODE * InitialFiles
  BY <1>1
<1>4. PICK more \in Nat : more = nfiles - InitialFiles /\ nfiles = InitialFiles + more
  BY <1>1
<1>5. PICK words \in Nat : words = NODE * more /\ NODE * nfiles = original + words
  <2>1. NODE * (InitialFiles + more) = NODE * InitialFiles + NODE * more
    BY <1>1
  <2>2. NODE * more \in Nat
    BY <1>1
  <2> QED BY <1>3, <1>4, <2>1, <2>2
<1>6. behind.pos = root_nodes + original /\ behind.words = words
  BY <1>3, <1>4, <1>5
<1> HIDE DEF behind
<1>7. PICK page \in Nat : page = NextPageBlock /\ root_nodes + original + 2 <= page
  <2>1. ArrayEnd \in Nat /\ NextPageBlock \in Nat
    BY NodeTypes DEF NodesInv, HInv
  <2>2. Gap(ArrayEnd) \in Nat /\ NextPageBlock = Placed(ArrayEnd, TRUE)
    BY <2>1, PlacedAligned DEF NextPageBlock
  <2>3. ArrayEnd <= NextPageBlock
    BY <2>1, <2>2 DEF Placed
  <2>4. ArrayEnd = root_nodes + original + 2
    BY <1>3 DEF ArrayEnd, FOOTER
  <2> QED BY <2>1, <2>3, <2>4
<1>8. NodesInLead <=> root_nodes + original + words <= page
  <2>1. NodesInLead <=> root_nodes + NODE * nfiles <= page
    BY <1>7 DEF NodesInLead, NextPageBlock, ArrayEnd
  <2> QED BY <1>1, <1>5, <2>1
<1>9. NodesClearOfBlocks <=> \A b \in blocks : b.pos + HEADER = root_nodes \/ Apart(behind, b)
  BY DEF NodesClearOfBlocks, behind
<1>10. ASSUME NodesInLead, NEW b \in blocks, b.pos + HEADER # root_nodes
       PROVE  Apart(behind, b)
  <2>1. b.pos + b.words <= root_nodes \/ page <= b.pos
    BY <1>2, <1>7, <1>10 DEF NodesInv, NodesBetween
  <2>2. b.pos + b.words <= behind.pos \/ behind.pos + behind.words <= b.pos
    BY <1>1, <1>6, <1>7, <1>8, <1>10, <2>1
  <2> QED BY <2>2 DEF Apart
<1>11. ASSUME ~NodesInLead
       PROVE  \E b \in blocks : b.pos + HEADER # root_nodes /\ ~Apart(behind, b)
  <2>1. PICK b \in blocks : b.pos = page /\ b.words > 0
    BY <1>1, <1>2, <1>7 DEF NodesInv, NodesBetween, DirectoryNext, DirectoryBehind
  <2>2. b.pos + HEADER # root_nodes
    BY <1>1, <1>7, <2>1 DEF HEADER
  <2>3. ~(b.pos + b.words <= behind.pos) /\ ~(behind.pos + behind.words <= b.pos)
    BY <1>1, <1>6, <1>7, <1>8, <1>11, <2>1
  <2> QED BY <2>2, <2>3 DEF Apart
<1> QED BY <1>9, <1>10, <1>11

(* The nodes that initrd_open() writes behind the array, which is never    *)
(* moved, overlap no block as long as they end before the next page, and   *)
(* overlap one from then on: the directory of main()'s fork lies there.    *)
(* No request of any number of commands reaches the hole between while     *)
(* there is room left behind the blocks.                                   *)
THEOREM NodesStayClear == Spec => []NodesClearInLead
<1>1. NodesInv /\ RoomLeft => (NodesClearOfBlocks <=> NodesInLead)
  <2>1. CASE nfiles > InitialFiles
    BY <2>1, NodesBeforeDirectory
  <2>2. CASE ~(nfiles > InitialFiles)
    <3>1. NodesClearOfBlocks
      BY <2>2, Zenon DEF NodesClearOfBlocks
    <3>2. NodesInLead
      BY <2>2, Zenon DEF NodesInLead
    <3> QED BY <3>1, <3>2
  <2> QED BY <2>1, <2>2
<1>2. NodesInv => NodesClearInLead
  BY <1>1 DEF NodesClearInLead
<1> QED BY <1>2, NodesStay, PTL
=============================================================================
