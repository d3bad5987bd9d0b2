---------------------------- MODULE PagingProofs ----------------------------
(***************************************************************************)
(* Proofs about Paging for any memory, any shape of the tables and any     *)
(* number of directories: its types, one owner per frame, and the kernel   *)
(* mapped into every task.                                                 *)
(*                                                                         *)
(* FramesPrivate is not inductive without FramesMarked: a new owner's      *)
(* frame is only known to be unmarked.  KernelMapped needs the clone in    *)
(* progress: up to its entry it already maps what vm_page_dir maps, and    *)
(* an entry whose table is copied is one vm_page_dir does not have.        *)
(***************************************************************************)
EXTENDS Paging, WellFoundedInduction, NaturalsInduction, TLAPS

\* Before the first clone there is only vm_page_dir; the task that runs has
\* another.
Directories ==
  /\ phase \in {"tables", "identity", "heap"} => Len(dirs) = 1
  /\ phase \in {"stack", "run", "fork"} => cur_vm_page_dir # VM
  /\ Cloning => clone.dst # VM /\ clone.dst # clone.src

\* A table is being copied for an entry of the source's own.
Copying ==
  Cloning /\ clone.table =>
    /\ clone.entry \in Entries /\ ~Linked(clone.entry)
    /\ dirs[clone.dst][clone.entry] # NULL

\* The entries behind the clone's have been linked or copied.
CopiedSoFar ==
  Cloning => \A e \in Entries :
    e < clone.entry /\ dirs[VM][e] # NULL => dirs[clone.dst][e] = dirs[VM][e]

IInv ==
  /\ TypeOK /\ FramesPrivate /\ FramesMarked
  /\ Directories /\ Copying /\ CopiedSoFar /\ KernelMapped

-----------------------------------------------------------------------------
(* Every nonempty set of naturals has a least element.                     *)
LEMMA Least == ASSUME NEW S \in SUBSET Nat, S # {}
               PROVE  \E f \in S : \A g \in S : f <= g
<1> DEFINE R == {ss \in Nat \X Nat : ss[1] < ss[2]}
<1>1. IsWellFoundedOn(R, Nat)
  BY NatLessThanWellFounded DEF OpToRel
<1>2. PICK f \in S : \A g \in S : ~(<<g, f>> \in R)
  <2> HIDE DEF R
  <2> QED BY <1>1, WFMin
<1>3. ASSUME NEW g \in S PROVE f <= g
  <2>1. f \in Nat /\ g \in Nat /\ ~(<<g, f>> \in R)
    BY <1>2
  <2>2. ~(g < f)
    BY <2>1
  <2> QED BY <2>1, <2>2
<1> QED BY <1>3

(* What first_frame() finds is a frame whose bit is clear.                 *)
LEMMA FirstFrame == ASSUME first_frame # BAD
                    PROVE  first_frame \in Frames \ frames
<1>1. Frames \ frames \in SUBSET Nat
  BY PagingAssumption DEF Frames
<1>2. Frames \ frames # {}
  BY DEF first_frame
<1>3. \E f \in Frames \ frames : \A g \in Frames \ frames : f <= g
  BY <1>1, <1>2, Least
<1> QED BY <1>2, <1>3 DEF first_frame

(* Frames keep one owner, and stay marked, when the only page that gets a  *)
(* frame gets one that was not marked.                                     *)
LEMMA OneNewOwner ==
  ASSUME FramesPrivate, FramesMarked, NEW f, f \notin frames, NEW q,
         frames' = frames \cup {f},
         \A p \in Allocated' :
           \/ p = q /\ pages'[p[1]][p[2]] = f
           \/ p \in Allocated /\ pages'[p[1]][p[2]] = pages[p[1]][p[2]]
  PROVE  FramesPrivate' /\ FramesMarked'
<1>1. FramesMarked'
  BY DEF FramesMarked
<1>2. FramesPrivate'
  <2> SUFFICES ASSUME NEW p \in Allocated', NEW r \in Allocated',
                      pages'[p[1]][p[2]] = pages'[r[1]][r[2]]
               PROVE  p = r
    BY DEF FramesPrivate
  <2>1. CASE p = q /\ r = q
    BY <2>1
  <2>2. CASE p \in Allocated /\ pages'[p[1]][p[2]] = pages[p[1]][p[2]]
             /\ r \in Allocated /\ pages'[r[1]][r[2]] = pages[r[1]][r[2]]
    BY <2>2 DEF FramesPrivate
  <2>3. CASE p = q /\ pages'[p[1]][p[2]] = f /\ r \in Allocated
             /\ pages'[r[1]][r[2]] = pages[r[1]][r[2]]
    BY <2>3 DEF FramesMarked
  <2>4. CASE r = q /\ pages'[r[1]][r[2]] = f /\ p \in Allocated
             /\ pages'[p[1]][p[2]] = pages[p[1]][p[2]]
    BY <2>4 DEF FramesMarked
  <2> QED BY <2>1, <2>2, <2>3, <2>4
<1> QED BY <1>1, <1>2

(* The same when no page gets a frame.                                     *)
LEMMA NoNewOwner ==
  ASSUME FramesPrivate, FramesMarked, frames' = frames,
         \A p \in Allocated' :
           p \in Allocated /\ pages'[p[1]][p[2]] = pages[p[1]][p[2]]
  PROVE  FramesPrivate' /\ FramesMarked'
BY DEF FramesPrivate, FramesMarked

-----------------------------------------------------------------------------
KernelType ==
  /\ frames \subseteq Frames
  /\ dirs \in Seq([Entries -> 0..Len(pages)])
  /\ pages \in Seq([Indexes -> Frames])

\* The directories afterwards, when only entry e of d may have been filled.
OnlyFilled(d, e) ==
  /\ DOMAIN dirs' = DOMAIN dirs
  /\ \A g \in DOMAIN dirs, h \in Entries :
       dirs[g][h] # NULL \/ g # d \/ h # e => dirs'[g][h] = dirs[g][h]

\* The two ways pages change.
Appends(T, d, e) ==
  pages' = Append(pages, T) /\ dirs' = [dirs EXCEPT ![d][e] = Len(pages) + 1]
Sets(t, x, f) == pages' = [pages EXCEPT ![t][x] = f]

(* A table appended for entry e of directory d: the types, and the entries *)
(* afterwards.                                                             *)
LEMMA AppendTable ==
  ASSUME KernelType, NEW T \in [Indexes -> Frames], NEW d \in DOMAIN dirs,
         NEW e \in Entries, Appends(T, d, e)
  PROVE  /\ dirs' \in Seq([Entries -> 0..Len(pages')])
         /\ pages' \in Seq([Indexes -> Frames])
         /\ Len(pages') = Len(pages) + 1
         /\ \A n \in DOMAIN pages : pages'[n] = pages[n]
         /\ pages'[Len(pages) + 1] = T
         /\ DOMAIN dirs' = DOMAIN dirs
         /\ dirs'[d][e] = Len(pages) + 1
         /\ \A g \in DOMAIN dirs, h \in Entries :
              g # d \/ h # e => dirs'[g][h] = dirs[g][h]
<1>1. /\ pages' \in Seq([Indexes -> Frames]) /\ Len(pages') = Len(pages) + 1
      /\ \A n \in DOMAIN pages : pages'[n] = pages[n]
      /\ pages'[Len(pages) + 1] = T
  BY DEF KernelType, Appends
<1>2. Len(pages) \in Nat
  BY DEF KernelType
<1>3. dirs \in Seq([Entries -> 0..Len(pages')])
  <2>1. [Entries -> 0..Len(pages)] \subseteq [Entries -> 0..Len(pages')]
    BY <1>1, <1>2
  <2> DEFINE A == [Entries -> 0..Len(pages)]
             B == [Entries -> 0..Len(pages')]
  <2>2. dirs \in Seq(A)
    BY DEF KernelType
  <2> HIDE DEF A, B
  <2>3. A \subseteq B
    BY <2>1 DEF A, B
  <2>4. dirs \in Seq(B)
    BY <2>2, <2>3
  <2> QED BY <2>4 DEF B
<1>4. dirs[d] \in [Entries -> 0..Len(pages')] /\ Len(pages) + 1 \in 0..Len(pages')
  BY <1>1, <1>2, <1>3
<1>5. [dirs[d] EXCEPT ![e] = Len(pages) + 1] \in [Entries -> 0..Len(pages')]
  BY <1>4
<1>6. dirs' = [dirs EXCEPT ![d] = [dirs[d] EXCEPT ![e] = Len(pages) + 1]]
  BY DEF Appends
<1>7. dirs' \in Seq([Entries -> 0..Len(pages')]) /\ DOMAIN dirs' = DOMAIN dirs
  BY <1>3, <1>5, <1>6
<1>8. dirs'[d][e] = Len(pages) + 1
  BY <1>4, <1>6
<1>9. \A g \in DOMAIN dirs, h \in Entries : g # d \/ h # e => dirs'[g][h] = dirs[g][h]
  BY <1>4, <1>6
<1> QED BY <1>1, <1>7, <1>8, <1>9

(* A page's frame field set: the types, and the frames afterwards.         *)
LEMMA SetPage ==
  ASSUME KernelType, NEW t \in DOMAIN pages, NEW x \in Indexes, NEW f \in Frames,
         Sets(t, x, f)
  PROVE  /\ pages' \in Seq([Indexes -> Frames])
         /\ Len(pages') = Len(pages) /\ DOMAIN pages' = DOMAIN pages
         /\ pages'[t][x] = f
         /\ \A n \in DOMAIN pages, y \in Indexes :
              n # t \/ y # x => pages'[n][y] = pages[n][y]
<1>1. pages' = [pages EXCEPT ![t] = [pages[t] EXCEPT ![x] = f]]
  BY DEF Sets
<1>2. pages[t] \in [Indexes -> Frames]
  BY DEF KernelType
<1>3. [pages[t] EXCEPT ![x] = f] \in [Indexes -> Frames]
  BY <1>2
<1>4. pages' \in Seq([Indexes -> Frames]) /\ Len(pages') = Len(pages)
      /\ DOMAIN pages' = DOMAIN pages
  BY <1>1, <1>3 DEF KernelType
<1>5. pages'[t][x] = f
  BY <1>1, <1>2
<1>6. \A n \in DOMAIN pages, y \in Indexes :
              n # t \/ y # x => pages'[n][y] = pages[n][y]
  BY <1>1, <1>2
<1> QED BY <1>4, <1>5, <1>6

(* alloc_frame() of a page that may first need a table keeps the types and *)
(* the owners of the frames, and fills at most one entry.                  *)
LEMMA GetPage ==
  ASSUME KernelType, FramesPrivate, FramesMarked,
         NEW d \in DOMAIN dirs, NEW e \in Entries, NEW x \in Indexes,
         get_page_and_alloc_frame(d, e, x)
  PROVE  /\ KernelType' /\ FramesPrivate' /\ FramesMarked'
         /\ OnlyFilled(d, e)
         /\ Len(pages') - Len(pages) \in Nat
<1>1. CASE Has(d, e, x)
  <2>1. dirs' = dirs /\ pages' = pages /\ frames' = frames
    BY <1>1 DEF get_page_and_alloc_frame, Has
  <2>2. KernelType' /\ OnlyFilled(d, e)
    BY <2>1 DEF KernelType, OnlyFilled
  <2>3. \A p \in Allocated' : p \in Allocated /\ pages'[p[1]][p[2]] = pages[p[1]][p[2]]
    BY <2>1 DEF Allocated
  <2>4. FramesPrivate' /\ FramesMarked'
    BY <2>1, <2>3, NoNewOwner
  <2>5. Len(pages') - Len(pages) \in Nat
    BY <2>1 DEF KernelType
  <2> QED BY <2>2, <2>4, <2>5
<1>2. CASE ~Has(d, e, x)
  <2>0. PICK f \in Frames : f = first_frame /\ f \notin frames
    BY <1>2, FirstFrame DEF get_page_and_alloc_frame
  <2>1. f \in Frames /\ f \notin frames /\ frames' = frames \cup {f}
    BY <1>2, <2>0 DEF get_page_and_alloc_frame, Marked
  <2>2. frames' \subseteq Frames
    BY <2>1 DEF KernelType
  <2>3. CASE dirs[d][e] = NULL
    <3> DEFINE TT == [NoTable EXCEPT ![x] = f]
    <3>8. NoTable \in [Indexes -> Frames]
      BY PagingAssumption DEF NoTable, Frames, NONE
    <3>9. TT \in [Indexes -> Frames]
      BY <2>1, <3>8
    <3>0. PICK T \in [Indexes -> Frames] : T = TT
      BY <3>9
    <3>1. T[x] = f /\ \A y \in Indexes : y # x => T[y] = NONE
      BY <3>0 DEF NoTable
    <3>2. Appends(T, d, e)
      BY <2>0, <2>3, <3>0 DEF get_page_and_alloc_frame, Appends
    <3>3. /\ dirs' \in Seq([Entries -> 0..Len(pages')])
          /\ pages' \in Seq([Indexes -> Frames])
          /\ Len(pages') = Len(pages) + 1
          /\ \A n \in DOMAIN pages : pages'[n] = pages[n]
          /\ pages'[Len(pages) + 1] = T
          /\ DOMAIN dirs' = DOMAIN dirs
          /\ \A g \in DOMAIN dirs, h \in Entries :
               g # d \/ h # e => dirs'[g][h] = dirs[g][h]
      BY <3>1, <3>2, AppendTable
    <3>4. KernelType' /\ OnlyFilled(d, e)
      BY <2>2, <2>3, <3>3 DEF KernelType, OnlyFilled
    <3>5. Len(pages) \in Nat /\ DOMAIN pages = 1..Len(pages) /\ DOMAIN pages' = 1..Len(pages')
      BY <3>3 DEF KernelType
    <3>6. ASSUME NEW p \in Allocated'
          PROVE \/ p = <<Len(pages) + 1, x>> /\ pages'[p[1]][p[2]] = f
                \/ p \in Allocated /\ pages'[p[1]][p[2]] = pages[p[1]][p[2]]
      <4>1. p \in (DOMAIN pages') \X Indexes /\ pages'[p[1]][p[2]] # NONE
        BY DEF Allocated
      <4>2. CASE p[1] \in DOMAIN pages
        BY <3>3, <4>1, <4>2 DEF Allocated
      <4>3. CASE p[1] \notin DOMAIN pages
        <5>1. p[1] = Len(pages) + 1
          BY <3>3, <3>5, <4>1, <4>3
        <5>2. p[2] = x
          BY <3>1, <3>3, <4>1, <5>1
        <5> QED BY <3>1, <3>3, <4>1, <5>1, <5>2
      <4> QED BY <4>2, <4>3
    <3>7. FramesPrivate' /\ FramesMarked'
      BY <2>1, <3>6, OneNewOwner
    <3> QED BY <3>3, <3>4, <3>5, <3>7
  <2>4. CASE dirs[d][e] # NULL
    <3>2. PICK t \in DOMAIN pages : t = dirs[d][e]
      BY <2>4 DEF KernelType, NULL
    <3>1. dirs' = dirs /\ Sets(t, x, f)
      BY <1>2, <2>0, <2>4, <3>2 DEF get_page_and_alloc_frame, Sets
    <3>3. /\ pages' \in Seq([Indexes -> Frames])
          /\ Len(pages') = Len(pages) /\ DOMAIN pages' = DOMAIN pages
          /\ pages'[t][x] = f
          /\ \A n \in DOMAIN pages, y \in Indexes :
               n # t \/ y # x => pages'[n][y] = pages[n][y]
      BY <2>1, <3>1, <3>2, SetPage
    <3>4. KernelType' /\ OnlyFilled(d, e)
      BY <2>2, <3>1, <3>3 DEF KernelType, OnlyFilled
    <3>5. \A p \in Allocated' :
            \/ p = <<t, x>> /\ pages'[p[1]][p[2]] = f
            \/ p \in Allocated /\ pages'[p[1]][p[2]] = pages[p[1]][p[2]]
      BY <3>3 DEF Allocated
    <3>6. FramesPrivate' /\ FramesMarked'
      BY <2>1, <3>5, OneNewOwner
    <3>7. Len(pages') - Len(pages) \in Nat
      BY <3>3 DEF KernelType
    <3> QED BY <3>4, <3>6, <3>7
  <2> QED BY <2>3, <2>4
<1> QED BY <1>1, <1>2

-----------------------------------------------------------------------------
\* The types of what is not the kernel's tables.
OtherType ==
  /\ cur_vm_page_dir \in DOMAIN dirs
  /\ memory \in [Frames -> DATA]
  /\ placement \in Nat /\ i \in Nat
  /\ phase \in Phases
  /\ clone \in [src : DOMAIN dirs, dst : DOMAIN dirs, entry : 0..ENTRIES,
                page : 0..PAGES, table : BOOLEAN]

Owners == FramesPrivate /\ FramesMarked

(* What the assumption gives of the constants.                             *)
LEMMA Constants ==
  /\ {FRAMES, PAGES, ENTRIES, KERNEL, HEAP_PAGES} \subseteq Nat \ {0}
  /\ HEAP \in Entries /\ HEAP_PAGES <= PAGES
  /\ NoTable \in [Indexes -> Frames]
  /\ \A n \in Nat : n < ENTRIES => NoDir \in [Entries -> 0..n]
BY PagingAssumption DEF Entries, Frames, NoTable, NoDir, NONE, NULL

(* A step that leaves the bitmap and the tables alone.                     *)
LEMMA KernelUnchanged ==
  ASSUME KernelType, Owners, UNCHANGED kernel PROVE KernelType' /\ Owners'
<1>1. frames' = frames /\ dirs' = dirs /\ pages' = pages
  BY DEF kernel
<1>2. KernelType'
  BY <1>1 DEF KernelType
<1>3. \A p \in Allocated' : p \in Allocated /\ pages'[p[1]][p[2]] = pages[p[1]][p[2]]
  BY <1>1 DEF Allocated
<1> QED BY <1>1, <1>2, <1>3, NoNewOwner DEF Owners

(* An empty table for entry e of directory d.                              *)
LEMMA EmptyTable ==
  ASSUME KernelType, Owners, NEW d \in DOMAIN dirs, NEW e \in Entries,
         Appends(NoTable, d, e), frames' = frames
  PROVE  /\ KernelType' /\ Owners'
         /\ DOMAIN dirs' = DOMAIN dirs
         /\ dirs'[d][e] = Len(pages) + 1
         /\ \A g \in DOMAIN dirs, h \in Entries :
              g # d \/ h # e => dirs'[g][h] = dirs[g][h]
<1>1. /\ dirs' \in Seq([Entries -> 0..Len(pages')])
      /\ pages' \in Seq([Indexes -> Frames])
      /\ Len(pages') = Len(pages) + 1
      /\ \A n \in DOMAIN pages : pages'[n] = pages[n]
      /\ pages'[Len(pages) + 1] = NoTable
      /\ DOMAIN dirs' = DOMAIN dirs
      /\ dirs'[d][e] = Len(pages) + 1
      /\ \A g \in DOMAIN dirs, h \in Entries :
           g # d \/ h # e => dirs'[g][h] = dirs[g][h]
  BY Constants, AppendTable
<1>2. KernelType'
  BY <1>1 DEF KernelType
<1>3. Len(pages) \in Nat /\ DOMAIN pages = 1..Len(pages) /\ DOMAIN pages' = 1..Len(pages')
  BY <1>1 DEF KernelType
<1>4. ASSUME NEW p \in Allocated'
      PROVE p \in Allocated /\ pages'[p[1]][p[2]] = pages[p[1]][p[2]]
  <2>1. p \in (DOMAIN pages') \X Indexes /\ pages'[p[1]][p[2]] # NONE
    BY DEF Allocated
  <2>2. p[1] # Len(pages) + 1
    BY <1>1, <2>1 DEF NoTable
  <2>3. p[1] \in DOMAIN pages
    BY <1>1, <1>3, <2>1, <2>2
  <2> QED BY <1>1, <2>1, <2>3 DEF Allocated
<1>5. Owners'
  BY <1>4, NoNewOwner DEF Owners
<1> QED BY <1>1, <1>2, <1>5

(* A new, empty directory.                                                 *)
LEMMA BeginClone ==
  ASSUME KernelType, Owners, NEW s \in DOMAIN dirs, begin_clone(s)
  PROVE  /\ KernelType' /\ Owners'
         /\ DOMAIN dirs' = DOMAIN dirs \cup {Len(dirs) + 1}
         /\ Len(dirs) + 1 \notin DOMAIN dirs /\ Len(dirs) + 1 # VM
         /\ \A g \in DOMAIN dirs : dirs'[g] = dirs[g]
         /\ clone' = [src |-> s, dst |-> Len(dirs) + 1, entry |-> 0,
                      page |-> 0, table |-> FALSE]
         /\ clone' \in [src : DOMAIN dirs', dst : DOMAIN dirs', entry : 0..ENTRIES,
                        page : 0..PAGES, table : BOOLEAN]
<1>1. /\ dirs' = Append(dirs, NoDir) /\ pages' = pages /\ frames' = frames
      /\ clone' = [src |-> s, dst |-> Len(dirs) + 1, entry |-> 0,
                      page |-> 0, table |-> FALSE]
  BY DEF begin_clone
<1>2. NoDir \in [Entries -> 0..Len(pages)]
  BY DEF NoDir, NULL, KernelType
<1>3. /\ dirs' \in Seq([Entries -> 0..Len(pages)])
      /\ Len(dirs) \in Nat /\ Len(dirs') = Len(dirs) + 1
      /\ DOMAIN dirs = 1..Len(dirs) /\ DOMAIN dirs' = 1..Len(dirs')
      /\ \A g \in DOMAIN dirs : dirs'[g] = dirs[g]
  <2> DEFINE A == [Entries -> 0..Len(pages)]
  <2>1. dirs \in Seq(A) /\ NoDir \in A
    BY <1>2 DEF KernelType
  <2> HIDE DEF A
  <2>2. dirs' \in Seq(A) /\ Len(dirs') = Len(dirs) + 1
      /\ Len(dirs) \in Nat
      /\ DOMAIN dirs = 1..Len(dirs) /\ DOMAIN dirs' = 1..Len(dirs')
      /\ \A g \in 1..Len(dirs) : dirs'[g] = dirs[g]
    BY <1>1, <2>1
  <2> QED BY <2>2 DEF A
<1>4. KernelType'
  BY <1>1, <1>3 DEF KernelType
<1>5. \A p \in Allocated' : p \in Allocated /\ pages'[p[1]][p[2]] = pages[p[1]][p[2]]
  BY <1>1 DEF Allocated
<1>6. Owners'
  BY <1>1, <1>5, NoNewOwner DEF Owners
<1>7. /\ DOMAIN dirs' = DOMAIN dirs \cup {Len(dirs) + 1}
      /\ Len(dirs) + 1 \notin DOMAIN dirs
      /\ Len(dirs) + 1 # VM
  BY <1>3 DEF VM
<1>8. 0 \in 0..ENTRIES /\ 0 \in 0..PAGES
  BY Constants
<1>9. clone' \in [src : DOMAIN dirs', dst : DOMAIN dirs', entry : 0..ENTRIES,
                  page : 0..PAGES, table : BOOLEAN]
  BY <1>1, <1>7, <1>8
<1> QED BY <1>1, <1>3, <1>4, <1>6, <1>7, <1>9

-----------------------------------------------------------------------------
(* TypeOK in two parts.                                                    *)
LEMMA TypeParts == TypeOK <=> KernelType /\ OtherType
BY DEF TypeOK, KernelType, OtherType

\* What the actions before the first clone establish.
Early == phase \in {"tables", "identity", "heap"}

(* Before the first clone the invariant is about owners and types only.    *)
LEMMA EarlyEnough ==
  ASSUME Early, Len(dirs) = 1, KernelType PROVE
    Directories /\ Copying /\ CopiedSoFar /\ KernelMapped
<1>1. ~Cloning
  BY DEF Early, Cloning
<1>2. Ready = {}
  BY DEF Ready, KernelType, VM
<1> QED BY <1>1, <1>2 DEF Early, Directories, Copying, CopiedSoFar, KernelMapped

(* When init_paging() begins there is one empty directory.                 *)
THEOREM InitInvariant == Init => IInv
<1> SUFFICES ASSUME Init PROVE IInv
  OBVIOUS
<1>1. KernelType
  <2>1. NoDir \in [Entries -> 0..0]
    BY DEF NoDir, NULL
  <2> QED BY <2>1 DEF Init, KernelType
<1>2. OtherType
  BY Constants DEF Init, OtherType, VM, Phases
<1>3. Allocated = {}
  BY DEF Init, Allocated
<1>4. FramesPrivate /\ FramesMarked
  BY <1>3 DEF FramesPrivate, FramesMarked
<1>5. Early /\ Len(dirs) = 1
  BY DEF Init, Early
<1> QED BY <1>1, <1>2, <1>4, <1>5, TypeParts, EarlyEnough DEF IInv

(* The loops of init_paging() up to the first clone.                       *)
LEMMA EarlyStep ==
  ASSUME KernelType', Owners', OtherType', Early', DOMAIN dirs' = DOMAIN dirs,
         KernelType, Len(dirs) = 1
  PROVE  IInv'
<1>1. Len(dirs') = 1
  BY DEF KernelType
<1>2. (Directories /\ Copying /\ CopiedSoFar /\ KernelMapped)'
  <2>1. ~Cloning'
    BY DEF Early, Cloning
  <2>2. Ready' = {}
    BY <1>1 DEF Ready, KernelType, VM
  <2> QED BY <1>1, <2>1, <2>2 DEF Early, Directories, Copying, CopiedSoFar, KernelMapped
<1> QED BY <1>2, TypeParts, PTL DEF IInv, Owners

(* The heap's table goes into vm_page_dir, the only directory.             *)
LEMMA InitHeapTable == IInv /\ init_heap_table => IInv'
<1> SUFFICES ASSUME IInv, init_heap_table PROVE IInv'
  OBVIOUS
<1>1. KernelType /\ OtherType /\ Owners
  BY TypeParts DEF IInv, Owners
<1>2. Len(dirs) = 1 /\ VM \in DOMAIN dirs
  BY <1>1 DEF IInv, Directories, init_heap_table, KernelType, VM
<1>3. Appends(NoTable, VM, HEAP) /\ frames' = frames
  BY DEF init_heap_table, Appends
<1>4. KernelType' /\ Owners' /\ DOMAIN dirs' = DOMAIN dirs
  BY <1>1, <1>2, <1>3, Constants, EmptyTable
<1>5. OtherType'
  BY <1>1, <1>4, Constants DEF OtherType, init_heap_table, AfterHeapTable, Phases
<1>6. Early'
  BY DEF Early, init_heap_table
<1> QED BY <1>1, <1>2, <1>4, <1>5, <1>6, EarlyStep

(* A page of the identity mapping.                                         *)
LEMMA IdentityMap == IInv /\ identity_map => IInv'
<1> SUFFICES ASSUME IInv, identity_map PROVE IInv'
  OBVIOUS
<1>1. KernelType /\ OtherType /\ Owners
  BY TypeParts DEF IInv, Owners
<1>2. Len(dirs) = 1 /\ VM \in DOMAIN dirs
  BY <1>1 DEF IInv, Directories, identity_map, KernelType, VM
<1>3. Early'
  BY DEF Early, identity_map
<1>4. CASE IdentityGoesOn
  <2>1. i \div PAGES \in Entries /\ get_page_and_alloc_frame(VM, i \div PAGES, i % PAGES)
        /\ placement' = placement + (Len(pages') - Len(pages)) /\ i' = i + 1
        /\ phase' = phase /\ UNCHANGED <<cur_vm_page_dir, memory, clone>>
    BY <1>4 DEF identity_map
  <2>2. i % PAGES \in Indexes
    BY <1>1, Constants DEF OtherType, Indexes
  <2>3. KernelType' /\ Owners' /\ DOMAIN dirs' = DOMAIN dirs
        /\ Len(pages') - Len(pages) \in Nat
    BY <1>1, <1>2, <2>1, <2>2, GetPage DEF Owners, OnlyFilled
  <2>4. OtherType'
    BY <1>1, <2>1, <2>3 DEF OtherType
  <2> QED BY <1>1, <1>2, <1>3, <2>3, <2>4, EarlyStep
<1>5. CASE ~IdentityGoesOn
  <2>1. UNCHANGED kernel /\ UNCHANGED <<cur_vm_page_dir, memory, clone, placement>>
        /\ i' = 0 /\ phase' = "heap"
    BY <1>5 DEF identity_map
  <2>2. KernelType' /\ Owners' /\ DOMAIN dirs' = DOMAIN dirs
    BY <1>1, <2>1, KernelUnchanged DEF kernel
  <2>3. OtherType'
    BY <1>1, <2>1, <2>2 DEF OtherType, Phases
  <2> QED BY <1>1, <1>2, <1>3, <2>2, <2>3, EarlyStep
<1> QED BY <1>4, <1>5

-----------------------------------------------------------------------------
(* A clone of a directory that maps the kernel, or of vm_page_dir, begins. *)
LEMMA CloneBegins ==
  ASSUME IInv, NEW s \in DOMAIN dirs, s = VM \/ s \in Ready, begin_clone(s),
         phase \in {"heap", "run"}, phase' \in {"clone", "fork"},
         phase' = "fork" => phase = "run",
         UNCHANGED <<cur_vm_page_dir, memory, placement>>, i' \in Nat
  PROVE  IInv'
<1>1. KernelType /\ OtherType /\ Owners
  BY TypeParts DEF IInv, Owners
<1>2. /\ KernelType' /\ Owners'
      /\ DOMAIN dirs' = DOMAIN dirs \cup {Len(dirs) + 1}
      /\ Len(dirs) + 1 \notin DOMAIN dirs /\ Len(dirs) + 1 # VM
      /\ \A g \in DOMAIN dirs : dirs'[g] = dirs[g]
      /\ clone' = [src |-> s, dst |-> Len(dirs) + 1, entry |-> 0,
                   page |-> 0, table |-> FALSE]
      /\ clone' \in [src : DOMAIN dirs', dst : DOMAIN dirs', entry : 0..ENTRIES,
                     page : 0..PAGES, table : BOOLEAN]
  BY <1>1, BeginClone
<1>3. OtherType'
  BY <1>1, <1>2 DEF OtherType, Phases
<1>4. clone'.src = s /\ clone'.dst = Len(dirs) + 1 /\ clone'.entry = 0 /\ ~clone'.table
  BY <1>2
<1>5. Directories'
  BY <1>2, <1>4 DEF IInv, Directories, Cloning
<1>6. Copying' /\ CopiedSoFar'
  BY <1>4 DEF Copying, CopiedSoFar, Entries
<1>7. KernelMapped'
  <2>1. Ready' \subseteq Ready
    BY <1>2, <1>4 DEF Ready
  <2>2. VM \in DOMAIN dirs
    BY <1>1 DEF OtherType, KernelType, VM
  <2> QED BY <1>2, <2>1, <2>2 DEF IInv, KernelMapped, Ready
<1> QED BY <1>2, <1>3, <1>5, <1>6, <1>7, TypeParts, PTL DEF IInv, Owners

(* A page of the heap, or the first clone.                                 *)
LEMMA MapHeap == IInv /\ map_heap => IInv'
<1> SUFFICES ASSUME IInv, map_heap PROVE IInv'
  OBVIOUS
<1>1. KernelType /\ OtherType /\ Owners
  BY TypeParts DEF IInv, Owners
<1>2. Len(dirs) = 1 /\ VM \in DOMAIN dirs
  BY <1>1 DEF IInv, Directories, map_heap, KernelType, VM
<1>3. CASE i < HEAP_PAGES
  <2>1. get_page_and_alloc_frame(VM, HEAP, i) /\ i' = i + 1
        /\ UNCHANGED <<phase, clone, cur_vm_page_dir, memory, placement>>
        /\ phase = "heap"
    BY <1>3 DEF map_heap
  <2>2. i \in Indexes
    BY <1>1, <1>3, Constants DEF OtherType, Indexes
  <2>3. KernelType' /\ Owners' /\ DOMAIN dirs' = DOMAIN dirs
    BY <1>1, <1>2, <2>1, <2>2, Constants, GetPage DEF Owners, OnlyFilled
  <2>4. OtherType'
    BY <1>1, <2>1, <2>3 DEF OtherType
  <2>5. Early'
    BY <2>1 DEF Early
  <2> QED BY <1>1, <1>2, <2>3, <2>4, <2>5, EarlyStep
<1>4. CASE ~(i < HEAP_PAGES)
  <2>1. begin_clone(VM) /\ phase = "heap" /\ phase' = "clone" /\ i' = 0
        /\ UNCHANGED <<cur_vm_page_dir, memory, placement>>
    BY <1>4 DEF map_heap
  <2> QED BY <1>2, <2>1, CloneBegins
<1> QED BY <1>3, <1>4

(* fork() clones the directory of the task that runs.                      *)
LEMMA Fork == IInv /\ fork => IInv'
<1> SUFFICES ASSUME IInv, fork PROVE IInv'
  OBVIOUS
<1>1. cur_vm_page_dir \in DOMAIN dirs /\ i \in Nat
  BY DEF IInv, TypeOK
<1>2. cur_vm_page_dir \in Ready
  BY <1>1 DEF IInv, Directories, fork, Ready
<1> QED BY <1>1, <1>2, CloneBegins DEF fork

-----------------------------------------------------------------------------
(* init_multitask() fills entries of the running task's directory that     *)
(* vm_page_dir does not have.                                              *)
LEMMA MoveStack == IInv /\ move_stack => IInv'
<1> SUFFICES ASSUME IInv, move_stack PROVE IInv'
  OBVIOUS
<1>1. KernelType /\ OtherType /\ Owners
  BY TypeParts DEF IInv, Owners
<1>2. ~Cloning' /\ phase' \in {"stack", "run"} /\ phase = "stack"
      /\ UNCHANGED <<cur_vm_page_dir, memory, placement, clone>>
  BY DEF move_stack, Cloning
<1>3. cur_vm_page_dir # VM /\ cur_vm_page_dir \in DOMAIN dirs
  BY <1>1, <1>2 DEF IInv, Directories, OtherType
<1>4. CASE i < Len(STACK)
  <2> DEFINE d == cur_vm_page_dir
             e == STACK[i + 1][1]
             x == STACK[i + 1][2]
  <2>1. get_page_and_alloc_frame(d, e, x) /\ i' = i + 1
    BY <1>4 DEF move_stack
  <2>2. e \in Entries /\ x \in Indexes
    <3>1. STACK \in Seq(Entries \X Indexes)
      BY PagingAssumption DEF Entries, Indexes
    <3>2. i \in Nat /\ Len(STACK) \in Nat /\ DOMAIN STACK = 1..Len(STACK)
      BY <1>1, <3>1 DEF OtherType
    <3>3. i + 1 \in DOMAIN STACK
      BY <1>4, <3>2
    <3>4. STACK[i + 1] \in Entries \X Indexes
      BY <3>1, <3>3
    <3> QED BY <3>4
  <2> HIDE DEF e, x
  <2>3. KernelType' /\ Owners' /\ OnlyFilled(d, e)
    BY <1>1, <1>3, <2>1, <2>2, GetPage DEF Owners
  <2>4. OtherType'
    BY <1>1, <1>2, <2>1, <2>3 DEF OtherType, OnlyFilled, Phases
  <2>5. Ready' = Ready /\ VM \in DOMAIN dirs
    <3>1. Ready = DOMAIN dirs \ {VM} /\ Ready' = DOMAIN dirs' \ {VM}
      BY <1>2 DEF Ready
    <3>2. VM \in DOMAIN dirs
      BY <1>1, <1>3 DEF KernelType, VM
    <3> QED BY <2>3, <3>1, <3>2 DEF OnlyFilled
  <2>6. ASSUME NEW g \in Ready', NEW h \in Entries, dirs'[VM][h] # NULL
        PROVE  dirs'[g][h] = dirs'[VM][h]
    <3>1. g \in DOMAIN dirs /\ dirs'[VM][h] = dirs[VM][h]
      BY <1>3, <2>3, <2>5 DEF OnlyFilled, Ready
    <3>2. dirs[g][h] = dirs[VM][h]
      BY <2>5, <2>6, <3>1 DEF IInv, KernelMapped
    <3>3. dirs'[g][h] = dirs[g][h]
      BY <2>3, <2>6, <3>1, <3>2 DEF OnlyFilled
    <3> QED BY <3>1, <3>2, <3>3
  <2>7. KernelMapped'
    BY <2>6 DEF KernelMapped
  <2>8. (Directories /\ Copying /\ CopiedSoFar)'
    BY <1>2, <1>3 DEF Directories, Copying, CopiedSoFar
  <2> QED BY <2>3, <2>4, <2>7, <2>8, TypeParts, PTL DEF IInv, Owners
<1>5. CASE ~(i < Len(STACK))
  <2>1. UNCHANGED kernel /\ i' = 0
    BY <1>5 DEF move_stack
  <2>2. KernelType' /\ Owners' /\ dirs' = dirs
    BY <1>1, <2>1, KernelUnchanged DEF kernel
  <2>3. OtherType'
    BY <1>1, <1>2, <2>1, <2>2 DEF OtherType, Phases
  <2>4. KernelMapped'
    BY <1>2, <2>2 DEF IInv, KernelMapped, Ready
  <2>5. (Directories /\ Copying /\ CopiedSoFar)'
    BY <1>2, <1>3 DEF Directories, Copying, CopiedSoFar
  <2> QED BY <2>2, <2>3, <2>4, <2>5, TypeParts, PTL DEF IInv, Owners
<1> QED BY <1>4, <1>5

-----------------------------------------------------------------------------
(* What a clone in progress knows of its source and of vm_page_dir.        *)
LEMMA CloneInProgress ==
  ASSUME IInv, Cloning
  PROVE  /\ KernelType /\ OtherType /\ Owners
         /\ VM \in DOMAIN dirs /\ clone.src \in DOMAIN dirs /\ clone.dst \in DOMAIN dirs
         /\ clone.dst # VM /\ clone.dst # clone.src
         /\ clone.entry \in 0..ENTRIES /\ clone.page \in 0..PAGES
         /\ clone.table \in BOOLEAN
         /\ \A e \in Entries : dirs[VM][e] # NULL => dirs[clone.src][e] = dirs[VM][e]
<1>1. KernelType /\ OtherType /\ Owners
  BY TypeParts DEF IInv, Owners
<1>2. clone.src \in DOMAIN dirs /\ clone.dst \in DOMAIN dirs /\ clone.entry \in 0..ENTRIES
      /\ clone.page \in 0..PAGES /\ clone.table \in BOOLEAN
  BY <1>1 DEF OtherType
<1>3. clone.dst # VM /\ clone.dst # clone.src
  BY DEF IInv, Directories
<1>4. clone.src = VM \/ clone.src \in Ready
  BY <1>2, <1>3 DEF Ready
<1>5. \A e \in Entries : dirs[VM][e] # NULL => dirs[clone.src][e] = dirs[VM][e]
  BY <1>4 DEF IInv, KernelMapped
<1>6. VM \in DOMAIN dirs
  BY <1>1, <1>2 DEF KernelType, VM
<1> QED BY <1>1, <1>2, <1>3, <1>5, <1>6

(* A step of a clone that changes at most the copy's current entry keeps   *)
(* the finished directories as they are.                                   *)
LEMMA OthersMapped ==
  ASSUME IInv, Cloning, UNCHANGED <<phase, cur_vm_page_dir>>,
         clone'.dst = clone.dst, clone'.src = clone.src, DOMAIN dirs' = DOMAIN dirs,
         \A g \in DOMAIN dirs, h \in Entries :
           g # clone.dst => dirs'[g][h] = dirs[g][h]
  PROVE  Directories' /\ KernelMapped'
<1>1. VM \in DOMAIN dirs /\ clone.dst # VM
  BY CloneInProgress
<1>2. Ready' = Ready /\ \A g \in Ready : g \in DOMAIN dirs /\ g # clone.dst
  BY DEF Ready, Cloning
<1>3. KernelMapped'
  BY <1>1, <1>2 DEF IInv, KernelMapped
<1>4. Directories'
  BY DEF IInv, Directories, Cloning
<1> QED BY <1>3, <1>4

(* An entry that is linked is vm_page_dir's or empty there.                *)
LEMMA LinkTable == IInv /\ link_table => IInv'
<1> SUFFICES ASSUME IInv, link_table PROVE IInv'
  OBVIOUS
<1>1. Cloning /\ clone.entry \in Entries /\ Linked(clone.entry)
      /\ dirs' = [dirs EXCEPT ![clone.dst][clone.entry] = Source]
      /\ clone' = [clone EXCEPT !.entry = @ + 1]
      /\ UNCHANGED <<frames, pages, cur_vm_page_dir, memory, placement, phase, i>>
  BY DEF link_table
<1>2. /\ KernelType /\ OtherType /\ Owners
      /\ VM \in DOMAIN dirs /\ clone.src \in DOMAIN dirs /\ clone.dst \in DOMAIN dirs
      /\ clone.dst # VM /\ clone.dst # clone.src
      /\ clone.entry \in 0..ENTRIES /\ clone.page \in 0..PAGES
      /\ clone.table \in BOOLEAN
      /\ \A e \in Entries : dirs[VM][e] # NULL => dirs[clone.src][e] = dirs[VM][e]
  BY <1>1, CloneInProgress
<1>3. clone.entry + 1 \in 0..ENTRIES
  BY <1>1, Constants DEF Entries
<1>4. /\ clone' \in [src : DOMAIN dirs, dst : DOMAIN dirs, entry : 0..ENTRIES,
                     page : 0..PAGES, table : BOOLEAN]
      /\ clone'.src = clone.src /\ clone'.dst = clone.dst
      /\ clone'.entry = clone.entry + 1 /\ clone'.table = clone.table
  BY <1>1, <1>2, <1>3 DEF OtherType
<1>5. /\ dirs' \in Seq([Entries -> 0..Len(pages)])
      /\ DOMAIN dirs' = DOMAIN dirs
      /\ dirs'[clone.dst][clone.entry] = Source
      /\ \A g \in DOMAIN dirs, h \in Entries :
           g # clone.dst \/ h # clone.entry => dirs'[g][h] = dirs[g][h]
  <2>1. PICK e \in Entries, d \in DOMAIN dirs : e = clone.entry /\ d = clone.dst
    BY <1>1, <1>2
  <2>9. dirs[clone.src] \in [Entries -> 0..Len(pages)]
    BY <1>2 DEF KernelType
  <2>2. PICK r \in 0..Len(pages) : r = Source
    BY <1>1, <2>9 DEF Source
  <2>3. dirs' = [dirs EXCEPT ![d] = [dirs[d] EXCEPT ![e] = r]]
    BY <1>1, <2>1, <2>2
  <2>4. dirs[d] \in [Entries -> 0..Len(pages)]
    BY <1>2 DEF KernelType
  <2>5. [dirs[d] EXCEPT ![e] = r] \in [Entries -> 0..Len(pages)]
    BY <2>4
  <2>6. dirs' \in Seq([Entries -> 0..Len(pages)]) /\ DOMAIN dirs' = DOMAIN dirs
    BY <1>2, <2>3, <2>5 DEF KernelType
  <2>7. dirs'[d][e] = r
    BY <2>3, <2>4
  <2>8. \A g \in DOMAIN dirs, h \in Entries : g # d \/ h # e => dirs'[g][h] = dirs[g][h]
    BY <2>3, <2>4
  <2> QED BY <2>1, <2>2, <2>6, <2>7, <2>8
<1>6. KernelType'
  BY <1>1, <1>2, <1>5 DEF KernelType
<1>7. Owners'
  <2>1. \A p \in Allocated' : p \in Allocated /\ pages'[p[1]][p[2]] = pages[p[1]][p[2]]
    BY <1>1 DEF Allocated
  <2> QED BY <1>1, <1>2, <2>1, NoNewOwner DEF Owners
<1>8. OtherType'
  BY <1>1, <1>2, <1>4, <1>5 DEF OtherType
<1>9. Directories' /\ KernelMapped'
  BY <1>1, <1>4, <1>5, OthersMapped
<1>10. Copying'
  <2>1. ~clone.table
    BY <1>1 DEF IInv, Copying
  <2> QED BY <1>4, <2>1 DEF Copying
<1>11. CopiedSoFar'
  <2>1. ASSUME NEW e \in Entries, e < clone.entry + 1, dirs'[VM][e] # NULL
        PROVE  dirs'[clone.dst][e] = dirs'[VM][e]
    <3>1. dirs'[VM][e] = dirs[VM][e]
      BY <1>2, <1>5
    <3>2. CASE e = clone.entry
      BY <1>2, <1>5, <2>1, <3>1, <3>2 DEF Source
    <3>3. CASE e # clone.entry
      <4>1. e < clone.entry
        BY <1>2, <2>1, <3>3 DEF Entries
      <4>2. dirs[clone.dst][e] = dirs[VM][e]
        BY <1>1, <2>1, <3>1, <4>1 DEF IInv, CopiedSoFar
      <4> QED BY <1>2, <1>5, <3>1, <3>3, <4>2
    <3> QED BY <3>2, <3>3
  <2> QED BY <1>4, <2>1 DEF CopiedSoFar
<1> QED BY <1>6, <1>7, <1>8, <1>9, <1>10, <1>11, TypeParts, PTL DEF IInv, Owners

(* An entry that gets a table of its own is empty in vm_page_dir.          *)
LEMMA NewTable == IInv /\ new_table => IInv'
<1> SUFFICES ASSUME IInv, new_table PROVE IInv'
  OBVIOUS
<1>1. Cloning /\ clone.entry \in Entries /\ ~Linked(clone.entry) /\ ~clone.table
      /\ clone' = [clone EXCEPT !.table = TRUE, !.page = 0]
      /\ UNCHANGED <<frames, cur_vm_page_dir, memory, placement, phase, i>>
  BY DEF new_table
<1>2. /\ KernelType /\ OtherType /\ Owners
      /\ VM \in DOMAIN dirs /\ clone.src \in DOMAIN dirs /\ clone.dst \in DOMAIN dirs
      /\ clone.dst # VM /\ clone.dst # clone.src
      /\ clone.entry \in 0..ENTRIES
  BY <1>1, CloneInProgress
<1>3. /\ clone' \in [src : DOMAIN dirs, dst : DOMAIN dirs, entry : 0..ENTRIES,
                     page : 0..PAGES, table : BOOLEAN]
      /\ clone'.src = clone.src /\ clone'.dst = clone.dst
      /\ clone'.entry = clone.entry
  <2>1. 0 \in 0..PAGES
    BY Constants
  <2>2. clone \in [src : DOMAIN dirs, dst : DOMAIN dirs, entry : 0..ENTRIES,
                   page : 0..PAGES, table : BOOLEAN]
    BY <1>2 DEF OtherType
  <2> QED BY <1>1, <2>1, <2>2
<1>4. Appends(NoTable, clone.dst, clone.entry)
  BY DEF new_table, Appends
<1>5. /\ KernelType' /\ Owners'
      /\ DOMAIN dirs' = DOMAIN dirs
      /\ dirs'[clone.dst][clone.entry] = Len(pages) + 1
      /\ \A g \in DOMAIN dirs, h \in Entries :
           g # clone.dst \/ h # clone.entry => dirs'[g][h] = dirs[g][h]
  BY <1>1, <1>2, <1>4, EmptyTable
<1>6. OtherType'
  BY <1>1, <1>2, <1>3, <1>5 DEF OtherType
<1>7. Directories' /\ KernelMapped'
  BY <1>1, <1>3, <1>5, OthersMapped
<1>8. Copying'
  <2>1. dirs'[clone.dst][clone.entry] # NULL
    BY <1>2, <1>5 DEF KernelType, NULL
  <2>2. dirs'[clone.src][clone.entry] = dirs[clone.src][clone.entry]
        /\ dirs'[VM][clone.entry] = dirs[VM][clone.entry]
    BY <1>1, <1>2, <1>5
  <2> QED BY <1>1, <1>3, <2>1, <2>2 DEF Copying, Linked
<1>9. CopiedSoFar'
  <2>1. ASSUME NEW e \in Entries, e < clone.entry, dirs'[VM][e] # NULL
        PROVE  dirs'[clone.dst][e] = dirs'[VM][e]
    <3>1. dirs'[VM][e] = dirs[VM][e] /\ e # clone.entry
      BY <1>2, <1>5, <2>1 DEF Entries
    <3>2. dirs[clone.dst][e] = dirs[VM][e]
      BY <1>1, <2>1, <3>1 DEF IInv, CopiedSoFar
    <3> QED BY <1>2, <1>5, <3>1, <3>2
  <2> QED BY <1>3, <2>1 DEF CopiedSoFar
<1> QED BY <1>5, <1>6, <1>7, <1>8, <1>9, TypeParts, PTL DEF IInv, Owners

(* A page of a copied table gets a frame that nobody has.                  *)
LEMMA ClonePage == IInv /\ clone_page => IInv'
<1> SUFFICES ASSUME IInv, clone_page PROVE IInv'
  OBVIOUS
<1>1. Cloning /\ clone.table /\ clone.page \in Indexes
      /\ clone' = [clone EXCEPT !.page = @ + 1]
      /\ UNCHANGED <<dirs, cur_vm_page_dir, placement, phase, i>>
  BY DEF clone_page
<1>2. /\ KernelType /\ OtherType /\ Owners
      /\ VM \in DOMAIN dirs /\ clone.src \in DOMAIN dirs /\ clone.dst \in DOMAIN dirs
  BY <1>1, CloneInProgress
<1>3. clone.entry \in Entries /\ ~Linked(clone.entry) /\ dirs[clone.dst][clone.entry] # NULL
  BY <1>1 DEF IInv, Copying
<1>4. /\ clone' \in [src : DOMAIN dirs, dst : DOMAIN dirs, entry : 0..ENTRIES,
                     page : 0..PAGES, table : BOOLEAN]
      /\ clone'.src = clone.src /\ clone'.dst = clone.dst
      /\ clone'.entry = clone.entry /\ clone'.table = clone.table
  <2>1. clone.page + 1 \in 0..PAGES
    BY <1>1, Constants DEF Indexes
  <2>2. clone \in [src : DOMAIN dirs, dst : DOMAIN dirs, entry : 0..ENTRIES,
                   page : 0..PAGES, table : BOOLEAN]
    BY <1>2 DEF OtherType
  <2> QED BY <1>1, <2>1, <2>2
<1>5. KernelType' /\ Owners' /\ memory' \in [Frames -> DATA]
  <2>1. CASE SourceFrame = NONE
    <3>1. UNCHANGED kernel /\ memory' = memory
      BY <1>1, <2>1 DEF clone_page, kernel
    <3> QED BY <1>2, <3>1, KernelUnchanged DEF OtherType
  <2>2. CASE SourceFrame # NONE
    <3>1. dirs[clone.src] \in [Entries -> 0..Len(pages)]
          /\ dirs[clone.dst] \in [Entries -> 0..Len(pages)]
      BY <1>2 DEF KernelType
    <3>2. Source \in DOMAIN pages
      BY <1>2, <1>3, <3>1 DEF KernelType, Linked, Source, NULL
    <3>3. PICK t \in DOMAIN pages : t = dirs[clone.dst][clone.entry]
      BY <1>2, <1>3, <3>1 DEF KernelType, NULL
    <3>4. PICK f \in Frames : f = first_frame /\ f \notin frames
      BY <2>2, FirstFrame DEF clone_page
    <3>5. PICK x \in Indexes : x = clone.page
      BY <1>1
    <3>6. Sets(t, x, f) /\ frames' = frames \cup {f}
          /\ memory' = copy_page_phy(SourceFrame, f)
      BY <2>2, <3>3, <3>4, <3>5 DEF clone_page, Sets, Marked
    <3>7. /\ pages' \in Seq([Indexes -> Frames])
          /\ Len(pages') = Len(pages) /\ DOMAIN pages' = DOMAIN pages
          /\ pages'[t][x] = f
          /\ \A n \in DOMAIN pages, y \in Indexes :
               n # t \/ y # x => pages'[n][y] = pages[n][y]
      BY <1>2, <3>6, SetPage
    <3>8. KernelType'
      BY <1>1, <1>2, <3>6, <3>7 DEF KernelType
    <3>9. \A p \in Allocated' :
            \/ p = <<t, x>> /\ pages'[p[1]][p[2]] = f
            \/ p \in Allocated /\ pages'[p[1]][p[2]] = pages[p[1]][p[2]]
      BY <3>7 DEF Allocated
    <3>10. Owners'
      BY <1>2, <3>4, <3>6, <3>9, OneNewOwner DEF Owners
    <3>11. SourceFrame \in Frames
      BY <1>1, <1>2, <3>2 DEF KernelType, SourceFrame
    <3>12. memory' \in [Frames -> DATA]
      BY <1>2, <3>6, <3>11 DEF OtherType, copy_page_phy
    <3> QED BY <3>8, <3>10, <3>12
  <2> QED BY <2>1, <2>2
<1>6. OtherType'
  BY <1>1, <1>2, <1>4, <1>5 DEF OtherType
<1>7. Directories' /\ KernelMapped'
  BY <1>1, <1>4, OthersMapped
<1>8. Copying' /\ CopiedSoFar'
  BY <1>1, <1>3, <1>4 DEF IInv, Copying, CopiedSoFar, Linked, Cloning
<1> QED BY <1>5, <1>6, <1>7, <1>8, TypeParts, PTL DEF IInv, Owners

(* The copied entry was none of vm_page_dir's.                             *)
LEMMA EndTable == IInv /\ end_table => IInv'
<1> SUFFICES ASSUME IInv, end_table PROVE IInv'
  OBVIOUS
<1>1. Cloning /\ clone.table
      /\ clone' = [clone EXCEPT !.entry = @ + 1, !.table = FALSE, !.page = 0]
      /\ UNCHANGED <<kernel, cur_vm_page_dir, memory, placement, phase, i>>
  BY DEF end_table
<1>2. /\ KernelType /\ OtherType /\ Owners
      /\ \A e \in Entries : dirs[VM][e] # NULL => dirs[clone.src][e] = dirs[VM][e]
  BY <1>1, CloneInProgress
<1>3. clone.entry \in Entries /\ ~Linked(clone.entry)
  BY <1>1 DEF IInv, Copying
<1>4. KernelType' /\ Owners' /\ dirs' = dirs
  BY <1>1, <1>2, KernelUnchanged DEF kernel
<1>5. /\ clone' \in [src : DOMAIN dirs, dst : DOMAIN dirs, entry : 0..ENTRIES,
                     page : 0..PAGES, table : BOOLEAN]
      /\ clone'.src = clone.src /\ clone'.dst = clone.dst
      /\ clone'.entry = clone.entry + 1 /\ clone'.table = FALSE
  <2>1. clone.entry + 1 \in 0..ENTRIES /\ 0 \in 0..PAGES
    BY <1>3, Constants DEF Entries
  <2>2. clone \in [src : DOMAIN dirs, dst : DOMAIN dirs, entry : 0..ENTRIES,
                   page : 0..PAGES, table : BOOLEAN]
    BY <1>2 DEF OtherType
  <2> QED BY <1>1, <2>1, <2>2
<1>6. OtherType'
  BY <1>1, <1>2, <1>4, <1>5 DEF OtherType
<1>7. Directories' /\ KernelMapped'
  BY <1>1, <1>4, <1>5, OthersMapped
<1>8. Copying'
  BY <1>5 DEF Copying
<1>9. CopiedSoFar'
  <2>1. ASSUME NEW e \in Entries, e < clone.entry + 1, dirs[VM][e] # NULL
        PROVE  dirs[clone.dst][e] = dirs[VM][e]
    <3>1. e # clone.entry
      BY <1>2, <1>3, <2>1 DEF Linked
    <3>2. e < clone.entry
      BY <1>3, <2>1, <3>1 DEF Entries
    <3> QED BY <1>1, <2>1, <3>2 DEF IInv, CopiedSoFar
  <2> QED BY <1>4, <1>5, <2>1 DEF CopiedSoFar
<1> QED BY <1>4, <1>6, <1>7, <1>8, <1>9, TypeParts, PTL DEF IInv, Owners

-----------------------------------------------------------------------------
(* clone_dir() returns: every entry has been linked or copied.             *)
LEMMA EndClone == IInv /\ end_clone => IInv'
<1> SUFFICES ASSUME IInv, end_clone PROVE IInv'
  OBVIOUS
<1>1. Cloning /\ clone.entry = ENTRIES /\ phase' \in {"stack", "run"}
      /\ UNCHANGED <<kernel, memory, placement, i, clone>>
      /\ (phase = "clone" => cur_vm_page_dir' = clone.dst)
      /\ (phase # "clone" => cur_vm_page_dir' = cur_vm_page_dir)
  BY DEF end_clone
<1>2. /\ KernelType /\ OtherType /\ Owners
      /\ clone.dst \in DOMAIN dirs /\ clone.dst # VM
  BY <1>1, CloneInProgress
<1>3. KernelType' /\ Owners' /\ dirs' = dirs
  BY <1>1, <1>2, KernelUnchanged DEF kernel
<1>4. OtherType'
  BY <1>1, <1>2, <1>3 DEF OtherType, Phases
<1>5. ~Cloning'
  BY <1>1 DEF Cloning
<1>6. (Directories /\ Copying /\ CopiedSoFar)'
  BY <1>1, <1>2, <1>5 DEF IInv, Directories, Copying, CopiedSoFar, Cloning
<1>7. KernelMapped'
  <2>1. ASSUME NEW d \in Ready', NEW e \in Entries, dirs[VM][e] # NULL
        PROVE  dirs[d][e] = dirs[VM][e]
    <3>1. CASE d = clone.dst
      BY <1>1, <2>1, <3>1, Constants DEF IInv, CopiedSoFar, Entries
    <3>2. CASE d # clone.dst
      BY <1>3, <2>1, <3>2 DEF IInv, KernelMapped, Ready
    <3> QED BY <3>1, <3>2
  <2> QED BY <1>3, <2>1 DEF KernelMapped
<1> QED BY <1>3, <1>4, <1>6, <1>7, TypeParts, PTL DEF IInv, Owners

(* The actions that leave the kernel's tables alone.                       *)
LEMMA Rest == IInv /\ (page_fault \/ switch \/ store) => IInv'
<1> SUFFICES ASSUME IInv, page_fault \/ switch \/ store PROVE IInv'
  OBVIOUS
<1>1. UNCHANGED <<kernel, placement, i, clone>>
      /\ \/ phase' = "fault" /\ UNCHANGED <<cur_vm_page_dir, memory>>
         \/ phase = "run" /\ phase' = "run" /\ memory' = memory
            /\ cur_vm_page_dir' \in DOMAIN dirs \ {VM}
         \/ phase = "run" /\ phase' = "run" /\ cur_vm_page_dir' = cur_vm_page_dir
            /\ memory' \in [Frames -> DATA]
  <2>1. CASE page_fault
    BY <2>1 DEF page_fault
  <2>2. CASE switch
    BY <2>2 DEF switch
  <2>3. CASE store
    BY <2>3 DEF store, IInv, TypeOK
  <2> QED BY <2>1, <2>2, <2>3
<1>2. KernelType /\ OtherType /\ Owners
  BY TypeParts DEF IInv, Owners
<1>3. KernelType' /\ Owners' /\ dirs' = dirs
  BY <1>1, <1>2, KernelUnchanged DEF kernel
<1>4. OtherType'
  BY <1>1, <1>2, <1>3 DEF OtherType, Phases
<1>5. ~Cloning'
  BY <1>1 DEF Cloning
<1>6. (Directories /\ Copying /\ CopiedSoFar)'
  BY <1>1, <1>5 DEF IInv, Directories, Copying, CopiedSoFar
<1>7. Ready' \subseteq Ready
  BY <1>1, <1>3 DEF Ready
<1>8. KernelMapped'
  BY <1>3, <1>7 DEF IInv, KernelMapped
<1> QED BY <1>3, <1>4, <1>6, <1>8, TypeParts, PTL DEF IInv, Owners

-----------------------------------------------------------------------------
(* The inductive invariant holds throughout.                               *)
THEOREM Invariance == Spec => []IInv
<1>1. IInv /\ [Next]_vars => IInv'
  <2> SUFFICES ASSUME IInv, [Next]_vars PROVE IInv'
    OBVIOUS
  <2>1. CASE UNCHANGED vars
    BY <2>1 DEF vars, kernel, IInv, TypeOK, FramesPrivate, FramesMarked, Allocated,
      Directories, Copying, CopiedSoFar, KernelMapped, Ready, Cloning, Linked
  <2>2. CASE Next
    BY <2>2, InitHeapTable, IdentityMap, MapHeap, MoveStack, LinkTable, NewTable,
      ClonePage, EndTable, EndClone, Fork, Rest DEF Next
  <2> QED BY <2>1, <2>2
<1> QED BY <1>1, InitInvariant, PTL DEF Spec

(* TypeOK of the Paging module, for any sizes.                             *)
THEOREM TypeCorrectness == Spec => []TypeOK
BY Invariance, PTL DEF IInv

(* alloc_frame() never gives a frame to two pages, in whatever order       *)
(* directories are cloned and tasks switched: two tasks' stacks, and a     *)
(* stack and the kernel, never share memory.                               *)
THEOREM FramesHaveOneOwner == Spec => []FramesPrivate
BY Invariance, PTL DEF IInv

(* set_frame() has marked every frame that a page uses.                    *)
THEOREM UsedFramesAreMarked == Spec => []FramesMarked
BY Invariance, PTL DEF IInv

(* clone_dir() gives every task vm_page_dir's tables, however long the     *)
(* chain of clones: an interrupt finds its kernel in any of them.          *)
THEOREM KernelInEveryTask == Spec => []KernelMapped
BY Invariance, PTL DEF IInv
=============================================================================
