------------------------- MODULE PagingLayoutProofs -------------------------
(***************************************************************************)
(* Proofs about Paging for any memory and tables in which the heap begins  *)
(* above the kernel and the stacks above the heap (LayoutAssumption): the  *)
(* identity mapping and the heap that init_paging() builds, and the        *)
(* private stacks that clone_dir() copies.                                 *)
(*                                                                         *)
(* IdentityMapped and HeapContiguous hold because first_frame() goes       *)
(* through the bitmap in order while nothing is freed: EarlyLayout says of *)
(* each loop which frames are taken and which table has which entry.       *)
(* Afterwards only tables that are not vm_page_dir's change (LateLayout),  *)
(* which TablesPrivate lets us tell apart: a table in two directories is   *)
(* vm_page_dir's, at the same entry.  The stacks need in addition that     *)
(* every page of them is there (StackMapped), that a table being filled is *)
(* the copy's own (OwnTable), and what has been copied (CopyFaithful).     *)
(***************************************************************************)
EXTENDS PagingProofs

\* The tables of the identity mapping: table 1 is the heap's.
Tables == Len(pages) - 1

\* Tables map the pages below n to themselves, and there is no table too many.
LowPages(n) ==
  /\ Tables \in 0..HEAP
  /\ n <= Tables * PAGES /\ (Tables > 0 => (Tables - 1) * PAGES < n)
  /\ \A e \in Entries :
       dirs[VM][e] = IF e = HEAP THEN 1 ELSE IF e < Tables THEN e + 2 ELSE NULL
  /\ \A e \in 0..(Tables - 1), x \in Indexes :
       pages[e + 2][x] = IF e * PAGES + x < n THEN e * PAGES + x ELSE NONE

\* The heap's first n pages follow one another from frame base on.
HeapPages(base, n) ==
  \A x \in Indexes : pages[1][x] = IF x < n THEN base + x ELSE NONE

EarlyLayout ==
  /\ phase = "tables" =>
       /\ frames = {} /\ dirs[VM] = NoDir /\ Len(pages) = 0
       /\ placement = KERNEL /\ i = 0
  /\ phase = "identity" =>
       /\ frames = 0..(i - 1) /\ i <= placement /\ placement = AfterHeapTable + Tables
       /\ LowPages(i) /\ HeapPages(0, 0)
  /\ phase = "heap" =>
       /\ frames = 0..(placement + i - 1) /\ placement = AfterHeapTable + Tables
       /\ LowPages(placement) /\ HeapPages(placement, i)

\* What the running tasks leave as it is.
LateLayout ==
  ~Early =>
    /\ IdentityMapped /\ HeapContiguous
    /\ NONE \in frames
    /\ \A e \in Entries : dirs[VM][e] # NULL => e <= HEAP
    /\ dirs[VM][HEAP] # NULL
    /\ \A x \in 0..(placement - 1) : x \div PAGES \in Entries

\* A table in two directories is vm_page_dir's.
TablesPrivate ==
  \A d, g \in DOMAIN dirs, e, h \in Entries :
    dirs[d][e] # NULL /\ dirs[d][e] = dirs[g][h] =>
      e = h /\ (d = g \/ dirs[VM][e] = dirs[d][e])

HasStack(d, k) == Has(d, STACK[k][1], STACK[k][2])

StackMapped ==
  /\ phase \in {"clone", "stack"} => Len(dirs) = 2
  /\ phase = "clone" => i = 0
  /\ phase = "stack" => \A k \in DOMAIN STACK : k <= i => HasStack(cur_vm_page_dir, k)
  /\ phase \in {"run", "fork"} => \A d \in Ready, k \in DOMAIN STACK : HasStack(d, k)

\* fork() clones the running task's directory, and a table it fills is new.
OwnTable ==
  /\ phase = "fork" => clone.src = cur_vm_page_dir
  /\ Cloning /\ clone.table => dirs[clone.dst][clone.entry] # dirs[VM][clone.entry]

CopiedPage(e, x) ==
  LET s == dirs[clone.src][e]
      t == dirs[clone.dst][e]
  IN  /\ t # NULL
      /\ pages[s][x] # NONE =>
           pages[t][x] # NONE /\ memory[pages[t][x]] = memory[pages[s][x]]

CopyFaithful ==
  Cloning => \A e \in Entries, x \in Indexes :
    ~Linked(e) /\ (e < clone.entry \/ (e = clone.entry /\ clone.table /\ x < clone.page))
      => CopiedPage(e, x)

LInv ==
  /\ EarlyLayout /\ LateLayout /\ TablesPrivate
  /\ StackMapped /\ OwnTable /\ CopyFaithful

-----------------------------------------------------------------------------
(* Quotient and remainder.                                                 *)
LEMMA Division ==
  ASSUME NEW n \in Nat
  PROVE  /\ n \div PAGES \in Nat /\ n % PAGES \in Indexes
         /\ n = (n \div PAGES) * PAGES + (n % PAGES)
<1>1. ASSUME NEW P \in Nat \ {0}
      PROVE  /\ n \div P \in Nat /\ n % P \in 0..(P - 1)
             /\ n = (n \div P) * P + (n % P)
  OBVIOUS
<1>2. PAGES \in Nat \ {0}
  BY PagingAssumption
<1> QED BY <1>1, <1>2 DEF Indexes

(* A number in the t-th stretch of PAGES has t for its quotient.           *)
LEMMA QuotientIs ==
  ASSUME NEW n \in Nat, NEW t \in Nat, t * PAGES <= n, n < (t + 1) * PAGES
  PROVE  n \div PAGES = t
<1>1. ASSUME NEW P \in Nat \ {0}, NEW q \in Nat, NEW m \in Nat, m < P,
             n = q * P + m, t * P <= n, n < (t + 1) * P
      PROVE  q = t
  BY <1>1
<1>2. PAGES \in Nat \ {0}
  BY PagingAssumption
<1>3. n % PAGES \in Nat /\ n % PAGES < PAGES
  BY Division, <1>2 DEF Indexes
<1> QED BY <1>1, <1>2, <1>3, Division

(* Products grow with their factor.                                        *)
LEMMA Stretches ==
  ASSUME NEW s \in Nat, NEW t \in Nat, s * PAGES < t * PAGES
  PROVE  s < t
<1>1. ASSUME NEW P \in Nat, s * P < t * P PROVE s < t
  BY <1>1
<1> QED BY <1>1, PagingAssumption

(* The frames being taken in order, the next one is next.                  *)
LEMMA NextFrame ==
  ASSUME NEW n \in Nat, frames = 0..(n - 1), first_frame # BAD
  PROVE  first_frame = n
<1>1. Frames \ frames \in SUBSET Nat /\ Frames \ frames # {}
  BY PagingAssumption DEF Frames, first_frame
<1>2. \E f \in Frames \ frames : \A g \in Frames \ frames : f <= g
  BY <1>1, Least
<1>3. PICK f \in Frames \ frames :
        f = first_frame /\ \A g \in Frames \ frames : f <= g
  BY <1>1, <1>2 DEF first_frame
<1>4. f \in Nat /\ f >= n /\ f < FRAMES
  BY <1>3, PagingAssumption DEF Frames
<1>5. n \in Frames \ frames
  BY <1>4, PagingAssumption DEF Frames
<1> QED BY <1>3, <1>4, <1>5

-----------------------------------------------------------------------------
\* What giving frame f to page x of entry e of directory d does.
GivesFrame(d, e, x, f) ==
  /\ f \in Frames \ frames /\ frames' = frames \cup {f}
  /\ DOMAIN dirs' = DOMAIN dirs
  /\ \A g \in DOMAIN dirs, h \in Entries : g # d \/ h # e => dirs'[g][h] = dirs[g][h]
  /\ dirs'[d][e] = IF dirs[d][e] = NULL THEN Len(pages) + 1 ELSE dirs[d][e]
  /\ Len(pages') = IF dirs[d][e] = NULL THEN Len(pages) + 1 ELSE Len(pages)
  /\ pages'[dirs'[d][e]][x] = f
  /\ dirs[d][e] = NULL =>
       \A y \in Indexes : y # x => pages'[Len(pages) + 1][y] = NONE
  /\ \A n \in DOMAIN pages, y \in Indexes :
       n # dirs[d][e] \/ y # x => pages'[n][y] = pages[n][y]

(* alloc_frame() of a page without a frame gives it the first free one.    *)
LEMMA FrameGiven ==
  ASSUME KernelType, NEW d \in DOMAIN dirs, NEW e \in Entries, NEW x \in Indexes,
         get_page_and_alloc_frame(d, e, x), ~Has(d, e, x)
  PROVE  GivesFrame(d, e, x, first_frame) /\ first_frame # BAD
<1>1. PICK f \in Frames \ frames :
        f = first_frame /\ frames' = frames \cup {f} /\ first_frame # BAD
  BY FirstFrame DEF get_page_and_alloc_frame, Marked
<1>2. CASE dirs[d][e] = NULL
  <2>1. PICK T \in [Indexes -> Frames] :
          T = [NoTable EXCEPT ![x] = f]
    BY <1>1, Constants
  <2>2. T[x] = f /\ \A y \in Indexes : y # x => T[y] = NONE
    BY <2>1 DEF NoTable
  <2>3. Appends(T, d, e)
    BY <1>1, <1>2, <2>1 DEF get_page_and_alloc_frame, Appends
  <2>4. /\ Len(pages') = Len(pages) + 1
        /\ \A n \in DOMAIN pages : pages'[n] = pages[n]
        /\ pages'[Len(pages) + 1] = T
        /\ DOMAIN dirs' = DOMAIN dirs
        /\ dirs'[d][e] = Len(pages) + 1
        /\ \A g \in DOMAIN dirs, h \in Entries :
             g # d \/ h # e => dirs'[g][h] = dirs[g][h]
    BY <2>3, AppendTable
  <2> QED BY <1>1, <1>2, <2>2, <2>4 DEF GivesFrame
<1>3. CASE dirs[d][e] # NULL
  <2>1. PICK t \in DOMAIN pages : t = dirs[d][e]
    BY <1>3 DEF KernelType, NULL
  <2>2. dirs' = dirs /\ Sets(t, x, f)
    BY <1>1, <1>3, <2>1 DEF get_page_and_alloc_frame, Sets
  <2>3. /\ Len(pages') = Len(pages)
        /\ pages'[t][x] = f
        /\ \A n \in DOMAIN pages, y \in Indexes :
             n # t \/ y # x => pages'[n][y] = pages[n][y]
    BY <1>1, <2>2, SetPage
  <2> QED BY <1>1, <1>3, <2>1, <2>2, <2>3 DEF GivesFrame
<1> QED BY <1>2, <1>3

(* A page that has a frame keeps it.                                       *)
LEMMA FrameKept ==
  ASSUME NEW d, NEW e, NEW x, get_page_and_alloc_frame(d, e, x), Has(d, e, x)
  PROVE  frames' = frames /\ dirs' = dirs /\ pages' = pages
BY DEF get_page_and_alloc_frame, Has
-----------------------------------------------------------------------------
(* The constants of the layout.                                            *)
LEMMA Layout ==
  /\ PAGES \in Nat \ {0} /\ KERNEL \in Nat \ {0} /\ HEAP \in Entries
  /\ HEAP \in Nat \ {0} /\ HEAP_PAGES \in Nat \ {0} /\ HEAP_PAGES <= PAGES
  /\ AfterHeapTable \in Nat \ {0} /\ AfterHeapTable + HEAP <= HEAP * PAGES
  /\ NONE \in Indexes
<1>1. HEAP \in Nat /\ PAGES \in Nat \ {0} /\ KERNEL \in Nat \ {0} /\ HEAP \in Entries
      /\ HEAP_PAGES \in Nat \ {0} /\ HEAP_PAGES <= PAGES
  BY PagingAssumption DEF Entries
<1>2. AfterHeapTable \in Nat \ {0} /\ AfterHeapTable + HEAP <= HEAP * PAGES
  BY <1>1, LayoutAssumption DEF AfterHeapTable
<1>3. HEAP # 0
  BY <1>1, <1>2
<1> QED BY <1>1, <1>2, <1>3 DEF Indexes, NONE

(* What IInv gives of vm_page_dir.                                         *)
LEMMA KernelDir ==
  ASSUME IInv
  PROVE  /\ KernelType /\ OtherType /\ VM \in DOMAIN dirs
         /\ DOMAIN dirs = 1..Len(dirs) /\ Len(dirs) \in Nat
         /\ DOMAIN pages = 1..Len(pages) /\ Len(pages) \in Nat
         /\ \A d \in DOMAIN dirs, e \in Entries : dirs[d][e] \in 0..Len(pages)
         /\ \A t \in DOMAIN pages, x \in Indexes : pages[t][x] \in Frames
<1>1. KernelType /\ OtherType
  BY TypeParts DEF IInv
<1>2. VM \in DOMAIN dirs
  BY <1>1 DEF KernelType, OtherType, VM
<1> QED BY <1>1, <1>2 DEF KernelType

(* Before the kernel's first table there is nothing.                       *)
LEMMA InitLayout == Init => LInv
<1> SUFFICES ASSUME Init PROVE LInv
  OBVIOUS
<1>1. EarlyLayout
  BY DEF Init, EarlyLayout, VM
<1>2. Early /\ phase = "tables" /\ ~Cloning
  BY DEF Init, Early, Cloning
<1>3. TablesPrivate
  BY DEF Init, TablesPrivate, NoDir
<1> QED BY <1>1, <1>2, <1>3
  DEF LInv, LateLayout, StackMapped, OwnTable, CopyFaithful, Cloning

(* With the heap's table the identity mapping begins.                      *)
LEMMA HeapTable == ASSUME IInv, LInv, init_heap_table PROVE EarlyLayout'
<1>1. /\ KernelType /\ VM \in DOMAIN dirs /\ Len(pages) = 0
      /\ frames' = {} /\ dirs[VM] = NoDir
      /\ phase' = "identity" /\ i' = 0 /\ placement' = AfterHeapTable
  BY KernelDir DEF LInv, EarlyLayout, init_heap_table
<1>2. /\ Len(pages') = 1 /\ pages'[1] = NoTable /\ dirs'[VM][HEAP] = 1
      /\ \A e \in Entries : e # HEAP => dirs'[VM][e] = NULL
  <2>1. Appends(NoTable, VM, HEAP)
    BY DEF init_heap_table, Appends
  <2> QED BY <1>1, <2>1, Constants, AppendTable DEF NoDir
<1>3. LowPages(0)'
  BY <1>2, Layout DEF LowPages, Tables, Entries
<1>4. HeapPages(0, 0)'
  BY <1>2 DEF HeapPages, NoTable, Indexes
<1> QED BY <1>1, <1>2, <1>3, <1>4, Layout DEF EarlyLayout, Tables

(* A page of the identity mapping gets the frame of its own number.        *)
LEMMA IdentityPage ==
  ASSUME IInv, LInv, identity_map, IdentityGoesOn PROVE EarlyLayout'
<1> DEFINE e == i \div PAGES
           x == i % PAGES
<1>1. /\ phase = "identity" /\ phase' = "identity" /\ i' = i + 1 /\ e \in Entries
      /\ get_page_and_alloc_frame(VM, e, x)
      /\ placement' = placement + (Len(pages') - Len(pages)) /\ i < placement
  BY DEF identity_map, IdentityGoesOn
<1>2. /\ frames = 0..(i - 1) /\ placement = AfterHeapTable + Tables
      /\ LowPages(i) /\ HeapPages(0, 0)
  BY <1>1 DEF LInv, EarlyLayout
<1>3. i \in Nat /\ e \in Nat /\ x \in Indexes /\ i = e * PAGES + x
  <2>1. i \in Nat
    BY KernelDir DEF OtherType
  <2> QED BY <2>1, Division
<1> HIDE DEF e, x
<1>4. Tables \in 0..HEAP /\ e \in 0..Tables /\ e < HEAP
      /\ (e = Tables => x = 0 /\ i = Tables * PAGES)
  <2>1. Tables \in 0..HEAP /\ i <= Tables * PAGES
    BY <1>2 DEF LowPages
  <2>2. i < HEAP * PAGES
    BY <1>1, <1>2, <1>3, <2>1, Layout
  <2>3. e * PAGES <= i /\ x \in Nat
    BY <1>3, Layout DEF Indexes
  <2>4. e < HEAP
    BY <1>3, <2>2, <2>3, Layout, Stretches
  <2>5. e <= Tables
    <3>1. CASE i < Tables * PAGES
      BY <1>3, <2>1, <2>3, <3>1, Layout, Stretches
    <3>2. CASE i = Tables * PAGES
      <4>1. i < (Tables + 1) * PAGES
        BY <2>1, <3>2, Layout
      <4>2. e * PAGES < (Tables + 1) * PAGES
        BY <1>3, <2>1, <2>3, <4>1, Layout
      <4> QED BY <1>3, <2>1, <4>2, Layout, Stretches
    <3> QED BY <1>3, <2>1, <3>1, <3>2, Layout
  <2>6. e = Tables => x = 0 /\ i = Tables * PAGES
    BY <1>3, <2>1, <2>3, Layout
  <2> QED BY <1>3, <2>1, <2>4, <2>5, <2>6
<1>5. /\ KernelType /\ VM \in DOMAIN dirs
      /\ DOMAIN pages = 1..Len(pages) /\ Len(pages) \in Nat
  BY KernelDir
<1>6. dirs[VM][e] = IF e < Tables THEN e + 2 ELSE NULL
  BY <1>1, <1>2, <1>4 DEF LowPages
<1>7. ~Has(VM, e, x)
  BY <1>2, <1>3, <1>4, <1>6 DEF Has, LowPages, NULL
<1>8. first_frame = i /\ GivesFrame(VM, e, x, i)
  BY <1>1, <1>2, <1>3, <1>5, <1>7, FrameGiven, NextFrame
<1>9. /\ Tables \in Nat /\ Len(pages) = Tables + 1 /\ HEAP \in Nat /\ Tables <= HEAP
      /\ e <= Tables /\ (dirs[VM][e] = NULL <=> e = Tables)
  <2>1. Len(pages) = Tables + 1
    BY <1>5 DEF Tables
  <2>2. Tables \in Nat /\ HEAP \in Nat /\ Tables <= HEAP /\ e <= Tables
    <3>1. HEAP \in Nat
      BY Layout
    <3> QED BY <1>3, <1>4, <3>1
  <2>3. dirs[VM][e] = NULL <=> e = Tables
    BY <1>3, <1>6, <2>2 DEF NULL
  <2> QED BY <2>1, <2>2, <2>3
<1>10. /\ Tables' = IF e = Tables THEN Tables + 1 ELSE Tables
       /\ Len(pages') = Tables' + 1 /\ Tables' \in Nat
       /\ dirs'[VM][e] = e + 2 /\ e < Tables'
       /\ \A h \in Entries : h # e => dirs'[VM][h] = dirs[VM][h]
       /\ frames' = frames \cup {i}
  <2>1. /\ Len(pages') = IF dirs[VM][e] = NULL THEN Len(pages) + 1 ELSE Len(pages)
        /\ dirs'[VM][e] = IF dirs[VM][e] = NULL THEN Len(pages) + 1 ELSE dirs[VM][e]
        /\ \A h \in Entries : h # e => dirs'[VM][h] = dirs[VM][h]
        /\ frames' = frames \cup {i}
    BY <1>5, <1>8 DEF GivesFrame
  <2>2. Len(pages') = IF e = Tables THEN Tables + 2 ELSE Tables + 1
    BY <1>9, <2>1
  <2>3. Tables' = Len(pages') - 1
    BY DEF Tables
  <2>4. dirs'[VM][e] = e + 2
    BY <1>3, <1>6, <1>9, <2>1
  <2> QED BY <1>3, <1>9, <2>1, <2>2, <2>3, <2>4
<1>11. frames' = 0..(i' - 1) /\ i' <= placement' /\ placement' = AfterHeapTable + Tables'
  <2>1. frames' = 0..(i' - 1)
    <3>1. 0..i = (0..(i - 1)) \cup {i} /\ i' - 1 = i
      BY <1>1, <1>3
    <3> QED BY <1>2, <1>10, <3>1
  <2>2. Len(pages') - Len(pages) = Tables' - Tables
    BY <1>9, <1>10
  <2>3. AfterHeapTable \in Nat
    BY Layout
  <2>4. placement' = AfterHeapTable + Tables'
    BY <1>1, <1>2, <1>9, <1>10, <2>2, <2>3
  <2>5. i < placement /\ placement = AfterHeapTable + Tables /\ i' = i + 1
        /\ Tables <= Tables'
    BY <1>1, <1>2, <1>9, <1>10
  <2>6. Tables \in Nat /\ Tables' \in Nat
    BY <1>9, <1>10
  <2>7. i' <= placement'
    BY <1>3, <2>3, <2>4, <2>5, <2>6
  <2> QED BY <2>1, <2>4, <2>7
<1>12. ASSUME NEW h \in 0..(Tables' - 1), NEW y \in Indexes
       PROVE  pages'[h + 2][y] = IF h * PAGES + y < i + 1 THEN h * PAGES + y ELSE NONE
  <2>1. CASE h = e /\ y = x
    BY <1>3, <1>8, <1>10, <2>1 DEF GivesFrame
  <2>2. CASE h = e /\ y # x /\ e = Tables
    <3>1. pages'[h + 2][y] = NONE
      BY <1>4, <1>5, <1>6, <1>8, <2>2 DEF GivesFrame, Tables
    <3>2. ~(h * PAGES + y < i + 1)
      BY <1>3, <1>4, <2>2, Layout DEF Indexes
    <3> QED BY <3>1, <3>2
  <2>3. CASE (h # e \/ y # x) /\ h < Tables
    <3>1. pages'[h + 2][y] = pages[h + 2][y]
      <4>1. h + 2 \in DOMAIN pages
        BY <1>5, <1>9, <1>10, <2>3
      <4> QED BY <1>3, <1>6, <1>8, <1>9, <2>3, <4>1 DEF GivesFrame, NULL
    <3>2. h * PAGES + y # i
      <4>1. ASSUME h * PAGES + y = i PROVE FALSE
        <5>1. h * PAGES <= i /\ i < (h + 1) * PAGES
          BY <4>1, <1>4, Layout DEF Indexes
        <5>2. h = i \div PAGES
          BY <1>3, <1>4, <2>3, <5>1, QuotientIs
        <5>3. h = e
          BY <5>2 DEF e
        <5> QED BY <1>3, <2>3, <4>1, <5>3, Layout DEF Indexes
      <4> QED BY <4>1
    <3>3. pages[h + 2][y] = IF h * PAGES + y < i THEN h * PAGES + y ELSE NONE
      BY <1>2, <2>3, <1>4 DEF LowPages
    <3>4. h * PAGES + y \in Nat
      BY <1>4, <2>3, Layout DEF Indexes
    <3> QED BY <1>3, <3>1, <3>2, <3>3, <3>4
  <2>4. h \in Nat /\ h < Tables' /\ (h < Tables \/ (h = e /\ e = Tables))
    <3>1. Tables' \in Nat /\ Tables' = IF e = Tables THEN Tables + 1 ELSE Tables
      BY <1>10
    <3>2. h \in Nat /\ h < Tables'
      BY <3>1
    <3>3. Tables \in Nat
      BY <1>9
    <3>4. h < Tables \/ (h = e /\ e = Tables)
      BY <3>1, <3>2, <3>3
    <3> QED BY <3>2, <3>4
  <2> QED BY <2>1, <2>2, <2>3, <2>4
<1>13. LowPages(i)'
  <2>1. Tables' \in 0..HEAP
    <3>1. Tables' \in Nat /\ HEAP \in Nat /\ e < HEAP
      BY <1>4, <1>9, <1>10
    <3>2. Tables' <= HEAP
      BY <1>3, <1>9, <1>10, <3>1
    <3> QED BY <3>1, <3>2
  <2>2. i + 1 <= Tables' * PAGES /\ (Tables' - 1) * PAGES < i + 1
    <3> DEFINE A == Tables * PAGES
               B == (Tables - 1) * PAGES
               C == (Tables + 1) * PAGES
    <3>1. A \in Int /\ B = A - PAGES /\ C = A + PAGES /\ PAGES \in Nat \ {0}
      BY <1>9, Layout
    <3>2. CASE e = Tables
      <4>1. Tables' = Tables + 1 /\ (Tables + 1) - 1 = Tables
        BY <1>9, <1>10, <3>2
      <4>2. i = A
        BY <1>4, <3>2
      <4> HIDE DEF A, B, C
      <4>3. i + 1 <= C /\ A < i + 1
        BY <1>3, <3>1, <4>2
      <4> QED BY <4>1, <4>3 DEF A, C
    <3>3. CASE e < Tables
      <4>1. B < i /\ i <= A
        BY <1>2, <1>3, <1>9, <3>3 DEF LowPages
      <4>2. i # A
        <5>1. (e + 1) * PAGES <= Tables * PAGES
          BY <1>3, <1>9, <3>3, Layout
        <5>2. i < (e + 1) * PAGES
          BY <1>3, Layout DEF Indexes
        <5>3. (e + 1) * PAGES \in Nat
          BY <1>3, Layout
        <5> QED BY <1>3, <3>1, <5>1, <5>2, <5>3
      <4>3. Tables' = Tables
        BY <1>3, <1>9, <1>10, <3>3
      <4> HIDE DEF A, B, C
      <4>4. i + 1 <= A /\ B < i + 1
        BY <1>3, <3>1, <4>1, <4>2
      <4> QED BY <4>3, <4>4 DEF A, B
    <3> QED BY <1>3, <1>9, <3>2, <3>3
  <2>3. ASSUME NEW h \in Entries
        PROVE  dirs'[VM][h] = IF h = HEAP THEN 1 ELSE IF h < Tables' THEN h + 2 ELSE NULL
    <3>1. CASE h = e
      BY <1>3, <1>4, <1>9, <1>10, <3>1
    <3>2. CASE h # e
      <4>1. dirs'[VM][h] = IF h = HEAP THEN 1 ELSE IF h < Tables THEN h + 2 ELSE NULL
        BY <1>2, <1>10, <3>2 DEF LowPages
      <4>2. h < Tables' <=> h < Tables
        <5>1. h \in Nat
          BY Constants DEF Entries
        <5> QED BY <1>3, <1>9, <1>10, <3>2, <5>1
      <4> QED BY <4>1, <4>2
    <3> QED BY <3>1, <3>2
  <2> QED BY <1>1, <1>12, <2>1, <2>2, <2>3 DEF LowPages
<1>14. HeapPages(0, 0)'
  <2>1. 1 \in DOMAIN pages /\ dirs[VM][e] # 1
    BY <1>3, <1>5, <1>6, <1>9 DEF NULL
  <2>2. \A y \in Indexes : pages'[1][y] = pages[1][y]
    BY <1>8, <2>1 DEF GivesFrame
  <2> QED BY <1>2, <2>2 DEF HeapPages
<1> QED BY <1>1, <1>11, <1>13, <1>14 DEF EarlyLayout

(* At the end of the identity mapping placement_address stands still.      *)
LEMMA IdentityEnd ==
  ASSUME IInv, LInv, identity_map, ~IdentityGoesOn PROVE EarlyLayout'
<1>1. /\ phase = "identity" /\ phase' = "heap" /\ i' = 0
      /\ frames' = frames /\ dirs' = dirs /\ pages' = pages /\ placement' = placement
      /\ ~(i < placement)
  BY DEF identity_map, IdentityGoesOn, kernel
<1>2. /\ frames = 0..(i - 1) /\ i <= placement /\ placement = AfterHeapTable + Tables
      /\ LowPages(i) /\ HeapPages(0, 0)
  BY <1>1 DEF LInv, EarlyLayout
<1>3. i \in Nat /\ placement \in Nat
  BY KernelDir DEF OtherType
<1>4. i = placement
  BY <1>1, <1>2, <1>3
<1>5. frames' = 0..(placement' + i' - 1)
  BY <1>1, <1>2, <1>3, <1>4
<1>6. LowPages(placement)'
  BY <1>1, <1>2, <1>4 DEF LowPages, Tables
<1>7. HeapPages(placement, i)'
  <2>1. \A x \in Indexes : ~(x < 0)
    BY Layout DEF Indexes
  <2> QED BY <1>1, <1>2, <2>1 DEF HeapPages
<1> QED BY <1>1, <1>2, <1>5, <1>6, <1>7 DEF EarlyLayout, Tables

(* The heap's pages follow one another because the frames do.              *)
LEMMA HeapPage ==
  ASSUME IInv, LInv, map_heap, i < HEAP_PAGES PROVE EarlyLayout'
<1>1. /\ phase = "heap" /\ phase' = "heap" /\ i' = i + 1 /\ placement' = placement
      /\ get_page_and_alloc_frame(VM, HEAP, i)
  BY DEF map_heap
<1>2. /\ frames = 0..(placement + i - 1) /\ placement = AfterHeapTable + Tables
      /\ LowPages(placement) /\ HeapPages(placement, i)
  BY <1>1 DEF LInv, EarlyLayout
<1>3. /\ KernelType /\ VM \in DOMAIN dirs /\ i \in Nat /\ placement \in Nat
      /\ DOMAIN pages = 1..Len(pages) /\ Len(pages) \in Nat
  BY KernelDir DEF OtherType
<1>4. i \in Indexes /\ HEAP \in Entries
  BY <1>3, Layout DEF Indexes
<1>5. dirs[VM][HEAP] = 1 /\ ~Has(VM, HEAP, i) /\ placement + i \in Nat
  BY <1>2, <1>3, <1>4 DEF LowPages, HeapPages, Has, NULL
<1>6. first_frame = placement + i /\ GivesFrame(VM, HEAP, i, placement + i)
  BY <1>1, <1>2, <1>3, <1>4, <1>5, FrameGiven, NextFrame
<1>7. /\ frames' = frames \cup {placement + i}
      /\ \A h \in Entries : dirs'[VM][h] = dirs[VM][h]
      /\ Len(pages') = Len(pages) /\ pages'[1][i] = placement + i
      /\ \A n \in DOMAIN pages, y \in Indexes :
           n # 1 \/ y # i => pages'[n][y] = pages[n][y]
  BY <1>3, <1>5, <1>6 DEF GivesFrame, NULL
<1>8. frames' = 0..(placement' + i' - 1)
  <2>1. 0..(placement + i) = (0..(placement + i - 1)) \cup {placement + i}
        /\ placement' + i' - 1 = placement + i
    BY <1>1, <1>3
  <2> QED BY <1>2, <1>7, <2>1
<1>9. Tables' = Tables /\ Tables \in Nat /\ Len(pages) = Tables + 1
  <2>1. Tables \in Nat
    BY <1>2, Layout DEF LowPages
  <2> QED BY <1>3, <1>7, <2>1 DEF Tables
<1>10. LowPages(placement)'
  <2>1. ASSUME NEW h \in 0..(Tables - 1), NEW y \in Indexes
        PROVE  pages'[h + 2][y] = pages[h + 2][y]
    <3>1. h + 2 \in DOMAIN pages /\ h + 2 # 1
      BY <1>3, <1>9
    <3> QED BY <1>7, <3>1
  <2> QED BY <1>1, <1>2, <1>7, <1>9, <2>1 DEF LowPages
<1>11. HeapPages(placement, i)'
  <2>1. 1 \in DOMAIN pages
    BY <1>3, <1>9
  <2>2. ASSUME NEW y \in Indexes
        PROVE  pages'[1][y] = IF y < i + 1 THEN placement + y ELSE NONE
    <3>1. y \in Nat
      BY Layout DEF Indexes
    <3>2. CASE y = i
      BY <1>3, <1>7, <3>2
    <3>3. CASE y # i
      <4>1. pages'[1][y] = IF y < i THEN placement + y ELSE NONE
        BY <1>2, <1>7, <2>1, <3>3 DEF HeapPages
      <4> QED BY <1>3, <3>1, <3>3, <4>1
    <3> QED BY <3>2, <3>3
  <2> QED BY <1>1, <2>2 DEF HeapPages
<1> QED BY <1>1, <1>2, <1>8, <1>9, <1>10, <1>11 DEF EarlyLayout

(* The low pages are mapped to themselves through the tables below the     *)
(* heap's.                                                                 *)
LEMMA LowMapped ==
  ASSUME IInv, LowPages(placement), NEW n \in 0..(placement - 1)
  PROVE  n \div PAGES \in Entries /\ dirs[VM][n \div PAGES] # NULL /\ Low(n) = n
<1> DEFINE q == n \div PAGES
           r == n % PAGES
<1>1. placement \in Nat
  BY KernelDir DEF OtherType
<1>2. n \in Nat /\ n < placement
  BY <1>1
<1>3. q \in Nat /\ r \in Indexes /\ n = q * PAGES + r
  BY <1>2, Division
<1> HIDE DEF q, r
<1>4. /\ Tables \in Nat /\ Tables <= HEAP /\ HEAP \in Nat /\ HEAP \in Entries
      /\ placement <= Tables * PAGES
  BY Layout DEF LowPages
<1>5. q * PAGES <= n
  BY <1>3, Layout DEF Indexes
<1>6. q * PAGES < Tables * PAGES
  <2>1. q * PAGES \in Nat /\ Tables * PAGES \in Nat
    BY <1>3, <1>4, Layout
  <2> QED BY <1>1, <1>2, <1>4, <1>5, <2>1
<1>7. q < Tables
  BY <1>3, <1>4, <1>6, Stretches
<1>8. q \in Entries /\ q # HEAP /\ q \in 0..(Tables - 1)
  BY <1>3, <1>4, <1>7, Constants DEF Entries
<1>9. dirs[VM][q] = q + 2
  BY <1>7, <1>8 DEF LowPages
<1>10. pages[q + 2][r] = n
  BY <1>2, <1>3, <1>8 DEF LowPages
<1>11. Low(n) = pages[dirs[VM][q]][r]
  BY DEF Low, q, r
<1> QED BY <1>3, <1>8, <1>9, <1>10, <1>11 DEF q, NULL

(* When the heap is mapped the layout is complete.                         *)
LEMMA HeapEnd ==
  ASSUME IInv, LInv, map_heap, ~(i < HEAP_PAGES) PROVE LateLayout'
<1>1. /\ phase = "heap" /\ phase' = "clone" /\ placement' = placement
      /\ begin_clone(VM) /\ frames' = frames /\ pages' = pages
  BY DEF map_heap, begin_clone
<1>2. /\ frames = 0..(placement + i - 1) /\ placement = AfterHeapTable + Tables
      /\ LowPages(placement) /\ HeapPages(placement, i)
  BY <1>1 DEF LInv, EarlyLayout
<1>3. /\ KernelType /\ Owners /\ VM \in DOMAIN dirs /\ i \in Nat /\ placement \in Nat
  BY KernelDir DEF OtherType, IInv, Owners
<1>4. dirs'[VM] = dirs[VM]
  BY <1>1, <1>3, BeginClone
<1>5. IdentityMapped'
  BY <1>1, <1>2, <1>4, LowMapped DEF IdentityMapped, Low
<1>6. Tables \in Nat /\ dirs[VM][HEAP] = 1
      /\ \A e \in Entries : dirs[VM][e] # NULL => e <= HEAP
  <2>1. Tables \in Nat /\ Tables <= HEAP
    BY <1>2, Layout DEF LowPages
  <2>2. \A e \in Entries : e \in Nat
    BY Constants DEF Entries
  <2> QED BY <1>2, <2>1, <2>2, Layout DEF LowPages
<1>7. HeapContiguous'
  <2>1. ASSUME NEW x \in 1..(HEAP_PAGES - 1)
        PROVE  pages[1][x] = pages[1][x - 1] + 1
    <3>1. x \in Indexes /\ x - 1 \in Indexes /\ x < i /\ x - 1 < i /\ x \in Nat
      <4>1. ~(i < HEAP_PAGES) /\ HEAP_PAGES \in Nat \ {0} /\ HEAP_PAGES <= PAGES
            /\ PAGES \in Nat \ {0}
        BY Layout
      <4> QED BY <1>3, <4>1 DEF Indexes
    <3>2. pages[1][x] = placement + x /\ pages[1][x - 1] = placement + (x - 1)
      BY <1>2, <3>1 DEF HeapPages
    <3> QED BY <1>3, <3>1, <3>2
  <2> QED BY <1>1, <1>4, <1>6, <2>1 DEF HeapContiguous
<1>8. NONE \in frames
  <2>1. placement > 0
    BY <1>2, <1>6, Layout
  <2> QED BY <1>2, <1>3, <2>1 DEF NONE
<1> QED BY <1>1, <1>2, <1>4, <1>5, <1>6, <1>7, <1>8, LowMapped DEF LateLayout, NULL

(* A step that leaves vm_page_dir and its tables as they are.              *)
LEMMA LateStep ==
  ASSUME LateLayout, ~Early, placement' = placement, frames \subseteq frames',
         \A e \in Entries : dirs'[VM][e] = dirs[VM][e],
         \A e \in Entries, x \in Indexes :
           dirs[VM][e] # NULL => pages'[dirs[VM][e]][x] = pages[dirs[VM][e]][x],
         placement \in Nat
  PROVE  LateLayout'
<1>1. /\ IdentityMapped /\ HeapContiguous /\ NONE \in frames
      /\ \A e \in Entries : dirs[VM][e] # NULL => e <= HEAP
      /\ dirs[VM][HEAP] # NULL
      /\ \A x \in 0..(placement - 1) : x \div PAGES \in Entries
  BY DEF LateLayout
<1>2. IdentityMapped'
  <2>1. ASSUME NEW x \in 0..(placement - 1)
        PROVE  dirs'[VM][x \div PAGES] # NULL
               /\ pages'[dirs'[VM][x \div PAGES]][x % PAGES] = x
    <3>1. x % PAGES \in Indexes
      BY Division
    <3>2. x \div PAGES \in Entries
      BY <1>1
    <3>3. dirs[VM][x \div PAGES] # NULL /\ Low(x) = x
      BY <1>1 DEF IdentityMapped, Early
    <3> QED BY <3>1, <3>2, <3>3 DEF Low
  <2> QED BY <2>1 DEF IdentityMapped, Low
<1>3. HeapContiguous'
  <2>1. ASSUME NEW x \in 1..(HEAP_PAGES - 1)
        PROVE  pages'[dirs'[VM][HEAP]][x] = pages'[dirs'[VM][HEAP]][x - 1] + 1
    <3>1. x \in Indexes /\ x - 1 \in Indexes
      BY Layout DEF Indexes
    <3>2. pages[dirs[VM][HEAP]][x] = pages[dirs[VM][HEAP]][x - 1] + 1
      BY <1>1 DEF HeapContiguous, Early
    <3> QED BY <1>1, <3>1, <3>2, Layout
  <2> QED BY <2>1 DEF HeapContiguous
<1> QED BY <1>1, <1>2, <1>3, Layout DEF LateLayout

-----------------------------------------------------------------------------
(* A table that is made is in the one entry it is made for.                *)
LEMMA PrivateFresh ==
  ASSUME IInv, TablesPrivate, NEW d \in DOMAIN dirs, NEW e \in Entries,
         DOMAIN dirs' = DOMAIN dirs, dirs'[d][e] = Len(pages) + 1,
         \A g \in DOMAIN dirs, h \in Entries :
           g # d \/ h # e => dirs'[g][h] = dirs[g][h],
         dirs[VM][e] = NULL
  PROVE  TablesPrivate'
<1>1. /\ VM \in DOMAIN dirs /\ Len(pages) \in Nat
      /\ \A g \in DOMAIN dirs, h \in Entries : dirs[g][h] # Len(pages) + 1
  BY KernelDir
<1> SUFFICES ASSUME NEW a \in DOMAIN dirs, NEW b \in DOMAIN dirs,
                    NEW h \in Entries, NEW j \in Entries,
                    dirs'[a][h] # NULL, dirs'[a][h] = dirs'[b][j]
             PROVE  h = j /\ (a = b \/ dirs'[VM][h] = dirs'[a][h])
  BY DEF TablesPrivate
<1>2. CASE (a = d /\ h = e) \/ (b = d /\ j = e)
  BY <1>1, <1>2
<1>3. CASE ~(a = d /\ h = e) /\ ~(b = d /\ j = e)
  <2>1. dirs'[a][h] = dirs[a][h] /\ dirs'[b][j] = dirs[b][j]
    BY <1>3
  <2>0. dirs[a][h] # NULL /\ dirs[a][h] = dirs[b][j]
    BY <2>1
  <2>2. h = j /\ (a = b \/ dirs[VM][h] = dirs[a][h])
    BY <2>0 DEF TablesPrivate
  <2>3. dirs[VM][h] = dirs[a][h] => dirs'[VM][h] = dirs[VM][h]
    BY <1>1, <2>1
  <2> QED BY <2>1, <2>2, <2>3
<1> QED BY <1>2, <1>3

(* Directories that keep their entries keep their tables.                  *)
LEMMA PrivateSame ==
  ASSUME IInv, TablesPrivate, DOMAIN dirs' = DOMAIN dirs,
         \A g \in DOMAIN dirs, h \in Entries : dirs'[g][h] = dirs[g][h]
  PROVE  TablesPrivate'
<1>1. VM \in DOMAIN dirs
  BY KernelDir
<1> QED BY <1>1 DEF TablesPrivate

(* alloc_frame() makes a table only where there is none.                   *)
LEMMA PrivateGetPage ==
  ASSUME IInv, TablesPrivate, NEW d \in DOMAIN dirs, NEW e \in Entries,
         NEW x \in Indexes, get_page_and_alloc_frame(d, e, x),
         d = VM \/ dirs[VM][e] = NULL
  PROVE  TablesPrivate'
<1>1. CASE Has(d, e, x)
  BY <1>1, FrameKept, PrivateSame
<1>2. CASE ~Has(d, e, x)
  <2>1. GivesFrame(d, e, x, first_frame)
    BY <1>2, FrameGiven, KernelDir
  <2>2. CASE dirs[d][e] = NULL
    BY <2>1, <2>2, PrivateFresh DEF GivesFrame
  <2>3. CASE dirs[d][e] # NULL
    <3>1. DOMAIN dirs' = DOMAIN dirs
          /\ \A g \in DOMAIN dirs, h \in Entries : dirs'[g][h] = dirs[g][h]
      BY <2>1, <2>3 DEF GivesFrame
    <3> QED BY <3>1, PrivateSame
  <2> QED BY <2>2, <2>3
<1> QED BY <1>1, <1>2

(* A new directory has no tables.                                          *)
LEMMA PrivateBegins ==
  ASSUME IInv, TablesPrivate, NEW s \in DOMAIN dirs, begin_clone(s)
  PROVE  TablesPrivate'
<1>1. /\ KernelType /\ Owners /\ VM \in DOMAIN dirs
      /\ DOMAIN dirs = 1..Len(dirs) /\ Len(dirs) \in Nat
  BY KernelDir DEF IInv, Owners
<1>2. /\ DOMAIN dirs' = DOMAIN dirs \cup {Len(dirs) + 1}
      /\ \A g \in DOMAIN dirs : dirs'[g] = dirs[g]
  BY <1>1, BeginClone
<1>3. \A h \in Entries : dirs'[Len(dirs) + 1][h] = NULL
  <2> DEFINE A == [Entries -> 0..Len(pages)]
  <2>1. dirs \in Seq(A) /\ NoDir \in A
    BY <1>1 DEF KernelType, NoDir, NULL
  <2> HIDE DEF A
  <2>2. dirs'[Len(dirs) + 1] = NoDir
    BY <2>1 DEF begin_clone
  <2> QED BY <2>2 DEF NoDir
<1> SUFFICES ASSUME NEW a \in DOMAIN dirs', NEW b \in DOMAIN dirs',
                    NEW h \in Entries, NEW j \in Entries,
                    dirs'[a][h] # NULL, dirs'[a][h] = dirs'[b][j]
             PROVE  h = j /\ (a = b \/ dirs'[VM][h] = dirs'[a][h])
  BY DEF TablesPrivate
<1>4. a \in DOMAIN dirs /\ b \in DOMAIN dirs
  BY <1>2, <1>3
<1> QED BY <1>1, <1>2, <1>4 DEF TablesPrivate

-----------------------------------------------------------------------------
(* A step after which the first clone is still to come.                    *)
LEMMA BeforeClone ==
  ASSUME Early', EarlyLayout', TablesPrivate' PROVE LInv'
<1>1. phase' \in {"tables", "identity", "heap"}
  BY DEF Early
<1>2. LateLayout'
  BY <1>1 DEF LateLayout, Early
<1>3. (StackMapped /\ OwnTable /\ CopyFaithful)'
  BY <1>1 DEF StackMapped, OwnTable, CopyFaithful, Cloning
<1> QED BY <1>2, <1>3 DEF LInv

(* The loops up to the first clone.                                        *)
LEMMA LayoutEarly ==
  ASSUME IInv, LInv,
         init_heap_table \/ identity_map \/ (map_heap /\ i < HEAP_PAGES)
  PROVE  LInv'
<1>1. VM \in DOMAIN dirs /\ KernelType /\ Owners /\ TablesPrivate
  BY KernelDir DEF LInv, IInv, Owners
<1>2. CASE init_heap_table
  <2>1. EarlyLayout'
    BY <1>2, HeapTable
  <2>2. Early'
    BY <1>2 DEF init_heap_table, Early
  <2>3. Appends(NoTable, VM, HEAP) /\ frames' = frames
    BY <1>2 DEF init_heap_table, Appends
  <2>4. /\ DOMAIN dirs' = DOMAIN dirs
        /\ dirs'[VM][HEAP] = Len(pages) + 1
        /\ \A g \in DOMAIN dirs, h \in Entries :
             g # VM \/ h # HEAP => dirs'[g][h] = dirs[g][h]
    BY <1>1, <2>3, Constants, EmptyTable
  <2>5. dirs[VM][HEAP] = NULL
    BY <1>2, Layout DEF init_heap_table, LInv, EarlyLayout, NoDir
  <2>6. TablesPrivate'
    BY <1>1, <2>4, <2>5, Layout, PrivateFresh
  <2> QED BY <2>1, <2>2, <2>6, BeforeClone
<1>3. CASE identity_map
  <2>1. EarlyLayout'
    BY <1>3, IdentityPage, IdentityEnd
  <2>2. Early'
    BY <1>3 DEF identity_map, Early
  <2>3. TablesPrivate'
    <3>1. CASE IdentityGoesOn
      <4>1. i \div PAGES \in Entries /\ i % PAGES \in Indexes
            /\ get_page_and_alloc_frame(VM, i \div PAGES, i % PAGES)
        BY <1>3, <3>1, Division, KernelDir DEF identity_map, OtherType
      <4> QED BY <1>1, <4>1, PrivateGetPage
    <3>2. CASE ~IdentityGoesOn
      BY <1>1, <1>3, <3>2, PrivateSame DEF identity_map, kernel
    <3> QED BY <3>1, <3>2
  <2> QED BY <2>1, <2>2, <2>3, BeforeClone
<1>4. CASE map_heap /\ i < HEAP_PAGES
  <2>1. EarlyLayout'
    BY <1>4, HeapPage
  <2>2. Early'
    BY <1>4 DEF map_heap, Early
  <2>3. i \in Indexes
    BY <1>4, Layout, KernelDir DEF OtherType, Indexes
  <2>4. TablesPrivate'
    BY <1>1, <1>4, <2>3, Layout, PrivateGetPage DEF map_heap
  <2> QED BY <2>1, <2>2, <2>4, BeforeClone
<1> QED BY <1>2, <1>3, <1>4

(* Nothing has been copied when a clone begins.                            *)
LEMMA NothingCopied ==
  ASSUME clone'.entry = 0, clone'.table = FALSE PROVE CopyFaithful'
<1>1. \A e \in Entries : ~(e < 0)
  BY Constants DEF Entries
<1> QED BY <1>1 DEF CopyFaithful

(* The heap is mapped and the first clone begins.                          *)
LEMMA LayoutFirstClone ==
  ASSUME IInv, LInv, map_heap, ~(i < HEAP_PAGES) PROVE LInv'
<1>1. /\ KernelType /\ Owners /\ VM \in DOMAIN dirs /\ TablesPrivate
      /\ DOMAIN dirs = 1..Len(dirs) /\ Len(dirs) \in Nat
  BY KernelDir DEF LInv, IInv, Owners
<1>2. begin_clone(VM) /\ phase = "heap" /\ phase' = "clone" /\ i' = 0
  BY DEF map_heap
<1>3. /\ KernelType' /\ DOMAIN dirs' = DOMAIN dirs \cup {Len(dirs) + 1}
      /\ clone' = [src |-> VM, dst |-> Len(dirs) + 1, entry |-> 0,
                      page |-> 0, table |-> FALSE]
  BY <1>1, <1>2, BeginClone
<1>4. LateLayout'
  BY HeapEnd
<1>5. TablesPrivate'
  BY <1>1, <1>2, PrivateBegins
<1>6. StackMapped'
  <2>1. Len(dirs) = 1
    BY <1>2 DEF IInv, Directories
  <2>2. Len(dirs') = 2
    <3>1. DOMAIN dirs' = 1..Len(dirs') /\ Len(dirs') \in Nat
      <4> DEFINE A == [Entries -> 0..Len(pages')]
      <4>1. dirs' \in Seq(A)
        BY <1>3 DEF KernelType
      <4> HIDE DEF A
      <4> QED BY <4>1
    <3>2. 1..Len(dirs') = {1, 2}
      BY <1>1, <1>3, <2>1, <3>1
    <3> QED BY <3>1, <3>2
  <2> QED BY <1>2, <2>2 DEF StackMapped
<1>7. OwnTable' /\ CopyFaithful' /\ EarlyLayout'
  BY <1>2, <1>3, NothingCopied DEF OwnTable, EarlyLayout
<1> QED BY <1>4, <1>5, <1>6, <1>7 DEF LInv

-----------------------------------------------------------------------------
(* The pages of a stack are in entries that vm_page_dir does not use.      *)
LEMMA StackEntry ==
  ASSUME LateLayout, ~Early, NEW k \in DOMAIN STACK
  PROVE  /\ STACK[k][1] \in Entries /\ STACK[k][2] \in Indexes
         /\ dirs[VM][STACK[k][1]] = NULL
         /\ k \in Nat /\ k <= Len(STACK)
<1>1. STACK[k] \in (0..(ENTRIES - 1)) \X (0..(PAGES - 1))
  BY PagingAssumption
<1>2. STACK[k][1] > HEAP
  BY LayoutAssumption
<1>3. k \in Nat /\ k <= Len(STACK)
  BY PagingAssumption
<1>4. STACK[k][1] \in Entries /\ STACK[k][2] \in Indexes
  BY <1>1 DEF Entries, Indexes
<1>5. STACK[k][1] \in Nat /\ HEAP \in Nat
  BY <1>4, Layout, Constants DEF Entries
<1>6. ~(STACK[k][1] <= HEAP)
  BY <1>2, <1>5
<1> QED BY <1>3, <1>4, <1>6 DEF LateLayout

(* A page that is there has a table and a frame that is marked.            *)
LEMMA MappedPage ==
  ASSUME IInv, NEW d \in DOMAIN dirs, NEW e \in Entries, NEW x \in Indexes,
         dirs[d][e] # NULL
  PROVE  /\ dirs[d][e] \in DOMAIN pages
         /\ pages[dirs[d][e]][x] \in Frames
         /\ pages[dirs[d][e]][x] # NONE =>
              /\ <<dirs[d][e], x>> \in Allocated
              /\ pages[dirs[d][e]][x] \in frames
<1>1. dirs[d][e] \in DOMAIN pages
  BY KernelDir DEF NULL
<1>2. pages[dirs[d][e]][x] \in Frames
  BY <1>1, KernelDir
<1>3. pages[dirs[d][e]][x] # NONE => <<dirs[d][e], x>> \in Allocated
  BY <1>1 DEF Allocated
<1> QED BY <1>1, <1>2, <1>3 DEF IInv, FramesMarked

\* Entries and pages in use stay as they are.
Keeps ==
  /\ DOMAIN dirs' = DOMAIN dirs
  /\ \A g \in DOMAIN dirs, h \in Entries : dirs[g][h] # NULL => dirs'[g][h] = dirs[g][h]
  /\ \A n \in DOMAIN pages, y \in Indexes : pages[n][y] # NONE => pages'[n][y] = pages[n][y]

\* vm_page_dir and its tables stay as they are.
KeepsVM ==
  /\ \A h \in Entries : dirs'[VM][h] = dirs[VM][h]
  /\ \A h \in Entries, y \in Indexes :
       dirs[VM][h] # NULL => pages'[dirs[VM][h]][y] = pages[dirs[VM][h]][y]
  /\ frames \subseteq frames' /\ placement' = placement

(* alloc_frame() for a task's own table takes nothing from anybody.        *)
LEMMA GetKept ==
  ASSUME IInv, TablesPrivate, NONE \in frames, placement' = placement,
         NEW d \in DOMAIN dirs, NEW e \in Entries, NEW x \in Indexes,
         get_page_and_alloc_frame(d, e, x), d # VM, dirs[VM][e] = NULL
  PROVE  Keeps /\ KeepsVM /\ Has(d, e, x)'
<1>1. VM \in DOMAIN dirs /\ KernelType /\ Len(pages) \in Nat
  BY KernelDir
<1>2. CASE Has(d, e, x)
  BY <1>2, FrameKept DEF Keeps, KeepsVM, Has
<1>3. CASE ~Has(d, e, x)
  <2>1. PICK f \in Frames \ frames : GivesFrame(d, e, x, f)
    BY <1>1, <1>3, FrameGiven DEF GivesFrame
  <2>2. f # NONE
    BY <2>1
  <2>3. Has(d, e, x)'
    BY <1>1, <2>1, <2>2 DEF GivesFrame, Has, NULL
  <2>4. Keeps
    <3>1. \A n \in DOMAIN pages : n # NULL
      BY KernelDir DEF NULL
    <3>2. ASSUME NEW n \in DOMAIN pages, NEW y \in Indexes, pages[n][y] # NONE
          PROVE  pages'[n][y] = pages[n][y]
      BY <1>3, <2>1, <3>1, <3>2 DEF GivesFrame, Has
    <3> QED BY <2>1, <3>2 DEF GivesFrame, Keeps
  <2>5. ASSUME NEW h \in Entries, NEW y \in Indexes, dirs[VM][h] # NULL
        PROVE  pages'[dirs[VM][h]][y] = pages[dirs[VM][h]][y]
    <3>1. dirs[VM][h] # dirs[d][e]
      BY <1>1, <2>5 DEF TablesPrivate
    <3>2. dirs[VM][h] \in DOMAIN pages
      BY <1>1, <2>5, MappedPage
    <3> QED BY <2>1, <3>1, <3>2 DEF GivesFrame
  <2>6. KeepsVM
    BY <1>1, <2>1, <2>5 DEF GivesFrame, KeepsVM
  <2> QED BY <2>3, <2>4, <2>6
<1> QED BY <1>2, <1>3

(* A stack that is there stays there.                                      *)
LEMMA StackKept ==
  ASSUME IInv, LateLayout, ~Early, Keeps, NEW d \in DOMAIN dirs,
         NEW k \in DOMAIN STACK, HasStack(d, k)
  PROVE  HasStack(d, k)'
<1>1. STACK[k][1] \in Entries /\ STACK[k][2] \in Indexes
  BY StackEntry
<1>2. dirs[d][STACK[k][1]] \in DOMAIN pages
  BY <1>1, MappedPage DEF HasStack, Has
<1> QED BY <1>1, <1>2 DEF HasStack, Has, Keeps

(* The layout stays complete.                                              *)
LEMMA LayoutKept ==
  ASSUME IInv, LateLayout, ~Early, KeepsVM PROVE LateLayout'
BY LateStep, KernelDir DEF OtherType, KeepsVM

(* move_stack() gives the first task its stack, page by page.              *)
LEMMA LayoutMoveStack == ASSUME IInv, LInv, move_stack PROVE LInv'
<1>1. /\ phase = "stack" /\ ~Early /\ ~Cloning
      /\ UNCHANGED <<cur_vm_page_dir, memory, placement, clone>>
  BY DEF move_stack, Early, Cloning
<1>2. /\ LateLayout /\ TablesPrivate /\ Len(dirs) = 2 /\ NONE \in frames
      /\ \A k \in DOMAIN STACK : k <= i => HasStack(cur_vm_page_dir, k)
  BY <1>1 DEF LInv, StackMapped, LateLayout
<1>3. /\ cur_vm_page_dir \in DOMAIN dirs /\ cur_vm_page_dir # VM
      /\ i \in Nat /\ placement \in Nat /\ Len(STACK) \in Nat
      /\ DOMAIN STACK = 1..Len(STACK) /\ DOMAIN dirs = 1..2
  BY <1>1, <1>2, KernelDir, PagingAssumption DEF OtherType, IInv, Directories
<1>4. CASE i < Len(STACK)
  <2>1. i + 1 \in DOMAIN STACK
    BY <1>3, <1>4
  <2>2. PICK e \in Entries, x \in Indexes :
          e = STACK[i + 1][1] /\ x = STACK[i + 1][2] /\ dirs[VM][e] = NULL
    BY <1>1, <1>2, <2>1, StackEntry
  <2>3. get_page_and_alloc_frame(cur_vm_page_dir, e, x) /\ i' = i + 1 /\ phase' = "stack"
    BY <1>1, <1>4, <2>2 DEF move_stack
  <2>4. Keeps /\ KeepsVM /\ Has(cur_vm_page_dir, e, x)'
    BY <1>1, <1>2, <1>3, <2>2, <2>3, GetKept
  <2>5. LateLayout'
    BY <1>1, <1>2, <2>4, LayoutKept
  <2>6. TablesPrivate'
    BY <1>2, <1>3, <2>2, <2>3, PrivateGetPage
  <2>7. StackMapped'
    <3>1. Len(dirs') = 2
      <4>1. KernelType'
        BY <1>2, <1>3, <2>3, KernelDir, GetPage DEF IInv
      <4>2. DOMAIN dirs' = 1..Len(dirs') /\ Len(dirs') \in Nat
        <5> DEFINE A == [Entries -> 0..Len(pages')]
        <5>1. dirs' \in Seq(A)
          BY <4>1 DEF KernelType
        <5> HIDE DEF A
        <5> QED BY <5>1
      <4> QED BY <1>3, <2>4, <4>2 DEF Keeps
    <3>2. ASSUME NEW k \in DOMAIN STACK, k <= i + 1 PROVE HasStack(cur_vm_page_dir, k)'
      <4>1. CASE k = i + 1
        BY <2>2, <2>4, <1>1, <4>1 DEF HasStack, Has
      <4>2. CASE k # i + 1
        <5>1. k <= i
          BY <1>3, <3>2, <4>2
        <5>2. \A d \in DOMAIN dirs : HasStack(d, k) => HasStack(d, k)'
          BY <1>1, <1>2, <2>4, StackKept
        <5> QED BY <1>1, <1>2, <1>3, <5>1, <5>2 DEF HasStack, Has
      <4> QED BY <4>1, <4>2
    <3> QED BY <1>1, <2>3, <3>1, <3>2 DEF StackMapped
  <2>8. (EarlyLayout /\ OwnTable /\ CopyFaithful)'
    BY <2>3 DEF EarlyLayout, OwnTable, CopyFaithful, Cloning
  <2> QED BY <2>5, <2>6, <2>7, <2>8 DEF LInv
<1>5. CASE ~(i < Len(STACK))
  <2>1. phase' = "run" /\ dirs' = dirs /\ pages' = pages /\ frames' = frames
    BY <1>1, <1>5 DEF move_stack, kernel
  <2>2. KeepsVM /\ Keeps
    BY <1>1, <2>1 DEF KeepsVM, Keeps
  <2>3. LateLayout'
    BY <1>1, <1>2, <2>2, LayoutKept
  <2>4. TablesPrivate'
    BY <1>2, <2>1, PrivateSame
  <2>5. StackMapped'
    <3>1. Ready' \subseteq {cur_vm_page_dir}
      BY <1>3, <2>1 DEF Ready, VM
    <3>2. ASSUME NEW k \in DOMAIN STACK PROVE HasStack(cur_vm_page_dir, k)
      BY <1>2, <1>3, <1>5
    <3>3. \A d \in Ready', k \in DOMAIN STACK : HasStack(d, k)'
      BY <2>1, <3>1, <3>2 DEF HasStack, Has
    <3> QED BY <2>1, <3>3 DEF StackMapped
  <2>6. (EarlyLayout /\ OwnTable /\ CopyFaithful)'
    BY <2>1 DEF EarlyLayout, OwnTable, CopyFaithful, Cloning
  <2> QED BY <2>3, <2>4, <2>5, <2>6 DEF LInv
<1> QED BY <1>4, <1>5

-----------------------------------------------------------------------------
\* What a step of clone_dir() does to the directories: at most the copy's current
\* entry changes.
FillsCopy ==
  /\ DOMAIN dirs' = DOMAIN dirs
  /\ \A g \in DOMAIN dirs, h \in Entries :
       g # clone.dst \/ h # clone.entry => dirs'[g][h] = dirs[g][h]
  /\ clone'.src = clone.src /\ clone'.dst = clone.dst
  /\ UNCHANGED <<cur_vm_page_dir, placement, phase, i>>

\* The pages of the other directories, and what frames in use hold, stay as
\* they are.
KeepsPages ==
  /\ \A g \in DOMAIN dirs \ {clone.dst}, h \in Entries, y \in Indexes :
       Has(g, h, y) => pages'[dirs[g][h]][y] = pages[dirs[g][h]][y]
  /\ \A f \in frames : memory'[f] = memory[f]
  /\ frames \subseteq frames'

(* The finished directories keep their stacks through a clone's steps.     *)
LEMMA CloneStepStacks ==
  ASSUME IInv, LInv, Cloning, FillsCopy, KeepsPages, KernelType'
  PROVE  /\ StackMapped'
         /\ phase = "fork" => \A d \in Ready : StackOf(d)' = StackOf(d)
<1>1. ~Early /\ LateLayout /\ StackMapped
  BY DEF Cloning, Early, LInv
<1>2. Ready' = Ready /\ \A d \in Ready : d \in DOMAIN dirs /\ d # clone.dst
  BY DEF Ready, FillsCopy, Cloning
<1>3. ASSUME NEW d \in Ready, NEW k \in DOMAIN STACK, HasStack(d, k)
      PROVE  HasStack(d, k)' /\ memory'[StackPage(d, k)'] = memory[StackPage(d, k)]
  <2>1. PICK e \in Entries, x \in Indexes : e = STACK[k][1] /\ x = STACK[k][2]
    BY <1>1, StackEntry
  <2>2. dirs[d][e] # NULL /\ pages[dirs[d][e]][x] # NONE /\ d \in DOMAIN dirs
    BY <1>2, <1>3, <2>1 DEF HasStack, Has
  <2>3. dirs[d][e] \in DOMAIN pages /\ pages[dirs[d][e]][x] \in frames
    BY <2>2, MappedPage
  <2>4. dirs'[d][e] = dirs[d][e] /\ pages'[dirs[d][e]][x] = pages[dirs[d][e]][x]
    BY <1>2, <2>2, <2>3 DEF FillsCopy, KeepsPages, Has
  <2>5. HasStack(d, k)'
    BY <2>1, <2>2, <2>4 DEF HasStack, Has
  <2>6. StackPage(d, k) = pages[dirs[d][e]][x] /\ StackPage(d, k)' = pages'[dirs'[d][e]][x]
    BY <2>1 DEF StackPage
  <2> QED BY <2>3, <2>4, <2>5, <2>6 DEF KeepsPages
<1>4. Len(dirs') = Len(dirs)
  <2> DEFINE A == [Entries -> 0..Len(pages)]
             B == [Entries -> 0..Len(pages')]
  <2>1. dirs \in Seq(A) /\ dirs' \in Seq(B) /\ DOMAIN dirs' = DOMAIN dirs
    BY KernelDir DEF KernelType, FillsCopy
  <2> HIDE DEF A, B
  <2> QED BY <2>1
<1>5. StackMapped'
  BY <1>1, <1>2, <1>3, <1>4 DEF StackMapped, FillsCopy, Cloning
<1>6. ASSUME phase = "fork", NEW d \in Ready PROVE StackOf(d)' = StackOf(d)
  <2>1. \A k \in DOMAIN STACK : HasStack(d, k)
    BY <1>1, <1>6 DEF StackMapped
  <2> QED BY <1>3, <2>1 DEF StackOf
<1> QED BY <1>5, <1>6

(* The first clone and the forks do not disturb the layout.                *)
LEMMA CloneStepLayout ==
  ASSUME IInv, LInv, Cloning, FillsCopy, frames \subseteq frames',
         \A h \in Entries, y \in Indexes :
           dirs[VM][h] # NULL => pages'[dirs[VM][h]][y] = pages[dirs[VM][h]][y]
  PROVE  LateLayout' /\ EarlyLayout'
<1>1. ~Early /\ LateLayout
  BY DEF Cloning, Early, LInv
<1>2. VM \in DOMAIN dirs /\ clone.dst # VM
  BY CloneInProgress
<1>3. KeepsVM
  BY <1>2 DEF KeepsVM, FillsCopy
<1>4. LateLayout'
  BY <1>1, <1>3, LayoutKept
<1>5. EarlyLayout'
  BY DEF EarlyLayout, FillsCopy, Cloning
<1> QED BY <1>4, <1>5

(* link_table's steps.                                                     *)
LEMMA LayoutLink ==
  ASSUME IInv, LInv, link_table
  PROVE  LInv' /\ FillsCopy /\ KeepsPages
<1>1. Cloning /\ clone.entry \in Entries /\ Linked(clone.entry)
      /\ dirs' = [dirs EXCEPT ![clone.dst][clone.entry] = Source]
      /\ clone' = [clone EXCEPT !.entry = @ + 1]
      /\ UNCHANGED <<frames, pages, cur_vm_page_dir, memory, placement, phase, i>>
  BY DEF link_table
<1>2. /\ KernelType /\ OtherType
      /\ VM \in DOMAIN dirs /\ clone.src \in DOMAIN dirs /\ clone.dst \in DOMAIN dirs
      /\ clone.dst # VM /\ clone.dst # clone.src
  BY <1>1, CloneInProgress
<1>3. /\ clone'.src = clone.src /\ clone'.dst = clone.dst
      /\ clone'.entry = clone.entry + 1 /\ clone'.table = clone.table
      /\ clone'.page = clone.page
  BY <1>1, <1>2 DEF OtherType
<1>4. /\ DOMAIN dirs' = DOMAIN dirs
      /\ dirs'[clone.dst][clone.entry] = Source
      /\ \A g \in DOMAIN dirs, h \in Entries :
           g # clone.dst \/ h # clone.entry => dirs'[g][h] = dirs[g][h]
  <2>1. PICK e \in Entries, d \in DOMAIN dirs : e = clone.entry /\ d = clone.dst
    BY <1>1, <1>2
  <2>2. dirs' = [dirs EXCEPT ![d] = [dirs[d] EXCEPT ![e] = Source]]
    BY <1>1, <2>1
  <2>3. dirs[d] \in [Entries -> 0..Len(pages)]
    BY <1>2 DEF KernelType
  <2>4. DOMAIN dirs' = DOMAIN dirs /\ dirs'[d][e] = Source
    BY <2>2, <2>3
  <2>5. \A g \in DOMAIN dirs, h \in Entries : g # d \/ h # e => dirs'[g][h] = dirs[g][h]
    BY <2>2, <2>3
  <2> QED BY <2>1, <2>4, <2>5
<1>5. KernelType'
  BY <1>1, LinkTable, TypeParts, PTL DEF IInv
<1>6. FillsCopy /\ KeepsPages
  BY <1>1, <1>3, <1>4 DEF FillsCopy, KeepsPages
<1>7. StackMapped' /\ LateLayout' /\ EarlyLayout'
  BY <1>1, <1>5, <1>6, CloneStepStacks, CloneStepLayout
<1>8. ~clone.table
  BY <1>1 DEF IInv, Copying
<1>9. OwnTable'
  BY <1>1, <1>3, <1>8 DEF LInv, OwnTable
<1>10. TablesPrivate'
  <2>1. Source = NULL \/ Source = dirs[VM][clone.entry]
    BY <1>1 DEF Linked, Source
  <2>2. ASSUME NEW a \in DOMAIN dirs, NEW b \in DOMAIN dirs,
               NEW h \in Entries, NEW j \in Entries,
               dirs'[a][h] # NULL, dirs'[a][h] = dirs'[b][j]
        PROVE  h = j /\ (a = b \/ dirs'[VM][h] = dirs'[a][h])
    <3>1. PICK a1 \in DOMAIN dirs :
            dirs'[a][h] = dirs[a1][h] /\ (a1 = a \/ dirs[VM][h] = dirs'[a][h])
      BY <1>2, <1>4, <2>1, <2>2
    <3>2. PICK b1 \in DOMAIN dirs :
            dirs'[b][j] = dirs[b1][j] /\ (b1 = b \/ dirs[VM][j] = dirs'[b][j])
      BY <1>2, <1>4, <2>1, <2>2
    <3>3. dirs[a1][h] # NULL /\ dirs[a1][h] = dirs[b1][j]
      BY <2>2, <3>1, <3>2
    <3>4. h = j /\ (a1 = b1 \/ dirs[VM][h] = dirs[a1][h])
      BY <3>3 DEF LInv, TablesPrivate
    <3>5. dirs'[VM][h] = dirs[VM][h]
      BY <1>2, <1>4
    <3> QED BY <2>2, <3>1, <3>2, <3>4, <3>5
  <2> QED BY <1>4, <2>2 DEF TablesPrivate
<1>11. CopyFaithful'
  <2>1. ASSUME NEW e \in Entries, NEW x \in Indexes, ~Linked(e)', e < clone.entry + 1
        PROVE  CopiedPage(e, x)'
    <3>1. dirs'[VM][e] = dirs[VM][e] /\ dirs'[clone.src][e] = dirs[clone.src][e]
      BY <1>2, <1>4
    <3>2. ~Linked(e) /\ e # clone.entry
      BY <1>1, <1>3, <2>1, <3>1 DEF Linked
    <3>3. e < clone.entry
      BY <1>1, <2>1, <3>2, Constants DEF Entries
    <3>4. CopiedPage(e, x)
      BY <1>1, <3>2, <3>3 DEF LInv, CopyFaithful
    <3>5. dirs'[clone.dst][e] = dirs[clone.dst][e]
      BY <1>2, <1>4, <3>2
    <3> QED BY <1>1, <1>3, <3>1, <3>4, <3>5 DEF CopiedPage
  <2> QED BY <1>3, <1>8, <2>1 DEF CopyFaithful
<1> QED BY <1>6, <1>7, <1>9, <1>10, <1>11 DEF LInv

(* clone_table() begins with a table that nobody else has.                 *)
LEMMA LayoutNewTable ==
  ASSUME IInv, LInv, new_table
  PROVE  LInv' /\ FillsCopy /\ KeepsPages
<1>1. Cloning /\ clone.entry \in Entries /\ ~Linked(clone.entry) /\ ~clone.table
      /\ clone' = [clone EXCEPT !.table = TRUE, !.page = 0]
      /\ UNCHANGED <<frames, cur_vm_page_dir, memory, placement, phase, i>>
  BY DEF new_table
<1>2. /\ KernelType /\ OtherType /\ Owners
      /\ VM \in DOMAIN dirs /\ clone.src \in DOMAIN dirs /\ clone.dst \in DOMAIN dirs
      /\ clone.dst # VM /\ clone.dst # clone.src
      /\ \A e \in Entries : dirs[VM][e] # NULL => dirs[clone.src][e] = dirs[VM][e]
  BY <1>1, CloneInProgress
<1>3. /\ clone'.src = clone.src /\ clone'.dst = clone.dst
      /\ clone'.entry = clone.entry /\ clone'.page = 0
  BY <1>1, <1>2 DEF OtherType
<1>4. Appends(NoTable, clone.dst, clone.entry)
  BY DEF new_table, Appends
<1>5. /\ KernelType' /\ Len(pages') = Len(pages) + 1 /\ Len(pages) \in Nat
      /\ \A n \in DOMAIN pages : pages'[n] = pages[n]
      /\ DOMAIN dirs' = DOMAIN dirs
      /\ dirs'[clone.dst][clone.entry] = Len(pages) + 1
      /\ \A g \in DOMAIN dirs, h \in Entries :
           g # clone.dst \/ h # clone.entry => dirs'[g][h] = dirs[g][h]
  <2>1. /\ KernelType'
        /\ DOMAIN dirs' = DOMAIN dirs
        /\ dirs'[clone.dst][clone.entry] = Len(pages) + 1
        /\ \A g \in DOMAIN dirs, h \in Entries :
             g # clone.dst \/ h # clone.entry => dirs'[g][h] = dirs[g][h]
    BY <1>1, <1>2, <1>4, EmptyTable
  <2>2. Len(pages') = Len(pages) + 1 /\ \A n \in DOMAIN pages : pages'[n] = pages[n]
    BY <1>1, <1>2, <1>4, Constants, AppendTable
  <2> QED BY <2>1, <2>2, KernelDir
<1>6. FillsCopy /\ KeepsPages
  <2>1. FillsCopy
    BY <1>1, <1>3, <1>5 DEF FillsCopy
  <2>2. ASSUME NEW g \in DOMAIN dirs, NEW h \in Entries, NEW y \in Indexes, Has(g, h, y)
        PROVE  pages'[dirs[g][h]][y] = pages[dirs[g][h]][y]
    BY <1>5, <2>2, MappedPage DEF Has
  <2> QED BY <1>1, <2>1, <2>2 DEF KeepsPages
<1>7. \A h \in Entries, y \in Indexes :
        dirs[VM][h] # NULL => pages'[dirs[VM][h]][y] = pages[dirs[VM][h]][y]
  BY <1>2, <1>5, MappedPage
<1>8. StackMapped' /\ LateLayout' /\ EarlyLayout'
  BY <1>1, <1>5, <1>6, <1>7, CloneStepStacks, CloneStepLayout
<1>9. OwnTable'
  <2>1. dirs'[VM][clone.entry] # Len(pages) + 1
    <3>1. dirs'[VM][clone.entry] = dirs[VM][clone.entry]
      BY <1>1, <1>2, <1>5
    <3>2. dirs[VM][clone.entry] \in 0..Len(pages)
      BY <1>1, <1>2, KernelDir
    <3> QED BY <1>5, <3>1, <3>2
  <2> QED BY <1>1, <1>3, <1>5, <2>1 DEF LInv, OwnTable
<1>10. TablesPrivate'
  <2>1. dirs[VM][clone.entry] = NULL
    BY <1>1, <1>2 DEF Linked
  <2> QED BY <1>1, <1>2, <1>5, <2>1, PrivateFresh DEF LInv
<1>11. CopyFaithful'
  <2>1. ASSUME NEW e \in Entries, NEW x \in Indexes, ~Linked(e)',
               e < clone.entry \/ (e = clone.entry /\ x < 0)
        PROVE  CopiedPage(e, x)'
    <3>1. e < clone.entry /\ e # clone.entry
      BY <1>1, <2>1, Layout, Constants DEF Entries, Indexes
    <3>2. /\ dirs'[VM][e] = dirs[VM][e] /\ dirs'[clone.src][e] = dirs[clone.src][e]
          /\ dirs'[clone.dst][e] = dirs[clone.dst][e]
      BY <1>2, <1>5, <3>1
    <3>3. ~Linked(e)
      BY <1>3, <2>1, <3>2 DEF Linked
    <3>4. CopiedPage(e, x)
      BY <1>1, <3>1, <3>3 DEF LInv, CopyFaithful
    <3>5. dirs[clone.src][e] \in DOMAIN pages /\ dirs[clone.dst][e] \in DOMAIN pages
      BY <1>2, <3>3, <3>4, MappedPage DEF CopiedPage, Linked
    <3> QED BY <1>1, <1>3, <1>5, <3>2, <3>4, <3>5 DEF CopiedPage
  <2> QED BY <1>3, <2>1 DEF CopyFaithful
<1> QED BY <1>6, <1>8, <1>9, <1>10, <1>11 DEF LInv

(* clone_table() gives a page of the copy a free frame and the content.    *)
LEMMA LayoutClonePage ==
  ASSUME IInv, LInv, clone_page
  PROVE  LInv' /\ FillsCopy /\ KeepsPages
<1>1. Cloning /\ clone.table /\ clone.page \in Indexes
      /\ clone' = [clone EXCEPT !.page = @ + 1]
      /\ UNCHANGED <<dirs, cur_vm_page_dir, placement, phase, i>>
  BY DEF clone_page
<1>2. /\ KernelType /\ OtherType /\ Owners
      /\ VM \in DOMAIN dirs /\ clone.src \in DOMAIN dirs /\ clone.dst \in DOMAIN dirs
      /\ clone.dst # VM /\ clone.dst # clone.src
  BY <1>1, CloneInProgress
<1>3. /\ clone'.src = clone.src /\ clone'.dst = clone.dst
      /\ clone'.entry = clone.entry /\ clone'.table = clone.table
      /\ clone'.page = clone.page + 1
  BY <1>1, <1>2 DEF OtherType
<1>4. PICK e0 \in Entries, x0 \in Indexes, t0 \in DOMAIN pages, s0 \in DOMAIN pages :
        /\ e0 = clone.entry /\ x0 = clone.page
        /\ t0 = dirs[clone.dst][e0] /\ s0 = dirs[clone.src][e0]
  <2>1. /\ clone.entry \in Entries /\ ~Linked(clone.entry)
        /\ dirs[clone.dst][clone.entry] # NULL
    BY <1>1 DEF IInv, Copying
  <2>2. dirs[clone.dst][clone.entry] \in DOMAIN pages
        /\ dirs[clone.src][clone.entry] \in DOMAIN pages
    BY <1>1, <1>2, <2>1, MappedPage DEF Linked
  <2> QED BY <1>1, <2>1, <2>2
<1>5. t0 # dirs[VM][e0] /\ t0 # NULL /\ TablesPrivate /\ NONE \in frames
  <2>1. t0 # NULL
    BY KernelDir DEF NULL
  <2>2. NONE \in frames
    BY <1>1 DEF LInv, LateLayout, Early, Cloning
  <2> QED BY <1>1, <1>4, <2>1, <2>2 DEF LInv, OwnTable
<1>6. \A g \in DOMAIN dirs, h \in Entries :
        g # clone.dst \/ h # e0 => dirs[g][h] # t0
  BY <1>2, <1>4, <1>5 DEF TablesPrivate
<1>7. SourceFrame = pages[s0][x0]
  BY <1>4 DEF SourceFrame, Source
<1>8. /\ \A n \in DOMAIN pages, y \in Indexes :
           n # t0 \/ y # x0 => pages'[n][y] = pages[n][y]
      /\ SourceFrame # NONE =>
           /\ pages'[t0][x0] # NONE
           /\ memory'[pages'[t0][x0]] = memory[SourceFrame]
      /\ SourceFrame = NONE => pages' = pages
      /\ \A f \in frames : memory'[f] = memory[f]
      /\ frames \subseteq frames'
  <2>1. CASE SourceFrame = NONE
    BY <2>1 DEF clone_page
  <2>2. CASE SourceFrame # NONE
    <3>1. PICK f \in Frames \ frames : f = first_frame
      BY <2>2, FirstFrame DEF clone_page
    <3>2. Sets(t0, x0, f) /\ frames' = frames \cup {f}
          /\ memory' = [memory EXCEPT ![f] = memory[SourceFrame]]
      BY <1>4, <2>2, <3>1 DEF clone_page, Sets, Marked, copy_page_phy
    <3>3. /\ pages'[t0][x0] = f
          /\ \A n \in DOMAIN pages, y \in Indexes :
               n # t0 \/ y # x0 => pages'[n][y] = pages[n][y]
      BY <1>2, <3>2, SetPage
    <3>4. f # NONE /\ f \notin frames /\ frames \subseteq Frames
      BY <1>2, <1>5, <3>1 DEF KernelType
    <3>5. memory'[f] = memory[SourceFrame] /\ \A g \in frames : memory'[g] = memory[g]
      BY <1>2, <3>2, <3>4 DEF OtherType
    <3> QED BY <2>2, <3>2, <3>3, <3>4, <3>5
  <2> QED BY <2>1, <2>2
<1>9. KernelType'
  BY ClonePage, TypeParts, PTL DEF IInv
<1>10. FillsCopy /\ KeepsPages
  <2>1. FillsCopy
    BY <1>1, <1>3 DEF FillsCopy
  <2>2. ASSUME NEW g \in DOMAIN dirs \ {clone.dst}, NEW h \in Entries, NEW y \in Indexes,
               Has(g, h, y)
        PROVE  pages'[dirs[g][h]][y] = pages[dirs[g][h]][y]
    <3>1. dirs[g][h] \in DOMAIN pages /\ dirs[g][h] # t0
      BY <1>6, <2>2, MappedPage DEF Has
    <3> QED BY <1>8, <3>1
  <2> QED BY <1>8, <2>1, <2>2 DEF KeepsPages
<1>11. \A h \in Entries, y \in Indexes :
        dirs[VM][h] # NULL => pages'[dirs[VM][h]][y] = pages[dirs[VM][h]][y]
  BY <1>2, <1>6, <1>8, MappedPage
<1>12. StackMapped' /\ LateLayout' /\ EarlyLayout'
  BY <1>1, <1>8, <1>9, <1>10, <1>11, CloneStepStacks, CloneStepLayout
<1>13. OwnTable' /\ TablesPrivate'
  BY <1>1, <1>3 DEF LInv, OwnTable, TablesPrivate, Cloning
<1>14. CopyFaithful'
  <2>1. ASSUME NEW e \in Entries, NEW x \in Indexes, ~Linked(e),
               e < e0 \/ (e = e0 /\ x < x0 + 1)
        PROVE  CopiedPage(e, x)'
    <3>1. PICK s \in DOMAIN pages : s = dirs[clone.src][e]
      BY <1>2, <2>1, MappedPage DEF Linked
    <3>2. s # t0
      BY <1>2, <1>6, <3>1
    <3>3. pages'[s][x] = pages[s][x]
      BY <1>8, <3>2
    <3>4. CASE ~(e = e0 /\ x = x0)
      <4>1. e < clone.entry \/ (e = clone.entry /\ clone.table /\ x < clone.page)
        BY <1>1, <1>4, <2>1, <3>4, Layout DEF Indexes
      <4>2. CopiedPage(e, x)
        BY <1>1, <2>1, <4>1 DEF LInv, CopyFaithful
      <4>3. PICK t \in DOMAIN pages : t = dirs[clone.dst][e] /\ t # NULL
        BY <1>2, <4>2, MappedPage DEF CopiedPage
      <4>4. t = t0 => e = e0
        <5>1. ASSUME dirs[clone.dst][e] # NULL, dirs[clone.dst][e] = dirs[clone.dst][e0]
              PROVE  e = e0
          BY <1>2, <1>5, <5>1 DEF TablesPrivate
        <5> QED BY <1>4, <4>3, <5>1
      <4>5. pages'[t][x] = pages[t][x]
        BY <1>8, <3>4, <4>4
      <4>6. pages[s][x] # NONE =>
              /\ pages[t][x] # NONE /\ memory[pages[t][x]] = memory[pages[s][x]]
        BY <3>1, <4>2, <4>3 DEF CopiedPage
      <4>7. pages[s][x] # NONE => pages[t][x] \in frames /\ pages[s][x] \in frames
        BY <1>2, <2>1, <3>1, <4>3, <4>6, MappedPage DEF Linked
      <4> QED BY <1>1, <1>3, <1>8, <3>1, <3>3, <4>3, <4>5, <4>6, <4>7 DEF CopiedPage
    <3>5. CASE e = e0 /\ x = x0
      <4>1. s = s0
        BY <1>4, <3>1, <3>5
      <4>2. pages[s][x] # NONE => pages[s][x] \in frames
        BY <1>2, <2>1, <3>1, MappedPage DEF Linked
      <4>3. dirs'[clone'.src][e] = s /\ dirs'[clone'.dst][e] = t0
        BY <1>1, <1>3, <1>4, <3>1, <3>5
      <4> QED BY <1>5, <1>7, <1>8, <3>3, <3>5, <4>1, <4>2, <4>3 DEF CopiedPage
    <3> QED BY <3>4, <3>5
  <2>2. \A e \in Entries : Linked(e)' = Linked(e)
    BY <1>1, <1>3 DEF Linked
  <2> QED BY <1>1, <1>3, <1>4, <2>1, <2>2 DEF CopyFaithful
<1> QED BY <1>10, <1>12, <1>13, <1>14 DEF LInv

(* clone_table() returns: every page of the table has been copied.         *)
LEMMA LayoutEndTable ==
  ASSUME IInv, LInv, end_table
  PROVE  LInv' /\ FillsCopy /\ KeepsPages
<1>1. /\ Cloning /\ clone.table /\ clone.page = PAGES
      /\ clone' = [clone EXCEPT !.entry = @ + 1, !.table = FALSE, !.page = 0]
      /\ frames' = frames /\ dirs' = dirs /\ pages' = pages
      /\ UNCHANGED <<cur_vm_page_dir, memory, placement, phase, i>>
  BY DEF end_table, kernel
<1>2. /\ KernelType /\ OtherType
      /\ VM \in DOMAIN dirs /\ clone.src \in DOMAIN dirs /\ clone.dst \in DOMAIN dirs
  BY <1>1, CloneInProgress
<1>3. /\ clone'.src = clone.src /\ clone'.dst = clone.dst
      /\ clone'.entry = clone.entry + 1 /\ clone'.table = FALSE
  BY <1>1, <1>2 DEF OtherType
<1>4. FillsCopy /\ KeepsPages /\ KernelType'
  BY <1>1, <1>2, <1>3 DEF FillsCopy, KeepsPages, KernelType
<1>5. StackMapped' /\ LateLayout' /\ EarlyLayout'
  BY <1>1, <1>4, CloneStepStacks, CloneStepLayout
<1>6. OwnTable' /\ TablesPrivate'
  BY <1>1, <1>3 DEF LInv, OwnTable, TablesPrivate
<1>7. CopyFaithful'
  <2>1. clone.entry \in Entries
    BY <1>1 DEF IInv, Copying
  <2>2. ASSUME NEW e \in Entries, NEW x \in Indexes, ~Linked(e), e < clone.entry + 1
        PROVE  CopiedPage(e, x)
    <3>1. e < clone.entry \/ e = clone.entry
      BY <2>1, <2>2, Constants DEF Entries
    <3>2. x < clone.page
      BY <1>1, Layout DEF Indexes
    <3> QED BY <1>1, <2>2, <3>1, <3>2 DEF LInv, CopyFaithful
  <2>3. \A e \in Entries, x \in Indexes :
          (Linked(e)' = Linked(e)) /\ (CopiedPage(e, x)' = CopiedPage(e, x))
    BY <1>1, <1>3 DEF Linked, CopiedPage
  <2> QED BY <1>3, <2>2, <2>3 DEF CopyFaithful
<1> QED BY <1>4, <1>5, <1>6, <1>7 DEF LInv

-----------------------------------------------------------------------------
(* What clone_dir() returns reads like its source.                         *)
LEMMA CopyDone ==
  ASSUME IInv, LInv, phase = "fork", clone.entry = ENTRIES, NEW k \in DOMAIN STACK
  PROVE  /\ HasStack(clone.src, k) /\ HasStack(clone.dst, k)
         /\ memory[StackPage(clone.dst, k)] = memory[StackPage(clone.src, k)]
<1>1. Cloning /\ ~Early
  BY DEF Cloning, Early
<1>2. clone.src \in Ready
  BY <1>1, CloneInProgress DEF LInv, OwnTable, IInv, Directories, Ready
<1>3. HasStack(clone.src, k)
  BY <1>2 DEF LInv, StackMapped
<1>4. PICK e \in Entries, x \in Indexes :
        e = STACK[k][1] /\ x = STACK[k][2] /\ dirs[VM][e] = NULL
  BY <1>1, StackEntry DEF LInv
<1>5. ~Linked(e)
  BY <1>3, <1>4 DEF HasStack, Has, Linked
<1>6. CopiedPage(e, x)
  <2>1. e < clone.entry
    BY Constants DEF Entries
  <2> QED BY <1>1, <1>5, <2>1 DEF LInv, CopyFaithful
<1>7. HasStack(clone.dst, k)
      /\ memory[StackPage(clone.dst, k)] = memory[StackPage(clone.src, k)]
  BY <1>3, <1>4, <1>6 DEF HasStack, Has, CopiedPage, StackPage
<1> QED BY <1>3, <1>7

(* clone_dir() returns.                                                    *)
LEMMA LayoutEndClone == ASSUME IInv, LInv, end_clone PROVE LInv'
<1>1. /\ Cloning /\ clone.entry = ENTRIES /\ ~Early
      /\ frames' = frames /\ dirs' = dirs /\ pages' = pages
      /\ UNCHANGED <<memory, placement, i, clone>>
  BY DEF end_clone, kernel, Early, Cloning
<1>2. LateLayout'
  BY <1>1, LayoutKept DEF KeepsVM, LInv
<1>3. TablesPrivate'
  BY <1>1 DEF LInv, TablesPrivate
<1>4. phase' \in {"stack", "run"}
  BY DEF end_clone
<1>5. (EarlyLayout /\ OwnTable /\ CopyFaithful)'
  BY <1>4 DEF EarlyLayout, OwnTable, CopyFaithful, Cloning
<1>6. StackMapped'
  <2>1. CASE phase = "clone"
    <3>1. Len(dirs) = 2 /\ i = 0 /\ phase' = "stack"
      BY <2>1 DEF LInv, StackMapped, end_clone
    <3>2. \A k \in DOMAIN STACK : ~(k <= 0)
      BY PagingAssumption
    <3> QED BY <1>1, <3>1, <3>2 DEF StackMapped
  <2>2. CASE phase = "fork"
    <3>1. phase' = "run"
      BY <2>2 DEF end_clone
    <3>2. \A d \in Ready' : d \in Ready \/ d = clone.dst
      BY <1>1, <2>2, <3>1 DEF Ready
    <3>3. \A d \in Ready', k \in DOMAIN STACK : HasStack(d, k)
      BY <1>1, <2>2, <3>2, CopyDone DEF LInv, StackMapped
    <3> QED BY <1>1, <3>1, <3>3 DEF StackMapped, HasStack, Has
  <2> QED BY <1>1, <2>1, <2>2 DEF Cloning
<1> QED BY <1>2, <1>3, <1>5, <1>6 DEF LInv

(* fork() begins a clone of the running task's directory.                  *)
LEMMA LayoutFork == ASSUME IInv, LInv, fork PROVE LInv'
<1>1. /\ phase = "run" /\ phase' = "fork" /\ ~Early
      /\ begin_clone(cur_vm_page_dir) /\ frames' = frames /\ pages' = pages
      /\ UNCHANGED <<cur_vm_page_dir, memory, placement, i>>
  BY DEF fork, begin_clone, Early
<1>2. /\ KernelType /\ Owners /\ VM \in DOMAIN dirs /\ cur_vm_page_dir \in DOMAIN dirs
      /\ TablesPrivate /\ LateLayout /\ StackMapped
  BY KernelDir DEF LInv, IInv, Owners, OtherType
<1>3. /\ DOMAIN dirs' = DOMAIN dirs \cup {Len(dirs) + 1}
      /\ \A g \in DOMAIN dirs : dirs'[g] = dirs[g]
      /\ clone' = [src |-> cur_vm_page_dir, dst |-> Len(dirs) + 1, entry |-> 0,
                      page |-> 0, table |-> FALSE]
  BY <1>1, <1>2, BeginClone
<1>4. LateLayout'
  BY <1>1, <1>2, <1>3, LayoutKept DEF KeepsVM
<1>5. TablesPrivate'
  BY <1>1, <1>2, PrivateBegins
<1>6. StackMapped'
  <2>1. \A d \in Ready' : d \in Ready /\ d \in DOMAIN dirs
    BY <1>1, <1>3 DEF Ready
  <2>2. \A d \in Ready', k \in DOMAIN STACK : HasStack(d, k)
    BY <1>1, <1>2, <2>1 DEF StackMapped
  <2>3. \A d \in Ready', k \in DOMAIN STACK : HasStack(d, k)'
    BY <1>1, <1>3, <2>1, <2>2 DEF HasStack, Has
  <2> QED BY <1>1, <2>3 DEF StackMapped
<1>7. EarlyLayout' /\ OwnTable' /\ CopyFaithful'
  BY <1>1, <1>3, NothingCopied DEF OwnTable, EarlyLayout
<1> QED BY <1>4, <1>5, <1>6, <1>7 DEF LInv

(* The actions that leave the tables alone.                                *)
LEMMA LayoutRest == ASSUME IInv, LInv, page_fault \/ switch \/ store PROVE LInv'
<1>1. /\ frames' = frames /\ dirs' = dirs /\ pages' = pages /\ ~Early
      /\ UNCHANGED <<placement, i, clone>>
      /\ phase' = "fault" \/ (phase = "run" /\ phase' = "run")
  <2>1. CASE page_fault
    BY <2>1 DEF page_fault, kernel, Early, Cloning
  <2>2. CASE switch \/ store
    BY <2>2 DEF switch, store, kernel, Early
  <2> QED BY <2>1, <2>2
<1>2. LateLayout'
  BY <1>1, LayoutKept DEF KeepsVM, LInv
<1>3. TablesPrivate'
  BY <1>1 DEF LInv, TablesPrivate
<1>4. (EarlyLayout /\ OwnTable /\ CopyFaithful)'
  BY <1>1 DEF EarlyLayout, OwnTable, CopyFaithful, Cloning
<1>5. StackMapped'
  <2>1. CASE phase' = "fault"
    BY <2>1 DEF StackMapped
  <2>2. CASE phase = "run" /\ phase' = "run"
    <3>1. Ready' = Ready
      BY <1>1, <2>2 DEF Ready
    <3>2. \A d \in Ready, k \in DOMAIN STACK : HasStack(d, k)
      BY <2>2 DEF LInv, StackMapped
    <3> QED BY <1>1, <2>2, <3>1, <3>2 DEF StackMapped, HasStack, Has
  <2> QED BY <1>1, <2>1, <2>2
<1> QED BY <1>2, <1>3, <1>4, <1>5 DEF LInv

-----------------------------------------------------------------------------
(* The layout is inductive, given the types and the owners of the frames.  *)
LEMMA LayoutStep == IInv /\ LInv /\ [Next]_vars => LInv'
<1> SUFFICES ASSUME IInv, LInv, [Next]_vars PROVE LInv'
  OBVIOUS
<1>1. CASE UNCHANGED vars
  <2>1. EarlyLayout' /\ LateLayout'
    BY <1>1 DEF vars, kernel, LInv, EarlyLayout, LateLayout, Early, LowPages, HeapPages,
      Tables, IdentityMapped, Low, HeapContiguous
  <2>2. TablesPrivate' /\ StackMapped' /\ OwnTable'
    BY <1>1 DEF vars, kernel, LInv, TablesPrivate, StackMapped, OwnTable, HasStack, Has,
      Ready, Cloning
  <2>3. CopyFaithful'
    BY <1>1 DEF vars, kernel, LInv, CopyFaithful, CopiedPage, Linked, Cloning
  <2> QED BY <2>1, <2>2, <2>3 DEF LInv
<1>2. CASE init_heap_table \/ identity_map \/ (map_heap /\ i < HEAP_PAGES)
  BY <1>2, LayoutEarly
<1>3. CASE map_heap /\ ~(i < HEAP_PAGES)
  BY <1>3, LayoutFirstClone
<1>4. CASE move_stack \/ fork \/ end_clone
  BY <1>4, LayoutMoveStack, LayoutFork, LayoutEndClone
<1>5. CASE link_table \/ new_table \/ clone_page \/ end_table
  BY <1>5, LayoutLink, LayoutNewTable, LayoutClonePage, LayoutEndTable
<1>6. CASE page_fault \/ switch \/ store
  BY <1>6, LayoutRest
<1> QED BY <1>1, <1>2, <1>3, <1>4, <1>5, <1>6 DEF Next

(* The layout holds throughout.                                            *)
THEOREM LayoutInvariance == Spec => [](IInv /\ LInv)
BY Invariance, InitLayout, LayoutStep, PTL DEF Spec

(* init_paging() maps everything below placement_address to itself, the    *)
(* tables it makes on the way included, and nothing changes that later.    *)
THEOREM LowMemoryIsIdentity == Spec => []IdentityMapped
<1>1. IInv /\ LInv => IdentityMapped
  <2> SUFFICES ASSUME IInv, LInv PROVE IdentityMapped
    OBVIOUS
  <2>1. CASE ~Early
    BY <2>1 DEF LInv, LateLayout
  <2>2. CASE phase = "heap"
    BY <2>2, LowMapped DEF LInv, EarlyLayout, IdentityMapped
  <2> QED BY <2>1, <2>2 DEF Early, IdentityMapped
<1> QED BY <1>1, LayoutInvariance, PTL

(* The heap's first pages have neighbouring frames, which clone_dir()      *)
(* relies on for the second page of a directory.                           *)
THEOREM HeapFramesFollow == Spec => []HeapContiguous
<1>1. IInv /\ LInv => HeapContiguous
  BY DEF LInv, LateLayout, HeapContiguous, Early
<1> QED BY <1>1, LayoutInvariance, PTL

(* A table that two directories share is vm_page_dir's, at the same entry. *)
THEOREM SharedTablesAreKernel == Spec => []TablesPrivate
BY LayoutInvariance, PTL DEF LInv

-----------------------------------------------------------------------------
(* A store into a stack hits no page of another task's.                    *)
LEMMA StacksApart ==
  ASSUME IInv, LInv, phase = "run", NEW c \in Ready, NEW d \in Ready, c # d,
         NEW j \in DOMAIN STACK, NEW k \in DOMAIN STACK
  PROVE  StackPage(c, j) # StackPage(d, k)
<1>1. PICK e \in Entries, x \in Indexes :
        e = STACK[j][1] /\ x = STACK[j][2] /\ dirs[VM][e] = NULL
  BY StackEntry DEF LInv, Early
<1>2. PICK h \in Entries, y \in Indexes :
        h = STACK[k][1] /\ y = STACK[k][2]
  BY StackEntry DEF LInv, Early
<1>3. c \in DOMAIN dirs /\ d \in DOMAIN dirs
  BY DEF Ready
<1>4. /\ dirs[c][e] # NULL /\ pages[dirs[c][e]][x] # NONE
      /\ dirs[d][h] # NULL /\ pages[dirs[d][h]][y] # NONE
  <2>1. HasStack(c, j) /\ HasStack(d, k)
    BY DEF LInv, StackMapped
  <2> QED BY <1>1, <1>2, <2>1 DEF HasStack, Has
<1>5. PICK p \in Allocated, q \in Allocated :
        p = <<dirs[c][e], x>> /\ q = <<dirs[d][h], y>>
  BY <1>3, <1>4, MappedPage
<1>6. dirs[c][e] # dirs[d][h]
  BY <1>1, <1>3, <1>4 DEF LInv, TablesPrivate
<1>7. p # q
  BY <1>5, <1>6
<1>8. pages[p[1]][p[2]] # pages[q[1]][q[2]]
  BY <1>7 DEF IInv, FramesPrivate
<1> QED BY <1>1, <1>2, <1>5, <1>8 DEF StackPage

(* A task's stack changes only while that task runs: the others' stores    *)
(* are into frames that are not its own, and their forks copy into frames  *)
(* that were nobody's.                                                     *)
THEOREM StacksAreIsolated == Spec => StacksIsolated
<1>1. ASSUME IInv, LInv, [Next]_vars, NEW d \in Ready,
             phase \in {"run", "fork"}, d # cur_vm_page_dir
      PROVE  StackOf(d)' = StackOf(d)
  <2>1. d \in DOMAIN dirs /\ (phase = "fork" => d # clone.dst) /\ ~Early
    BY <1>1 DEF Ready, Early
  <2>2. CASE UNCHANGED <<kernel, memory>>
    BY <2>2 DEF StackOf, StackPage, kernel
  <2>3. CASE fork
    <3>1. dirs' = Append(dirs, NoDir) /\ UNCHANGED <<pages, memory>>
      BY <2>3 DEF fork, begin_clone
    <3>2. dirs'[d] = dirs[d]
      <4> DEFINE A == [Entries -> 0..Len(pages)]
      <4>1. dirs \in Seq(A) /\ NoDir \in A
        BY <1>1, KernelDir DEF KernelType, NoDir, NULL
      <4> HIDE DEF A
      <4> QED BY <2>1, <3>1, <4>1
    <3> QED BY <3>1, <3>2 DEF StackOf, StackPage
  <2>4. CASE store
    <3>1. cur_vm_page_dir \in Ready /\ phase = "run" /\ UNCHANGED kernel
      BY <1>1, <2>4, KernelDir DEF store, Ready, IInv, Directories, OtherType
    <3>2. PICK j \in DOMAIN STACK, v \in DATA :
            memory' = [memory EXCEPT ![StackPage(cur_vm_page_dir, j)] = v]
      BY <2>4 DEF store
    <3>3. ASSUME NEW k \in DOMAIN STACK
          PROVE  memory'[StackPage(d, k)'] = memory[StackPage(d, k)]
      <4>1. StackPage(d, k)' = StackPage(d, k)
        BY <3>1 DEF StackPage, kernel
      <4>2. StackPage(cur_vm_page_dir, j) # StackPage(d, k)
        BY <1>1, <3>1, StacksApart
      <4>3. StackPage(d, k) \in Frames
        <5>1. STACK[k][1] \in Entries /\ STACK[k][2] \in Indexes
          BY <1>1, <2>1, StackEntry DEF LInv
        <5>2. dirs[d][STACK[k][1]] # NULL
          BY <1>1, <3>1 DEF LInv, StackMapped, HasStack, Has
        <5> QED BY <1>1, <2>1, <5>1, <5>2, MappedPage DEF StackPage
      <4> QED BY <1>1, <3>2, <4>1, <4>2, <4>3, KernelDir DEF OtherType
    <3> QED BY <3>3 DEF StackOf
  <2>5. CASE link_table \/ new_table \/ clone_page
    <3>1. Cloning /\ phase = "fork"
      BY <1>1, <2>5 DEF link_table, new_table, clone_page, Cloning
    <3>2. FillsCopy /\ KeepsPages
      BY <1>1, <2>5, LayoutLink, LayoutNewTable, LayoutClonePage
    <3>3. KernelType'
      BY <1>1, <2>5, LinkTable, NewTable, ClonePage, TypeParts, PTL DEF IInv
    <3> QED BY <1>1, <3>1, <3>2, <3>3, CloneStepStacks
  <2>6. ~init_heap_table /\ ~identity_map /\ ~map_heap /\ ~move_stack
    BY <1>1 DEF init_heap_table, identity_map, map_heap, move_stack
  <2>7. page_fault \/ end_table \/ end_clone \/ switch => UNCHANGED <<kernel, memory>>
    BY DEF page_fault, end_table, end_clone, switch
  <2>8. UNCHANGED vars => UNCHANGED <<kernel, memory>>
    BY DEF vars
  <2> QED BY <1>1, <2>2, <2>3, <2>4, <2>5, <2>6, <2>7, <2>8 DEF Next
<1>2. IInv /\ LInv /\ [Next]_vars =>
        [\A d \in Ready :
           phase \in {"run", "fork"} /\ d # cur_vm_page_dir =>
             StackOf(d)' = StackOf(d)]_vars
  BY <1>1
<1> QED BY <1>2, LayoutInvariance, PTL DEF Spec, StacksIsolated

(* When fork()'s clone_dir() returns, the child's stack reads like the     *)
(* parent's.                                                               *)
THEOREM ChildStartsAsParent == Spec => ChildStackIsCopy
<1>1. ASSUME IInv, LInv, [Next]_vars, phase = "fork", phase' = "run"
      PROVE  StackOf(clone.dst) = StackOf(clone.src)
  <2>1. end_clone
    BY <1>1 DEF Next, vars, init_heap_table, identity_map, map_heap, move_stack,
      link_table, new_table, clone_page, page_fault, end_table, fork, switch, store
  <2>2. clone.entry = ENTRIES
    BY <2>1 DEF end_clone
  <2> QED BY <1>1, <2>2, CopyDone DEF StackOf
<1>2. IInv /\ LInv /\ [Next]_vars =>
        [phase = "fork" /\ phase' = "run" => StackOf(clone.dst) = StackOf(clone.src)]_vars
  BY <1>1
<1> QED BY <1>2, LayoutInvariance, PTL DEF Spec, ChildStackIsCopy
=============================================================================
