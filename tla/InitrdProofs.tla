---------------------------- MODULE InitrdProofs ----------------------------
(***************************************************************************)
(* Proofs about Initrd for any names, any width of a name and whatever the *)
(* memory behind the array held: the types, what a removal keeps and what  *)
(* a listing finds.                                                        *)
(*                                                                         *)
(* A name's cells say more than its string, because strcpy() leaves old    *)
(* characters behind it.  What the proofs need of that is one fact:        *)
(* through the dirent's cells, terminated, the string comes out as it went *)
(* in (CellsRead), so that the dirent has the name of its file unless that *)
(* fills the cells and goes on into ino.                                   *)
(***************************************************************************)
EXTENDS Initrd, SequenceTheorems, WellFoundedInduction, NaturalsInduction, TLAPS

(* Every nonempty set of naturals has a least element.                     *)
LEMMA LeastOf == ASSUME NEW S \in SUBSET Nat, S # {}
                 PROVE  \E f \in S : \A g \in S : f <= g
<1> DEFINE R == {ss \in Nat \X Nat : ss[1] < ss[2]}
<1>1. IsWellFoundedOn(R, Nat)
  BY NatLessThanWellFounded DEF OpToRel
<1>2. PICK f \in S : \A g \in S : ~(<<g, f>> \in R)
  <2> HIDE DEF R
  <2> QED BY <1>1, WFMin
<1>3. ASSUME NEW g \in S PROVE f <= g
  <2>1. f \in Nat /\ g \in Nat /\ ~(<<g, f>> \in R)
    BY <1>2
  <2>2. ~(g < f)
    BY <2>1
  <2> QED BY <2>1, <2>2
<1> QED BY <1>3

-----------------------------------------------------------------------------
(* Cells are a sequence of WIDTH characters.                               *)
LEMMA CellsLength ==
  ASSUME NEW cells \in Cells
  PROVE  Len(cells) = WIDTH /\ cells \in Seq(Chars) /\ DOMAIN cells = 1..WIDTH
<1>1. WIDTH \in Nat
  BY InitrdAssumption
<1>2. cells \in [1..WIDTH -> Chars]
  BY DEF Cells
<1>3. cells \in Seq(Chars)
  BY <1>1, <1>2, IsASeq
<1> QED BY <1>1, <1>2, <1>3, LenProperties

(* strlen() is where the first '\0' is, or the whole width.                *)
LEMMA Strlen ==
  ASSUME NEW cells \in Cells
  PROVE  /\ strlen(cells) \in 0..WIDTH
         /\ \A k \in 1..strlen(cells) : cells[k] # NUL
         /\ strlen(cells) < WIDTH => cells[strlen(cells) + 1] = NUL
<1> DEFINE E == {k \in 1..WIDTH : cells[k] = NUL}
<1>1. WIDTH \in Nat /\ Len(cells) = WIDTH
  BY CellsLength, InitrdAssumption
<1>2. strlen(cells) = LET end == IF E # {} THEN Min(E) ELSE 0
                      IN  IF end = 0 THEN WIDTH ELSE end - 1
  BY <1>1 DEF strlen, SelectInSeq
<1>3. CASE E = {}
  <2>1. strlen(cells) = WIDTH
    BY <1>2, <1>3
  <2>2. \A k \in 1..WIDTH : cells[k] # NUL
    BY <1>3
  <2> QED BY <1>1, <2>1, <2>2
<1>4. CASE E # {}
  <2>1. E \in SUBSET Nat
    OBVIOUS
  <2>2. PICK m \in E : m = Min(E) /\ \A k \in E : m <= k
    <3> HIDE DEF E
    <3>1. \E f \in E : \A g \in E : f <= g
      BY <1>4, <2>1, LeastOf
    <3> QED BY <3>1 DEF Min
  <2>3. strlen(cells) = m - 1 /\ m \in 1..WIDTH /\ cells[m] = NUL
    BY <1>1, <1>2, <1>4, <2>2
  <2>4. ASSUME NEW k \in 1..(m - 1) PROVE cells[k] # NUL
    <3>1. k \in 1..WIDTH /\ ~(m <= k)
      BY <1>1, <2>3
    <3> QED BY <2>2, <3>1
  <2> QED BY <1>1, <2>3, <2>4
<1> QED BY <1>3, <1>4

(* ... and nothing else is.                                                *)
LEMMA StrlenIs ==
  ASSUME NEW cells \in Cells, NEW n \in 0..WIDTH,
         \A k \in 1..n : cells[k] # NUL, n < WIDTH => cells[n + 1] = NUL
  PROVE  strlen(cells) = n
<1>1. WIDTH \in Nat
  BY InitrdAssumption
<1>2. PICK m \in 0..WIDTH : m = strlen(cells)
  BY Strlen
<1>3. (\A k \in 1..m : cells[k] # NUL) /\ (m < WIDTH => cells[m + 1] = NUL)
  BY <1>2, Strlen
<1>4. ~(m < n)
  <2>1. m < n => m + 1 \in 1..n /\ m < WIDTH
    BY <1>1
  <2> QED BY <1>3, <2>1
<1>5. ~(n < m)
  <2>1. n < m => n + 1 \in 1..m /\ n < WIDTH
    BY <1>1
  <2> QED BY <1>3, <2>1
<1> QED BY <1>1, <1>2, <1>4, <1>5

(* Cells that agree up to the end of the string hold the same string.      *)
LEMMA SameString ==
  ASSUME NEW a \in Cells, NEW b \in Cells, strlen(a) = strlen(b),
         \A k \in 1..strlen(a) : a[k] = b[k]
  PROVE  str(a) = str(b)
<1>1. PICK n \in Nat : n = strlen(a)
  BY Strlen, InitrdAssumption
<1>2. str(a) = [k \in 1..n |-> a[k]] /\ str(b) = [k \in 1..n |-> b[k]]
  BY <1>1 DEF str
<1> QED BY <1>1, <1>2

(* A string typed or read from the image fits a name's cells.              *)
LEMMA FilledCells ==
  ASSUME NEW s \in Names \cup ToSet(InitialNames) \cup {dev}
  PROVE  FilledWith(s) \in Cells
<1>1. WIDTH \in Nat /\ Len(s) \in 0..WIDTH /\ DOMAIN s = 1..Len(s)
  <2>1. CASE s = dev
    BY <2>1, InitrdAssumption DEF dev
  <2>2. CASE s \in Names
    BY <2>2, InitrdAssumption
  <2>3. CASE s \in ToSet(InitialNames)
    <3>1. s \in Seq(Chars)
      <4> DEFINE S == Seq(Chars)
      <4>1. InitialNames \in Seq(S)
        BY InitrdAssumption
      <4> HIDE DEF S
      <4>2. s \in S
        BY <2>3, <4>1 DEF ToSet
      <4> QED BY <4>2 DEF S
    <3> QED BY <2>3, <3>1, InitrdAssumption
  <2> QED BY <2>1, <2>2, <2>3
<1>2. ASSUME NEW k \in 1..Len(s) PROVE s[k] \in Chars
  BY <1>1 DEF Chars
<1>3. NUL \in Chars
  BY DEF Chars
<1>4. ASSUME NEW k \in 1..WIDTH PROVE (IF k <= Len(s) THEN s[k] ELSE NUL) \in Chars
  <2>1. CASE k <= Len(s)
    <3>1. k \in 1..Len(s)
      BY <1>1, <2>1
    <3> QED BY <1>2, <2>1, <3>1
  <2>2. CASE ~(k <= Len(s))
    BY <1>3, <2>2
  <2> QED BY <2>1, <2>2
<1> QED BY <1>4 DEF FilledWith, Cells

(* strcpy() gives cells.                                                   *)
LEMMA CopiedCells ==
  ASSUME NEW cells \in Cells, NEW src \in Cells
  PROVE  strcpy(cells, src) \in Cells /\ Terminated(cells, src) \in Cells
<1>1. \A k \in 1..WIDTH : cells[k] \in Chars /\ src[k] \in Chars
  BY DEF Cells
<1>2. NUL \in Chars
  BY DEF Chars
<1>3. strcpy(cells, src) \in Cells
  BY <1>1 DEF strcpy, Cells
<1>4. \A k \in 1..WIDTH : strcpy(cells, src)[k] \in Chars
  BY <1>3 DEF Cells
<1> HIDE DEF NUL
<1> QED BY <1>2, <1>3, <1>4 DEF Terminated, Cells

(* Through the cells a name's string comes out as it went in: strcpy()     *)
(* copies the characters, and the '\0' is put where strlen() says.         *)
LEMMA CellsRead ==
  ASSUME NEW cells \in Cells, NEW src \in Cells
  PROVE  /\ str(Terminated(cells, src)) = str(src)
         /\ strlen(Terminated(cells, src)) = strlen(src)
<1>1. PICK n \in 0..WIDTH : n = strlen(src)
  BY Strlen
<1>2. WIDTH \in Nat /\ \A k \in 1..n : src[k] # NUL
  BY <1>1, Strlen, InitrdAssumption
<1>3. PICK t \in Cells : t = Terminated(cells, src)
  BY CopiedCells
<1>4. ASSUME NEW k \in 1..n PROVE t[k] = src[k]
  <2>1. k \in 1..WIDTH /\ k # n + 1 /\ \A j \in 2..k : src[j] # NUL
    BY <1>2
  <2>2. strcpy(cells, src)[k] = src[k]
    BY <2>1 DEF strcpy
  <2> QED BY <1>1, <1>3, <2>1, <2>2 DEF Terminated
<1>5. n < WIDTH => t[n + 1] = NUL
  <2>1. n < WIDTH => n + 1 \in 1..WIDTH
    BY <1>2
  <2> QED BY <1>1, <1>3, <2>1 DEF Terminated
<1>6. strlen(t) = n
  BY <1>2, <1>4, <1>5, StrlenIs
<1> QED BY <1>1, <1>3, <1>4, <1>6, SameString

(* "dev" read from the dirent is "dev".                                    *)
LEMMA DevReads == FilledWith(dev) \in Cells /\ str(FilledWith(dev)) = dev
<1>1. WIDTH \in Nat /\ WIDTH >= 3 /\ Len(dev) = 3
  BY InitrdAssumption DEF dev
<1>2. PICK c \in Cells : c = FilledWith(dev)
  BY FilledCells
<1>3. c[1] = "d" /\ c[2] = "e" /\ c[3] = "v" /\ (3 < WIDTH => c[4] = NUL)
  <2>1. \A k \in 1..WIDTH : c[k] = IF k <= 3 THEN dev[k] ELSE NUL
    BY <1>1, <1>2 DEF FilledWith
  <2>2. 1 \in 1..WIDTH /\ 2 \in 1..WIDTH /\ 3 \in 1..WIDTH /\ (3 < WIDTH => 4 \in 1..WIDTH)
    BY <1>1
  <2> QED BY <2>1, <2>2 DEF dev
<1>4. strlen(c) = 3
  <2>1. \A k \in 1..3 : c[k] # NUL
    BY <1>3 DEF NUL
  <2> QED BY <1>1, <1>3, <2>1, StrlenIs
<1>5. str(c) = [k \in 1..3 |-> c[k]]
  BY <1>4 DEF str
<1>6. str(c) = dev
  BY <1>3, <1>5 DEF dev
<1> QED BY <1>2, <1>6

-----------------------------------------------------------------------------
(* What the search finds is a node with the name, and no later one than    *)
(* any other of that name.                                                 *)
LEMMA FirstNamed ==
  ASSUME nroot_nodes \in Nat, NEW name, Named(name) # {}
  PROVE  First(name) \in Named(name) /\ \A j \in Named(name) : First(name) <= j
<1>1. Named(name) \in SUBSET Nat
  BY DEF Named
<1>2. \E k \in Named(name) : \A j \in Named(name) : k <= j
  BY <1>1, LeastOf
<1> QED BY <1>2 DEF First

\* print_all_file_content() counts up to the node after the last.
Counter == state = "listing" => i <= nroot_nodes + 1

IInv == TypeOK /\ Counter /\ ListedIsFound

(* initialise_initrd() copies the image's names into whatever was there.   *)
THEOREM InitInvariant == Init => IInv
<1> SUFFICES ASSUME Init PROVE IInv
  OBVIOUS
<1>1. /\ WIDTH \in Nat /\ MaxNodes \in Nat /\ Len(InitialNames) \in Nat
      /\ MaxNodes >= Len(InitialNames) /\ Garbage \subseteq Cells
      /\ DOMAIN InitialNames = 1..Len(InitialNames)
  BY InitrdAssumption
<1>2. PICK g \in [1..MaxNodes -> Garbage] :
        root_nodes = [k \in 1..MaxNodes |->
         IF k <= Len(InitialNames)
         THEN [name |-> strcpy(g[k], FilledWith(InitialNames[k])),
               inode |-> k - 1]
         ELSE [name |-> g[k], inode |-> 0]]
  BY DEF Init
<1>3. ASSUME NEW k \in 1..MaxNodes
      PROVE  root_nodes[k] \in [name : Cells, inode : 0..(MaxNodes - 1)]
  <2>1. g[k] \in Cells
    BY <1>1, <1>2
  <2>2. CASE k <= Len(InitialNames)
    <3>1. k \in DOMAIN InitialNames /\ k - 1 \in 0..(MaxNodes - 1)
      BY <1>1, <2>2
    <3>2. FilledWith(InitialNames[k]) \in Cells
      BY <3>1, FilledCells DEF ToSet
    <3>3. strcpy(g[k], FilledWith(InitialNames[k])) \in Cells
      BY <2>1, <3>2, CopiedCells
    <3> QED BY <1>2, <2>2, <3>1, <3>3
  <2>3. CASE ~(k <= Len(InitialNames))
    <3>1. 0 \in 0..(MaxNodes - 1)
      BY <1>1
    <3> QED BY <1>2, <2>1, <2>3, <3>1
  <2> QED BY <2>2, <2>3
<1>4. root_nodes \in [1..MaxNodes -> [name : Cells, inode : 0..(MaxNodes - 1)]]
  <2> DEFINE N == [name : Cells, inode : 0..(MaxNodes - 1)]
  <2>1. \A k \in 1..MaxNodes : root_nodes[k] \in N
    BY <1>3
  <2>2. \E h : root_nodes = [k \in 1..MaxNodes |-> h[k]]
    <3>1. root_nodes = [k \in 1..MaxNodes |-> root_nodes[k]]
      BY <1>2
    <3> QED BY <3>1
  <2> HIDE DEF N
  <2>3. root_nodes \in [1..MaxNodes -> N]
    BY <2>1, <2>2
  <2> QED BY <2>3 DEF N
<1>5. nroot_nodes \in 0..MaxNodes /\ nroot_nodes = Len(InitialNames) /\ i = 0
      /\ found = NotFound /\ state = "shell" /\ ino = 0
  BY <1>1 DEF Init
<1>6. dirent \in Cells
  BY DEF Init, Blank, Cells, Chars
<1>7. TypeOK
  <2>1. i \in 0..(MaxNodes + 1) /\ found \in NotFound..DevNode
    BY <1>1, <1>5 DEF NotFound, DevNode
  <2>2. ino \in 0..MaxNodes
    BY <1>1, <1>5
  <2> QED BY <1>4, <1>5, <1>6, <2>1, <2>2 DEF TypeOK
<1> QED BY <1>5, <1>7 DEF IInv, Counter, ListedIsFound

-----------------------------------------------------------------------------
(* The parts of the state, for any step.                                   *)
LEMMA Typed ==
  ASSUME TypeOK
  PROVE  /\ MaxNodes \in Nat /\ WIDTH \in Nat
         /\ nroot_nodes \in Nat /\ nroot_nodes <= MaxNodes
         /\ i \in Nat /\ dirent \in Cells
         /\ DOMAIN root_nodes = 1..MaxNodes
         /\ \A k \in 1..MaxNodes :
              /\ root_nodes[k].name \in Cells
              /\ root_nodes[k].inode \in 0..(MaxNodes - 1)
              /\ root_nodes[k] \in [name : Cells, inode : 0..(MaxNodes - 1)]
BY InitrdAssumption DEF TypeOK

(* initrd_open() writes the node behind the last.                          *)
LEMMA Open ==
  ASSUME IInv, NEW name \in Names, initrd_open(name) PROVE IInv'
<1>1. TypeOK /\ state = "shell" /\ state' = "shell" /\ nroot_nodes < MaxNodes
      /\ nroot_nodes' = nroot_nodes + 1
      /\ UNCHANGED <<dirent, ino, i, found>>
  BY DEF IInv, initrd_open, list
<1>2. /\ MaxNodes \in Nat /\ nroot_nodes \in Nat /\ nroot_nodes + 1 \in 1..MaxNodes
      /\ DOMAIN root_nodes = 1..MaxNodes
      /\ \A k \in 1..MaxNodes :
           root_nodes[k] \in [name : Cells, inode : 0..(MaxNodes - 1)]
  BY <1>1, Typed
<1>3. PICK c \in Cells : c = strcpy(root_nodes[nroot_nodes + 1].name, FilledWith(name))
  BY <1>2, FilledCells, CopiedCells
<1>4. PICK m \in 1..MaxNodes : m = nroot_nodes + 1
  BY <1>2
<1>5. root_nodes' = [root_nodes EXCEPT ![m] = [name |-> c, inode |-> m - 1]]
  <2>1. NewInode(nroot_nodes + 1) = m - 1
    BY <1>4 DEF NewInode
  <2> QED BY <1>3, <1>4, <2>1 DEF initrd_open
<1>6. root_nodes' \in [1..MaxNodes -> [name : Cells, inode : 0..(MaxNodes - 1)]]
  <2>1. m - 1 \in 0..(MaxNodes - 1)
    BY <1>2
  <2>2. [name |-> c, inode |-> m - 1] \in [name : Cells, inode : 0..(MaxNodes - 1)]
    BY <2>1
  <2> QED BY <1>1, <1>5, <2>2 DEF TypeOK
<1>7. nroot_nodes' \in 0..MaxNodes
  BY <1>1, <1>2
<1>8. TypeOK'
  BY <1>1, <1>6, <1>7 DEF TypeOK
<1>9. Counter' /\ ListedIsFound'
  BY <1>1 DEF Counter, ListedIsFound
<1> QED BY <1>8, <1>9 DEF IInv

(* initrd_close() moves nodes down by one.                                 *)
LEMMA Close ==
  ASSUME IInv, NEW name \in Names, initrd_close(name) PROVE IInv'
<1>1. TypeOK /\ state = "shell" /\ state' \in {"shell", "fault"}
      /\ UNCHANGED <<dirent, ino, i, found>>
  BY DEF IInv, initrd_close, list
<1>2. CASE nroot_nodes = 0
  <2>1. UNCHANGED <<root_nodes, nroot_nodes>>
    BY <1>2 DEF initrd_close, nodes
  <2>2. TypeOK'
    BY <1>1, <2>1 DEF TypeOK
  <2> QED BY <1>1, <2>2 DEF IInv, Counter, ListedIsFound
<1>3. CASE nroot_nodes # 0
  <2>1. PICK from :
          /\ root_nodes' = [k \in 1..MaxNodes |->
               IF Shifted(k, from) THEN root_nodes[k + 1] ELSE root_nodes[k]]
          /\ nroot_nodes' = nroot_nodes - 1
    BY <1>3 DEF initrd_close
  <2>2. MaxNodes \in Nat /\ nroot_nodes \in Nat /\ nroot_nodes <= MaxNodes
    BY <1>1, Typed
  <2>3. root_nodes' \in [1..MaxNodes -> [name : Cells, inode : 0..(MaxNodes - 1)]]
    <3> DEFINE N == [name : Cells, inode : 0..(MaxNodes - 1)]
    <3>1. root_nodes \in [1..MaxNodes -> N]
      BY <1>1 DEF TypeOK
    <3> HIDE DEF N
    <3>2. ASSUME NEW k \in 1..MaxNodes
          PROVE  (IF Shifted(k, from) THEN root_nodes[k + 1] ELSE root_nodes[k]) \in N
      <4>1. Shifted(k, from) => k + 1 \in 1..MaxNodes
        BY <2>2 DEF Shifted
      <4> QED BY <3>1, <4>1
    <3>3. root_nodes' \in [1..MaxNodes -> N]
      BY <2>1, <3>2
    <3> QED BY <3>3 DEF N
  <2>4. nroot_nodes' \in 0..MaxNodes
    BY <1>3, <2>1, <2>2
  <2>5. TypeOK'
    BY <1>1, <2>1, <2>3, <2>4 DEF TypeOK
  <2> QED BY <1>1, <2>5 DEF IInv, Counter, ListedIsFound
<1> QED BY <1>2, <1>3

(* The dirent has the name of what was read into it, unless that fills the *)
(* cells and the inode behind them is not 0.                               *)
LEMMA DirentReads ==
  ASSUME NEW src \in Cells, dirent \in Cells, dirent' = Terminated(dirent, src),
         strlen(src) < WIDTH \/ ino' % 256 = 0
  PROVE  DirentName' = str(src)
<1>1. str(dirent') = str(src) /\ strlen(dirent') = strlen(src)
  BY CellsRead
<1>2. strlen(dirent') \in 0..WIDTH /\ WIDTH \in Nat
  BY <1>1, Strlen, InitrdAssumption
<1>3. ~(strlen(dirent') = WIDTH /\ ino' % 256 # 0)
  BY <1>1, <1>2
<1>4. DirentName' = IF strlen(dirent') = WIDTH /\ ino' % 256 # 0
                    THEN Append(dirent', InoBytes) ELSE str(dirent')
  BY DEF DirentName
<1> QED BY <1>1, <1>3, <1>4

(* A string that goes on into ino is longer than any name of the root's.   *)
LEMMA DirentRunsOn ==
  ASSUME TypeOK, NEW src \in Cells, dirent' = Terminated(dirent, src),
         strlen(src) = WIDTH, ino' % 256 # 0
  PROVE  DirentName' # dev /\ Named(DirentName') = {}
<1>1. WIDTH \in Nat /\ WIDTH > 3 /\ Len(dev) = 3
  BY InitrdAssumption DEF dev
<1>2. PICK d \in Cells : d = dirent' /\ strlen(d) = WIDTH
  BY CellsRead, CopiedCells DEF TypeOK
<1>3. DirentName' = Append(d, InoBytes)
  BY <1>2 DEF DirentName
<1>4. PICK long : long = DirentName' /\ Len(long) = WIDTH + 1
  <2>1. d \in Seq(Chars) /\ Len(d) = WIDTH
    BY CellsLength
  <2>2. d \in Seq(Chars \cup {InoBytes})
    BY <2>1
  <2>3. Len(Append(d, InoBytes)) = Len(d) + 1
    BY <2>2, AppendProperties
  <2> QED BY <1>3, <2>1, <2>3
<1>5. long # dev
  <2>1. Len(long) # Len(dev)
    BY <1>1, <1>4
  <2> QED BY <2>1, Zenon
<1>6. ASSUME NEW k \in 1..nroot_nodes PROVE Name(k) # long
  <2>1. k \in 1..MaxNodes
    BY Typed
  <2>2. PICK cells \in Cells : cells = root_nodes[k].name
    BY <2>1, Typed
  <2>3. PICK n \in 0..WIDTH : n = strlen(cells)
    BY Strlen
  <2>4. Len(str(cells)) = n
    <3>1. n \in Nat /\ \A j \in 1..n : cells[j] \in Chars
      BY <1>1 DEF Cells
    <3>2. str(cells) = [j \in 1..n |-> cells[j]]
      BY <2>3 DEF str
    <3> QED BY <3>1, <3>2
  <2> QED BY <1>1, <1>4, <2>2, <2>4 DEF Name
<1> QED BY <1>4, <1>5, <1>6 DEF Named

(* readdir_fs() and finddir_fs(): the name that came through the dirent is *)
(* at least its own node's, or nobody's.                                   *)
LEMMA Entry == ASSUME IInv, entry PROVE IInv'
<1>1. TypeOK /\ state = "listing" /\ UNCHANGED <<root_nodes, nroot_nodes>>
      /\ i <= nroot_nodes + 1
  BY DEF IInv, entry, nodes, Counter
<1>2. CASE i > nroot_nodes
  <2>1. state' = "shell" /\ UNCHANGED <<dirent, ino, i, found>>
    BY <1>2 DEF entry, list
  <2>2. TypeOK'
    BY <1>1, <2>1 DEF TypeOK
  <2> QED BY <2>1, <2>2 DEF IInv, Counter, ListedIsFound
<1>3. CASE ~(i > nroot_nodes)
  <2>1. /\ MaxNodes \in Nat /\ nroot_nodes \in Nat /\ nroot_nodes <= MaxNodes
        /\ i \in Nat /\ i <= nroot_nodes /\ dirent \in Cells
        /\ \A k \in 1..MaxNodes : /\ root_nodes[k].name \in Cells
                                  /\ root_nodes[k].inode \in 0..(MaxNodes - 1)
    BY <1>1, <1>3, Typed
  <2>2. PICK src : /\ src = IF i = 0 THEN FilledWith(dev) ELSE root_nodes[i].name
                   /\ dirent' = Terminated(dirent, src)
                   /\ ino' = IF i = 0 THEN 0 ELSE root_nodes[i].inode
                   /\ found' = initrd_finddir(DirentName')
                   /\ i' = i + 1 /\ state' \in {"listing", "fault"}
    BY <1>1, <1>3 DEF entry
  <2>3. src \in Cells /\ dirent' \in Cells /\ ino' \in 0..MaxNodes
    <3>1. CASE i = 0
      <4>1. src \in Cells
        BY <2>2, <3>1, DevReads
      <4>2. 0 \in 0..MaxNodes
        BY <2>1
      <4> QED BY <2>1, <2>2, <3>1, <4>1, <4>2, CopiedCells
    <3>2. CASE i # 0
      <4>1. i \in 1..MaxNodes
        BY <2>1, <3>2
      <4>2. src \in Cells
        BY <2>1, <2>2, <3>2, <4>1
      <4> QED BY <2>1, <2>2, <3>2, <4>1, <4>2, CopiedCells
    <3> QED BY <3>1, <3>2
  <2>4. PICK name : name = DirentName'
    OBVIOUS
  <2>5. \/ found' = DevNode
        \/ found' = NotFound /\ Named(name) = {}
        \/ found' = First(name) /\ Named(name) # {}
    BY <2>2, <2>4 DEF initrd_finddir
  <2>6. Named(name) # {} => First(name) \in 1..nroot_nodes /\ First(name) \in Named(name)
    <3>1. Named(name) # {} => First(name) \in Named(name)
      BY <2>1, FirstNamed
    <3> QED BY <3>1 DEF Named
  <2>7. found' \in NotFound..DevNode
    BY <2>1, <2>5, <2>6 DEF NotFound, DevNode
  <2>8. i' \in 0..(MaxNodes + 1) /\ i' <= nroot_nodes + 1
    BY <2>1, <2>2
  <2>9. TypeOK'
    <3>1. state' \in {"shell", "listing", "fault"}
      BY <2>2
    <3> QED BY <1>1, <2>3, <2>7, <2>8, <3>1 DEF TypeOK
  <2>10. /\ found' # NotFound <=> (i' > 1 => Ended(root_nodes[i' - 1]))
         /\ found' \notin {NotFound, DevNode} => found' < i' /\ Name(found') = name
    <3>1. CASE i = 0
      <4>1. ino' % 256 = 0
        BY <2>2, <3>1
      <4>2. name = dev
        BY <2>1, <2>2, <2>3, <2>4, <3>1, <4>1, DirentReads, DevReads
      <4>3. found' = DevNode
        BY <2>2, <2>4, <4>2 DEF initrd_finddir
      <4>4. found' # NotFound /\ ~(i' > 1)
        BY <2>1, <2>2, <3>1, <4>3 DEF NotFound, DevNode
      <4> QED BY <4>3, <4>4
    <3>2. CASE i # 0 /\ Ended(root_nodes[i])
      <4>1. i \in 1..nroot_nodes /\ i' > 1 /\ i' - 1 = i
        BY <2>1, <2>2, <3>2
      <4>2. strlen(src) < WIDTH \/ ino' % 256 = 0
        BY <2>2, <3>2 DEF Ended
      <4>3. name = str(root_nodes[i].name)
        BY <2>1, <2>2, <2>3, <2>4, <3>2, <4>2, DirentReads
      <4>4. i \in Named(name)
        BY <4>1, <4>3 DEF Named, Name
      <4>5. First(name) \in Named(name) /\ First(name) <= i
        BY <2>1, <4>4, FirstNamed
      <4>6. First(name) \in 1..nroot_nodes /\ Name(First(name)) = name
        BY <4>5 DEF Named
      <4>7. found' = DevNode \/ found' = First(name)
        BY <2>5, <4>4
      <4>8. DevNode # NotFound /\ First(name) # NotFound /\ First(name) < i'
        BY <2>1, <2>2, <4>5, <4>6 DEF NotFound, DevNode
      <4> QED BY <3>2, <4>1, <4>6, <4>7, <4>8
    <3>3. CASE i # 0 /\ ~Ended(root_nodes[i])
      <4>1. i' > 1 /\ i' - 1 = i
        BY <2>1, <2>2, <3>3
      <4>2. strlen(src) = WIDTH /\ ino' % 256 # 0
        <5>1. strlen(src) \in 0..WIDTH /\ WIDTH \in Nat
          BY <2>3, Strlen, InitrdAssumption
        <5>2. ~(strlen(src) < WIDTH) /\ ino' % 256 # 0
          BY <2>2, <3>3 DEF Ended
        <5> QED BY <5>1, <5>2
      <4>3. name # dev /\ Named(name) = {}
        BY <1>1, <2>2, <2>3, <2>4, <4>2, DirentRunsOn
      <4>4. found' = NotFound
        BY <2>2, <2>4, <4>3 DEF initrd_finddir
      <4> QED BY <3>3, <4>1, <4>4
    <3> QED BY <3>1, <3>2, <3>3
  <2>11. ListedIsFound'
    <3>1. root_nodes' = root_nodes /\ \A k : Name(k)' = Name(k)
      BY <1>1 DEF Name
    <3> QED BY <2>4, <2>10, <3>1 DEF ListedIsFound, Ended, Name
  <2>12. Counter'
    BY <1>1, <2>8 DEF Counter
  <2> QED BY <2>9, <2>11, <2>12 DEF IInv
<1> QED BY <1>2, <1>3

(* A listing begins at its first entry.                                    *)
LEMMA Begin == ASSUME IInv, print_all_file_content PROVE IInv'
<1>1. TypeOK /\ state' = "listing" /\ i' = 0 /\ found' = NotFound
      /\ UNCHANGED <<root_nodes, nroot_nodes, dirent, ino>>
  BY DEF IInv, print_all_file_content, nodes
<1>2. MaxNodes \in Nat /\ nroot_nodes \in Nat
  BY <1>1, Typed
<1>3. i' \in 0..(MaxNodes + 1) /\ found' \in NotFound..DevNode
  BY <1>1, <1>2 DEF NotFound, DevNode
<1>4. TypeOK'
  BY <1>1, <1>3 DEF TypeOK
<1>5. Counter' /\ ListedIsFound'
  BY <1>1, <1>2 DEF Counter, ListedIsFound
<1> QED BY <1>4, <1>5 DEF IInv

-----------------------------------------------------------------------------
(* The inductive invariant holds throughout.                               *)
THEOREM Invariance == Spec => []IInv
<1>1. IInv /\ [Next]_vars => IInv'
  <2> SUFFICES ASSUME IInv, [Next]_vars PROVE IInv'
    OBVIOUS
  <2>1. CASE UNCHANGED vars
    BY <2>1 DEF vars, nodes, list, IInv, TypeOK, Counter, ListedIsFound, Ended, DirentName,
      Name
  <2>2. CASE Next
    BY <2>2, Open, Close, Begin, Entry DEF Next
  <2> QED BY <2>1, <2>2
<1> QED BY <1>1, InitInvariant, PTL DEF Spec

(* TypeOK of the Initrd module, for any names and nodes.                   *)
THEOREM TypeCorrectness == Spec => []TypeOK
BY Invariance, PTL DEF IInv

(* What finddir_fs() gives print_all_file_content(), which uses it without *)
(* a test, is nothing just when the name did not end in the dirent: it     *)
(* fills the cells, and the first byte of ino is not 0.                    *)
THEOREM ListingFinds == Spec => []ListedIsFound
BY Invariance, PTL DEF IInv

-----------------------------------------------------------------------------
\* A sequence of n elements without its element at p.
Without(s, p, n) == [k \in 1..(n - 1) |-> IF k < p THEN s[k] ELSE s[k + 1]]

(* RemoveAt: the elements behind the removed one move down by one.         *)
LEMMA Removing ==
  ASSUME NEW S, NEW n \in Nat, NEW p \in 1..n, NEW s \in [1..n -> S]
  PROVE  RemoveAt(s, p) = Without(s, p, n)
<1>1. s \in Seq(S) /\ Len(s) = n
  OBVIOUS
<1>2. PICK a \in Seq(S) :
        /\ a = SubSeq(s, 1, p - 1) /\ Len(a) = p - 1
        /\ \A k \in 1..(p - 1) : a[k] = s[k]
  <2>1. \A k \in 1..(p - 1) : s[k] \in S
    OBVIOUS
  <2>2. /\ SubSeq(s, 1, p - 1) \in Seq(S)
        /\ Len(SubSeq(s, 1, p - 1)) = IF 1 <= p - 1 THEN (p - 1) - 1 + 1 ELSE 0
        /\ \A k \in 1..((p - 1) - 1 + 1) : SubSeq(s, 1, p - 1)[k] = s[1 + k - 1]
    BY <2>1, SubSeqProperties
  <2>3. (p - 1) - 1 + 1 = p - 1 /\ \A k \in 1..(p - 1) : 1 + k - 1 = k
    OBVIOUS
  <2>4. Len(SubSeq(s, 1, p - 1)) = p - 1
    BY <2>2
  <2> QED BY <2>2, <2>3, <2>4
<1>3. PICK b \in Seq(S) :
        /\ b = SubSeq(s, p + 1, n) /\ Len(b) = n - p
        /\ \A k \in 1..(n - p) : b[k] = s[p + k]
  <2>1. \A k \in (p + 1)..n : s[k] \in S
    OBVIOUS
  <2>2. /\ SubSeq(s, p + 1, n) \in Seq(S)
        /\ Len(SubSeq(s, p + 1, n)) = IF p + 1 <= n THEN n - (p + 1) + 1 ELSE 0
        /\ \A k \in 1..(n - (p + 1) + 1) : SubSeq(s, p + 1, n)[k] = s[(p + 1) + k - 1]
    BY <2>1, SubSeqProperties
  <2>3. n - (p + 1) + 1 = n - p /\ \A k \in 1..(n - p) : (p + 1) + k - 1 = p + k
    OBVIOUS
  <2>4. Len(SubSeq(s, p + 1, n)) = n - p
    BY <2>2
  <2> QED BY <2>2, <2>3, <2>4
<1>4. Len(a) = p - 1 /\ \A k \in 1..(p - 1) : a[k] = s[k]
  BY <1>2
<1>5. Len(b) = n - p /\ \A k \in 1..(n - p) : b[k] = s[p + k]
  BY <1>3
<1>6. RemoveAt(s, p) = a \o b
  BY <1>1, <1>2, <1>3 DEF RemoveAt
<1>7. a \o b \in Seq(S) /\ Len(a \o b) = n - 1
  <2>1. a \o b \in Seq(S) /\ Len(a \o b) = Len(a) + Len(b)
    BY ConcatProperties
  <2> QED BY <1>4, <1>5, <2>1
<1>9. ASSUME NEW k \in 1..(n - 1)
      PROVE  (a \o b)[k] = IF k < p THEN s[k] ELSE s[k + 1]
  <2>1. CASE k < p
    <3>1. k \in 1..(p - 1) /\ k <= Len(a)
      BY <1>4, <2>1
    <3> QED BY <1>4, <1>5, <2>1, <3>1
  <2>2. CASE ~(k < p)
    <3>1. k - (p - 1) \in 1..(n - p) /\ k > Len(a) /\ p + (k - (p - 1)) = k + 1
      BY <1>4, <2>2
    <3>2. (a \o b)[k] = b[k - (p - 1)]
      BY <1>4, <1>5, <2>2, <3>1
    <3> QED BY <1>5, <2>2, <3>1, <3>2
  <2> QED BY <2>1, <2>2
<1>10. a \o b \in [1..(n - 1) -> S]
  BY <1>7, LenProperties
<1>11. a \o b = [k \in 1..(n - 1) |-> IF k < p THEN s[k] ELSE s[k + 1]]
  BY <1>9, <1>10
<1> QED BY <1>6, <1>11 DEF Without

(* initrd_close() takes one entry out of the directory and keeps the       *)
(* others, in order and with their inodes; an entry other than the last    *)
(* goes only as the first of the name that was typed.                      *)
THEOREM RemovalKeepsOthers == Spec => OthersStay
<1>1. ASSUME IInv, [Next]_vars, nroot_nodes' < nroot_nodes
      PROVE  \E p \in 1..nroot_nodes :
         /\ Directory' = RemoveAt(Directory, p)
         /\ p # nroot_nodes =>
              Name(p) \in Names /\ \A k \in 1..(p - 1) : Name(k) # Name(p)
  <2>1. /\ MaxNodes \in Nat /\ nroot_nodes \in Nat /\ nroot_nodes <= MaxNodes
    BY <1>1, Typed DEF IInv
  <2>2. PICK name \in Names : initrd_close(name)
    <3>1. CASE UNCHANGED vars
      BY <1>1, <2>1, <3>1 DEF vars, nodes
    <3>2. CASE print_all_file_content \/ entry
      BY <1>1, <2>1, <3>2 DEF nodes, print_all_file_content, entry
    <3>3. ASSUME NEW name \in Names, initrd_open(name) PROVE FALSE
      BY <1>1, <2>1, <3>3 DEF initrd_open
    <3> QED BY <1>1, <3>1, <3>2, <3>3 DEF Next
  <2>3. nroot_nodes # 0
    BY <1>1, <2>1, <2>2 DEF initrd_close, nodes
  <2>4. PICK p : p = IF Named(name) = {} THEN nroot_nodes ELSE First(name)
    OBVIOUS
  <2>5. /\ root_nodes' = [k \in 1..MaxNodes |->
              IF Shifted(k, p) THEN root_nodes[k + 1] ELSE root_nodes[k]]
        /\ nroot_nodes' = nroot_nodes - 1
    BY <2>2, <2>3, <2>4 DEF initrd_close
  <2>6. /\ p \in 1..nroot_nodes
        /\ p # nroot_nodes =>
             Name(p) \in Names /\ \A k \in 1..(p - 1) : Name(k) # Name(p)
    <3>1. CASE Named(name) = {}
      BY <2>1, <2>3, <2>4, <3>1
    <3>2. CASE Named(name) # {}
      <4>1. p \in Named(name) /\ \A j \in Named(name) : p <= j
        BY <2>1, <2>4, <3>2, FirstNamed
      <4>2. p \in 1..nroot_nodes /\ Name(p) = name
        BY <4>1 DEF Named
      <4>3. ASSUME NEW k \in 1..(p - 1) PROVE Name(k) # Name(p)
        <5>1. k \in 1..nroot_nodes /\ ~(p <= k)
          BY <2>1, <4>2
        <5>2. k \notin Named(name)
          BY <4>1, <5>1
        <5> QED BY <4>2, <5>1, <5>2 DEF Named
      <4> QED BY <4>2, <4>3
    <3> QED BY <3>1, <3>2
  <2> DEFINE File(k) == [name |-> str(root_nodes[k].name), inode |-> root_nodes[k].inode]
             Files == {File(k) : k \in 1..nroot_nodes}
  <2>7. Directory = [k \in 1..nroot_nodes |-> File(k)]
    BY DEF Directory, Name
  <2>8. Directory' = [k \in 1..(nroot_nodes - 1) |-> IF k < p THEN File(k) ELSE File(k + 1)]
    <3>1. Directory' = [k \in 1..(nroot_nodes - 1) |->
            [name |-> str(root_nodes'[k].name), inode |-> root_nodes'[k].inode]]
      BY <2>5 DEF Directory, Name
    <3>2. ASSUME NEW k \in 1..(nroot_nodes - 1)
          PROVE  root_nodes'[k] = IF k < p THEN root_nodes[k] ELSE root_nodes[k + 1]
      BY <2>1, <2>5, <2>6 DEF Shifted
    <3>3. ASSUME NEW k \in 1..(nroot_nodes - 1)
          PROVE  [name |-> str(root_nodes'[k].name), inode |-> root_nodes'[k].inode]
                   = IF k < p THEN File(k) ELSE File(k + 1)
      BY <3>2
    <3> HIDE DEF File
    <3> QED BY <3>1, <3>3
  <2> HIDE DEF File
  <2>9. Directory \in [1..nroot_nodes -> Files]
    BY <2>7
  <2> HIDE DEF Files
  <2>10. RemoveAt(Directory, p) = Without(Directory, p, nroot_nodes)
    BY <2>1, <2>6, <2>9, Removing
  <2>11. ASSUME NEW k \in 1..(nroot_nodes - 1)
         PROVE  /\ k < p => Directory[k] = File(k)
                /\ Directory[k + 1] = File(k + 1)
    BY <2>1, <2>7
  <2>12. Directory' = RemoveAt(Directory, p)
    BY <2>8, <2>10, <2>11 DEF Without
  <2> QED BY <2>6, <2>12
<1>2. IInv /\ [Next]_vars =>
        [nroot_nodes' < nroot_nodes =>
           \E p \in 1..nroot_nodes :
             /\ Directory' = RemoveAt(Directory, p)
             /\ p # nroot_nodes =>
                  Name(p) \in Names /\ \A k \in 1..(p - 1) : Name(k) # Name(p)]_vars
  BY <1>1
<1> QED BY <1>2, Invariance, PTL DEF Spec, OthersStay
=============================================================================
