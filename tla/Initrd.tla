------------------------------- MODULE Initrd -------------------------------
(***************************************************************************)
(* initrd.c under fs.c: the nodes of the root directory, the files that    *)
(* the shell's "f" commands create and remove, and the listing that reads  *)
(* them back through one static dirent.                                    *)
(*                                                                         *)
(* A name is kept in cells, because strcpy() copies no '\0': what a node   *)
(* or the dirent held before shows behind a shorter name.  What follows    *)
(* the cells matters to a name that fills them: in a node it is mask,      *)
(* which is 0, and in the dirent it is ino.                                *)
(*                                                                         *)
(* initrd_open() allocates a larger array and goes on using the old one,   *)
(* so nodes beyond InitialNames lie in memory that held anything; what     *)
(* else uses that memory is not part of this model, nor is a name longer   *)
(* than the cells.                                                         *)
(***************************************************************************)
EXTENDS Naturals, Sequences, SequencesExt

CONSTANTS Names,        \* what the user types behind the command
          InitialNames, \* the files of the initrd image, in order
          WIDTH,        \* cells of a name, 128 in the source
          Garbage,      \* what the cells behind the array may hold
          MaxNodes      \* bound: nodes that the memory has room for

NUL == "NUL"
dev == <<"d", "e", "v">>

Chars == {NUL} \cup UNION {{n[k] : k \in DOMAIN n} : n \in Names \cup ToSet(InitialNames) \cup {dev}}
Cells == [1..WIDTH -> Chars]

ASSUME InitrdAssumption ==
  /\ WIDTH \in Nat /\ WIDTH > Len(dev) /\ MaxNodes \in Nat /\ MaxNodes >= Len(InitialNames)
  /\ Names \subseteq Seq(Chars) /\ InitialNames \in Seq(Seq(Chars))
  /\ \A n \in Names \cup ToSet(InitialNames) : Len(n) \in 0..WIDTH
  /\ Garbage # {} /\ Garbage \subseteq Cells

VARIABLES
  root_nodes,   \* name and inode of each node
  nroot_nodes,  \* nfiles is always the same
  dirent, ino,  \* dirent.name and dirent.ino
  i,            \* print_all_file_content()'s counter
  found,        \* what finddir_fs() gave it: "none", a node or "dev"
  state         \* "shell", "listing" or "fault"

nodes == <<root_nodes, nroot_nodes>>
list  == <<dirent, ino, i, found>>
vars  == <<nodes, list, state>>

NotFound == 0
DevNode  == MaxNodes + 1

TypeOK ==
  /\ root_nodes \in [1..MaxNodes -> [name : Cells, inode : 0..(MaxNodes - 1)]]
  /\ nroot_nodes \in 0..MaxNodes
  /\ dirent \in Cells /\ ino \in 0..MaxNodes /\ i \in 0..(MaxNodes + 1)
  /\ found \in NotFound..DevNode /\ state \in {"shell", "listing", "fault"}

-----------------------------------------------------------------------------
\* The string in a node's cells, which ends at the mask at the latest, and cells
\* with a string and '\0's behind it.
strlen(cells) ==
  LET end == SelectInSeq(cells, LAMBDA c : c = NUL)
  IN  IF end = 0 THEN WIDTH ELSE end - 1
str(cells) == SubSeq(cells, 1, strlen(cells))
FilledWith(s)    == [k \in 1..WIDTH |-> IF k <= Len(s) THEN s[k] ELSE NUL]

\* strcpy() looks for '\0' from the second character on and copies none, but
\* an empty string's: it goes on with what lies behind that.
strcpy(cells, src) ==
  [k \in 1..WIDTH |-> IF \A j \in 2..k : src[j] # NUL THEN src[k] ELSE cells[k]]

\* ... with the '\0' that initrd_readdir() puts behind it.  Behind a name that
\* fills the cells it goes into ino, which is assigned next.
MutNotTerminated(cells, src) == strcpy(cells, src)
Terminated(cells, src) ==
  [k \in 1..WIDTH |-> IF k = strlen(src) + 1 THEN NUL ELSE strcpy(cells, src)[k]]

Name(k) == str(root_nodes[k].name)

\* The string that the dirent's readers find.  It goes on into ino when it fills
\* the cells and ino's first byte is not 0, and is then longer than any node's.
InoBytes == "ino"
DirentName ==
  IF strlen(dirent) = WIDTH /\ ino % 256 # 0 THEN Append(dirent, InoBytes) ELSE str(dirent)

-----------------------------------------------------------------------------
\* initialise_initrd()
Blank == [k \in 1..WIDTH |-> NUL]
Init ==
  /\ \E g \in [1..MaxNodes -> Garbage] :
       root_nodes = [k \in 1..MaxNodes |->
         IF k <= Len(InitialNames)
         THEN [name |-> strcpy(g[k], FilledWith(InitialNames[k])),
               inode |-> k - 1]
         ELSE [name |-> g[k], inode |-> 0]]
  /\ nroot_nodes = Len(InitialNames)
  /\ dirent = Blank /\ ino = 0 /\ i = 0 /\ found = NotFound
  /\ state = "shell"

\* "f -n name"
MutOneBased(k) == k
NewInode(k) == k - 1
initrd_open(name) ==
  /\ state = "shell" /\ nroot_nodes < MaxNodes
  /\ nroot_nodes' = nroot_nodes + 1
  /\ root_nodes' = [root_nodes EXCEPT ![nroot_nodes + 1] =
       [name |-> strcpy(@.name, FilledWith(name)),
        inode |-> NewInode(nroot_nodes + 1)]]
  /\ UNCHANGED <<list, state>>

Named(name) == {k \in 1..nroot_nodes : Name(k) = name}
First(name) == CHOOSE k \in Named(name) : \A j \in Named(name) : k <= j

\* root_nodes[i] = root_nodes[i+1] from the node that was found on.
MutOneLess(k, from) == k >= from /\ k + 1 < nroot_nodes
Shifted(k, from) == k >= from /\ k < nroot_nodes

\* "f -d name".  When no file has the name, nothing is shifted and the last
\* node is cut off.  With no file at all, (nfiles - 1) nodes are 2^32 - 1.
initrd_close(name) ==
  /\ state = "shell"
  /\ IF nroot_nodes = 0
     THEN state' = "fault" /\ UNCHANGED nodes
     ELSE LET from == IF Named(name) = {} THEN nroot_nodes ELSE First(name)
          IN  /\ root_nodes' = [k \in 1..MaxNodes |->
                    IF Shifted(k, from) THEN root_nodes[k + 1] ELSE root_nodes[k]]
              /\ nroot_nodes' = nroot_nodes - 1
              /\ UNCHANGED state
  /\ UNCHANGED list

-----------------------------------------------------------------------------
\* "f -c": print_all_file_content()
print_all_file_content ==
  /\ state = "shell" /\ state' = "listing"
  /\ i' = 0 /\ found' = NotFound
  /\ UNCHANGED <<nodes, dirent, ino>>

\* initrd_finddir() on the root
initrd_finddir(name) ==
  IF name = dev THEN DevNode
  ELSE IF Named(name) = {} THEN NotFound ELSE First(name)

\* readdir_fs() and, unless it ends the loop, finddir_fs() of the name.  What is
\* done with a null pointer for a node depends on what lies at address 0: the
\* listing goes on or is lost.
entry ==
  /\ state = "listing"
  /\ IF i > nroot_nodes
     THEN state' = "shell" /\ UNCHANGED list
     ELSE /\ dirent' = Terminated(dirent,
                          IF i = 0 THEN FilledWith(dev) ELSE root_nodes[i].name)
          /\ ino' = IF i = 0 THEN 0 ELSE root_nodes[i].inode
          /\ found' = initrd_finddir(DirentName')
          /\ i' = i + 1
          /\ state' \in IF found' = NotFound THEN {"listing", "fault"} ELSE {"listing"}
  /\ UNCHANGED nodes

Next ==
  \/ \E name \in Names : initrd_open(name) \/ initrd_close(name)
  \/ print_all_file_content \/ entry

Spec == Init /\ [][Next]_vars

-----------------------------------------------------------------------------
Directory == [k \in 1..nroot_nodes |-> [name |-> Name(k), inode |-> root_nodes[k].inode]]

\* Is the dirent's name ended for a node, by a '\0' in the cells or in ino?
Ended(node) == strlen(node.name) < WIDTH \/ node.inode % 256 = 0

(* print_all_file_content() uses finddir_fs()'s answer without a test: the *)
(* name that came through the reused dirent is found again, among stale    *)
(* suffixes, duplicates and files called dev, and it is the entry's own or *)
(* an earlier one of the same name.  The one entry for which the answer is *)
(* a null pointer is a file that has an inode and a name as long as the    *)
(* cells.                                                                  *)
ListedIsFound ==
  state = "listing" /\ i > 0 =>
    /\ found # NotFound <=> (i > 1 => Ended(root_nodes[i - 1]))
    /\ found \notin {NotFound, DevNode} => found < i /\ Name(found) = DirentName

(* initrd_close() takes one entry out and keeps all others, their order    *)
(* and their inodes, so that a file that stays keeps its content.  An      *)
(* entry other than the last goes only as the first of a name one can type.*)
OthersStay ==
  [][nroot_nodes' < nroot_nodes =>
       \E p \in 1..nroot_nodes :
         /\ Directory' = RemoveAt(Directory, p)
         /\ p # nroot_nodes =>
              Name(p) \in Names /\ \A k \in 1..(p - 1) : Name(k) # Name(p)]_vars
=============================================================================
