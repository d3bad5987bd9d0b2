--------------------------- MODULE ConsoleProofs ----------------------------
(***************************************************************************)
(* Proofs about Monitor, Printf and Shell for a screen of any size that    *)
(* its two uint8 can address, any characters, calls and lines: the cursor  *)
(* and the cells, that the screen shows the last lines of a teletype, that *)
(* each conversion finds its argument, that numerals fit their buffer and  *)
(* read back, and that what runs is what was typed and what is shown.      *)
(*                                                                         *)
(* The type of the screen is inductive.  The refinement is not: a line     *)
(* feed above the last row moves into whatever is there, and only          *)
(* BlankBelow says that it is a blank line, as a teletype's would be.      *)
(*                                                                         *)
(* What a text of characters does to the screen, what digits denote and    *)
(* what lines over each other spell are recursive functions over naturals: *)
(* facts about them are proved by the least natural they would fail for.   *)
(* Printf and Shell share the screen and no other variable.                *)
(***************************************************************************)
EXTENDS Printf, Shell, SequenceTheorems, WellFoundedInduction, NaturalsInduction, TLAPS

RowOf(t, y) == [x \in 0..(MONITOR_WIDTH - 1) |-> t.video_memory[y * MONITOR_WIDTH + x]]
PaperOf(t)  == [r \in 1..(t.cursor_y + 1) |-> RowOf(t, r - 1)]

BlankBelow(t) ==
  \A y \in (t.cursor_y + 1)..(MONITOR_HEIGTH - 1) : RowOf(t, y) = Paper!BlankLine

Sound(t) == t \in Screens /\ BlankBelow(t)

-----------------------------------------------------------------------------
(* Rows of the video memory do not overlap.                                *)
LEMMA RowsApart ==
  ASSUME NEW W \in Nat, NEW a \in Nat, NEW b \in Nat, a < b
  PROVE  a * W + W <= b * W
<1>1. PICK d \in Nat : b = a + 1 + d
  <2>1. b - a - 1 \in Nat /\ b = a + 1 + (b - a - 1)
    OBVIOUS
  <2> QED BY <2>1
<1>2. b * W = a * W + W + d * W
  BY <1>1
<1>3. d * W \in Nat
  OBVIOUS
<1>4. a * W \in Nat /\ b * W \in Nat
  OBVIOUS
<1> QED BY <1>2, <1>3, <1>4

(* Two cells with one index are the same row and column.                   *)
LEMMA CellsApart ==
  ASSUME NEW W \in Nat, NEW a \in Nat, NEW b \in Nat,
         NEW x \in 0..(W - 1), NEW z \in 0..(W - 1), a * W + x = b * W + z
  PROVE  a = b /\ x = z
<1>1. a * W \in Nat /\ b * W \in Nat
  OBVIOUS
<1>2. ~(a < b)
  <2> SUFFICES ASSUME a < b PROVE FALSE
    OBVIOUS
  <2>1. a * W + W <= b * W
    BY RowsApart
  <2> QED BY <2>1, <1>1
<1>3. ~(b < a)
  <2> SUFFICES ASSUME b < a PROVE FALSE
    OBVIOUS
  <2>1. b * W + W <= a * W
    BY RowsApart
  <2> QED BY <2>1, <1>1
<1>4. a = b
  BY <1>2, <1>3
<1> QED BY <1>1, <1>4

(* Every row and column of the screen has its cell in the video memory.    *)
LEMMA CellIsLocation ==
  ASSUME NEW y \in 0..(MONITOR_HEIGTH - 1), NEW x \in 0..(MONITOR_WIDTH - 1)
  PROVE  y * MONITOR_WIDTH + x \in Locations
<1>1. /\ MONITOR_WIDTH \in Nat /\ MONITOR_HEIGTH \in Nat
      /\ MONITOR_WIDTH * MONITOR_HEIGTH = MONITOR_HEIGTH * MONITOR_WIDTH
  BY MonitorAssumption
<1>2. y * MONITOR_WIDTH + MONITOR_WIDTH <= MONITOR_HEIGTH * MONITOR_WIDTH
  BY <1>1, RowsApart
<1>3. y * MONITOR_WIDTH \in Nat /\ MONITOR_HEIGTH * MONITOR_WIDTH \in Nat
  BY <1>1
<1> QED BY <1>1, <1>2, <1>3 DEF Locations

-----------------------------------------------------------------------------
Rows == [0..(MONITOR_WIDTH - 1) -> Printable]

(* A sound screen's paper is a sequence of rows, down to the cursor's.     *)
LEMMA PaperIsSeq ==
  ASSUME NEW t, t \in Screens
  PROVE  /\ t.cursor_y \in 0..(MONITOR_HEIGTH - 1)
         /\ t.cursor_x \in 0..(MONITOR_WIDTH - 1)
         /\ t.video_memory \in [Locations -> Printable]
         /\ \A y \in 0..(MONITOR_HEIGTH - 1) : RowOf(t, y) \in Rows
         /\ PaperOf(t) \in Seq(Rows)
         /\ Len(PaperOf(t)) = t.cursor_y + 1
         /\ \A r \in 1..(t.cursor_y + 1) : PaperOf(t)[r] = RowOf(t, r - 1)
<1>1. /\ t.cursor_y \in 0..(MONITOR_HEIGTH - 1)
      /\ t.cursor_x \in 0..(MONITOR_WIDTH - 1)
      /\ t.video_memory \in [Locations -> Printable]
  BY DEF Screens
<1>2. ASSUME NEW y \in 0..(MONITOR_HEIGTH - 1) PROVE RowOf(t, y) \in Rows
  BY <1>1, CellIsLocation DEF RowOf, Rows
<1>3. /\ PaperOf(t) \in Seq(Rows) /\ Len(PaperOf(t)) = t.cursor_y + 1
      /\ \A r \in 1..(t.cursor_y + 1) : PaperOf(t)[r] = RowOf(t, r - 1)
  <2>1. \A r \in 1..(t.cursor_y + 1) : RowOf(t, r - 1) \in Rows
    BY <1>1, <1>2, MonitorAssumption
  <2>2. t.cursor_y + 1 \in Nat
    BY <1>1, MonitorAssumption
  <2> QED BY <2>1, <2>2 DEF PaperOf
<1> QED BY <1>1, <1>2, <1>3

(* A cell moves up by one row; the last row is blank.                      *)
LEMMA MovedRows ==
  ASSUME NEW t, t \in Screens, NEW f,
         f.video_memory = [l \in Locations |-> MovedUp(l, t.video_memory)]
  PROVE  /\ f.video_memory \in [Locations -> Printable]
         /\ \A y \in 0..(MONITOR_HEIGTH - 2) : RowOf(f, y) = RowOf(t, y + 1)
         /\ RowOf(f, MONITOR_HEIGTH - 1) = Paper!BlankLine
<1>0. /\ MONITOR_WIDTH \in Nat \ {0} /\ MONITOR_HEIGTH \in Nat \ {0}
      /\ (MONITOR_HEIGTH - 1) * MONITOR_WIDTH \in Nat
      /\ MONITOR_WIDTH * MONITOR_HEIGTH = (MONITOR_HEIGTH - 1) * MONITOR_WIDTH + MONITOR_WIDTH
  BY MonitorAssumption
<1>1. f.video_memory \in [Locations -> Printable]
  <2> SUFFICES ASSUME NEW l \in Locations PROVE MovedUp(l, t.video_memory) \in Printable
    OBVIOUS
  <2>1. CASE l < (MONITOR_HEIGTH - 1) * MONITOR_WIDTH
    <3>1. l + MONITOR_WIDTH \in Locations
      BY <1>0, <2>1 DEF Locations
    <3> QED BY <2>1, <3>1, PaperIsSeq DEF MovedUp
  <2>2. CASE ~(l < (MONITOR_HEIGTH - 1) * MONITOR_WIDTH)
    BY <2>2 DEF MovedUp, Printable
  <2> QED BY <2>1, <2>2
<1>2. ASSUME NEW y \in 0..(MONITOR_HEIGTH - 2) PROVE RowOf(f, y) = RowOf(t, y + 1)
  <2>1. y \in Nat /\ MONITOR_HEIGTH - 1 \in Nat /\ y < MONITOR_HEIGTH - 1
        /\ y \in 0..(MONITOR_HEIGTH - 1)
    BY <1>0
  <2>2. y * MONITOR_WIDTH \in Nat
        /\ (y + 1) * MONITOR_WIDTH = y * MONITOR_WIDTH + MONITOR_WIDTH
        /\ y * MONITOR_WIDTH + MONITOR_WIDTH <= (MONITOR_HEIGTH - 1) * MONITOR_WIDTH
    BY <1>0, <2>1, RowsApart
  <2>3. ASSUME NEW x \in 0..(MONITOR_WIDTH - 1)
        PROVE  f.video_memory[y * MONITOR_WIDTH + x]
                 = t.video_memory[(y + 1) * MONITOR_WIDTH + x]
    <3>1. y * MONITOR_WIDTH + x \in Locations
      BY <2>1, CellIsLocation
    <3>2. y * MONITOR_WIDTH + x < (MONITOR_HEIGTH - 1) * MONITOR_WIDTH
      BY <1>0, <2>2
    <3>3. y * MONITOR_WIDTH + x + MONITOR_WIDTH = (y + 1) * MONITOR_WIDTH + x
      BY <1>0, <2>2
    <3> QED BY <3>1, <3>2, <3>3 DEF MovedUp
  <2> QED BY <2>3 DEF RowOf
<1>3. RowOf(f, MONITOR_HEIGTH - 1) = Paper!BlankLine
  <2>1. MONITOR_HEIGTH - 1 \in 0..(MONITOR_HEIGTH - 1)
    BY <1>0
  <2>2. ASSUME NEW x \in 0..(MONITOR_WIDTH - 1)
        PROVE  f.video_memory[(MONITOR_HEIGTH - 1) * MONITOR_WIDTH + x] = SPACE
    <3>1. (MONITOR_HEIGTH - 1) * MONITOR_WIDTH + x \in Locations
      BY <2>1, CellIsLocation
    <3>2. ~((MONITOR_HEIGTH - 1) * MONITOR_WIDTH + x < (MONITOR_HEIGTH - 1) * MONITOR_WIDTH)
      BY <1>0
    <3> QED BY <3>1, <3>2 DEF MovedUp
  <2> QED BY <2>2 DEF RowOf, Paper!BlankLine
<1> QED BY <1>1, <1>2, <1>3

(* A sequence that is another and one more element is that appended.       *)
LEMMA AppendIs ==
  ASSUME NEW S, NEW p \in Seq(S), NEW q \in Seq(S), NEW e \in S,
         Len(q) = Len(p) + 1, \A k \in 1..Len(p) : q[k] = p[k], q[Len(p) + 1] = e
  PROVE  q = Append(p, e)
<1>1. /\ Append(p, e) \in Seq(S) /\ Len(Append(p, e)) = Len(p) + 1 /\ Len(p) \in Nat
      /\ \A k \in 1..Len(p) : Append(p, e)[k] = p[k]
      /\ Append(p, e)[Len(p) + 1] = e
  OBVIOUS
<1>2. \A k \in 1..Len(q) : q[k] = Append(p, e)[k]
  BY <1>1
<1> QED BY <1>1, <1>2, SeqEqual

(* A next line is fed to the paper, whether the screen scrolls or not.     *)
LEMMA Feeding ==
  ASSUME NEW t, Sound(t), NEW f,
         f = scroll(MoveTo(t, 0, t.cursor_y + 1))
  PROVE  Sound(f) /\ f.cursor_x = 0 /\ PaperOf(f) = Paper!Fed(PaperOf(t))
<1>0. /\ t \in Screens /\ BlankBelow(t)
      /\ MONITOR_WIDTH \in Nat \ {0} /\ MONITOR_HEIGTH \in Nat \ {0}
  BY MonitorAssumption DEF Sound
<1>1. /\ t.cursor_y \in 0..(MONITOR_HEIGTH - 1)
      /\ PaperOf(t) \in Seq(Rows) /\ Len(PaperOf(t)) = t.cursor_y + 1
      /\ \A r \in 1..(t.cursor_y + 1) : PaperOf(t)[r] = RowOf(t, r - 1)
      /\ t.video_memory \in [Locations -> Printable]
  BY <1>0, PaperIsSeq
<1>2. CASE t.cursor_y + 1 < MONITOR_HEIGTH
  <2>1. f = MoveTo(t, 0, t.cursor_y + 1)
    BY <1>0, <1>1, <1>2 DEF scroll, MoveTo, Drawn
  <2>2. /\ f \in Screens /\ f.cursor_x = 0 /\ f.cursor_y = t.cursor_y + 1
        /\ f.video_memory = t.video_memory
    BY <1>0, <1>1, <1>2, <2>1 DEF Screens, MoveTo, Drawn
  <2>3. \A y : RowOf(f, y) = RowOf(t, y)
    BY <2>2 DEF RowOf
  <2>4. BlankBelow(f)
    BY <1>0, <1>1, <2>2, <2>3 DEF BlankBelow
  <2>5. RowOf(t, t.cursor_y + 1) = Paper!BlankLine
    BY <1>0, <1>1, <1>2 DEF BlankBelow
  <2>6. PaperOf(f) = Append(PaperOf(t), Paper!BlankLine)
    <3>1. /\ PaperOf(f) \in Seq(Rows) /\ Len(PaperOf(f)) = t.cursor_y + 2
          /\ \A r \in 1..(t.cursor_y + 2) : PaperOf(f)[r] = RowOf(t, r - 1)
      BY <1>1, <2>2, <2>3, PaperIsSeq
    <3>2. Paper!BlankLine \in Rows
      BY <2>5, <1>0, <1>1, <1>2, PaperIsSeq
    <3>3. \A r \in 1..(t.cursor_y + 1) : PaperOf(f)[r] = PaperOf(t)[r]
      BY <1>1, <3>1
    <3>4. PaperOf(f)[t.cursor_y + 2] = Paper!BlankLine
      BY <1>1, <2>5, <3>1
    <3> QED BY <1>1, <3>1, <3>2, <3>3, <3>4, AppendIs
  <2>7. Paper!Fed(PaperOf(t)) = Append(PaperOf(t), Paper!BlankLine)
    BY <1>1, <1>2 DEF Paper!Fed, Paper!BlankLine
  <2> QED BY <2>2, <2>4, <2>6, <2>7 DEF Sound
<1>3. CASE t.cursor_y + 1 = MONITOR_HEIGTH
  <2>1. f = Drawn([l \in Locations |-> MovedUp(l, t.video_memory)], 0, MONITOR_HEIGTH - 1)
    BY <1>0, <1>1, <1>3 DEF scroll, MoveTo, Drawn
  <2>2. /\ f.cursor_x = 0 /\ f.cursor_y = MONITOR_HEIGTH - 1
        /\ f.video_memory = [l \in Locations |-> MovedUp(l, t.video_memory)]
    BY <2>1 DEF Drawn
  <2>3. /\ f.video_memory \in [Locations -> Printable]
        /\ \A y \in 0..(MONITOR_HEIGTH - 2) : RowOf(f, y) = RowOf(t, y + 1)
        /\ RowOf(f, MONITOR_HEIGTH - 1) = Paper!BlankLine
    BY <1>0, <2>2, MovedRows
  <2>4. f \in Screens
    BY <1>0, <2>1, <2>2, <2>3 DEF Screens, Drawn
  <2>5. BlankBelow(f)
    BY <1>0, <2>2 DEF BlankBelow
  <2>6. PaperOf(f) = Append(Tail(PaperOf(t)), Paper!BlankLine)
    <3>1. /\ PaperOf(f) \in Seq(Rows) /\ Len(PaperOf(f)) = MONITOR_HEIGTH
          /\ \A r \in 1..MONITOR_HEIGTH : PaperOf(f)[r] = RowOf(f, r - 1)
      <4>1. f.cursor_y + 1 = MONITOR_HEIGTH
        BY <1>0, <2>2
      <4> QED BY <2>4, <4>1, PaperIsSeq
    <3>2. Paper!BlankLine \in Rows
      BY <1>0, <2>3, <2>4, PaperIsSeq
    <3>3. /\ Tail(PaperOf(t)) \in Seq(Rows) /\ Len(Tail(PaperOf(t))) = MONITOR_HEIGTH - 1
          /\ \A r \in 1..(MONITOR_HEIGTH - 1) : Tail(PaperOf(t))[r] = RowOf(t, r)
      <4>1. PaperOf(t) # <<>>
        BY <1>0, <1>1
      <4>2. /\ Tail(PaperOf(t)) \in Seq(Rows)
            /\ Len(Tail(PaperOf(t))) = Len(PaperOf(t)) - 1
            /\ \A r \in 1..(Len(PaperOf(t)) - 1) : Tail(PaperOf(t))[r] = PaperOf(t)[r + 1]
        BY <1>1, <4>1
      <4>3. \A r \in 1..(MONITOR_HEIGTH - 1) : r + 1 \in 1..(t.cursor_y + 1) /\ r + 1 - 1 = r
        BY <1>0, <1>3
      <4> QED BY <1>0, <1>1, <1>3, <4>2, <4>3
    <3>4. \A r \in 1..(MONITOR_HEIGTH - 1) : RowOf(f, r - 1) = RowOf(t, r)
      BY <1>0, <2>3
    <3>5. \A r \in 1..(MONITOR_HEIGTH - 1) : PaperOf(f)[r] = Tail(PaperOf(t))[r]
      BY <1>0, <3>1, <3>3, <3>4
    <3>6. PaperOf(f)[MONITOR_HEIGTH] = Paper!BlankLine
      BY <1>0, <2>3, <3>1
    <3>7. Len(Tail(PaperOf(t))) + 1 = MONITOR_HEIGTH
      BY <1>0, <3>3
    <3> QED BY <3>1, <3>2, <3>3, <3>5, <3>6, <3>7, AppendIs
  <2>7. Paper!Fed(PaperOf(t)) = Append(Tail(PaperOf(t)), Paper!BlankLine)
    BY <1>0, <1>1, <1>3 DEF Paper!Fed, Paper!BlankLine
  <2> QED BY <2>2, <2>4, <2>5, <2>6, <2>7 DEF Sound
<1> QED BY <1>0, <1>1, <1>2, <1>3

(* Where the head goes after a character that only moves it: along the     *)
(* line, or to a next line at the edge.                                    *)
LEMMA Advancing ==
  ASSUME NEW t, Sound(t), NEW x \in Nat, NEW f,
         f = scroll(Wrapped(MoveTo(t, x, t.cursor_y)))
  PROVE  /\ Sound(f)
         /\ \/ x < MONITOR_WIDTH /\ PaperOf(f) = PaperOf(t) /\ f.cursor_x = x
            \/ x >= MONITOR_WIDTH /\ PaperOf(f) = Paper!Fed(PaperOf(t)) /\ f.cursor_x = 0
<1>0. /\ t \in Screens /\ BlankBelow(t)
      /\ MONITOR_WIDTH \in Nat \ {0} /\ MONITOR_HEIGTH \in Nat \ {0}
      /\ t.cursor_y \in 0..(MONITOR_HEIGTH - 1)
  <2>1. t \in Screens /\ BlankBelow(t)
    BY DEF Sound
  <2> QED BY <2>1, MonitorAssumption, PaperIsSeq
<1>1. CASE x < MONITOR_WIDTH
  <2>1. f = MoveTo(t, x, t.cursor_y)
    BY <1>0, <1>1 DEF scroll, Wrapped, MoveTo, Drawn
  <2>2. /\ f \in Screens /\ f.cursor_x = x /\ f.cursor_y = t.cursor_y
        /\ f.video_memory = t.video_memory
    BY <1>0, <1>1, <2>1 DEF Screens, MoveTo, Drawn
  <2>3. BlankBelow(f) /\ PaperOf(f) = PaperOf(t)
    BY <1>0, <2>2 DEF BlankBelow, PaperOf, RowOf
  <2> QED BY <1>1, <2>2, <2>3 DEF Sound
<1>2. CASE x >= MONITOR_WIDTH
  <2>1. f = scroll(MoveTo(t, 0, t.cursor_y + 1))
    BY <1>0, <1>2 DEF Wrapped, MoveTo, Drawn
  <2> QED BY <1>2, <2>1, Feeding
<1> QED BY <1>0, <1>1, <1>2

(* A character on the paper: one cell of the lowest line.                  *)
LEMMA Writing ==
  ASSUME NEW t, Sound(t), NEW c \in Printable, NEW w,
         w = Drawn(Written(t, c), t.cursor_x, t.cursor_y)
  PROVE  /\ Sound(w)
         /\ PaperOf(w) = [PaperOf(t) EXCEPT
              ![Len(PaperOf(t))] = [@ EXCEPT ![t.cursor_x] = c]]
<1>0. /\ t \in Screens /\ BlankBelow(t)
      /\ MONITOR_WIDTH \in Nat \ {0} /\ MONITOR_HEIGTH \in Nat \ {0}
  BY MonitorAssumption DEF Sound
<1>1. /\ t.cursor_y \in 0..(MONITOR_HEIGTH - 1) /\ t.cursor_x \in 0..(MONITOR_WIDTH - 1)
      /\ PaperOf(t) \in Seq(Rows) /\ Len(PaperOf(t)) = t.cursor_y + 1
      /\ \A r \in 1..(t.cursor_y + 1) : PaperOf(t)[r] = RowOf(t, r - 1)
      /\ t.video_memory \in [Locations -> Printable]
  BY <1>0, PaperIsSeq
<1> DEFINE here == t.cursor_y * MONITOR_WIDTH + t.cursor_x
<1>2. /\ w.cursor_x = t.cursor_x /\ w.cursor_y = t.cursor_y
      /\ w.video_memory = [t.video_memory EXCEPT ![here] = c]
  BY DEF Drawn, Written
<1>3. w \in Screens
  <2>1. [t.video_memory EXCEPT ![here] = c] \in [Locations -> Printable]
    BY <1>1
  <2> HIDE DEF here
  <2> QED BY <1>1, <1>2, <2>1 DEF Screens, Drawn, Written
<1>4. ASSUME NEW y \in 0..(MONITOR_HEIGTH - 1), y # t.cursor_y
      PROVE  RowOf(w, y) = RowOf(t, y)
  <2>1. ASSUME NEW x \in 0..(MONITOR_WIDTH - 1)
        PROVE  w.video_memory[y * MONITOR_WIDTH + x] = t.video_memory[y * MONITOR_WIDTH + x]
    <3>1. y * MONITOR_WIDTH + x # here
      <4> SUFFICES ASSUME y * MONITOR_WIDTH + x = t.cursor_y * MONITOR_WIDTH + t.cursor_x
                   PROVE  FALSE
        OBVIOUS
      <4>1. MONITOR_WIDTH \in Nat /\ y \in Nat /\ t.cursor_y \in Nat
        BY <1>0, <1>1
      <4>2. t.cursor_x \in 0..(MONITOR_WIDTH - 1)
        BY <1>1
      <4>3. y = t.cursor_y
        BY <4>1, <4>2, CellsApart, Zenon
      <4> QED BY <4>3, <1>4
    <3>2. y * MONITOR_WIDTH + x \in Locations
      BY CellIsLocation
    <3> HIDE DEF here
    <3> QED BY <3>1, <3>2, <1>1, <1>2
  <2> QED BY <2>1 DEF RowOf
<1>5. RowOf(w, t.cursor_y) = [RowOf(t, t.cursor_y) EXCEPT ![t.cursor_x] = c]
  <2>1. ASSUME NEW x \in 0..(MONITOR_WIDTH - 1)
        PROVE  w.video_memory[t.cursor_y * MONITOR_WIDTH + x]
                 = IF x = t.cursor_x THEN c ELSE t.video_memory[t.cursor_y * MONITOR_WIDTH + x]
    <3>1. t.cursor_y * MONITOR_WIDTH + x \in Locations
      BY <1>1, CellIsLocation
    <3>2. CASE x = t.cursor_x
      BY <1>1, <1>2, <3>1, <3>2
    <3>3. CASE x # t.cursor_x
      <4>1. t.cursor_y * MONITOR_WIDTH + x # here
        <5>1. t.cursor_y * MONITOR_WIDTH \in Nat
          BY <1>0, <1>1
        <5>2. x \in Int /\ t.cursor_x \in Int
          BY <1>0, <1>1
        <5> QED BY <5>1, <5>2, <3>3
      <4>2. t.video_memory \in [Locations -> Printable]
        BY <1>1
      <4> HIDE DEF here
      <4>3. w.video_memory[t.cursor_y * MONITOR_WIDTH + x]
              = t.video_memory[t.cursor_y * MONITOR_WIDTH + x]
        BY <1>2, <3>1, <4>1, <4>2, Zenon
      <4> QED BY <3>3, <4>3
    <3> QED BY <3>2, <3>3
  <2> QED BY <2>1 DEF RowOf
<1>6. BlankBelow(w)
  <2> SUFFICES ASSUME NEW y \in (t.cursor_y + 1)..(MONITOR_HEIGTH - 1)
               PROVE  RowOf(w, y) = Paper!BlankLine
    BY <1>2 DEF BlankBelow
  <2>1. y \in 0..(MONITOR_HEIGTH - 1) /\ y # t.cursor_y
    BY <1>0, <1>1
  <2> QED BY <2>1, <1>0, <1>4 DEF BlankBelow
<1>7. PaperOf(w) = [PaperOf(t) EXCEPT ![Len(PaperOf(t))] = [@ EXCEPT ![t.cursor_x] = c]]
  <2>1. ASSUME NEW r \in 1..(t.cursor_y + 1)
        PROVE  RowOf(w, r - 1) = IF r = t.cursor_y + 1
                                 THEN [RowOf(t, r - 1) EXCEPT ![t.cursor_x] = c]
                                 ELSE RowOf(t, r - 1)
    <3>1. CASE r = t.cursor_y + 1
      <4>1. r - 1 = t.cursor_y
        BY <1>1, <3>1
      <4> QED BY <3>1, <4>1, <1>5
    <3>2. CASE r # t.cursor_y + 1
      <4>1. r - 1 \in 0..(MONITOR_HEIGTH - 1) /\ r - 1 # t.cursor_y
        BY <1>0, <1>1, <3>2
      <4> QED BY <3>2, <4>1, <1>4
    <3> QED BY <3>1, <3>2
  <2>2. PaperOf(w) = [r \in 1..(t.cursor_y + 1) |-> RowOf(w, r - 1)]
    BY <1>2 DEF PaperOf
  <2>3. PaperOf(t) = [r \in 1..(t.cursor_y + 1) |-> RowOf(t, r - 1)]
    BY DEF PaperOf
  <2>4. t.cursor_y + 1 \in 1..(t.cursor_y + 1)
    BY <1>0, <1>1
  <2> DEFINE L == t.cursor_y + 1
  <2>5. [PaperOf(t) EXCEPT ![L] = [@ EXCEPT ![t.cursor_x] = c]]
          = [r \in 1..L |-> IF r = L THEN [RowOf(t, r - 1) EXCEPT ![t.cursor_x] = c]
                            ELSE RowOf(t, r - 1)]
    BY <2>3, <2>4
  <2> QED BY <2>1, <2>2, <2>5, <1>1
<1> QED BY <1>3, <1>6, <1>7 DEF Sound

-----------------------------------------------------------------------------
\* A step of the teletype, from paper p with the head at x to q and z.
Reaches(roll, to, q, z) ==
  \/ to < MONITOR_WIDTH /\ q = roll /\ z = to
  \/ to >= MONITOR_WIDTH /\ q = Paper!Fed(roll) /\ z = 0

Types(p, x, q, z) ==
  \/ q = p /\ z = x
  \/ \E c \in Printable :
       Reaches([p EXCEPT ![Len(p)] = [@ EXCEPT ![x] = c]], x + 1, q, z)
  \/ Reaches(p, x + 4 - (x % 4), q, z)
  \/ x > 0 /\ z = x - 1 /\ q = p
  \/ z = 0 /\ q = p
  \/ q = Paper!Fed(p) /\ z = 0

(* monitor_put()'s branches: no character takes two of them.               *)
LEMMA Branches ==
  ASSUME NEW t, NEW c
  PROVE  /\ c = BS /\ t.cursor_x > 0 => Applied(t, c) = MoveTo(t, t.cursor_x - 1, t.cursor_y)
         /\ c = TAB => Applied(t, c) = MoveTo(t, NextStop(t.cursor_x), t.cursor_y)
         /\ c = CR => Applied(t, c) = MoveTo(t, 0, t.cursor_y)
         /\ c = NL => Applied(t, c) = MoveTo(t, 0, t.cursor_y + 1)
         /\ c \in Printable =>
              Applied(t, c) = Drawn(Written(t, c), t.cursor_x + 1, t.cursor_y)
         /\ c \notin {TAB, CR, NL} \cup Printable /\ ~(c = BS /\ t.cursor_x > 0)
              => Applied(t, c) = t
<1>1. /\ BS # TAB /\ BS # CR /\ BS # NL /\ BS # INERT /\ TAB # CR /\ TAB # NL
      /\ TAB # INERT /\ CR # NL /\ CR # INERT /\ NL # INERT
  BY DEF BS, TAB, CR, NL, INERT
<1>2. BS # SPACE /\ TAB # SPACE /\ CR # SPACE /\ NL # SPACE /\ INERT # SPACE
  BY DEF BS, TAB, CR, NL, INERT, SPACE
<1>3. {BS, TAB, CR, NL, INERT} \cap Printable = {}
  BY <1>2, MonitorAssumption DEF Printable
<1> QED BY <1>1, <1>3 DEF Applied

(* Each character keeps the screen sound and is a step of the teletype.    *)
LEMMA Putting ==
  ASSUME NEW t, Sound(t), NEW c, NEW f, f = monitor_put(t, c)
  PROVE  Sound(f) /\ Types(PaperOf(t), t.cursor_x, PaperOf(f), f.cursor_x)
<1> DEFINE x == t.cursor_x
           y == t.cursor_y
<1>0. /\ t \in Screens /\ x \in 0..(MONITOR_WIDTH - 1) /\ y \in 0..(MONITOR_HEIGTH - 1)
      /\ MONITOR_WIDTH \in Nat \ {0} /\ MONITOR_HEIGTH \in Nat \ {0}
  <2>1. t \in Screens
    BY DEF Sound
  <2>2. x \in 0..(MONITOR_WIDTH - 1) /\ y \in 0..(MONITOR_HEIGTH - 1)
    BY <2>1 DEF Screens
  <2> QED BY <2>1, <2>2, MonitorAssumption
<1>1. MoveTo(t, x, y) = t
  BY <1>0 DEF MoveTo, Drawn, Screens
<1>2. ASSUME NEW to \in Nat, f = scroll(Wrapped(MoveTo(t, to, y)))
      PROVE  Sound(f) /\ Reaches(PaperOf(t), to, PaperOf(f), f.cursor_x)
  BY <1>2, Advancing DEF Reaches
<1>3. CASE c = BS /\ x > 0
  <2>1. f = scroll(Wrapped(MoveTo(t, x - 1, y))) /\ x - 1 \in Nat
    BY <1>0, <1>3, Branches DEF monitor_put
  <2> QED BY <1>0, <1>2, <1>3, <2>1 DEF Types, Reaches
<1>4. CASE c = TAB
  <2>1. f = scroll(Wrapped(MoveTo(t, x + 4 - (x % 4), y))) /\ x + 4 - (x % 4) \in Nat
    BY <1>0, <1>4, Branches DEF monitor_put, NextStop
  <2> QED BY <1>2, <2>1 DEF Types
<1>5. CASE c = CR
  <2>1. f = scroll(Wrapped(MoveTo(t, 0, y)))
    BY <1>0, <1>5, Branches DEF monitor_put
  <2> QED BY <1>0, <1>2, <2>1 DEF Types, Reaches
<1>6. CASE c = NL
  <2>1. f = scroll(MoveTo(t, 0, y + 1))
    <3>1. Applied(t, c) = MoveTo(t, 0, y + 1)
      BY <1>6, Branches
    <3> QED BY <1>0, <3>1 DEF monitor_put, Wrapped, MoveTo, Drawn
  <2> QED BY <2>1, Feeding DEF Types
<1>7. CASE c \in Printable
  <2> DEFINE w == Drawn(Written(t, c), x, y)
  <2>1. x + 1 \in Nat
    BY <1>0
  <2>2. Applied(t, c) = MoveTo(w, x + 1, w.cursor_y)
    BY <1>7, Branches DEF MoveTo, Drawn
  <2>3. /\ Sound(w)
        /\ PaperOf(w) = [PaperOf(t) EXCEPT ![Len(PaperOf(t))] = [@ EXCEPT ![x] = c]]
    BY <1>7, Writing
  <2>4. f = scroll(Wrapped(MoveTo(w, x + 1, w.cursor_y)))
    BY <2>2 DEF monitor_put
  <2> HIDE DEF w
  <2>5. Sound(f) /\ Reaches(PaperOf(w), x + 1, PaperOf(f), f.cursor_x)
    BY <2>1, <2>3, <2>4, Advancing DEF Reaches
  <2> QED BY <1>7, <2>3, <2>5 DEF Types
<1>8. CASE c \notin {TAB, CR, NL} \cup Printable /\ ~(c = BS /\ x > 0)
  <2>1. Applied(t, c) = t
    BY <1>8, Branches
  <2>2. f = scroll(Wrapped(MoveTo(t, x, y)))
    BY <1>1, <2>1 DEF monitor_put
  <2> QED BY <1>0, <1>2, <2>2 DEF Types, Reaches
<1> QED BY <1>3, <1>4, <1>5, <1>6, <1>7, <1>8

(* monitor_clear() leaves a sound screen and one blank line.               *)
LEMMA Clearing == Sound(Cleared) /\ PaperOf(Cleared) = <<Paper!BlankLine>>
<1>0. MONITOR_WIDTH \in Nat \ {0} /\ MONITOR_HEIGTH \in Nat \ {0}
  BY MonitorAssumption
<1>1. Cleared \in Screens
  <2>1. [l \in Locations |-> SPACE] \in [Locations -> Printable]
    BY DEF Printable
  <2> QED BY <1>0, <2>1 DEF Cleared, Screens
<1>2. \A y \in 0..(MONITOR_HEIGTH - 1) : RowOf(Cleared, y) = Paper!BlankLine
  BY CellIsLocation DEF Cleared, RowOf, Paper!BlankLine
<1>3. BlankBelow(Cleared)
  BY <1>0, <1>2 DEF BlankBelow, Cleared
<1>4. PaperOf(Cleared) = <<Paper!BlankLine>>
  <2>1. RowOf(Cleared, 0) = Paper!BlankLine
    BY <1>0, <1>2
  <2> QED BY <2>1 DEF PaperOf, Cleared
<1> QED BY <1>1, <1>3, <1>4 DEF Sound

(* On the screen itself: a step of monitor_put() is one of the teletype.   *)
LEMMA Stepping ==
  ASSUME Sound(screen), [MonitorNext]_screen
  PROVE  Sound(screen)' /\ [Paper!Next]_(Paper!tvars)
<1> DEFINE p == [r \in 1..(screen.cursor_y + 1) |-> Row(r - 1)]
           x == screen.cursor_x
<1>1. p = PaperOf(screen) /\ p' = PaperOf(screen')
  BY DEF PaperOf, RowOf, Row
<1>2. CASE UNCHANGED screen
  BY <1>2 DEF Sound, BlankBelow, RowOf, Paper!tvars, Row
<1>3. CASE MonitorNext
  <2>1. PICK c : screen' = monitor_put(screen, c)
    BY <1>3 DEF MonitorNext
  <2>2. Sound(screen') /\ Types(PaperOf(screen), x, PaperOf(screen'), screen'.cursor_x)
    BY <2>1, Putting
  <2>3. Sound(screen)'
    BY <2>2 DEF Sound, BlankBelow, RowOf
  <2>4. Types(p, x, p', x')
    BY <2>2, <1>1
  <2>5. ASSUME NEW roll, NEW to, Reaches(roll, to, p', x')
        PROVE  Paper!Advance(roll, to)
    BY <2>5 DEF Reaches, Paper!Advance
  <2>6. [Paper!Next]_(Paper!tvars)
    <3>1. CASE UNCHANGED <<p, x>>
      BY <3>1 DEF Paper!tvars
    <3>2. CASE \E d \in Printable :
                 Reaches([p EXCEPT ![Len(p)] = [@ EXCEPT ![x] = d]], x + 1, p', x')
      <4>1. PICK d \in Printable :
              Reaches([p EXCEPT ![Len(p)] = [@ EXCEPT ![x] = d]], x + 1, p', x')
        BY <3>2
      <4>2. Paper!Advance([p EXCEPT ![Len(p)] = [@ EXCEPT ![x] = d]], x + 1)
        BY <4>1, <2>5
      <4> QED BY <4>2 DEF Paper!Type, Paper!Next
    <3>3. CASE Reaches(p, x + 4 - (x % 4), p', x')
      <4>1. Paper!Advance(p, x + 4 - (x % 4))
        BY <3>3, <2>5
      <4> QED BY <4>1 DEF Paper!Tab, Paper!Next
    <3>4. CASE x > 0 /\ x' = x - 1 /\ p' = p
      BY <3>4 DEF Paper!Back, Paper!Next
    <3>5. CASE x' = 0 /\ p' = p
      BY <3>5 DEF Paper!Return, Paper!Next
    <3>6. CASE p' = Paper!Fed(p) /\ x' = 0
      BY <3>6 DEF Paper!Feed, Paper!Next
    <3> HIDE DEF p, x
    <3> QED BY <2>4, <3>1, <3>2, <3>3, <3>4, <3>5, <3>6 DEF Types
  <2> QED BY <2>3, <2>6
<1> QED BY <1>2, <1>3

(* main() clears the screen first.                                         *)
LEMMA Starting == MonitorInit => Sound(screen) /\ Paper!Init
<1> SUFFICES ASSUME screen = Cleared PROVE Sound(screen) /\ Paper!Init
  BY DEF MonitorInit
<1>1. [r \in 1..(screen.cursor_y + 1) |-> Row(r - 1)] = PaperOf(screen)
  BY DEF PaperOf, RowOf, Row
<1>2. screen.cursor_x = 0
  BY DEF Cleared
<1> QED BY <1>1, <1>2, Clearing DEF Paper!Init

(* By induction over the characters put.                                   *)
LEMMA AlwaysSound == MonitorSpec => []Sound(screen)
<1>1. MonitorInit => Sound(screen)
  BY Starting
<1>2. Sound(screen) /\ [MonitorNext]_screen => Sound(screen)'
  BY Stepping
<1> QED BY <1>1, <1>2, PTL DEF MonitorSpec

(* Whatever is put on the screen, the cursor stays on it and every store   *)
(* hits a cell of the video memory (monitor_put, scroll).                  *)
THEOREM CursorOnScreen == MonitorSpec => []ScreenOK
<1>1. Sound(screen) => ScreenOK
  BY DEF Sound, ScreenOK
<1> QED BY <1>1, AlwaysSound, PTL

(* A screen of any size shows the last lines of a teletype's paper for any *)
(* characters: wrapping, tabs at the edge and scrolling lose and repeat no *)
(* line (monitor_put, scroll).                                             *)
THEOREM MonitorIsTeletype == MonitorSpec => ImplementsTeletype
<1>1. MonitorInit => Paper!Init
  BY Starting
<1>2. Sound(screen) /\ [MonitorNext]_screen => [Paper!Next]_(Paper!tvars)
  BY Stepping
<1> QED BY <1>1, <1>2, AlwaysSound, PTL DEF MonitorSpec, ImplementsTeletype, Paper!Spec

-----------------------------------------------------------------------------
(* A character that is none of the screen's has no effect.                 *)
LEMMA PutIsStep ==
  ASSUME Sound(screen), NEW c, put(c)
  PROVE  [MonitorNext]_screen
<1>1. CASE c \in Chars
  BY <1>1 DEF put, MonitorNext
<1>2. CASE c \notin Chars
  <2>1. Applied(screen, c) = screen
    BY <1>2, Branches DEF Chars
  <2>2. /\ screen \in Screens /\ screen.cursor_x \in 0..(MONITOR_WIDTH - 1)
        /\ screen.cursor_y \in 0..(MONITOR_HEIGTH - 1)
    BY DEF Sound, Screens
  <2>3. scroll(Wrapped(screen)) = screen
    BY <2>2, MonitorAssumption DEF scroll, Wrapped
  <2> QED BY <2>1, <2>3 DEF put, monitor_put
<1> QED BY <1>1, <1>2

(* Every step of vprintf() puts one character or none.                     *)
LEMMA PrintfPuts ==
  ASSUME Sound(screen), [Next]_vars
  PROVE  [MonitorNext]_screen
<1>1. CASE plain
  <2>1. put(Head(fmt)) \/ \E c \in Chars : put(c)
    BY <1>1 DEF plain
  <2> QED BY <2>1, PutIsStep
<1>2. CASE percent_c
  BY <1>2, PutIsStep DEF percent_c
<1>3. CASE string
  BY <1>3, PutIsStep DEF string
<1>4. CASE dump
  BY <1>4, PutIsStep DEF dump
<1>5. CASE printf \/ return \/ percent_s \/ percent_number \/ digits \/ UNCHANGED vars
  BY <1>5 DEF printf, return, percent_s, percent_number, digits, vars
<1> QED BY <1>1, <1>2, <1>3, <1>4, <1>5 DEF Next

(* Calls of printf(), whatever their formats and arguments, are printed as *)
(* the teletype would print them, character by character (vprintf).        *)
THEOREM PrintfIsTeletype == Spec => ImplementsTeletype
<1>1. Init => Sound(screen) /\ Paper!Init
  BY Starting DEF Init
<1>2. Sound(screen) /\ [Next]_vars => Sound(screen)'
  BY PrintfPuts, Stepping
<1>3. Sound(screen) /\ [Next]_vars => [Paper!Next]_(Paper!tvars)
  BY PrintfPuts, Stepping
<1> QED BY <1>1, <1>2, <1>3, PTL DEF Spec, ImplementsTeletype, Paper!Spec

-----------------------------------------------------------------------------
(***************************************************************************)
(* What is still to be read fits what is still to be taken, so va_arg()    *)
(* always finds an argument of the type that it names.                     *)
(***************************************************************************)

\* What was counted n, after d arguments more.
Less(n, d) == IF n = -1 THEN -1 ELSE n - d

(* What is behind the head of a sequence.                                  *)
LEMMA TailOf ==
  ASSUME NEW S, NEW q \in Seq(S), q # <<>>
  PROVE  /\ Tail(q) \in Seq(S) /\ Len(Tail(q)) = Len(q) - 1 /\ Len(q) \in Nat \ {0}
         /\ \A k \in 1..(Len(q) - 1) : Tail(q)[k] = q[k + 1]
         /\ Head(q) = q[1]
  OBVIOUS

(* The same for arguments of several types, a sequence of what it holds.   *)
LEMMA TailOfOwn ==
  ASSUME NEW a, a \in Seq({a[k] : k \in DOMAIN a}), a # <<>>
  PROVE  /\ Tail(a) \in Seq({Tail(a)[k] : k \in DOMAIN Tail(a)})
         /\ Len(Tail(a)) = Len(a) - 1 /\ Len(a) \in Nat \ {0}
         /\ \A k \in 1..(Len(a) - 1) : Tail(a)[k] = a[k + 1]
         /\ Head(a) = a[1]
<1> DEFINE t == Tail(a)
           S == {a[k] : k \in DOMAIN a}
<1>1. /\ t \in Seq(S) /\ Len(t) = Len(a) - 1 /\ Len(a) \in Nat \ {0}
      /\ \A k \in 1..(Len(a) - 1) : t[k] = a[k + 1]
      /\ Head(a) = a[1]
  <2> HIDE DEF S
  <2> QED BY TailOf DEF S
<1>2. t = [k \in 1..Len(t) |-> t[k]] /\ DOMAIN t = 1..Len(t) /\ Len(t) \in Nat
  <2> HIDE DEF t, S
  <2> QED BY <1>1
<1>3. t \in Seq({t[k] : k \in DOMAIN t})
  <2> HIDE DEF t, S
  <2>1. \A k \in 1..Len(t) : t[k] \in {t[j] : j \in DOMAIN t}
    BY <1>2
  <2>2. [k \in 1..Len(t) |-> t[k]] \in Seq({t[j] : j \in DOMAIN t})
    BY <1>2, <2>1
  <2> QED BY <1>2, <2>2
<1> QED BY <1>1, <1>3

(* An ordinary character is read.                                          *)
LEMMA FitsCharacter ==
  ASSUME NEW f, NEW a, Fits(f, a), f # <<>>, Head(f) # "%"
  PROVE  Fits(Tail(f), a)
<1>1. PICK n \in [1..(Len(f) + 1) -> -1..Len(a)] : Counts(n, f, a)
  BY DEF Fits
<1>2. /\ Tail(f) \in Seq(Chars \cup Conversions \cup {"%"})
      /\ Len(Tail(f)) = Len(f) - 1 /\ Len(f) \in Nat \ {0} /\ Head(f) = f[1]
      /\ \A k \in 1..(Len(f) - 1) : Tail(f)[k] = f[k + 1]
  BY TailOf DEF Fits
<1>3. a \in Seq({a[k] : k \in DOMAIN a}) /\ Len(a) \in Nat
  BY DEF Fits
<1> DEFINE g == Tail(f)
           m == [i \in 1..Len(f) |-> n[i + 1]]
<1>4. /\ m \in [1..(Len(g) + 1) -> -1..Len(a)]
      /\ \A i \in 1..Len(f) : m[i] = n[i + 1]
  <2>1. \A i \in 1..Len(f) : n[i + 1] \in -1..Len(a)
    BY <1>1, <1>2
  <2> QED BY <1>2, <1>3, <2>1
<1>5. Counts(m, g, a)
  <2> HIDE DEF m
  <2>1. n[2] = 0
    BY <1>1, <1>2 DEF Counts
  <2>2. m[1] = 0
    BY <1>2, <1>4, <2>1
  <2>3. ASSUME NEW i \in 1..Len(g), m[i] # -1
        PROVE  IF g[i] # "%" THEN m[i + 1] = m[i]
               ELSE /\ i < Len(g)
                    /\ IF g[i + 1] \in Conversions
                       THEN /\ m[i] < Len(a) /\ m[i + 2] = m[i] + 1
                            /\ a[m[i] + 1] \in Argument(g[i + 1])
                       ELSE m[i + 2] = m[i]
    <3>1. /\ i + 1 \in 1..Len(f) /\ i \in 1..(Len(f) - 1) /\ i \in 1..Len(f)
          /\ g[i] = f[i + 1] /\ m[i] = n[i + 1] /\ m[i + 1] = n[(i + 1) + 1]
      BY <1>2, <1>4
    <3>2. IF f[i + 1] # "%" THEN n[(i + 1) + 1] = n[i + 1]
          ELSE /\ i + 1 < Len(f)
               /\ IF f[(i + 1) + 1] \in Conversions
                  THEN /\ n[i + 1] < Len(a) /\ n[(i + 1) + 2] = n[i + 1] + 1
                       /\ a[n[i + 1] + 1] \in Argument(f[(i + 1) + 1])
                  ELSE n[(i + 1) + 2] = n[i + 1]
      BY <1>1, <2>3, <3>1 DEF Counts
    <3>3. i + 1 < Len(f) => /\ i < Len(g) /\ g[i + 1] = f[(i + 1) + 1]
                            /\ m[i + 2] = n[(i + 1) + 2]
      BY <1>2, <1>4
    <3> QED BY <3>1, <3>2, <3>3
  <2> QED BY <2>2, <2>3 DEF Counts
<1> HIDE DEF m, g
<1>6. Fits(g, a)
  BY <1>2, <1>3, <1>4, <1>5 DEF Fits, g
<1> QED BY <1>6 DEF g

(* A conversion is read, and its argument taken if it has one.             *)
LEMMA FitsConversion ==
  ASSUME NEW f, NEW a, Fits(f, a), f # <<>>, Head(f) = "%"
  PROVE  IF f[2] \in Conversions
         THEN a # <<>> /\ Head(a) \in Argument(f[2]) /\ Fits(Tail(Tail(f)), Tail(a))
         ELSE Fits(Tail(Tail(f)), a)
<1>1. PICK n \in [1..(Len(f) + 1) -> -1..Len(a)] : Counts(n, f, a)
  BY DEF Fits
<1>2. /\ Tail(f) \in Seq(Chars \cup Conversions \cup {"%"})
      /\ Len(Tail(f)) = Len(f) - 1 /\ Len(f) \in Nat \ {0} /\ Head(f) = f[1]
      /\ \A k \in 1..(Len(f) - 1) : Tail(f)[k] = f[k + 1]
  BY TailOf DEF Fits
<1>3. a \in Seq({a[k] : k \in DOMAIN a}) /\ Len(a) \in Nat
  BY DEF Fits
<1>4. /\ n[1] = 0 /\ 1 < Len(f)
      /\ IF f[2] \in Conversions
         THEN 0 < Len(a) /\ n[3] = 1 /\ a[1] \in Argument(f[2])
         ELSE n[3] = 0
  BY <1>1, <1>2 DEF Counts
<1> DEFINE g == Tail(Tail(f))
<1>5. /\ g \in Seq(Chars \cup Conversions \cup {"%"})
      /\ Len(g) = Len(f) - 2 /\ Len(g) \in Nat
      /\ \A k \in 1..(Len(f) - 2) : g[k] = f[k + 2]
  <2>1. Tail(f) # <<>>
    BY <1>2, <1>4
  <2>2. /\ g \in Seq(Chars \cup Conversions \cup {"%"})
        /\ Len(g) = Len(Tail(f)) - 1
        /\ \A k \in 1..(Len(Tail(f)) - 1) : g[k] = Tail(f)[k + 1]
    BY <1>2, <2>1, TailOf
  <2>3. \A k \in 1..(Len(f) - 2) : Tail(f)[k + 1] = f[k + 2]
    BY <1>2
  <2> QED BY <1>2, <1>4, <2>2, <2>3
<1> HIDE DEF g
<1>6. ASSUME NEW b, NEW d \in {0, 1}, d <= Len(a), n[3] = d,
             b \in Seq({b[k] : k \in DOMAIN b}), Len(b) = Len(a) - d,
             \A k \in 1..(Len(a) - d) : b[k] = a[k + d]
      PROVE  Fits(g, b)
  <2> DEFINE m == [i \in 1..(Len(f) - 1) |-> Less(n[i + 2], d)]
  <2>0. Len(g) + 1 = Len(f) - 1 /\ d \in Nat /\ Len(b) \in Int
    BY <1>2, <1>3, <1>5, <1>6
  <2>1. ASSUME NEW i \in 1..(Len(f) - 1)
        PROVE  n[i + 2] \in -1..Len(a) /\ m[i] = Less(n[i + 2], d)
    BY <1>1, <1>2
  <2>2. m \in [1..(Len(g) + 1) -> -1..Len(b)]
    <3>1. \A i \in 1..(Len(f) - 1) : Less(n[i + 2], d) \in -1..Len(b)
      <4> SUFFICES ASSUME NEW i \in 1..(Len(f) - 1) PROVE Less(n[i + 2], d) \in -1..Len(b)
        OBVIOUS
      <4>1. n[i + 2] \in -1..Len(a)
        BY <2>1
      <4> QED BY <4>1, <1>3, <1>6 DEF Less
    <3> QED BY <2>0, <3>1
  <2> HIDE DEF m
  <2>3. m[1] = 0
    <3>1. 1 \in 1..(Len(f) - 1) /\ 1 + 2 = 3
      BY <1>2, <1>4
    <3>2. m[1] = Less(n[3], d)
      BY <2>1, <3>1
    <3> QED BY <3>2, <1>6 DEF Less
  <2>4. ASSUME NEW i \in 1..Len(g), m[i] # -1
        PROVE  IF g[i] # "%" THEN m[i + 1] = m[i]
               ELSE /\ i < Len(g)
                    /\ IF g[i + 1] \in Conversions
                       THEN /\ m[i] < Len(b) /\ m[i + 2] = m[i] + 1
                            /\ b[m[i] + 1] \in Argument(g[i + 1])
                       ELSE m[i + 2] = m[i]
    <3>1. /\ i + 2 \in 1..Len(f) /\ i \in 1..(Len(f) - 2) /\ i \in 1..(Len(f) - 1)
          /\ i + 1 \in 1..(Len(f) - 1) /\ i \in Nat /\ g[i] = f[i + 2]
      BY <1>2, <1>4, <1>5
    <3>2. n[i + 2] # -1 /\ m[i] = n[i + 2] - d /\ m[i] \in Nat /\ n[i + 2] \in Nat
      <4>1. m[i] = Less(n[i + 2], d)
        BY <2>1, <3>1
      <4>2. n[i + 2] # -1 /\ m[i] = n[i + 2] - d
        BY <2>4, <4>1 DEF Less
      <4>3. i \in 1..(Len(g) + 1)
        BY <1>5
      <4>4. m[i] \in -1..Len(b) /\ n[i + 2] \in -1..Len(a)
        BY <2>1, <2>2, <3>1, <4>3
      <4> QED BY <4>2, <4>4, <2>4, <2>0
    <3>0. \A j \in 1..(Len(f) - 1) : n[j + 2] \in Nat => m[j] = n[j + 2] - d
      BY <2>1 DEF Less
    <3>3. IF f[i + 2] # "%" THEN n[(i + 2) + 1] = n[i + 2]
          ELSE /\ i + 2 < Len(f)
               /\ IF f[(i + 2) + 1] \in Conversions
                  THEN /\ n[i + 2] < Len(a) /\ n[(i + 2) + 2] = n[i + 2] + 1
                       /\ a[n[i + 2] + 1] \in Argument(f[(i + 2) + 1])
                  ELSE n[(i + 2) + 2] = n[i + 2]
      BY <1>1, <3>1, <3>2 DEF Counts
    <3>4. CASE g[i] # "%"
      <4>1. n[(i + 1) + 2] = n[i + 2]
        BY <3>1, <3>3, <3>4
      <4>2. m[i + 1] = n[(i + 1) + 2] - d
        BY <4>1, <3>1, <3>2, <3>0
      <4> QED BY <3>2, <3>4, <4>1, <4>2
    <3>5. CASE g[i] = "%"
      <4>1. i + 2 < Len(f)
        BY <3>1, <3>3, <3>5
      <4>2. /\ i < Len(g) /\ i + 2 \in 1..(Len(f) - 1) /\ g[i + 1] = f[(i + 2) + 1]
        BY <4>1, <1>2, <1>5, <3>1
      <4>3. CASE g[i + 1] \in Conversions
        <5>1. /\ n[i + 2] < Len(a) /\ n[(i + 2) + 2] = n[i + 2] + 1
              /\ a[n[i + 2] + 1] \in Argument(g[i + 1])
          BY <3>1, <3>3, <3>5, <4>2, <4>3
        <5>2. PICK z \in Nat : z = n[i + 2]
          BY <3>2
        <5>3. PICK l \in Nat : l = Len(a)
          BY <1>3
        <5>4. m[i] = z - d /\ z - d \in Nat /\ z < l
          BY <3>2, <5>1, <5>2, <5>3
        <5>5. m[i + 2] = m[i] + 1
          <6>1. n[(i + 2) + 2] = z + 1 /\ z + 1 \in Nat
            BY <5>1, <5>2
          <6>2. m[i + 2] = (z + 1) - d
            BY <6>1, <4>2, <3>0
          <6> QED BY <6>2, <5>4, <2>0
        <5>6. m[i] < Len(b)
          BY <5>3, <5>4, <2>0, <1>6
        <5>7. b[m[i] + 1] \in Argument(g[i + 1])
          <6>1. (z - d) + 1 \in 1..(l - d) /\ ((z - d) + 1) + d = z + 1
            BY <5>4, <2>0
          <6>2. \A k \in 1..(l - d) : b[k] = a[k + d]
            BY <1>6, <5>3
          <6>3. b[(z - d) + 1] = a[z + 1]
            BY <6>1, <6>2
          <6> QED BY <5>1, <5>2, <5>4, <6>3
        <5> QED BY <3>5, <4>2, <4>3, <5>5, <5>6, <5>7, Zenon
      <4>4. CASE g[i + 1] \notin Conversions
        <5>1. n[(i + 2) + 2] = n[i + 2]
          BY <3>1, <3>3, <3>5, <4>2, <4>4
        <5>2. m[i + 2] = n[(i + 2) + 2] - d
          BY <5>1, <3>2, <3>0, <4>2
        <5> QED BY <5>1, <5>2, <3>2, <3>5, <4>2, <4>4
      <4> QED BY <4>3, <4>4
    <3> QED BY <3>4, <3>5
  <2>5. Counts(m, g, b)
    BY <2>3, <2>4 DEF Counts
  <2> QED BY <1>5, <1>6, <2>2, <2>5 DEF Fits
<1>7. CASE f[2] \in Conversions
  <2>1. a # <<>>
    BY <1>3, <1>4, <1>7
  <2>2. /\ Tail(a) \in Seq({Tail(a)[k] : k \in DOMAIN Tail(a)})
        /\ Len(Tail(a)) = Len(a) - 1 /\ Head(a) = a[1]
        /\ \A k \in 1..(Len(a) - 1) : Tail(a)[k] = a[k + 1]
    BY <1>3, <2>1, TailOfOwn
  <2>3. Fits(g, Tail(a))
    <3>1. 1 \in {0, 1} /\ 1 <= Len(a) /\ n[3] = 1
      BY <1>3, <1>4, <1>7
    <3> QED BY <1>6, <2>2, <3>1
  <2> QED BY <1>4, <1>7, <2>1, <2>2, <2>3 DEF g
<1>8. CASE f[2] \notin Conversions
  <2>1. Fits(g, a)
    BY <1>3, <1>4, <1>6, <1>8
  <2> QED BY <1>8, <2>1 DEF g
<1> QED BY <1>7, <1>8

-----------------------------------------------------------------------------
\* TypeOK without the screen, which is Sound's.
Fields ==
  /\ calls \in 0..MaxCalls
  /\ pc \in {"idle", "format", "string", "digits", "dump", "overrun"}
  /\ s \in Seq(Chars) /\ u \in Words
  /\ buf \in Seq(Glyphs) /\ Len(buf) <= BUF /\ shown \in Seq(Glyphs)
  /\ number \in [conv : {"d", "u", "x"}, arg : Words]

PInv == Sound(screen) /\ Fields /\ Fits(fmt, ap)

(* What "%s" and numbers take.                                             *)
LEMMA ArgumentIs ==
  /\ Argument("s") = Seq(Chars)
  /\ \A c \in {"d", "u", "x"} : Argument(c) = Words
  BY DEF Argument

(* An int and its magnitude are words, the lowest one's too.               *)
LEMMA MagnitudeIsWord ==
  ASSUME NEW w \in Words
  PROVE  int(w) \in Int /\ Magnitude(w) \in Words
<1>1. PICK P \in Nat \ {0} : P = 2^BITS
  BY PrintfAssumption
<1>2. 2^(BITS - 1) \in Nat /\ Words = 0..(P - 1)
  BY <1>1, PrintfAssumption DEF Words
<1>3. int(w) \in Int
  BY <1>1, <1>2 DEF int
<1>4. (-int(w)) % P \in 0..(P - 1)
  BY <1>3
<1> QED BY <1>1, <1>2, <1>3, <1>4 DEF Magnitude

(* What is divided gets smaller, and each remainder has its digit.         *)
LEMMA Divided ==
  ASSUME NEW w \in Words, NEW c \in {"d", "u", "x"}
  PROVE  /\ w \in Nat /\ w \div Radix(c) \in Words /\ Radix(c) \in {10, 16}
         /\ hex[(w % Radix(c)) + 1] \in Glyphs
<1>1. PICK P \in Nat \ {0} : P = 2^BITS
  BY PrintfAssumption
<1>2. w \in 0..(P - 1) /\ Words = 0..(P - 1)
  BY <1>1 DEF Words
<1>3. \A d \in 1..16 : hex[d] \in Glyphs
  BY PrintfAssumption
<1>4. CASE c = "x"
  <2>1. Radix(c) = 16
    BY <1>4 DEF Radix
  <2>2. w \in Nat /\ w <= P - 1
    BY <1>2
  <2>3. w \div 16 \in 0..(P - 1)
    BY <2>2
  <2>4. (w % 16) + 1 \in 1..16
    BY <2>2
  <2> QED BY <1>2, <1>3, <2>1, <2>2, <2>3, <2>4
<1>5. CASE c # "x"
  <2>1. Radix(c) = 10
    BY <1>5 DEF Radix
  <2>2. w \in Nat /\ w <= P - 1
    BY <1>2
  <2>3. w \div 10 \in 0..(P - 1)
    BY <2>2
  <2>4. (w % 10) + 1 \in 1..16
    BY <2>2
  <2> QED BY <1>2, <1>3, <2>1, <2>2, <2>3, <2>4
<1> QED BY <1>4, <1>5

(* The last element and what is before it.                                 *)
LEMMA LastOf ==
  ASSUME NEW S, NEW q \in Seq(S), q # <<>>
  PROVE  Last(q) \in S /\ Front(q) \in Seq(S) /\ Len(Front(q)) = Len(q) - 1
<1>1. Len(q) \in Nat \ {0} /\ q[Len(q)] \in S
  BY EmptySeq, LenProperties
<1>2. PICK n \in Nat : n = Len(q) - 1
  BY <1>1
<1>3. \A i \in 1..n : q[i] \in S
  BY <1>1, <1>2, LenProperties
<1>4. /\ SubSeq(q, 1, n) \in Seq(S)
      /\ Len(SubSeq(q, 1, n)) = IF 1 <= n THEN n - 1 + 1 ELSE 0
  BY <1>3, SubSeqProperties
<1>5. (IF 1 <= n THEN n - 1 + 1 ELSE 0) = n
  OBVIOUS
<1> QED BY <1>1, <1>2, <1>4, <1>5 DEF Last, Front

(* Before the first call there is nothing to read.                         *)
LEMMA InitFields == Init => Fields /\ Fits(fmt, ap)
<1> SUFFICES ASSUME Init PROVE Fields /\ Fits(fmt, ap)
  OBVIOUS
<1>1. 0 \in Words /\ 0 \in 0..MaxCalls /\ BUF \in Nat
  BY PrintfAssumption DEF Words
<1>2. Fields
  BY <1>1 DEF Init, Fields
<1>3. Fits(<<>>, <<>>)
  <2>1. [i \in 1..1 |-> 0] \in [1..(Len(<<>>) + 1) -> -1..Len(<<>>)]
    OBVIOUS
  <2>2. Counts([i \in 1..1 |-> 0], <<>>, <<>>)
    BY DEF Counts
  <2> QED BY <2>1, <2>2 DEF Fits
<1> QED BY <1>2, <1>3 DEF Init

(* A call, its return, and the characters of its format.                   *)
LEMMA FormatStep ==
  ASSUME PInv, printf \/ return \/ plain
  PROVE  Fields' /\ Fits(fmt, ap)'
<1>1. CASE printf
  <2>1. PICK f \in Formats : fmt' = Head(f) /\ ap' = Tail(f)
    BY <1>1 DEF printf
  <2>2. Fits(fmt', ap')
    BY <2>1, PrintfAssumption
  <2>3. Fields'
    BY <1>1, PrintfAssumption DEF printf, PInv, Fields, Words
  <2> QED BY <2>2, <2>3
<1>2. CASE return
  BY <1>2 DEF return, PInv, Fields, Words
<1>3. CASE plain
  <2>1. Fields'
    BY <1>3 DEF plain, Reading, Conversion, PInv, Fields, Words
  <2>2. CASE Reading /\ Head(fmt) # "%" /\ fmt' = Tail(fmt) /\ ap' = ap
    BY <2>1, <2>2, FitsCharacter DEF Reading, PInv
  <2>3. ASSUME NEW c \in Chars \ Conversions, Conversion(c), ap' = ap
        PROVE  Fits(fmt, ap)'
    <3>1. fmt # <<>> /\ Head(fmt) = "%" /\ fmt[2] \notin Conversions
          /\ fmt' = Tail(Tail(fmt))
      BY <2>3 DEF Conversion, Reading, Conversions
    <3> QED BY <2>3, <3>1, FitsConversion DEF PInv
  <2> QED BY <1>3, <2>1, <2>2, <2>3 DEF plain
<1> QED BY <1>1, <1>2, <1>3

(* A conversion takes the argument that is there for it.                   *)
LEMMA Takes ==
  ASSUME PInv, NEW c \in Conversions, Conversion(c)
  PROVE  Head(ap) \in Argument(c) /\ Fits(Tail(Tail(fmt)), Tail(ap))
         /\ fmt' = Tail(Tail(fmt)) /\ pc = "format" /\ calls' = calls
<1>1. /\ fmt # <<>> /\ Head(fmt) = "%" /\ fmt[2] = c
      /\ fmt' = Tail(Tail(fmt)) /\ pc = "format" /\ calls' = calls
  BY DEF Conversion, Reading
<1> QED BY <1>1, FitsConversion DEF PInv

(* What an argument becomes: a character, a string or a number.            *)
LEMMA ConversionStep ==
  ASSUME PInv, percent_c \/ percent_s \/ percent_number
  PROVE  Fields' /\ Fits(fmt, ap)'
<1>1. CASE percent_c
  <2>1. Conversion("c") /\ "c" \in Conversions
    BY <1>1 DEF percent_c, Conversions
  <2>2. Fits(fmt, ap)' /\ calls' = calls
    BY <1>1, <2>1, Takes DEF percent_c
  <2> QED BY <1>1, <2>2 DEF percent_c, PInv, Fields, Words
<1>2. CASE percent_s
  <2>1. Conversion("s") /\ "s" \in Conversions
    BY <1>2 DEF percent_s, Conversions
  <2>2. Head(ap) \in Seq(Chars) /\ Fits(fmt, ap)' /\ calls' = calls
    BY <1>2, <2>1, Takes, ArgumentIs DEF percent_s
  <2> QED BY <1>2, <2>2 DEF percent_s, PInv, Fields, Words
<1>3. CASE percent_number
  <2>1. PICK c \in {"d", "u", "x"} :
          /\ Conversion(c)
          /\ number' = [conv |-> c, arg |-> Head(ap)]
          /\ u' = IF c = "d" THEN Magnitude(Head(ap)) ELSE Head(ap)
          /\ ap' = Tail(ap) /\ buf' = <<>> /\ shown' = <<>> /\ pc' = "digits"
          /\ UNCHANGED <<screen, s>>
    BY <1>3 DEF percent_number
  <2>2. Head(ap) \in Words /\ Fits(fmt, ap)' /\ calls' = calls
    BY <2>1, Takes, ArgumentIs DEF Conversions
  <2>3. u' \in Words
    BY <2>1, <2>2, MagnitudeIsWord
  <2>4. number' \in [conv : {"d", "u", "x"}, arg : Words]
    BY <2>1, <2>2
  <2>5. BUF \in Nat
    BY PrintfAssumption
  <2> QED BY <2>1, <2>2, <2>3, <2>4, <2>5 DEF PInv, Fields, Words
<1> QED BY <1>1, <1>2, <1>3

(* The characters of a string, and the digits of a number.                 *)
LEMMA CharacterStep ==
  ASSUME PInv, string \/ digits \/ dump
  PROVE  Fields' /\ Fits(fmt, ap)'
<1>1. CASE string
  <2>1. s' \in Seq(Chars) /\ pc' \in {"string", "format"}
    BY <1>1, TailOf DEF string, PInv, Fields
  <2> QED BY <1>1, <2>1 DEF string, PInv, Fields, Words
<1>2. CASE digits
  <2>1. /\ u' = u \div Radix(number.conv) /\ number.conv \in {"d", "u", "x"}
        /\ u \in Words
    BY <1>2 DEF digits, PInv, Fields
  <2>2. u' \in Words /\ hex[(u % Radix(number.conv)) + 1] \in Glyphs
    BY <2>1, Divided
  <2>3. (IF u' = 0 THEN Sign ELSE <<>>) \in Seq(Glyphs)
    BY PrintfAssumption DEF Sign
  <2>4. PICK written \in Seq(Glyphs) :
          written = buf \o <<hex[(u % Radix(number.conv)) + 1]>>
                        \o (IF u' = 0 THEN Sign ELSE <<>>)
    <3>1. PICK d \in Glyphs : d = hex[(u % Radix(number.conv)) + 1]
      BY <2>2
    <3>2. PICK e \in Seq(Glyphs) : e = IF u' = 0 THEN Sign ELSE <<>>
      BY <2>3
    <3>3. buf \o <<d>> \in Seq(Glyphs)
      BY DEF PInv, Fields
    <3>4. (buf \o <<d>>) \o e \in Seq(Glyphs)
      BY <3>2, <3>3
    <3> QED BY <3>1, <3>2, <3>4
  <2>5. \/ Len(written) > BUF /\ pc' = "overrun" /\ buf' = buf
        \/ /\ ~(Len(written) > BUF) /\ buf' = written /\ pc' \in {"dump", "digits"}
    BY <1>2, <2>4 DEF digits
  <2>6. buf' \in Seq(Glyphs) /\ Len(buf') <= BUF /\ pc' \in {"overrun", "dump", "digits"}
    <3>1. Len(written) \in Nat /\ written \in Seq(Glyphs)
      OBVIOUS
    <3>2. BUF \in Nat
      BY PrintfAssumption
    <3>3. buf \in Seq(Glyphs) /\ Len(buf) <= BUF
      BY DEF PInv, Fields
    <3> QED BY <2>5, <3>1, <3>2, <3>3
  <2> QED BY <1>2, <2>2, <2>6 DEF digits, PInv, Fields, Words
<1>3. CASE dump
  <2>1. /\ buf' \in Seq(Glyphs) /\ shown' \in Seq(Glyphs) /\ Len(buf') <= BUF
        /\ pc' \in {"dump", "format"}
    <3>1. CASE buf # <<>>
      <4>1. /\ buf' = Front(buf) /\ shown' = Append(shown, Last(buf)) /\ pc' = pc
            /\ pc = "dump"
        BY <1>3, <3>1 DEF dump
      <4>2. Last(buf) \in Glyphs /\ Front(buf) \in Seq(Glyphs)
            /\ Len(Front(buf)) = Len(buf) - 1 /\ Len(buf) \in Nat
        BY <3>1, LastOf DEF PInv, Fields
      <4> QED BY <4>1, <4>2, PrintfAssumption DEF PInv, Fields
    <3>2. CASE buf = <<>>
      BY <1>3, <3>2 DEF dump, PInv, Fields
    <3> QED BY <3>1, <3>2
  <2> QED BY <1>3, <2>1 DEF dump, PInv, Fields, Words
<1> QED BY <1>1, <1>2, <1>3

(* All steps together.                                                     *)
LEMMA PrintfInvariant == Spec => []PInv
<1>1. Init => PInv
  BY Starting, InitFields DEF Init, PInv
<1>2. PInv /\ [Next]_vars => PInv'
  <2> SUFFICES ASSUME PInv, [Next]_vars PROVE PInv'
    OBVIOUS
  <2>1. Sound(screen)'
    BY PrintfPuts, Stepping DEF PInv
  <2>2. Fields' /\ Fits(fmt, ap)'
    <3>1. CASE UNCHANGED vars
      BY <3>1 DEF vars, PInv, Fields, Words
    <3> QED BY <3>1, FormatStep, ConversionStep, CharacterStep DEF Next
  <2> QED BY <2>1, <2>2 DEF PInv
<1> QED BY <1>1, <1>2, PTL DEF Spec

(* In calls whose arguments fit their formats, however many and whichever, *)
(* screen, strings, digits and buffer keep their types (vprintf).          *)
THEOREM PrintfTypeCorrectness == Spec => []TypeOK
<1>1. PInv => TypeOK
  BY DEF PInv, Fields, Sound, TypeOK, ScreenOK
<1> QED BY <1>1, PrintfInvariant, PTL

(* va_arg() never takes an argument that was not given: where vprintf()    *)
(* reads, the format that is left fits the arguments that are left.        *)
THEOREM ArgumentsLast == Spec => []Fits(fmt, ap)
<1>1. PInv => Fits(fmt, ap)
  BY DEF PInv
<1> QED BY <1>1, PrintfInvariant, PTL

-----------------------------------------------------------------------------
(***************************************************************************)
(* buf has room: of a number below 10^k that is not 0 at most k digits are *)
(* still to come, and one character may follow them. The prover does not   *)
(* know powers of a variable: P is their table.                            *)
(***************************************************************************)
Room(P) ==
  pc = "digits" => Len(buf) <= BUF - 2 /\ u < P[BUF - 1 - Len(buf)]

(* A step keeps the room, and never runs over the end of buf.              *)
LEMMA RoomIsKept ==
  ASSUME NEW P \in [0..(BUF - 1) -> Nat], BUF >= 2, P[0] = 1, 2^BITS <= P[BUF - 1],
         \A k \in 0..(BUF - 2) : P[k + 1] = 10 * P[k],
         PInv, Room(P), pc # "overrun", [Next]_vars
  PROVE  Room(P)' /\ pc' # "overrun"
<1>1. BUF \in Nat /\ 2^BITS \in Nat
  BY PrintfAssumption
<1>2. CASE percent_number
  <2>1. PInv'
    <3>1. Sound(screen)'
      BY PrintfPuts, Stepping DEF PInv
    <3> QED BY <1>2, <3>1, ConversionStep DEF PInv
  <2>2. buf' = <<>> /\ pc' = "digits" /\ u' \in Words
    BY <1>2, <2>1 DEF percent_number, PInv, Fields, Words
  <2>3. Len(buf') = 0 /\ u' \in Int /\ u' < 2^BITS
    BY <1>1, <2>2 DEF Words
  <2>4. P[BUF - 1 - Len(buf')] = P[BUF - 1] /\ P[BUF - 1] \in Nat
    BY <1>1, <2>3
  <2> QED BY <1>1, <2>2, <2>3, <2>4 DEF Room
<1>3. CASE digits
  <2>1. /\ u' = u \div Radix(number.conv) /\ number.conv \in {"d", "u", "x"}
        /\ u \in Words /\ buf \in Seq(Glyphs) /\ pc = "digits"
    BY <1>3 DEF digits, PInv, Fields
  <2>2. PICK r \in {10, 16} : r = Radix(number.conv)
    BY <2>1, Divided
  <2>3. PICK k \in 0..(BUF - 2) : Len(buf) = BUF - 2 - k /\ u < P[k + 1]
    <3>1. Len(buf) \in Nat /\ Len(buf) <= BUF - 2 /\ u < P[BUF - 1 - Len(buf)]
      BY <2>1 DEF Room
    <3>2. BUF - 2 - Len(buf) \in 0..(BUF - 2)
      BY <1>1, <3>1
    <3>3. (BUF - 2 - Len(buf)) + 1 = BUF - 1 - Len(buf)
          /\ Len(buf) = BUF - 2 - (BUF - 2 - Len(buf))
      BY <1>1, <3>1
    <3> QED BY <3>1, <3>2, <3>3
  <2>4. u' \in Nat /\ u' < P[k] /\ P[k] \in Nat
    <3>1. P[k] \in Nat /\ P[k + 1] = 10 * P[k] /\ u \in Nat
      BY <1>1, <2>1, Divided
    <3>2. u < 10 * P[k]
      BY <2>3, <3>1
    <3>3. u \div 10 < P[k] /\ u \div 16 < P[k] /\ u \div 10 \in Nat /\ u \div 16 \in Nat
      BY <3>1, <3>2
    <3> QED BY <2>1, <2>2, <3>1, <3>3
  <2>5. u' # 0 => k # 0
    BY <2>4
  <2>6. Len(Sign) <= 1 /\ Sign \in Seq(Glyphs) /\ Len(Sign) \in Nat
    BY PrintfAssumption DEF Sign
  <2>7. PICK d \in Glyphs : d = hex[(u % Radix(number.conv)) + 1]
    BY <2>1, Divided
  <2>8. CASE u' = 0
    <3>1. Len(buf \o <<d>> \o Sign) = Len(buf) + 1 + Len(Sign)
      BY <2>1, <2>6, <2>7
    <3>2. ~(Len(buf \o <<d>> \o Sign) > BUF)
      BY <1>1, <2>3, <2>6, <3>1
    <3>3. pc' = "dump"
      BY <1>3, <2>7, <2>8, <3>2 DEF digits
    <3> QED BY <3>3 DEF Room
  <2>9. CASE u' # 0
    <3>1. Len(buf \o <<d>> \o <<>>) = Len(buf) + 1
      BY <2>1, <2>7
    <3>2. ~(Len(buf \o <<d>> \o <<>>) > BUF) /\ k - 1 \in 0..(BUF - 2)
      BY <1>1, <2>3, <2>5, <2>9, <3>1
    <3>3. pc' = "digits" /\ buf' = buf \o <<d>> \o <<>>
      BY <1>3, <2>7, <2>9, <3>2 DEF digits
    <3>4. Len(buf') <= BUF - 2 /\ BUF - 1 - Len(buf') = k
      BY <1>1, <2>3, <3>1, <3>2, <3>3
    <3> QED BY <2>4, <3>3, <3>4 DEF Room
  <2> QED BY <2>8, <2>9
<1>4. CASE ~percent_number /\ ~digits
  <2>1. (pc' # "digits" /\ pc' # "overrun") \/ (pc' = pc /\ u' = u /\ buf' = buf)
    <3>1. CASE printf \/ return
      BY <3>1 DEF printf, return
    <3>2. CASE plain \/ percent_c
      BY <3>2 DEF plain, percent_c
    <3>3. CASE percent_s \/ string
      BY <3>3 DEF percent_s, string
    <3>4. CASE dump
      BY <3>4 DEF dump
    <3>5. CASE UNCHANGED vars
      BY <3>5 DEF vars
    <3> QED BY <1>4, <3>1, <3>2, <3>3, <3>4, <3>5 DEF Next
  <2> QED BY <2>1 DEF Room
<1> QED BY <1>2, <1>3, <1>4

(* An int of 32 bits, whichever it is and however it is printed, finds     *)
(* room in the eleven characters of buf (vprintf tests no bound).          *)
THEOREM NumeralsFit == ASSUME BITS = 32, BUF = 11 PROVE Spec => [](pc # "overrun")
<1> DEFINE Q == [k \in 0..10 |->
      <<1, 10, 100, 1000, 10000, 100000, 1000000, 10000000, 100000000, 1000000000,
        10000000000>>[k + 1]]
<1>1. /\ Q \in [0..(BUF - 1) -> Nat] /\ BUF >= 2 /\ Q[0] = 1
      /\ \A k \in 0..(BUF - 2) : Q[k + 1] = 10 * Q[k]
  OBVIOUS
<1>2. 2^BITS <= Q[BUF - 1]
  OBVIOUS
<1> HIDE DEF Q
<1>0. PICK P \in [0..(BUF - 1) -> Nat] :
        /\ BUF >= 2 /\ P[0] = 1 /\ 2^BITS <= P[BUF - 1]
        /\ \A k \in 0..(BUF - 2) : P[k + 1] = 10 * P[k]
  BY <1>1, <1>2
<1> DEFINE J == Room(P) /\ pc # "overrun"
<1>3. Init => J
  BY DEF Init, Room
<1>4. PInv /\ J /\ [Next]_vars => J'
  BY <1>0, RoomIsKept DEF Room
<1>5. J => pc # "overrun"
  OBVIOUS
<1> HIDE DEF J
<1> QED BY <1>3, <1>4, <1>5, PrintfInvariant, PTL DEF Spec

-----------------------------------------------------------------------------
(***************************************************************************)
(* A number reads back. While it is divided, what is left of it followed   *)
(* by the digits so far is its value: u, times the radix plus a digit, for *)
(* each digit from the last one written to the first.                      *)
(***************************************************************************)

(* Every nonempty set of naturals has a least element.                     *)
LEMMA LeastOf == ASSUME NEW S \in SUBSET Nat, S # {}
                 PROVE  \E m \in S : \A k \in S : m <= k
<1> DEFINE R == {ss \in Nat \X Nat : ss[1] < ss[2]}
<1>1. IsWellFoundedOn(R, Nat)
  BY NatLessThanWellFounded DEF OpToRel
<1>2. PICK m \in S : \A k \in S : ~(<<k, m>> \in R)
  <2> HIDE DEF R
  <2> QED BY <1>1, WFMin
<1>3. ASSUME NEW k \in S PROVE m <= k
  <2>1. m \in Nat /\ k \in Nat /\ ~(<<k, m>> \in R)
    BY <1>2
  <2>2. ~(k < m)
    BY <2>1
  <2> QED BY <2>1, <2>2
<1> QED BY <1>3

\* The function that Value is defined by.
Sums(h, digs, radix) ==
  h = [n \in 0..Len(digs) |->
         IF n = 0 THEN 0 ELSE h[n - 1] * radix + DigitOf(digs[n])]

(* Any such sums give the value: there are no two (by least difference).   *)
LEMMA ValueIs ==
  ASSUME NEW digs, Len(digs) \in Nat, NEW radix, NEW h, Sums(h, digs, radix)
  PROVE  Value(digs, radix) = h[Len(digs)]
<1> DEFINE w == CHOOSE g : Sums(g, digs, radix)
<1>1. Sums(w, digs, radix)
  OBVIOUS
<1>2. Value(digs, radix) = w[Len(digs)]
  BY DEF Value, Sums
<1> HIDE DEF w
<1> DEFINE D == {n \in 0..Len(digs) : w[n] # h[n]}
<1>3. D = {}
  <2> SUFFICES ASSUME D # {} PROVE FALSE
    OBVIOUS
  <2>1. PICK m \in D : \A k \in D : m <= k
    <3>1. D \in SUBSET Nat
      OBVIOUS
    <3> HIDE DEF D
    <3> QED BY <3>1, LeastOf
  <2>2. m \in 0..Len(digs) /\ w[m] # h[m]
    OBVIOUS
  <2>3. w[0] = 0 /\ h[0] = 0
    BY <1>1 DEF Sums
  <2>4. m - 1 \in 0..Len(digs) /\ ~(m <= m - 1)
    BY <2>2, <2>3
  <2>5. w[m - 1] = h[m - 1]
    BY <2>1, <2>4
  <2>6. /\ w[m] = w[m - 1] * radix + DigitOf(digs[m])
        /\ h[m] = h[m - 1] * radix + DigitOf(digs[m])
    BY <1>1, <2>2, <2>3 DEF Sums
  <2> QED BY <2>2, <2>5, <2>6
<1>4. Len(digs) \in 0..Len(digs)
  OBVIOUS
<1> QED BY <1>2, <1>3, <1>4

(* A hexadecimal digit stands for its place among them.                    *)
LEMMA DigitIs ==
  ASSUME NEW d \in 0..15
  PROVE  DigitOf(hex[d + 1]) = d /\ hex[d + 1] # "-" /\ (hex[d + 1] = "0" => d = 0)
<1>1. \A j, k \in 1..16 : hex[j] = hex[k] => j = k
  BY DEF hex
<1>2. d + 1 \in 1..16
  OBVIOUS
<1> DEFINE place == CHOOSE j \in 1..16 : hex[j] = hex[d + 1]
<1>3. place = d + 1
  BY <1>1, <1>2
<1>4. \A j \in 1..16 : hex[j] # "-" /\ (hex[j] = "0" => j = 1)
  BY DEF hex
<1>5. DigitOf(hex[d + 1]) = place - 1
  BY DEF DigitOf
<1> HIDE DEF place
<1>6. hex[d + 1] # "-" /\ (hex[d + 1] = "0" => d + 1 = 1)
  BY <1>2, <1>4
<1> QED BY <1>3, <1>5, <1>6

\* What a number's characters are divided from.
Printed == IF number.conv = "d" THEN Magnitude(number.arg) ELSE number.arg

\* Sums of a number and of the digits in b behind it, lowest first.
Expands(h, radix, b) ==
  /\ h \in [0..Len(b) -> Nat]
  /\ \A k \in 1..Len(b) : h[k] = h[k - 1] * radix + DigitOf(b[Len(b) + 1 - k])

\* What is left of a number and its digits so far make it up.
Left(h) == Expands(h, Radix(number.conv), buf) /\ h[0] = u /\ h[Len(buf)] = Printed

Dividing ==
  pc = "digits" => shown = <<>> /\ (buf # <<>> => u # 0) /\ \E h : Left(h)

\* What NumberReads says of the characters.
Numeral(txt) ==
  LET signed == txt[1] = "-"
      digs   == IF signed THEN Tail(txt) ELSE txt
      value  == Value(digs, Radix(number.conv))
  IN /\ (IF signed THEN -value ELSE value)
          = IF number.conv = "d" THEN int(number.arg) ELSE number.arg
     /\ digs[1] = "0" => Len(digs) = 1
     /\ signed => value > 0

\* txt is what is shown, and then what is in buf from its end.
Put(txt) ==
  /\ txt \in Seq(Glyphs) /\ Len(txt) = Len(shown) + Len(buf)
  /\ \A k \in 1..Len(shown) : shown[k] = txt[k]
  /\ \A k \in 1..Len(buf) : buf[k] = txt[Len(txt) + 1 - k]

Dumping == pc = "dump" => \E txt : Numeral(txt) /\ Put(txt)

(* An int's sign and magnitude, the lowest included.                       *)
LEMMA Signed ==
  ASSUME NEW w \in Words
  PROVE  /\ Magnitude(w) \in Words /\ int(w) \in Int
         /\ int(w) < 0 => Magnitude(w) = -int(w) /\ Magnitude(w) > 0
         /\ ~(int(w) < 0) => Magnitude(w) = int(w)
<1> DEFINE P == 2^BITS
           Q == 2^(BITS - 1)
<1>1. P \in Nat \ {0} /\ Q \in Nat \ {0} /\ w \in 0..(P - 1)
  BY PrintfAssumption DEF Words
<1>2. int(w) = IF w < Q THEN w ELSE w - P
  BY DEF int
<1>3. Magnitude(w) = (IF int(w) < 0 THEN (-int(w)) % P ELSE w) /\ Words = 0..(P - 1)
  BY DEF Magnitude, Words
<1> HIDE DEF P, Q
<1>4. CASE w < Q
  <2>1. int(w) = w /\ ~(w < 0)
    BY <1>1, <1>2, <1>4
  <2> QED BY <1>1, <1>3, <2>1
<1>5. CASE ~(w < Q)
  <2>1. int(w) = w - P /\ int(w) < 0 /\ w \in Int /\ P \in Int
    BY <1>1, <1>2, <1>5
  <2>2. -int(w) \in 1..(P - 1)
    BY <1>1, <1>5, <2>1
  <2>3. PICK y \in 1..(P - 1) : y = -int(w)
    BY <2>2
  <2>4. y % P = y
    BY <1>1
  <2>5. Magnitude(w) = y
    BY <1>3, <2>1, <2>3, <2>4
  <2> QED BY <1>1, <1>3, <2>1, <2>3, <2>5
<1> QED BY <1>4, <1>5

\* What one division more makes of the sums, and its digit of b.
DividedSums(h, radix, b, c) ==
  \E g : Expands(g, radix, c) /\ g[0] = h[0] \div radix /\ g[Len(c)] = h[Len(b)]
WithDigit(b, h, radix) == b \o <<hex[(h[0] % radix) + 1]>>

(* One division more moves one digit from what is left to the digits.      *)
LEMMA OneMore ==
  ASSUME NEW r \in {10, 16}, NEW b \in Seq(Glyphs), NEW h, Expands(h, r, b),
         NEW c \in Seq(Glyphs), c = WithDigit(b, h, r)
  PROVE  DividedSums(h, r, b, c)
<1>1. h \in [0..Len(b) -> Nat]
  BY DEF Expands
<1>2. \A k \in 1..Len(b) : h[k] = h[k - 1] * r + DigitOf(b[Len(b) + 1 - k])
  BY DEF Expands
<1>3. PICK x \in Nat : x = h[0]
  BY <1>1
<1> DEFINE g == [k \in 0..Len(c) |-> IF k = 0 THEN x \div r ELSE h[k - 1]]
<1>4. /\ x \div r \in Nat /\ x % r \in 0..15 /\ x = (x \div r) * r + (x % r)
  BY Z3
<1>5. DigitOf(hex[(x % r) + 1]) = x % r
  BY <1>4, DigitIs
<1>6. /\ Len(c) = Len(b) + 1 /\ Len(b) \in Nat /\ c[Len(b) + 1] = hex[(x % r) + 1]
      /\ \A i \in 1..Len(b) : c[i] = b[i]
  BY <1>3 DEF WithDigit
<1>7. g \in [0..Len(c) -> Nat]
  <2>1. ASSUME NEW k \in 0..Len(c), k # 0 PROVE h[k - 1] \in Nat
    <3>1. k - 1 \in 0..Len(b)
      BY <1>6, <2>1
    <3> QED BY <1>1, <3>1
  <2> QED BY <1>4, <2>1
<1>8. g[0] = h[0] \div r /\ g[Len(c)] = h[Len(b)]
  BY <1>6, <1>3
<1>9. ASSUME NEW k \in 1..Len(c)
      PROVE  g[k] = g[k - 1] * r + DigitOf(c[Len(c) + 1 - k])
  <2>1. g[k] = h[k - 1]
    BY <1>6
  <2>2. CASE k = 1
    <3>1. g[k] = x /\ g[k - 1] = x \div r
      BY <1>6, <1>3, <2>1, <2>2
    <3>2. Len(c) + 1 - k = Len(b) + 1
      BY <1>6, <2>2
    <3>3. DigitOf(c[Len(c) + 1 - k]) = x % r
      BY <1>5, <1>6, <3>2
    <3> QED BY <1>4, <3>1, <3>3
  <2>3. CASE k # 1
    <3>1. k - 1 \in 1..Len(b) /\ g[k - 1] = h[(k - 1) - 1]
      BY <1>6, <2>3
    <3>2. Len(c) + 1 - k = Len(b) + 1 - (k - 1) /\ Len(b) + 1 - (k - 1) \in 1..Len(b)
      BY <1>6, <3>1
    <3>3. c[Len(c) + 1 - k] = b[Len(b) + 1 - (k - 1)]
      BY <1>6, <3>2
    <3>4. h[k - 1] = h[(k - 1) - 1] * r + DigitOf(b[Len(b) + 1 - (k - 1)])
      BY <1>2, <3>1
    <3> QED BY <2>1, <3>1, <3>3, <3>4
  <2> QED BY <2>2, <2>3
<1> HIDE DEF g
<1> QED BY <1>7, <1>8, <1>9 DEF Expands, DividedSums

(* Digits whose value is the number's magnitude, without a leading zero    *)
(* and behind its sign, are its numeral.                                   *)
LEMMA IsNumeral ==
  ASSUME number \in [conv : {"d", "u", "x"}, arg : Words],
         NEW digs \in Seq(Glyphs), digs # <<>>, NEW h,
         Sums(h, digs, Radix(number.conv)), h[Len(digs)] = Printed,
         digs[1] # "-", digs[1] = "0" => Len(digs) = 1
  PROVE  Numeral(Sign \o digs)
<1>1. Value(digs, Radix(number.conv)) = Printed
  BY ValueIs
<1>2. number.arg \in Words /\ Len(digs) \in Nat \ {0}
  OBVIOUS
<1>3. CASE Sign = <<>>
  <2>1. Sign \o digs = digs
    BY <1>3
  <2>2. Printed = IF number.conv = "d" THEN int(number.arg) ELSE number.arg
    BY <1>2, <1>3, Signed DEF Sign, Printed
  <2> QED BY <1>1, <2>1, <2>2 DEF Numeral
<1>4. CASE Sign # <<>>
  <2>1. Sign = <<"-">> /\ number.conv = "d" /\ int(number.arg) < 0
    BY <1>4 DEF Sign
  <2>2. (Sign \o digs)[1] = "-" /\ Tail(Sign \o digs) = digs
    <3>1. <<"-">> \in Seq({"-"} \cup Glyphs) /\ digs \in Seq({"-"} \cup Glyphs)
      OBVIOUS
    <3>2. Len(<<"-">> \o digs) = 1 + Len(digs) /\ (<<"-">> \o digs)[1] = "-"
      BY <3>1
    <3>3. Len(Tail(<<"-">> \o digs)) = Len(digs)
          /\ \A k \in 1..Len(digs) : Tail(<<"-">> \o digs)[k] = digs[k]
      BY <3>1, <3>2
    <3>4. Tail(<<"-">> \o digs) \in Seq({"-"} \cup Glyphs)
      BY <3>1, <3>2
    <3> QED BY <2>1, <3>1, <3>2, <3>3, <3>4, SeqEqual
  <2>3. Printed = -int(number.arg) /\ Printed > 0 /\ int(number.arg) \in Int
    BY <1>2, <2>1, Signed DEF Printed
  <2>4. -Printed = int(number.arg)
    BY <2>3
  <2> QED BY <1>1, <2>1, <2>2, <2>3, <2>4 DEF Numeral
<1> QED BY <1>3, <1>4

(* A number begins with nothing shown, nothing in buf and all of it left.  *)
LEMMA NumberBegins ==
  ASSUME PInv, percent_number PROVE Dividing' /\ Dumping'
<1>1. /\ buf' = <<>> /\ shown' = <<>> /\ pc' = "digits" /\ number'.arg \in Words
      /\ u' = Printed' /\ u' \in Words
  <2>1. PICK c \in {"d", "u", "x"} :
          /\ Conversion(c) /\ number' = [conv |-> c, arg |-> Head(ap)]
          /\ u' = IF c = "d" THEN Magnitude(Head(ap)) ELSE Head(ap)
          /\ buf' = <<>> /\ shown' = <<>> /\ pc' = "digits"
    BY DEF percent_number
  <2>2. Head(ap) \in Words
    BY <2>1, Takes, ArgumentIs DEF Conversions
  <2>3. Magnitude(Head(ap)) \in Words
    BY <2>2, Signed
  <2> QED BY <2>1, <2>2, <2>3 DEF Printed
<1>2. u' \in Nat
  BY <1>1, PrintfAssumption DEF Words
<1>3. PICK x \in Nat : x = u'
  BY <1>2
<1>4. Left([k \in 0..0 |-> x])'
  <2>1. Len(buf') = 0
    BY <1>1
  <2> QED BY <1>1, <1>3, <2>1 DEF Left, Expands
<1> QED BY <1>1, <1>4 DEF Dividing, Dumping

(* A digit of it moves from what is left to buf; the last one, which is    *)
(* not '0' unless it is alone, has the sign after it.                      *)
LEMMA NumberDivides ==
  ASSUME PInv, Dividing, digits PROVE Dividing' /\ Dumping'
<1>1. /\ u' = u \div Radix(number.conv) /\ number \in [conv : {"d", "u", "x"}, arg : Words]
      /\ u \in Words /\ buf \in Seq(Glyphs) /\ pc = "digits"
      /\ number' = number /\ shown' = shown
  BY DEF digits, PInv, Fields
<1>2. u \in Nat /\ shown = <<>> /\ (buf # <<>> => u # 0)
  BY <1>1, PrintfAssumption DEF Dividing, Words
<1>3. PICK r \in {10, 16} : r = Radix(number.conv)
  BY <1>1, Divided
<1>4. PICK h : Left(h)
  BY <1>1 DEF Dividing
<1>5. u % r \in 0..15 /\ u \div r \in Nat /\ (u % r = 0 /\ u \div r = 0 => u = 0)
  BY <1>2
<1>6. PICK d \in Glyphs : d = hex[(u % r) + 1]
  BY <1>1, <1>3, Divided
<1>7. buf \o <<d>> \in Seq(Glyphs)
  BY <1>1
<1>8. PICK c \in Seq(Glyphs) : c = buf \o <<d>>
  BY <1>7
<1>9. Len(c) = Len(buf) + 1 /\ Len(buf) \in Nat /\ c[Len(buf) + 1] = d
  BY <1>1, <1>8
<1>10. PICK g \in [0..Len(c) -> Nat] :
        /\ g[0] = u' /\ g[Len(c)] = Printed
        /\ \A k \in 1..Len(c) : g[k] = g[k - 1] * r + DigitOf(c[Len(c) + 1 - k])
  <2>1. Expands(h, r, buf) /\ h[0] = u /\ h[Len(buf)] = Printed
    BY <1>3, <1>4 DEF Left
  <2>2. c = buf \o <<hex[(h[0] % r) + 1]>>
    BY <1>6, <1>8, <2>1
  <2>3. \E g : Expands(g, r, c) /\ g[0] = h[0] \div r /\ g[Len(c)] = h[Len(buf)]
    <3>1. buf \in Seq(Glyphs) /\ Expands(h, r, buf)
      BY <1>1, <2>1
    <3>2. c = WithDigit(buf, h, r)
      BY <2>2 DEF WithDigit
    <3>3. r \in {10, 16} /\ c \in Seq(Glyphs)
      BY <1>3, <1>8
    <3>4. DividedSums(h, r, buf, c)
      BY <3>1, <3>2, <3>3, OneMore
    <3> QED BY <3>4 DEF DividedSums
  <2>4. u' = u \div r
    BY <1>1, <1>3
  <2> QED BY <2>1, <2>3, <2>4 DEF Expands
<1>11. CASE pc' = "digits"
  <2>1. u' # 0 /\ buf' = c
    <3>1. u' # 0 /\ buf' = buf \o <<d>> \o <<>>
      BY <1>3, <1>6, <1>11 DEF digits
    <3> QED BY <1>1, <1>8, <3>1
  <2>2. Printed' = Printed
    BY <1>1 DEF Printed
  <2>3. Left(g)'
    BY <1>1, <1>3, <1>10, <2>1, <2>2 DEF Left, Expands
  <2> QED BY <1>1, <1>2, <1>11, <2>1, <2>3 DEF Dividing, Dumping
<1>12. CASE pc' = "dump"
  <2>1. u' = 0 /\ buf' = c \o Sign
    BY <1>3, <1>6, <1>12, <1>8 DEF digits
  <2>2. PICK digs \in Seq(Glyphs) :
        /\ Len(digs) = Len(c) /\ digs # <<>>
        /\ \A k \in 1..Len(c) : digs[k] = c[Len(c) + 1 - k]
        /\ digs[1] = d
    <3> DEFINE D == [k \in 1..Len(c) |-> c[Len(c) + 1 - k]]
    <3>1. \A k \in 1..Len(c) : Len(c) + 1 - k \in 1..Len(c)
      BY <1>9
    <3>2. D \in [1..Len(c) -> Glyphs] /\ Len(c) \in Nat
      BY <1>9, <3>1
    <3>3. D \in Seq(Glyphs) /\ Len(D) = Len(c)
      BY <3>2
    <3>4. D[1] = d /\ \A k \in 1..Len(c) : D[k] = c[Len(c) + 1 - k]
      BY <1>9
    <3> HIDE DEF D
    <3> QED BY <1>9, <3>3, <3>4
  <2>3. Sums(g, digs, Radix(number.conv))
    <3>1. \A n \in 0..Len(digs) :
            g[n] = IF n = 0 THEN 0 ELSE g[n - 1] * r + DigitOf(digs[n])
      BY <1>10, <2>1, <2>2
    <3>2. g \in [0..Len(digs) -> Nat]
      BY <1>10, <2>2
    <3> QED BY <1>3, <3>1, <3>2 DEF Sums
  <2>4. digs[1] # "-" /\ (digs[1] = "0" => Len(digs) = 1)
    <3>1. d # "-" /\ (d = "0" => u % r = 0)
      BY <1>5, <1>6, DigitIs
    <3>2. d = "0" => buf = <<>>
      BY <1>1, <1>2, <1>3, <1>5, <2>1, <3>1
    <3> QED BY <1>9, <2>2, <3>1, <3>2
  <2>5. Numeral(Sign \o digs)
    <3>1. digs \in Seq(Glyphs) /\ digs # <<>>
      BY <1>9, <2>2
    <3>2. g[Len(digs)] = Printed
      BY <1>1, <1>10, <2>2
    <3>3. number \in [conv : {"d", "u", "x"}, arg : Words]
      BY <1>1
    <3> QED BY <2>3, <2>4, <3>1, <3>2, <3>3, IsNumeral
  <2>6. PICK sign \in Seq(Glyphs) : sign = Sign /\ Len(sign) \in {0, 1}
    <3>1. "-" \in Glyphs
      BY PrintfAssumption
    <3>2. Sign = <<"-">> \/ Sign = <<>>
      BY DEF Sign
    <3>3. <<"-">> \in Seq(Glyphs) /\ Len(<<"-">>) = 1 /\ <<>> \in Seq(Glyphs) /\ Len(<<>>) = 0
      BY <3>1
    <3> QED BY <3>2, <3>3
  <2>7. Numeral(sign \o digs)'
    BY <1>1, <2>5, <2>6 DEF Numeral
  <2>8. Put(sign \o digs)'
    <3>4. /\ sign \in Seq(Glyphs) /\ digs \in Seq(Glyphs) /\ c \in Seq(Glyphs)
          /\ Len(digs) = Len(c) /\ Len(c) \in Nat
      BY <1>8, <1>9, <2>2, <2>6
    <3>1. sign \o digs \in Seq(Glyphs) /\ Len(sign \o digs) = Len(sign) + Len(c)
          /\ Len(c \o sign) = Len(c) + Len(sign) /\ Len(c) \in Nat
          /\ Len(sign) \in Nat
      BY <3>4
    <3>2. ASSUME NEW k \in 1..(Len(c) + Len(sign))
          PROVE  (c \o sign)[k] = (sign \o digs)[Len(sign) + Len(c) + 1 - k]
      <4>1. CASE k <= Len(c)
        <5>1. (c \o sign)[k] = c[k]
          BY <3>1, <3>4, <4>1
        <5>5. Len(c) + 1 - k \in 1..Len(c)
          BY <3>1, <4>1
        <5>2. PICK j \in 1..Len(c) : j = Len(c) + 1 - k
          BY <5>5
        <5>3. (sign \o digs)[Len(sign) + j] = digs[j]
          BY <2>2, <3>1, <5>2
        <5>4. Len(c) + 1 - j = k /\ Len(sign) + Len(c) + 1 - k = Len(sign) + j
          BY <3>1, <4>1, <5>2
        <5> QED BY <2>2, <5>1, <5>2, <5>3, <5>4
      <4>2. CASE ~(k <= Len(c))
        <5>1. Len(sign) = 1 /\ k = Len(c) + 1
          BY <2>6, <3>1, <4>2
        <5>2. (c \o sign)[k] = sign[1]
          BY <1>9, <3>1, <5>1
        <5>3. (sign \o digs)[1] = sign[1] /\ Len(sign) + Len(c) + 1 - k = 1
          BY <2>2, <3>1, <5>1
        <5> QED BY <5>2, <5>3
      <4> QED BY <4>1, <4>2
    <3>3. buf' = c \o sign /\ shown' = <<>>
      BY <1>1, <1>2, <2>1, <2>6
    <3> QED BY <3>1, <3>2, <3>3 DEF Put
  <2> QED BY <1>12, <2>7, <2>6, <2>8 DEF Dividing, Dumping
<1>13. CASE pc' # "digits" /\ pc' # "dump"
  BY <1>13 DEF Dividing, Dumping
<1> QED BY <1>11, <1>12, <1>13

(* A character of it moves from the end of buf to the end of what is shown.*)
LEMMA NumberDumps ==
  ASSUME PInv, Dumping, dump PROVE Dividing' /\ Dumping'
<1>1. /\ pc = "dump" /\ number' = number /\ buf \in Seq(Glyphs) /\ shown \in Seq(Glyphs)
  BY DEF dump, PInv, Fields
<1>2. CASE buf = <<>>
  <2>1. pc' = "format"
    BY <1>2 DEF dump
  <2> QED BY <2>1 DEF Dividing, Dumping
<1>3. CASE buf # <<>>
  <2>1. /\ buf' = Front(buf) /\ shown' = Append(shown, Last(buf)) /\ pc' = pc
    BY <1>3 DEF dump
  <2>2. PICK txt : Numeral(txt) /\ Put(txt)
    BY <1>1 DEF Dumping
  <2>3. Numeral(txt)'
    BY <1>1, <2>2 DEF Numeral
  <2>4. /\ txt \in Seq(Glyphs) /\ Len(txt) = Len(shown) + Len(buf)
        /\ \A k \in 1..Len(shown) : shown[k] = txt[k]
        /\ \A k \in 1..Len(buf) : buf[k] = txt[Len(txt) + 1 - k]
    BY <2>2 DEF Put
  <2>5. /\ Len(buf) \in Nat \ {0} /\ Len(shown) \in Nat
        /\ Last(buf) = buf[Len(buf)] /\ Last(buf) \in Glyphs
        /\ Len(Front(buf)) = Len(buf) - 1
        /\ \A k \in 1..(Len(buf) - 1) : Front(buf)[k] = buf[k]
    <3>1. Len(buf) \in Nat \ {0} /\ Len(shown) \in Nat
      BY <1>1, <1>3
    <3>2. Last(buf) = buf[Len(buf)] /\ Last(buf) \in Glyphs
      BY <1>1, <3>1 DEF Last
    <3>3. Len(Front(buf)) = Len(buf) - 1
          /\ \A k \in 1..(Len(buf) - 1) : Front(buf)[k] = buf[k]
      BY <1>1, <1>3, LastOf DEF Front
    <3> QED BY <3>1, <3>2, <3>3
  <2>6. Len(shown') = Len(shown) + 1
        /\ \A k \in 1..(Len(shown) + 1) :
             shown'[k] = IF k = Len(shown) + 1 THEN Last(buf) ELSE shown[k]
    BY <1>1, <2>1, <2>5
  <2>7. Last(buf) = txt[Len(shown) + 1]
    BY <2>4, <2>5
  <2>8. Put(txt)'
    BY <2>1, <2>4, <2>5, <2>6, <2>7 DEF Put
  <2> QED BY <1>1, <2>1, <2>3, <2>8 DEF Dividing, Dumping
<1> QED BY <1>2, <1>3

(* Every step keeps what is known of the number.                           *)
LEMMA NumberStep ==
  ASSUME PInv, Dividing, Dumping, [Next]_vars PROVE Dividing' /\ Dumping'
<1>1. CASE percent_number
  BY <1>1, NumberBegins
<1>2. CASE digits
  BY <1>2, NumberDivides
<1>3. CASE dump
  BY <1>3, NumberDumps
<1>4. CASE ~percent_number /\ ~digits /\ ~dump
  <2>1. \/ pc' # "digits" /\ pc' # "dump"
        \/ UNCHANGED <<pc, u, buf, number, shown>>
    <3>1. CASE printf \/ return
      BY <3>1 DEF printf, return
    <3>2. CASE plain \/ percent_c
      BY <3>2 DEF plain, percent_c
    <3>3. CASE percent_s \/ string
      BY <3>3 DEF percent_s, string
    <3>4. CASE UNCHANGED vars
      BY <3>4 DEF vars
    <3> QED BY <1>4, <3>1, <3>2, <3>3, <3>4 DEF Next
  <2>2. CASE pc' # "digits" /\ pc' # "dump"
    BY <2>2 DEF Dividing, Dumping
  <2>3. CASE UNCHANGED <<pc, u, buf, number, shown>>
    BY <2>3 DEF Dividing, Dumping, Left, Expands, Printed, Put, Numeral
  <2> QED BY <2>1, <2>2, <2>3
<1> QED BY <1>1, <1>2, <1>3, <1>4

(* Whatever the int and the conversion, the characters put for it are the  *)
(* one numeral that reads back to it, and found room in the eleven of buf  *)
(* (%d, %u and %x of vprintf).                                             *)
THEOREM NumbersReadBack == ASSUME BITS = 32, BUF = 11 PROVE Spec => []NumberReads
<1>1. Init => Dividing /\ Dumping
  BY DEF Init, Dividing, Dumping
<1>2. PInv /\ Dividing /\ Dumping /\ [Next]_vars => Dividing' /\ Dumping'
  BY NumberStep
<1>3. PInv /\ Dumping /\ pc # "overrun" => NumberReads
  <2> SUFFICES ASSUME PInv, Dumping, pc = "dump", buf = <<>> PROVE Numeral(shown)
    BY DEF NumberReads, Numeral
  <2>1. PICK txt : Numeral(txt) /\ Put(txt)
    BY DEF Dumping
  <2>2. /\ shown \in Seq(Glyphs) /\ txt \in Seq(Glyphs) /\ Len(buf) = 0
        /\ Len(txt) = Len(shown) + Len(buf) /\ Len(shown) \in Nat
        /\ \A k \in 1..Len(shown) : shown[k] = txt[k]
    BY <2>1 DEF Put, PInv, Fields
  <2>3. shown = txt
    BY <2>2, SeqEqual
  <2> QED BY <2>1, <2>3
<1>4. Spec => [](pc # "overrun")
  BY NumeralsFit
<1> QED BY <1>1, <1>2, <1>3, <1>4, PrintfInvariant, PTL DEF Spec

-----------------------------------------------------------------------------
(***************************************************************************)
(* The shell prints strings. The screens on the way are those of a         *)
(* function that monitor_put() makes from each to the next.                *)
(***************************************************************************)
Shows(f, t, str) ==
  f = [n \in 0..Len(str) |-> IF n = 0 THEN t ELSE monitor_put(f[n - 1], str[n])]

(* There is no other such function (by least difference).                  *)
LEMMA AfterIs ==
  ASSUME NEW t, NEW str, Len(str) \in Nat, NEW f, Shows(f, t, str)
  PROVE  After(t, str) = f[Len(str)]
<1> DEFINE w == CHOOSE g : Shows(g, t, str)
<1>1. Shows(w, t, str)
  OBVIOUS
<1>2. After(t, str) = w[Len(str)]
  BY DEF After, Shows
<1> HIDE DEF w
<1> DEFINE D == {n \in 0..Len(str) : w[n] # f[n]}
<1>3. D = {}
  <2> SUFFICES ASSUME D # {} PROVE FALSE
    OBVIOUS
  <2>1. PICK m \in D : \A k \in D : m <= k
    <3>1. D \in SUBSET Nat
      OBVIOUS
    <3> HIDE DEF D
    <3> QED BY <3>1, LeastOf
  <2>2. m \in 0..Len(str) /\ w[m] # f[m]
    OBVIOUS
  <2>3. w[0] = t /\ f[0] = t
    BY <1>1 DEF Shows
  <2>4. m - 1 \in 0..Len(str) /\ ~(m <= m - 1)
    BY <2>2, <2>3
  <2>5. w[m - 1] = f[m - 1]
    BY <2>1, <2>4
  <2>6. w[m] = monitor_put(w[m - 1], str[m]) /\ f[m] = monitor_put(f[m - 1], str[m])
    BY <1>1, <2>2, <2>3 DEF Shows
  <2> QED BY <2>2, <2>5, <2>6
<1>4. Len(str) \in 0..Len(str)
  OBVIOUS
<1> QED BY <1>2, <1>3, <1>4

\* The first k of these screens.
ShowsTo(f, t, str, k) ==
  /\ f = [n \in 0..k |-> IF n = 0 THEN t ELSE monitor_put(f[n - 1], str[n])]
  /\ \A n \in 0..k : Sound(f[n])

(* They are there, and all of them are sound: one screen leads to the next.*)
LEMMA Printing ==
  ASSUME NEW t, Sound(t), NEW str, Len(str) \in Nat
  PROVE  \E f : ShowsTo(f, t, str, Len(str)) /\ After(t, str) = f[Len(str)]
<1> DEFINE D == {k \in 0..Len(str) : ~ \E f : ShowsTo(f, t, str, k)}
<1>1. D = {}
  <2> SUFFICES ASSUME D # {} PROVE FALSE
    OBVIOUS
  <2>1. PICK m \in D : \A k \in D : m <= k
    <3>1. D \in SUBSET Nat
      OBVIOUS
    <3> HIDE DEF D
    <3> QED BY <3>1, LeastOf
  <2>2. m \in 0..Len(str) /\ ~ \E f : ShowsTo(f, t, str, m)
    OBVIOUS
  <2>3. CASE m = 0
    <3>1. ShowsTo([n \in 0..0 |-> t], t, str, 0)
      BY DEF ShowsTo
    <3> QED BY <2>2, <2>3, <3>1
  <2>4. CASE m # 0
    <3>1. m - 1 \in 0..Len(str) /\ ~(m <= m - 1) /\ m \in Nat \ {0}
      BY <2>2, <2>4
    <3>2. PICK f : ShowsTo(f, t, str, m - 1)
      BY <2>1, <3>1
    <3> DEFINE g == [n \in 0..m |-> IF n < m THEN f[n] ELSE monitor_put(f[m - 1], str[m])]
    <3>3. \A n \in 0..(m - 1) : f[n] = IF n = 0 THEN t ELSE monitor_put(f[n - 1], str[n])
      BY <3>2 DEF ShowsTo
    <3>4. Sound(f[m - 1]) /\ \A n \in 0..(m - 1) : Sound(f[n])
      BY <3>1, <3>2 DEF ShowsTo
    <3>5. Sound(monitor_put(f[m - 1], str[m]))
      BY <3>4, Putting
    <3>6. \A n \in 0..m : g[n] = IF n = 0 THEN t ELSE monitor_put(g[n - 1], str[n])
      BY <3>1, <3>3
    <3>7. \A n \in 0..m : Sound(g[n])
      BY <3>1, <3>4, <3>5
    <3>8. g = [n \in 0..m |-> g[n]]
      OBVIOUS
    <3> HIDE DEF g
    <3>9. g = [n \in 0..m |-> IF n = 0 THEN t ELSE monitor_put(g[n - 1], str[n])]
      BY <3>6, <3>8
    <3>10. ShowsTo(g, t, str, m)
      BY <3>7, <3>9 DEF ShowsTo
    <3> QED BY <2>2, <3>10
  <2> QED BY <2>3, <2>4
<1>2. Len(str) \in 0..Len(str)
  OBVIOUS
<1>3. PICK f : ShowsTo(f, t, str, Len(str))
  BY <1>1, <1>2
<1>4. Shows(f, t, str)
  BY <1>3 DEF ShowsTo, Shows
<1> QED BY <1>3, <1>4, AfterIs

(* Whatever is printed, the screen is sound.                               *)
LEMMA PrintedIsSound ==
  ASSUME NEW t, Sound(t), NEW str, Len(str) \in Nat
  PROVE  Sound(After(t, str))
<1>1. PICK f : ShowsTo(f, t, str, Len(str)) /\ After(t, str) = f[Len(str)]
  BY Printing
<1>2. Len(str) \in 0..Len(str)
  OBVIOUS
<1> QED BY <1>1, <1>2 DEF ShowsTo

(* A text of one character is that character.                              *)
LEMMA OneCharacter ==
  ASSUME NEW t, Sound(t), NEW d
  PROVE  After(t, <<d>>) = monitor_put(t, d)
<1>1. Len(<<d>>) = 1 /\ <<d>>[1] = d
  OBVIOUS
<1>2. PICK f : ShowsTo(f, t, <<d>>, 1) /\ After(t, <<d>>) = f[1]
  BY <1>1, Printing
<1>3. f[0] = t /\ f[1] = monitor_put(f[0], <<d>>[1])
  BY <1>2 DEF ShowsTo
<1> QED BY <1>1, <1>2, <1>3

\* The row of the cursor is the first k characters of p, and the rest blank.
Upto(t, p, k) ==
  /\ t.cursor_x = k
  /\ RowOf(t, t.cursor_y) = [x \in 0..(MONITOR_WIDTH - 1) |-> IF x < k THEN p[x + 1] ELSE SPACE]

(* A line feed goes to a blank row, whether the screen scrolls or not.     *)
LEMMA NewLine ==
  ASSUME NEW t, Sound(t), NEW p, NEW f, f = monitor_put(t, NL)
  PROVE  Sound(f) /\ Upto(f, p, 0)
<1>1. Sound(f)
  BY Putting
<1>2. t \in Screens /\ f \in Screens
  BY <1>1 DEF Sound
<1>3. /\ t.cursor_x \in 0..(MONITOR_WIDTH - 1) /\ t.cursor_y \in Nat /\ f.cursor_y \in Nat
      /\ MONITOR_WIDTH \in Nat \ {0} /\ MONITOR_HEIGTH \in Nat \ {0}
  BY <1>2, MonitorAssumption DEF Screens
<1>4. Applied(t, NL) = MoveTo(t, 0, t.cursor_y + 1)
  BY Branches
<1>5. f = scroll(MoveTo(t, 0, t.cursor_y + 1))
  BY <1>3, <1>4 DEF monitor_put, Wrapped, MoveTo, Drawn
<1>6. f.cursor_x = 0 /\ PaperOf(f) = Paper!Fed(PaperOf(t))
  BY <1>5, Feeding
<1>7. /\ PaperOf(t) \in Seq(Rows) /\ Len(PaperOf(t)) = t.cursor_y + 1
      /\ PaperOf(f) \in Seq(Rows) /\ Len(PaperOf(f)) = f.cursor_y + 1
  BY <1>2, PaperIsSeq
<1>8. PaperOf(f)[f.cursor_y + 1] = Paper!BlankLine
  <2> DEFINE R == Rows
             a == PaperOf(t)
             b == PaperOf(f)
             z == Paper!BlankLine
  <2>1. z \in R
    BY DEF Paper!BlankLine, Printable, Rows
  <2>2. a \in Seq(R) /\ b \in Seq(R) /\ Len(b) = f.cursor_y + 1 /\ Len(a) \in Nat \ {0}
    BY <1>3, <1>7
  <2>3. b = Append(a, z) \/ b = Append(Tail(a), z)
    BY <1>6 DEF Paper!Fed
  <2> HIDE DEF R, a, b, z
  <2>4. Tail(a) \in Seq(R)
    BY <2>2, EmptySeq
  <2>5. PICK q \in Seq(R) : b = Append(q, z)
    BY <2>2, <2>3, <2>4
  <2>6. Len(b) = Len(q) + 1 /\ b[Len(q) + 1] = z
    BY <2>1, <2>5
  <2>7. b[f.cursor_y + 1] = z
    BY <2>2, <2>6
  <2> QED BY <2>7 DEF b, z
<1>9. PaperOf(f)[f.cursor_y + 1] = RowOf(f, f.cursor_y)
  BY <1>3 DEF PaperOf
<1>10. Paper!BlankLine = [x \in 0..(MONITOR_WIDTH - 1) |-> IF x < 0 THEN p[x + 1] ELSE SPACE]
  BY <1>3 DEF Paper!BlankLine
<1> QED BY <1>1, <1>6, <1>8, <1>9, <1>10 DEF Upto

(* A character that is printable goes behind what is in the row, up to the *)
(* one before the last.                                                    *)
LEMMA Typing ==
  ASSUME NEW t, Sound(t), NEW p, NEW k \in Nat, k + 1 < MONITOR_WIDTH, Upto(t, p, k),
         p[k + 1] \in Printable, NEW f, f = monitor_put(t, p[k + 1])
  PROVE  Sound(f) /\ Upto(f, p, k + 1)
<1>1. Sound(f)
  BY Putting
<1>2. t \in Screens
  BY DEF Sound
<1>3. /\ t.cursor_x = k /\ t.cursor_y \in 0..(MONITOR_HEIGTH - 1)
      /\ MONITOR_WIDTH \in Nat \ {0} /\ MONITOR_HEIGTH \in Nat \ {0}
  BY <1>2, MonitorAssumption DEF Screens, Upto
<1> DEFINE c == p[k + 1]
           w == Drawn(Written(t, c), k, t.cursor_y)
<1>4. Applied(t, c) = MoveTo(w, k + 1, t.cursor_y)
  BY <1>3, Branches DEF MoveTo, Drawn
<1>5. f = MoveTo(w, k + 1, t.cursor_y)
  BY <1>3, <1>4 DEF monitor_put, Wrapped, scroll, MoveTo, Drawn
<1>6. PaperOf(w) = [PaperOf(t) EXCEPT ![Len(PaperOf(t))] = [@ EXCEPT ![k] = c]]
  BY <1>3, Writing
<1>7. RowOf(w, t.cursor_y) = [RowOf(t, t.cursor_y) EXCEPT ![k] = c]
  <2>1. Len(PaperOf(t)) = t.cursor_y + 1
    BY <1>2, PaperIsSeq
  <2>2. t.cursor_y + 1 \in 1..(t.cursor_y + 1) /\ (t.cursor_y + 1) - 1 = t.cursor_y
        /\ w.cursor_y = t.cursor_y
    BY <1>3 DEF Drawn
  <2>3. PaperOf(t)[t.cursor_y + 1] = RowOf(t, t.cursor_y)
        /\ PaperOf(w)[t.cursor_y + 1] = RowOf(w, t.cursor_y)
    BY <2>2 DEF PaperOf
  <2>4. DOMAIN PaperOf(t) = 1..(t.cursor_y + 1)
    BY DEF PaperOf
  <2> HIDE DEF w
  <2> QED BY <1>6, <2>1, <2>2, <2>3, <2>4
<1>8. RowOf(f, t.cursor_y) = RowOf(w, t.cursor_y) /\ f.cursor_y = t.cursor_y
      /\ f.cursor_x = k + 1
  BY <1>5 DEF RowOf, MoveTo, Drawn
<1>9. [RowOf(t, t.cursor_y) EXCEPT ![k] = c]
        = [x \in 0..(MONITOR_WIDTH - 1) |-> IF x < k + 1 THEN p[x + 1] ELSE SPACE]
  <2>1. RowOf(t, t.cursor_y) = [x \in 0..(MONITOR_WIDTH - 1) |-> IF x < k THEN p[x + 1] ELSE SPACE]
    BY DEF Upto
  <2>2. \A x \in 0..(MONITOR_WIDTH - 1) :
          (IF x = k THEN c ELSE IF x < k THEN p[x + 1] ELSE SPACE)
            = IF x < k + 1 THEN p[x + 1] ELSE SPACE
    OBVIOUS
  <2> HIDE DEF c
  <2>3. [RowOf(t, t.cursor_y) EXCEPT ![k] = c]
          = [x \in 0..(MONITOR_WIDTH - 1) |->
               IF x = k THEN c ELSE IF x < k THEN p[x + 1] ELSE SPACE]
    BY <2>1
  <2> QED BY <2>2, <2>3
<1> QED BY <1>1, <1>7, <1>8, <1>9 DEF Upto

(* After its tip scanf() is on a row with nothing but the prompt.          *)
LEMMA Prompted ==
  ASSUME NEW t, Sound(t), Len(Prompt) < MONITOR_WIDTH
  PROVE  Upto(After(t, Tip), Prompt, Len(Prompt))
<1>1. /\ Prompt \in Seq(Printable) /\ Len(Prompt) \in Nat
      /\ Len(Tip) = Len(Prompt) + 1 /\ Tip[1] = NL
      /\ \A k \in 1..Len(Prompt) : Tip[k + 1] = Prompt[k] /\ Prompt[k] \in Printable
  <2>1. Prompt \in Seq(Printable)
    BY ShellAssumption
  <2>2. Prompt \in Seq(Printable \cup {NL}) /\ <<NL>> \in Seq(Printable \cup {NL})
    BY <2>1
  <2>3. Len(<<NL>>) = 1 /\ <<NL>>[1] = NL
    OBVIOUS
  <2> QED BY <2>1, <2>2, <2>3 DEF Tip
<1>2. PICK f : ShowsTo(f, t, Tip, Len(Tip)) /\ After(t, Tip) = f[Len(Tip)]
  BY <1>1, Printing
<1>3. /\ f[0] = t /\ f[1] = monitor_put(t, NL)
      /\ \A n \in 0..Len(Tip) : Sound(f[n])
      /\ \A n \in 1..Len(Prompt) : f[n + 1] = monitor_put(f[n], Prompt[n])
  <2>1. \A n \in 0..Len(Tip) : f[n] = IF n = 0 THEN t ELSE monitor_put(f[n - 1], Tip[n])
    BY <1>2 DEF ShowsTo
  <2>2. \A n \in 0..Len(Tip) : Sound(f[n])
    BY <1>2 DEF ShowsTo
  <2>3. ASSUME NEW n \in 1..Len(Prompt) PROVE f[n + 1] = monitor_put(f[n], Prompt[n])
    <3>1. n + 1 \in 0..Len(Tip) /\ n + 1 # 0 /\ (n + 1) - 1 = n
      BY <1>1
    <3>2. f[n + 1] = monitor_put(f[(n + 1) - 1], Tip[n + 1])
      BY <2>1, <3>1
    <3> QED BY <1>1, <3>1, <3>2
  <2>4. 0 \in 0..Len(Tip) /\ 1 \in 0..Len(Tip)
    BY <1>1
  <2>5. f[0] = t
    BY <2>1, <2>4
  <2>6. f[1] = monitor_put(f[1 - 1], Tip[1]) /\ 1 - 1 = 0
    BY <2>1, <2>4
  <2> QED BY <1>1, <2>2, <2>3, <2>5, <2>6
<1> DEFINE D == {k \in 0..Len(Prompt) : ~ Upto(f[k + 1], Prompt, k)}
<1>4. D = {}
  <2> SUFFICES ASSUME D # {} PROVE FALSE
    OBVIOUS
  <2>1. PICK m \in D : \A k \in D : m <= k
    <3>1. D \in SUBSET Nat
      OBVIOUS
    <3> HIDE DEF D
    <3> QED BY <3>1, LeastOf
  <2>2. m \in 0..Len(Prompt) /\ ~ Upto(f[m + 1], Prompt, m)
    OBVIOUS
  <2>3. CASE m = 0
    <3>1. Upto(f[1], Prompt, 0)
      BY <1>3, NewLine
    <3> QED BY <2>2, <2>3, <3>1
  <2>4. CASE m # 0
    <3>1. m - 1 \in 0..Len(Prompt) /\ ~(m <= m - 1) /\ m \in 1..Len(Prompt)
          /\ (m - 1) + 1 = m /\ m \in 0..Len(Tip)
      BY <1>1, <2>2, <2>4
    <3>2. Upto(f[m], Prompt, m - 1)
      BY <2>1, <3>1
    <3>3. PICK j \in Nat : j = m - 1 /\ j + 1 = m
      BY <3>1
    <3>4. j + 1 < MONITOR_WIDTH
      BY <1>1, <3>1, <3>3, MonitorAssumption
    <3>5. /\ Sound(f[m]) /\ Upto(f[m], Prompt, j) /\ Prompt[j + 1] \in Printable
          /\ f[m + 1] = monitor_put(f[m], Prompt[j + 1])
      BY <1>1, <1>3, <3>1, <3>2, <3>3
    <3>6. Upto(f[m + 1], Prompt, j + 1)
      BY <3>4, <3>5, Typing
    <3> QED BY <2>2, <3>3, <3>6
  <2> QED BY <2>3, <2>4
<1>5. Len(Prompt) \in 0..Len(Prompt)
  BY <1>1
<1> QED BY <1>1, <1>2, <1>4, <1>5

-----------------------------------------------------------------------------
(***************************************************************************)
(* Lines that are written over each other.                                 *)
(***************************************************************************)
Over(l, below) == l \o SubSeq(below, Len(l) + 1, Len(below))

(* Where the upper one ends the lower one goes on.                         *)
LEMMA OverIs ==
  ASSUME NEW S, NEW l \in Seq(S), NEW below \in Seq(S)
  PROVE  /\ Over(l, below) \in Seq(S)
         /\ Len(Over(l, below)) = IF Len(l) < Len(below) THEN Len(below) ELSE Len(l)
         /\ \A i \in 1..Len(Over(l, below)) :
              Over(l, below)[i] = IF i <= Len(l) THEN l[i] ELSE below[i]
<1> DEFINE a == Len(l)
           b == Len(below)
           tail == SubSeq(below, a + 1, b)
<1>1. a \in Nat /\ b \in Nat /\ a + 1 \in Int /\ b \in Int
  OBVIOUS
<1>2. \A i \in (a + 1)..b : below[i] \in S
  BY <1>1
<1>3. /\ tail \in Seq(S) /\ Len(tail) = IF a + 1 <= b THEN b - (a + 1) + 1 ELSE 0
      /\ \A i \in 1..(b - (a + 1) + 1) : tail[i] = below[(a + 1) + i - 1]
  BY <1>1, <1>2, SubSeqProperties
<1> HIDE DEF tail
<1>4. Over(l, below) = l \o tail
  BY DEF Over, tail
<1>5. /\ l \o tail \in Seq(S) /\ Len(l \o tail) = a + Len(tail)
      /\ \A i \in 1..(a + Len(tail)) : (l \o tail)[i] = IF i <= a THEN l[i] ELSE tail[i - a]
  BY <1>1, <1>3
<1>6. Len(l \o tail) = IF a < b THEN b ELSE a
  BY <1>1, <1>3, <1>5
<1>7. ASSUME NEW i \in 1..(a + Len(tail))
      PROVE  (l \o tail)[i] = IF i <= a THEN l[i] ELSE below[i]
  <2>1. CASE i <= a
    BY <1>5, <2>1
  <2>2. CASE ~(i <= a)
    <3>1. i - a \in 1..(b - (a + 1) + 1) /\ (a + 1) + (i - a) - 1 = i
      BY <1>1, <1>3, <2>2
    <3>2. tail[i - a] = below[i]
      BY <1>3, <3>1
    <3> QED BY <1>5, <2>2, <3>2
  <2> QED BY <2>1, <2>2
<1> QED BY <1>4, <1>5, <1>6, <1>7

\* The function that Overlaid is defined by.
Overlays(f, ls) ==
  f = [n \in 0..Len(ls) |-> IF n = 0 THEN <<>> ELSE Over(ls[n], f[n - 1])]

(* There is no other such function (by least difference).                  *)
LEMMA OverlaidIs ==
  ASSUME NEW ls, Len(ls) \in Nat, NEW f, Overlays(f, ls)
  PROVE  Overlaid(ls) = f[Len(ls)]
<1> DEFINE w == CHOOSE g : Overlays(g, ls)
<1>1. Overlays(w, ls)
  OBVIOUS
<1>2. Overlaid(ls) = w[Len(ls)]
  BY DEF Overlaid, Overlays, Over
<1> HIDE DEF w
<1> DEFINE D == {n \in 0..Len(ls) : w[n] # f[n]}
<1>3. D = {}
  <2> SUFFICES ASSUME D # {} PROVE FALSE
    OBVIOUS
  <2>1. PICK m \in D : \A k \in D : m <= k
    <3>1. D \in SUBSET Nat
      OBVIOUS
    <3> HIDE DEF D
    <3> QED BY <3>1, LeastOf
  <2>2. m \in 0..Len(ls) /\ w[m] # f[m]
    OBVIOUS
  <2>3. w[0] = <<>> /\ f[0] = <<>>
    BY <1>1 DEF Overlays
  <2>4. m - 1 \in 0..Len(ls) /\ ~(m <= m - 1)
    BY <2>2, <2>3
  <2>5. w[m - 1] = f[m - 1]
    BY <2>1, <2>4
  <2>6. w[m] = Over(ls[m], w[m - 1]) /\ f[m] = Over(ls[m], f[m - 1])
    BY <1>1, <2>2, <2>3 DEF Overlays
  <2> QED BY <2>2, <2>5, <2>6
<1>4. Len(ls) \in 0..Len(ls)
  OBVIOUS
<1> QED BY <1>2, <1>3, <1>4

\* The texts that lines make one after the other.
Layers(f, ls) == Overlays(f, ls) /\ \A n \in 0..Len(ls) : f[n] \in Seq(Chars)

(* One line more, and another last line.                                   *)
LEMMA Layered ==
  ASSUME NEW ls \in Seq(Seq(Chars)), NEW f, Layers(f, ls), NEW l \in Seq(Chars)
  PROVE  \E g : Layers(g, Append(ls, l)) /\ g[Len(ls) + 1] = Over(l, f[Len(ls)])
<1> DEFINE N == Len(ls)
           ms == Append(ls, l)
           g == [n \in 0..(N + 1) |-> IF n <= N THEN f[n] ELSE Over(l, f[N])]
<1>1. /\ N \in Nat /\ Len(ms) = N + 1 /\ ms[N + 1] = l
      /\ \A n \in 1..N : ms[n] = ls[n]
  OBVIOUS
<1>2. /\ \A n \in 0..N : f[n] = IF n = 0 THEN <<>> ELSE Over(ls[n], f[n - 1])
      /\ \A n \in 0..N : f[n] \in Seq(Chars)
  BY DEF Layers, Overlays
<1>3. Over(l, f[N]) \in Seq(Chars)
  BY <1>1, <1>2, OverIs
<1> HIDE DEF ms
<1>4. \A n \in 0..(N + 1) : g[n] = IF n = 0 THEN <<>> ELSE Over(ms[n], g[n - 1])
  <2> SUFFICES ASSUME NEW n \in 0..(N + 1)
               PROVE  g[n] = IF n = 0 THEN <<>> ELSE Over(ms[n], g[n - 1])
    OBVIOUS
  <2>1. CASE n <= N
    <3>1. g[n] = f[n] /\ n \in 0..N
      BY <1>1, <2>1
    <3>2. n # 0 => g[n - 1] = f[n - 1] /\ ms[n] = ls[n]
      BY <1>1, <2>1
    <3> QED BY <1>2, <3>1, <3>2
  <2>2. CASE ~(n <= N)
    <3>1. n = N + 1 /\ n # 0 /\ n - 1 = N
      BY <1>1, <2>2
    <3>2. g[N] = f[N] /\ g[n] = Over(l, f[N])
      BY <1>1, <3>1
    <3> QED BY <1>1, <3>1, <3>2
  <2> QED BY <2>1, <2>2
<1>5. \A n \in 0..(N + 1) : g[n] \in Seq(Chars)
  BY <1>1, <1>2, <1>3
<1>6. g[N + 1] = Over(l, f[N])
  BY <1>1
<1>7. g = [n \in 0..(N + 1) |-> g[n]]
  OBVIOUS
<1> HIDE DEF g
<1>8. Overlays(g, ms)
  BY <1>1, <1>4, <1>7 DEF Overlays
<1>9. Layers(g, ms)
  BY <1>1, <1>5, <1>8 DEF Layers
<1> QED BY <1>6, <1>9 DEF ms

(* Whatever the last line becomes, it lies over the same earlier lines.    *)
LEMMA Relayered ==
  ASSUME NEW ls \in Seq(Seq(Chars)), ls # <<>>, NEW f, Layers(f, ls), NEW l \in Seq(Chars)
  PROVE  /\ f[Len(ls)] = Over(ls[Len(ls)], f[Len(ls) - 1])
         /\ f[Len(ls) - 1] \in Seq(Chars)
         /\ \E g : /\ Layers(g, [ls EXCEPT ![Len(ls)] = l])
                   /\ g[Len(ls)] = Over(l, f[Len(ls) - 1])
<1> DEFINE N == Len(ls)
           ms == [ls EXCEPT ![N] = l]
           g == [n \in 0..N |-> IF n < N THEN f[n] ELSE Over(l, f[N - 1])]
<1>1. /\ N \in Nat \ {0} /\ Len(ms) = N /\ ms[N] = l
      /\ \A n \in 1..N : n < N => ms[n] = ls[n]
  OBVIOUS
<1>2. /\ \A n \in 0..N : f[n] = IF n = 0 THEN <<>> ELSE Over(ls[n], f[n - 1])
      /\ \A n \in 0..N : f[n] \in Seq(Chars)
  BY DEF Layers, Overlays
<1>3. f[N] = Over(ls[N], f[N - 1]) /\ f[N - 1] \in Seq(Chars)
  <2>1. N \in Nat \ {0}
    BY <1>1
  <2> HIDE DEF N
  <2>2. N \in 0..N /\ N - 1 \in 0..N /\ N # 0
    BY <2>1
  <2> QED BY <1>2, <2>2
<1>4. Over(l, f[N - 1]) \in Seq(Chars)
  BY <1>3, OverIs
<1> HIDE DEF ms
<1>5. \A n \in 0..N : g[n] = IF n = 0 THEN <<>> ELSE Over(ms[n], g[n - 1])
  <2> SUFFICES ASSUME NEW n \in 0..N
               PROVE  g[n] = IF n = 0 THEN <<>> ELSE Over(ms[n], g[n - 1])
    OBVIOUS
  <2>1. CASE n < N
    <3>1. g[n] = f[n]
      BY <2>1
    <3>2. n # 0 => g[n - 1] = f[n - 1] /\ ms[n] = ls[n]
      BY <1>1, <2>1
    <3> QED BY <1>2, <3>1, <3>2
  <2>2. CASE ~(n < N)
    <3>1. n = N /\ n # 0
      BY <1>1, <2>2
    <3>2. g[N - 1] = f[N - 1] /\ g[n] = Over(l, f[N - 1])
      BY <1>1, <3>1
    <3> QED BY <1>1, <3>1, <3>2
  <2> QED BY <2>1, <2>2
<1>6. \A n \in 0..N : g[n] \in Seq(Chars)
  BY <1>1, <1>2, <1>4
<1>7. g[N] = Over(l, f[N - 1]) /\ g = [n \in 0..N |-> g[n]]
  BY <1>1
<1> HIDE DEF g
<1>8. Overlays(g, ms)
  BY <1>1, <1>5, <1>7 DEF Overlays
<1>9. Layers(g, ms)
  BY <1>1, <1>6, <1>8 DEF Layers
<1> QED BY <1>3, <1>7, <1>9 DEF ms

\* The buffer is a text, and cleared behind it.
Holds(text) ==
  /\ Len(text) <= SIZE
  /\ \A i \in 1..SIZE : v[i] = IF i <= Len(text) THEN text[i] ELSE NUL

(* A character that is stored behind a line goes on with it.               *)
LEMMA Storing ==
  ASSUME NEW l \in Seq(Chars), NEW below \in Seq(Chars), NEW d \in Chars,
         v \in [1..SIZE -> Chars \cup {NUL}], Holds(Over(l, below)),
         Len(l) + 1 <= SIZE, v' = [v EXCEPT ![Len(l) + 1] = d]
  PROVE  Holds(Over(Append(l, d), below))'
<1> DEFINE m == Append(l, d)
           a == Over(l, below)
           b == Over(m, below)
<1>1. /\ m \in Seq(Chars) /\ Len(m) = Len(l) + 1 /\ m[Len(l) + 1] = d
      /\ \A i \in 1..Len(l) : m[i] = l[i]
      /\ Len(l) \in Nat /\ Len(below) \in Nat /\ SIZE \in Nat
  BY ShellAssumption
<1> HIDE DEF m
<1>2. /\ Len(a) = (IF Len(l) < Len(below) THEN Len(below) ELSE Len(l))
      /\ \A i \in 1..Len(a) : a[i] = IF i <= Len(l) THEN l[i] ELSE below[i]
  BY OverIs
<1>3. /\ Len(b) = (IF Len(m) < Len(below) THEN Len(below) ELSE Len(m))
      /\ \A i \in 1..Len(b) : b[i] = IF i <= Len(m) THEN m[i] ELSE below[i]
  BY <1>1, OverIs
<1>4. Len(a) <= SIZE /\ \A i \in 1..SIZE : v[i] = IF i <= Len(a) THEN a[i] ELSE NUL
  BY DEF Holds
<1> HIDE DEF a, b
<1>5. Len(b) <= SIZE
  BY <1>1, <1>2, <1>3, <1>4
<1>6. ASSUME NEW i \in 1..SIZE PROVE v'[i] = IF i <= Len(b) THEN b[i] ELSE NUL
  <2>1. v'[i] = IF i = Len(l) + 1 THEN d ELSE v[i]
    BY <1>1
  <2>2. CASE i = Len(l) + 1
    <3>1. i <= Len(b) /\ b[i] = d
      BY <1>1, <1>3, <2>2
    <3> QED BY <2>1, <2>2, <3>1
  <2>3. CASE i <= Len(l)
    <3>1. i <= Len(a) /\ a[i] = l[i] /\ i <= Len(b) /\ b[i] = l[i] /\ i # Len(l) + 1
      BY <1>1, <1>2, <1>3, <2>3
    <3> QED BY <1>4, <2>1, <3>1
  <2>4. CASE i > Len(l) + 1
    <3>1. (i <= Len(b)) = (i <= Len(below)) /\ (i <= Len(a)) = (i <= Len(below))
      BY <1>1, <1>2, <1>3, <2>4
    <3>2. i <= Len(below) => a[i] = below[i] /\ b[i] = below[i]
      BY <1>1, <1>2, <1>3, <2>4, <3>1
    <3>3. i # Len(l) + 1
      BY <1>1, <2>4
    <3> QED BY <1>4, <2>1, <3>1, <3>2, <3>3
  <2> QED BY <1>1, <2>2, <2>3, <2>4
<1>7. Holds(Over(Append(l, d), below))' <=>
        /\ Len(b) <= SIZE
        /\ \A i \in 1..SIZE : v'[i] = IF i <= Len(b) THEN b[i] ELSE NUL
  BY DEF Holds, b, m
<1> QED BY <1>5, <1>6, <1>7

(* What the parser finds in the buffer is what the text means: a missing   *)
(* character is NUL, which no test takes for one of its own.               *)
LEMMA Understood ==
  ASSUME v \in [1..SIZE -> Chars \cup {NUL}], NEW text \in Seq(Chars), Holds(text),
         Len(text) <= SIZE - 2
  PROVE  test_process = Meant(text)
<1>1. /\ SIZE \in Nat /\ SIZE > 6 /\ NUL \notin Chars /\ Len(text) \in Nat
      /\ \A i \in 1..Len(text) : text[i] \in Chars
  BY ShellAssumption
<1>2. \A i \in 1..SIZE : v[i] = IF i <= Len(text) THEN text[i] ELSE NUL
  BY DEF Holds
<1>3. \A i \in 1..SIZE : i <= Len(text) => v[i] = text[i]
  BY <1>2
<1>4. \A i \in 1..SIZE : v[i] = NUL <=> i > Len(text)
  BY <1>1, <1>2
<1>5. /\ DOMAIN Options = {"p", "t", "f"}
      /\ \A o \in {"p", "t", "f"} : NUL \notin Options[o]
      /\ NUL \notin Pids
  BY DEF Options, Pids, NUL
<1>6. Name = SubSeq(text, 6, Len(text))
  <2> DEFINE f == SubSeq(v, 6, 5 + CopyLength)
             nuls == {i \in DOMAIN f : f[i] = NUL}
             end == IF Len(text) < 5 THEN 1 ELSE Len(text) - 4
             rest == SubSeq(text, 6, Len(text))
  <2>1. CopyLength \in Nat /\ 5 + CopyLength = SIZE - 1 /\ CopyLength = SIZE - 6
    BY <1>1 DEF CopyLength
  <2>2. /\ f \in Seq(Chars \cup {NUL}) /\ Len(f) = SIZE - 6
        /\ \A i \in 1..(SIZE - 6) : f[i] = v[5 + i]
    <3>1. \A i \in 6..(5 + CopyLength) : v[i] \in Chars \cup {NUL}
      BY <1>1, <2>1
    <3>2. 6 \in Int /\ 5 + CopyLength \in Int
      BY <2>1
    <3>3. /\ f \in Seq(Chars \cup {NUL})
          /\ Len(f) = IF 6 <= 5 + CopyLength THEN (5 + CopyLength) - 6 + 1 ELSE 0
          /\ \A i \in 1..((5 + CopyLength) - 6 + 1) : f[i] = v[6 + i - 1]
      BY <3>1, <3>2, SubSeqProperties
    <3> HIDE DEF f
    <3>4. Len(f) = SIZE - 6 /\ (5 + CopyLength) - 6 + 1 = SIZE - 6
      BY <1>1, <2>1, <3>3
    <3>5. \A i \in 1..(SIZE - 6) : f[i] = v[6 + i - 1] /\ 6 + i - 1 = 5 + i
      BY <1>1, <3>3, <3>4
    <3> QED BY <3>3, <3>4, <3>5
  <2>3. end \in 1..(SIZE - 6) /\ \A i \in 1..(SIZE - 6) : 5 + i > Len(text) <=> end <= i
    BY <1>1
  <2> HIDE DEF f, end
  <2>4. \A i \in 1..(SIZE - 6) : f[i] = NUL <=> end <= i
    <3> SUFFICES ASSUME NEW i \in 1..(SIZE - 6) PROVE f[i] = NUL <=> end <= i
      OBVIOUS
    <3>1. 5 + i \in 1..SIZE
      BY <1>1
    <3> QED BY <1>4, <2>2, <2>3, <3>1
  <2>5. nuls = {i \in 1..(SIZE - 6) : end <= i}
    BY <2>2, <2>4
  <2>6. end \in nuls /\ \A j \in nuls : end <= j
    BY <2>3, <2>5
  <2>7. (CHOOSE i \in nuls : \A j \in nuls : i <= j) = end
    <3>1. \A i \in nuls : (\A j \in nuls : i <= j) => i = end
      BY <1>1, <2>3, <2>5, <2>6
    <3> HIDE DEF nuls
    <3> QED BY <2>6, <3>1
  <2>8. Name = SubSeq(f, 1, end - 1)
    <3>1. nuls # {}
      BY <2>6
    <3>2. Name = IF nuls = {} THEN Append(f, Unterminated)
                 ELSE SubSeq(f, 1, (CHOOSE i \in nuls : \A j \in nuls : i <= j) - 1)
      BY DEF Name, f
    <3> HIDE DEF nuls
    <3> QED BY <2>7, <3>1, <3>2
  <2>9. /\ SubSeq(f, 1, end - 1) \in Seq(Chars)
        /\ Len(SubSeq(f, 1, end - 1)) = end - 1
        /\ \A i \in 1..(end - 1) : SubSeq(f, 1, end - 1)[i] = text[5 + i]
    <3>1. ASSUME NEW i \in 1..(end - 1) PROVE f[i] = text[5 + i] /\ f[i] \in Chars
      <4>1. i \in 1..(SIZE - 6) /\ ~(end <= i) /\ ~(5 + i > Len(text)) /\ 5 + i \in 1..SIZE
            /\ 5 + i \in 1..Len(text)
        BY <1>1, <2>3
      <4> QED BY <1>1, <1>3, <2>2, <4>1
    <3>2. end - 1 \in Int /\ 1 \in Int /\ end \in Nat \ {0}
      BY <1>1, <2>3
    <3>3. /\ SubSeq(f, 1, end - 1) \in Seq(Chars)
          /\ Len(SubSeq(f, 1, end - 1)) = IF 1 <= end - 1 THEN (end - 1) - 1 + 1 ELSE 0
          /\ \A i \in 1..((end - 1) - 1 + 1) : SubSeq(f, 1, end - 1)[i] = f[1 + i - 1]
      BY <3>1, <3>2, SubSeqProperties
    <3> QED BY <3>1, <3>2, <3>3
  <2>10. /\ rest \in Seq(Chars) /\ Len(rest) = end - 1
         /\ \A i \in 1..(end - 1) : rest[i] = text[5 + i]
    <3>1. /\ rest \in Seq(Chars)
          /\ Len(rest) = IF 6 <= Len(text) THEN Len(text) - 6 + 1 ELSE 0
          /\ \A i \in 1..(Len(text) - 6 + 1) : rest[i] = text[6 + i - 1]
      BY <1>1, SubSeqProperties
    <3> HIDE DEF rest
    <3>2. Len(rest) = end - 1
      BY <1>1, <3>1 DEF end
    <3>3. \A i \in 1..(end - 1) : i \in 1..(Len(text) - 6 + 1) /\ 6 + i - 1 = 5 + i
      BY <1>1 DEF end
    <3> QED BY <3>1, <3>2, <3>3
  <2> HIDE DEF rest
  <2>11. SubSeq(f, 1, end - 1) = rest
    BY <2>9, <2>10, SeqEqual
  <2> QED BY <2>8, <2>11 DEF rest
<1>7. CASE Len(text) < 4
  <2>1. v[4] = NUL
    BY <1>1, <1>4, <1>7
  <2>2. test_process = Unknown
    BY <1>5, <2>1 DEF test_process
  <2> QED BY <1>7, <2>2 DEF Meant
<1>8. CASE ~(Len(text) < 4)
  <2>1. v[1] = text[1] /\ v[2] = text[2] /\ v[3] = text[3] /\ v[4] = text[4]
    BY <1>1, <1>3, <1>8
  <2>2. SubSeq(text, 2, 3) = <<SPACE, "-">> <=> text[2] = SPACE /\ text[3] = "-"
    <3> DEFINE two == SubSeq(text, 2, 3)
    <3>1. \A i \in 2..3 : text[i] \in Chars
      BY <1>1, <1>8
    <3>2. 2 \in Int /\ 3 \in Int
      OBVIOUS
    <3>3. /\ two \in Seq(Chars) /\ Len(two) = IF 2 <= 3 THEN 3 - 2 + 1 ELSE 0
          /\ \A i \in 1..(3 - 2 + 1) : two[i] = text[2 + i - 1]
      BY <3>1, <3>2, SubSeqProperties
    <3> HIDE DEF two
    <3>4. Len(two) = 2 /\ two[1] = text[2] /\ two[2] = text[3]
      BY <3>3
    <3>5. two = <<text[2], text[3]>>
      <4>1. <<text[2], text[3]>> \in Seq(Chars)
        BY <3>1
      <4>2. \A i \in 1..Len(two) : two[i] = <<text[2], text[3]>>[i]
        BY <3>4
      <4> QED BY <3>3, <3>4, <4>1, <4>2, SeqEqual
    <3> QED BY <3>5 DEF two
  <2>3. (\E d \in DOMAIN Options : text[1] = d) <=> text[1] \in DOMAIN Options
    OBVIOUS
  <2>4. v[6] \in Pids <=> Len(text) > 5 /\ text[6] \in Pids
    BY <1>1, <1>2, <1>5
  <2>5. Len(text) > 5 => v[6] = text[6]
    BY <1>1, <1>3
  <2> DEFINE c == text[1]
             o == text[4]
  <2>6. CASE ~(c \in DOMAIN Options /\ text[2] = SPACE /\ text[3] = "-" /\ o \in Options[c])
    <3>1. test_process = Unknown
      BY <2>1, <2>6 DEF test_process
    <3> QED BY <1>8, <2>2, <2>3, <2>6, <3>1 DEF Meant
  <2>7. CASE c \in DOMAIN Options /\ text[2] = SPACE /\ text[3] = "-" /\ o \in Options[c]
    <3>1. test_process =
            <<c, o, CASE c = "f" /\ o \in {"n", "d"} -> Name
                      [] c = "t" /\ o = "k" /\ v[6] \in Pids -> <<v[6]>>
                      [] OTHER -> <<>> >>
      BY <2>1, <2>7 DEF test_process
    <3>2. Meant(text) =
            IF c = "f" /\ o \in {"n", "d"} THEN <<c, o, SubSeq(text, 6, Len(text))>>
            ELSE IF c = "t" /\ o = "k" /\ Len(text) > 5 /\ text[6] \in Pids THEN <<c, o, <<text[6]>> >>
            ELSE <<c, o, <<>> >>
      BY <1>8, <2>2, <2>3, <2>7 DEF Meant
    <3> HIDE DEF c, o
    <3>3. CASE c = "f" /\ o \in {"n", "d"}
      BY <1>6, <3>1, <3>2, <3>3
    <3>4. CASE c = "t" /\ o = "k" /\ Len(text) > 5 /\ text[6] \in Pids
      BY <2>4, <2>5, <3>1, <3>2, <3>4
    <3>5. CASE ~(c = "f" /\ o \in {"n", "d"})
               /\ ~(c = "t" /\ o = "k" /\ Len(text) > 5 /\ text[6] \in Pids)
      BY <2>4, <3>1, <3>2, <3>5
    <3> QED BY <3>3, <3>4, <3>5
  <2> QED BY <2>6, <2>7
<1> QED BY <1>7, <1>8

\* The row of the cursor is the prompt and a line, if that has room in it.
RowShows(t, l) ==
  LET typed == Prompt \o l
  IN  Len(typed) < MONITOR_WIDTH /\ (\A i \in DOMAIN typed : typed[i] \in Printable)
      => Upto(t, typed, Len(typed))

(***************************************************************************)
(* The loop's invariant. CommandAsTyped needs what is in v (Layers, Holds) *)
(* and where the next character goes, and ShownIsTyped that the next row   *)
(* is blank (Sound) and where the cursor is (Upto).                        *)
(***************************************************************************)
ShellInv ==
  /\ Sound(screen) /\ ShellTypeOK
  /\ stage = "read" =>
       lines # <<>> /\ t_v = Len(Last(lines)) + 1 /\ RowShows(screen, Last(lines))
  /\ stage # "overrun" => \E f : Layers(f, lines) /\ Holds(f[Len(lines)])
  /\ stage = "finish" => command = test_process

(* The loop begins with a cleared buffer.                                  *)
LEMMA ShellBegins == ShellInit => ShellInv
<1> SUFFICES ASSUME ShellInit PROVE ShellInv
  OBVIOUS
<1>1. PICK out \in Seq(Chars) : screen = After(Cleared, out \o <<NL>>)
  BY ShellAssumption DEF ShellInit
<1>2. Sound(screen)
  <2>1. Len(out \o <<NL>>) \in Nat
    <3>1. out \in Seq(Chars \cup {NL}) /\ <<NL>> \in Seq(Chars \cup {NL})
      OBVIOUS
    <3> QED BY <3>1
  <2> QED BY <1>1, <2>1, Clearing, PrintedIsSound
<1>3. /\ stage = "prompt" /\ v = Zero /\ t_v = 1 /\ command = Unknown /\ lines = <<>>
      /\ SIZE \in Nat /\ SIZE > 6 /\ MaxLines \in Nat
  BY ShellAssumption DEF ShellInit
<1>4. ShellTypeOK
  BY <1>2, <1>3 DEF ShellTypeOK, ScreenOK, Sound, Zero
<1>5. Layers([n \in 0..0 |-> <<>>], lines) /\ Holds(<<>>)
  <2>1. Len(lines) = 0
    BY <1>3
  <2>2. Layers([n \in 0..0 |-> <<>>], lines)
    BY <2>1 DEF Layers, Overlays
  <2>3. Holds(<<>>)
    BY <1>3 DEF Holds, Zero
  <2> QED BY <2>2, <2>3
<1>6. [n \in 0..0 |-> <<>>][Len(lines)] = <<>>
  BY <1>3
<1> QED BY <1>2, <1>3, <1>4, <1>5, <1>6 DEF ShellInv

(* scanf() begins a line on a row that shows nothing but the prompt.       *)
LEMMA ScanfStep == ASSUME ShellInv, scanf PROVE ShellInv'
<1>1. /\ screen' = After(screen, Tip) /\ t_v' = 1 /\ stage' = "read" /\ stage = "prompt"
      /\ lines' = Append(lines, <<>>) /\ v' = v /\ command' = command
      /\ Len(lines) < MaxLines
  BY DEF scanf, print
<1>2. /\ Sound(screen) /\ lines \in Seq(Seq(Chars)) /\ v \in [1..SIZE -> Chars \cup {NUL}]
      /\ command # Unknown => command[2] \in Options[command[1]]
      /\ SIZE \in Nat /\ MaxLines \in Nat /\ Prompt \in Seq(Printable)
  BY ShellAssumption DEF ShellInv, ShellTypeOK
<1>3. Sound(screen')
  <2>1. Len(Tip) \in Nat
    <3>1. Prompt \in Seq(Printable \cup {NL}) /\ <<NL>> \in Seq(Printable \cup {NL})
      BY <1>2
    <3> QED BY <3>1 DEF Tip
  <2> QED BY <1>1, <1>2, <2>1, PrintedIsSound
<1>4. /\ lines' \in Seq(Seq(Chars)) /\ Len(lines') = Len(lines) + 1 /\ lines' # <<>>
      /\ lines'[Len(lines) + 1] = <<>> /\ Len(lines) \in Nat
  <2>3. <<>> \in Seq(Chars)
    OBVIOUS
  <2>1. PICK e \in Seq(Chars) : e = <<>>
    BY <2>3
  <2>2. /\ Append(lines, e) \in Seq(Seq(Chars)) /\ Len(Append(lines, e)) = Len(lines) + 1
        /\ Append(lines, e)[Len(lines) + 1] = e /\ Len(lines) \in Nat
    BY <1>2
  <2> QED BY <1>1, <2>1, <2>2
<1>5. Last(lines') = <<>>
  BY <1>4 DEF Last
<1>6. ShellTypeOK'
  <2>1. ScreenOK'
    BY <1>3 DEF Sound, ScreenOK
  <2> QED BY <1>1, <1>2, <1>4, <2>1 DEF ShellTypeOK
<1>7. RowShows(screen', <<>>)
  <2>1. Prompt \o <<>> = Prompt
    BY <1>2
  <2> QED BY <1>1, <1>2, <2>1, Prompted DEF RowShows
<1>8. (\E f : Layers(f, lines) /\ Holds(f[Len(lines)]))'
  <2>1. PICK f : Layers(f, lines) /\ Holds(f[Len(lines)])
    BY <1>1 DEF ShellInv
  <2>2. PICK g : Layers(g, lines') /\ g[Len(lines')] = Over(<<>>, f[Len(lines)])
    <3>1. <<>> \in Seq(Chars)
      OBVIOUS
    <3> QED BY <1>1, <1>2, <1>4, <2>1, <3>1, Layered
  <2>3. PICK below \in Seq(Chars) : below = f[Len(lines)]
    <3>1. Len(lines) \in 0..Len(lines)
      BY <1>4
    <3> QED BY <2>1, <3>1 DEF Layers
  <2>4. /\ Len(Over(<<>>, below)) = Len(below)
        /\ \A i \in 1..Len(below) : Over(<<>>, below)[i] = below[i]
    <3>1. <<>> \in Seq(Chars) /\ Len(<<>>) = 0 /\ Len(below) \in Nat
      OBVIOUS
    <3>2. /\ Len(Over(<<>>, below)) = IF 0 < Len(below) THEN Len(below) ELSE 0
          /\ \A i \in 1..Len(Over(<<>>, below)) :
               Over(<<>>, below)[i] = IF i <= 0 THEN <<>>[i] ELSE below[i]
      BY <3>1, OverIs
    <3> QED BY <3>1, <3>2
  <2>5. PICK text : text = Over(<<>>, below)
    OBVIOUS
  <2>6. Holds(text)'
    BY <1>1, <1>2, <2>1, <2>3, <2>4, <2>5 DEF Holds
  <2>7. Layers(g, lines)' /\ g[Len(lines')] = text
    BY <2>2, <2>3, <2>5 DEF Layers, Overlays
  <2> QED BY <2>6, <2>7
<1>9. Sound(screen)'
  BY <1>3 DEF Sound, BlankBelow, RowOf
<1>10. RowShows(screen, Last(lines))'
  BY <1>5, <1>7 DEF RowShows, Upto, RowOf
<1>11. (Last(lines))' = <<>> /\ Len(<<>>) = 0
  BY <1>5
<1> QED BY <1>1, <1>4, <1>6, <1>8, <1>9, <1>10, <1>11 DEF ShellInv

(* What the user types next is a character of the source's.                *)
LEMMA NextTyped ==
  ASSUME NEW q \in Seq(Chars), NEW l \in Lines, IsStrictPrefix(q, l)
  PROVE  l[Len(q) + 1] \in Chars
<1>1. l \in Seq(Chars) /\ Len(l) \in Nat /\ Len(q) \in Nat
  <2>1. l \in Seq(Chars \ {NL})
    BY ShellAssumption
  <2>2. l \in Seq(Chars)
    BY <2>1
  <2> QED BY <2>2
<1>2. Len(q) <= Len(l) /\ SubSeq(q, 1, Len(q)) = SubSeq(l, 1, Len(q)) /\ q # l
  BY DEF IsStrictPrefix, IsPrefix
<1>3. Len(q) # Len(l)
  <2> SUFFICES ASSUME Len(q) = Len(l) PROVE FALSE
    OBVIOUS
  <2>1. /\ \A i \in 1..Len(q) : q[i] \in Chars /\ l[i] \in Chars
        /\ 1 \in Int /\ Len(q) \in Int
    BY <1>1
  <2>2. \A i \in 1..(Len(q) - 1 + 1) : SubSeq(q, 1, Len(q))[i] = q[1 + i - 1]
    BY <2>1, SubSeqProperties
  <2>3. \A i \in 1..(Len(q) - 1 + 1) : SubSeq(l, 1, Len(q))[i] = l[1 + i - 1]
    BY <2>1, SubSeqProperties
  <2>4. \A i \in 1..Len(q) : q[i] = l[i]
    <3> SUFFICES ASSUME NEW i \in 1..Len(q) PROVE q[i] = l[i]
      OBVIOUS
    <3>1. i \in 1..(Len(q) - 1 + 1) /\ 1 + i - 1 = i
      BY <1>1
    <3> QED BY <1>2, <2>2, <2>3, <3>1
  <2> QED BY <1>1, <1>2, <2>4, SeqEqual
<1>4. Len(q) + 1 \in 1..Len(l)
  BY <1>1, <1>2, <1>3
<1> QED BY <1>1, <1>4

(* A typed character goes behind what is shown of the line.                *)
LEMMA RowGoesOn ==
  ASSUME NEW t, Sound(t), NEW l \in Seq(Chars), NEW d \in Chars, RowShows(t, l)
  PROVE  RowShows(monitor_put(t, d), Append(l, d))
<1> DEFINE p == Prompt \o l
           q == Prompt \o Append(l, d)
<1>1. /\ Len(p) \in Nat /\ Len(q) = Len(p) + 1 /\ q[Len(p) + 1] = d
      /\ \A i \in 1..Len(p) : q[i] = p[i]
      /\ DOMAIN p = 1..Len(p) /\ DOMAIN q = 1..Len(q)
  <2>1. Prompt \in Seq(Printable)
    BY ShellAssumption
  <2>2. Prompt \in Seq(Chars)
    BY <2>1 DEF Chars
  <2>3. /\ Append(l, d) \in Seq(Chars) /\ Len(Append(l, d)) = Len(l) + 1
        /\ Append(l, d)[Len(l) + 1] = d /\ \A i \in 1..Len(l) : Append(l, d)[i] = l[i]
        /\ Len(l) \in Nat /\ Len(Prompt) \in Nat
    BY <2>2
  <2>4. PICK m \in Seq(Chars) : m = Append(l, d)
    BY <2>3
  <2>5. /\ Len(p) = Len(Prompt) + Len(l) /\ Len(Prompt \o m) = Len(Prompt) + Len(m)
        /\ \A i \in 1..(Len(Prompt) + Len(l)) :
             p[i] = IF i <= Len(Prompt) THEN Prompt[i] ELSE l[i - Len(Prompt)]
        /\ \A i \in 1..(Len(Prompt) + Len(m)) :
             (Prompt \o m)[i] = IF i <= Len(Prompt) THEN Prompt[i] ELSE m[i - Len(Prompt)]
        /\ DOMAIN p = 1..Len(p) /\ DOMAIN (Prompt \o m) = 1..Len(Prompt \o m)
    BY <2>2
  <2>6. q = Prompt \o m
    BY <2>4
  <2> HIDE DEF p, q
  <2>7. Len(q) = Len(p) + 1 /\ Len(p) \in Nat
    BY <2>3, <2>4, <2>5, <2>6
  <2>8. q[Len(p) + 1] = d
    BY <2>3, <2>4, <2>5, <2>6
  <2>9. ASSUME NEW i \in 1..Len(p) PROVE q[i] = p[i]
    <3>1. CASE i <= Len(Prompt)
      BY <2>3, <2>4, <2>5, <2>6, <3>1
    <3>2. CASE ~(i <= Len(Prompt))
      <4>1. i - Len(Prompt) \in 1..Len(l)
        BY <2>3, <2>5, <3>2
      <4>2. m[i - Len(Prompt)] = l[i - Len(Prompt)]
        BY <2>3, <2>4, <4>1
      <4>3. i \in 1..(Len(Prompt) + Len(m)) /\ i \in 1..(Len(Prompt) + Len(l))
        BY <2>3, <2>4, <2>5
      <4> QED BY <2>5, <2>6, <3>2, <4>2, <4>3
    <3> QED BY <3>1, <3>2
  <2> QED BY <2>5, <2>6, <2>7, <2>8, <2>9
<1> HIDE DEF p, q
<1>2. SUFFICES ASSUME Len(q) < MONITOR_WIDTH, \A i \in DOMAIN q : q[i] \in Printable
               PROVE  Upto(monitor_put(t, d), q, Len(q))
  BY DEF RowShows, q
<1>3. Len(p) < MONITOR_WIDTH /\ MONITOR_WIDTH \in Nat
  BY <1>1, <1>2, MonitorAssumption
<1>4. \A i \in DOMAIN p : p[i] \in Printable
  BY <1>1, <1>2
<1>5. Upto(t, p, Len(p))
  BY <1>3, <1>4 DEF RowShows, p
<1>6. Upto(t, q, Len(p))
  <2>1. \A x \in 0..(MONITOR_WIDTH - 1) :
          (IF x < Len(p) THEN p[x + 1] ELSE SPACE) = IF x < Len(p) THEN q[x + 1] ELSE SPACE
    BY <1>1, <1>3
  <2> QED BY <1>5, <2>1 DEF Upto
<1>7. q[Len(p) + 1] = d /\ d \in Printable /\ Len(p) + 1 < MONITOR_WIDTH
  BY <1>1, <1>2
<1>8. Upto(monitor_put(t, d), q, Len(p) + 1)
  BY <1>1, <1>6, <1>7, Typing
<1> QED BY <1>1, <1>8

(* A character is echoed, stored and part of the line.                     *)
LEMMA KeyStep == ASSUME ShellInv, key PROVE ShellInv'
<1>1. /\ Sound(screen) /\ lines \in Seq(Seq(Chars)) /\ v \in [1..SIZE -> Chars \cup {NUL}]
      /\ t_v \in 1..(SIZE + 1) /\ Len(lines) <= MaxLines
      /\ command # Unknown => command[2] \in Options[command[1]]
      /\ SIZE \in Nat /\ MaxLines \in Nat
  BY ShellAssumption DEF ShellInv, ShellTypeOK
<1>2. stage = "read" /\ lines # <<>> /\ t_v = Len(Last(lines)) + 1
      /\ RowShows(screen, Last(lines))
  BY DEF ShellInv, key
<1> DEFINE N == Len(lines)
<1>3. N \in Nat \ {0} /\ Last(lines) = lines[N] /\ lines[N] \in Seq(Chars)
  BY <1>1, <1>2 DEF Last
<1>4. PICK l \in Seq(Chars) : l = lines[N]
  BY <1>3
<1>5. PICK d \in Chars :
        /\ screen' = After(screen, <<d>>)
        /\ lines' = [lines EXCEPT ![N] = Append(@, d)]
        /\ IF t_v > SIZE THEN stage' = "overrun" /\ UNCHANGED <<v, t_v>>
           ELSE v' = [v EXCEPT ![t_v] = d] /\ t_v' = t_v + 1 /\ stage' = stage
        /\ command' = command
  <2>1. PICK m \in Lines : /\ IsStrictPrefix(l, m)
                           /\ screen' = After(screen, <<m[Len(l) + 1]>>)
                           /\ lines' = [lines EXCEPT ![N] = Append(@, m[Len(l) + 1])]
                           /\ IF t_v > SIZE THEN stage' = "overrun" /\ UNCHANGED <<v, t_v>>
                              ELSE /\ v' = [v EXCEPT ![t_v] = m[Len(l) + 1]]
                                   /\ t_v' = t_v + 1 /\ stage' = stage
                           /\ command' = command
    BY <1>3, <1>4 DEF key, print
  <2>2. m[Len(l) + 1] \in Chars
    BY <2>1, NextTyped
  <2> QED BY <2>1, <2>2
<1>6. screen' = monitor_put(screen, d)
  BY <1>1, <1>5, OneCharacter
<1>7. Sound(screen') /\ RowShows(screen', Append(l, d))
  BY <1>1, <1>2, <1>3, <1>4, <1>6, Putting, RowGoesOn
<1>8. PICK m \in Seq(Chars) : m = Append(l, d) /\ Len(m) = Len(l) + 1 /\ Len(l) \in Nat
  <2>1. /\ Append(l, d) \in Seq(Chars) /\ Len(Append(l, d)) = Len(l) + 1
        /\ Len(l) \in Nat
    OBVIOUS
  <2> QED BY <2>1
<1>9. lines' = [lines EXCEPT ![N] = m]
  BY <1>3, <1>4, <1>5, <1>8
<1>10. lines' \in Seq(Seq(Chars)) /\ Len(lines') = N /\ lines' # <<>> /\ lines'[N] = m
  <2>1. N \in 1..Len(lines)
    BY <1>3
  <2> QED BY <1>1, <1>2, <1>9, <2>1
<1>11. Last(lines') = m
  BY <1>10 DEF Last
<1>12. Sound(screen)' /\ RowShows(screen, Last(lines))'
  BY <1>7, <1>8, <1>11 DEF Sound, BlankBelow, RowOf, RowShows, Upto
<1>13. CASE t_v > SIZE
  <2>1. stage' = "overrun" /\ v' = v /\ t_v' = t_v
    BY <1>5, <1>13
  <2>2. ScreenOK'
    BY <1>7 DEF Sound, ScreenOK
  <2>3. ShellTypeOK'
    BY <1>1, <1>5, <1>10, <2>1, <2>2 DEF ShellTypeOK
  <2> QED BY <1>12, <2>1, <2>3 DEF ShellInv
<1>14. CASE ~(t_v > SIZE)
  <2>1. stage' = "read" /\ v' = [v EXCEPT ![t_v] = d] /\ t_v' = t_v + 1 /\ t_v = Len(l) + 1
    BY <1>2, <1>3, <1>4, <1>5, <1>14
  <2>2. ScreenOK'
    BY <1>7 DEF Sound, ScreenOK
  <2>3. v' \in [1..SIZE -> Chars \cup {NUL}] /\ t_v' \in 1..(SIZE + 1)
    BY <1>1, <1>14, <2>1
  <2>4. ShellTypeOK'
    BY <1>1, <1>5, <1>10, <2>1, <2>2, <2>3 DEF ShellTypeOK
  <2>5. PICK f : Layers(f, lines) /\ Holds(f[N])
    BY <1>2 DEF ShellInv
  <2>6. PICK g : Layers(g, lines') /\ g[N] = Over(m, f[N - 1])
    BY <1>1, <1>2, <1>9, <2>5, Relayered
  <2>7. f[N] = Over(l, f[N - 1]) /\ f[N - 1] \in Seq(Chars)
    BY <1>1, <1>2, <1>4, <1>8, <2>5, Relayered
  <2>8. PICK below \in Seq(Chars) : below = f[N - 1]
    BY <2>7
  <2>9. Holds(Over(l, below)) /\ Len(l) + 1 <= SIZE /\ v' = [v EXCEPT ![Len(l) + 1] = d]
    BY <1>1, <1>8, <1>14, <2>1, <2>5, <2>7, <2>8
  <2>10. Holds(Over(Append(l, d), below))'
    BY <1>1, <2>9, Storing
  <2>11. PICK text : text = Over(Append(l, d), below) /\ text = g[N]
    BY <1>8, <2>6, <2>8
  <2>12. Holds(text)'
    BY <2>10, <2>11 DEF Holds, Over
  <2>13. Layers(g, lines)' /\ g[Len(lines')] = text
    BY <1>10, <2>6, <2>11 DEF Layers, Overlays
  <2>14. (\E h : Layers(h, lines) /\ Holds(h[Len(lines)]))'
    BY <2>12, <2>13
  <2>15. t_v' = Len(Last(lines)') + 1
    BY <1>8, <1>11, <2>1
  <2> QED BY <1>10, <1>12, <2>1, <2>4, <2>14, <2>15 DEF ShellInv
<1> QED BY <1>13, <1>14

(* Enter leaves the buffer to the parser, which knows its own commands.    *)
LEMMA EnterStep == ASSUME ShellInv, enter PROVE ShellInv'
<1>1. /\ stage = "read" /\ command' = test_process /\ stage' = "finish"
      /\ v' = v /\ t_v' = t_v /\ lines' = lines
  BY DEF enter
<1>2. Sound(screen')
  <2>1. PICK out \in Seq(Chars) : screen' = After(screen, <<NL>> \o out)
    BY ShellAssumption DEF enter, print
  <2>2. Len(<<NL>> \o out) \in Nat
    <3>1. out \in Seq(Chars \cup {NL}) /\ <<NL>> \in Seq(Chars \cup {NL})
      OBVIOUS
    <3> QED BY <3>1
  <2> QED BY <2>1, <2>2, PrintedIsSound DEF ShellInv
<1>3. test_process # Unknown => test_process[2] \in Options[test_process[1]]
  BY DEF test_process
<1>4. test_process' = test_process
  BY <1>1 DEF test_process, Name
<1>5. ScreenOK' /\ Sound(screen)'
  BY <1>2 DEF Sound, BlankBelow, RowOf, ScreenOK
<1>6. ShellTypeOK'
  BY <1>1, <1>3, <1>5 DEF ShellInv, ShellTypeOK
<1>7. (\E f : Layers(f, lines) /\ Holds(f[Len(lines)]))'
  BY <1>1 DEF ShellInv, Layers, Overlays, Holds
<1> QED BY <1>1, <1>4, <1>5, <1>6, <1>7 DEF ShellInv

(* After a known command the buffer is cleared, and after another it stays.*)
LEMMA KnownStep == ASSUME ShellInv, known PROVE ShellInv'
<1>1. /\ v' = Zero /\ lines' = <<>> /\ stage' = "prompt" /\ screen' = screen
      /\ t_v' = t_v /\ command' = command /\ SIZE \in Nat /\ MaxLines \in Nat
  BY ShellAssumption DEF known, MemSet
<1>2. ShellTypeOK'
  BY <1>1 DEF ShellInv, ShellTypeOK, ScreenOK, Zero
<1>3. Sound(screen)'
  BY <1>1 DEF ShellInv, Sound, BlankBelow, RowOf
<1>4. PICK f : f = [n \in 0..0 |-> <<>>]
  OBVIOUS
<1>5. Layers(f, lines)' /\ f[Len(lines')] = <<>>
  <2>1. Len(lines') = 0
    BY <1>1
  <2> QED BY <1>4, <2>1 DEF Layers, Overlays
<1>6. Holds(<<>>)'
  BY <1>1 DEF Holds, Zero
<1> QED BY <1>1, <1>2, <1>3, <1>5, <1>6 DEF ShellInv

(* What is printed after an unknown line changes only the screen.          *)
LEMMA UnknownStep == ASSUME ShellInv, unknown PROVE ShellInv'
<1>1. /\ stage = "finish" /\ stage' = "prompt"
      /\ v' = v /\ t_v' = t_v /\ lines' = lines /\ command' = command
  BY DEF unknown
<1>2. Sound(screen')
  <2>1. PICK out \in Seq(Chars) : screen' = After(screen, out)
    BY ShellAssumption DEF unknown, print
  <2>2. Len(out) \in Nat
    OBVIOUS
  <2> QED BY <2>1, <2>2, PrintedIsSound DEF ShellInv
<1>3. ScreenOK' /\ Sound(screen)'
  BY <1>2 DEF Sound, BlankBelow, RowOf, ScreenOK
<1>4. ShellTypeOK'
  BY <1>1, <1>3 DEF ShellInv, ShellTypeOK
<1>5. (\E f : Layers(f, lines) /\ Holds(f[Len(lines)]))'
  BY <1>1 DEF ShellInv, Layers, Overlays, Holds
<1> QED BY <1>1, <1>3, <1>4, <1>5 DEF ShellInv

(* A step of nothing changes nothing.                                      *)
LEMMA ShellStutters == ASSUME ShellInv, UNCHANGED svars PROVE ShellInv'
<1>1. /\ screen' = screen /\ stage' = stage /\ v' = v /\ t_v' = t_v
      /\ command' = command /\ lines' = lines
  BY DEF svars
<1>2. ShellTypeOK' /\ Sound(screen)'
  BY <1>1 DEF ShellInv, ShellTypeOK, ScreenOK, Sound, BlankBelow, RowOf
<1>3. RowShows(screen, Last(lines))' <=> RowShows(screen, Last(lines))
  BY <1>1 DEF RowShows, Upto, RowOf, Last
<1>4. (\E f : Layers(f, lines) /\ Holds(f[Len(lines)]))'
        <=> \E f : Layers(f, lines) /\ Holds(f[Len(lines)])
  BY <1>1 DEF Layers, Overlays, Holds
<1>5. test_process' = test_process /\ Last(lines)' = Last(lines)
  BY <1>1 DEF test_process, Name, Last
<1> QED BY <1>1, <1>2, <1>3, <1>4, <1>5 DEF ShellInv

(* The invariant of the shell's loop.                                      *)
LEMMA ShellInvariant == ShellSpec => []ShellInv
<1>1. ShellInit => ShellInv
  BY ShellBegins
<1>2. ShellInv /\ [ShellNext]_svars => ShellInv'
  BY ScanfStep, KeyStep, EnterStep, KnownStep, UnknownStep, ShellStutters DEF ShellNext
<1> QED BY <1>1, <1>2, PTL DEF ShellSpec

(* Whatever is typed and printed, the screen, scanf()'s pointer and the    *)
(* buffer keep their types up to the line that leaves it, and no command   *)
(* runs but with an option of its own (scanf, test_process).               *)
THEOREM ShellTypeCorrectness == ShellSpec => []ShellTypeOK
<1>1. ShellInv => ShellTypeOK
  BY DEF ShellInv
<1> QED BY <1>1, ShellInvariant, PTL

(* The command that runs is what was typed, over what unknown lines since  *)
(* the last known one left: for a buffer of any size and any lines (scanf, *)
(* memcpy, memset).                                                        *)
THEOREM CommandsAsTyped == ShellSpec => []CommandAsTyped
<1>1. ShellInv => CommandAsTyped
  <2> SUFFICES ASSUME ShellInv, stage = "finish", Len(Overlaid(lines)) <= SIZE - 2
               PROVE  command = Meant(Overlaid(lines))
    BY DEF CommandAsTyped
  <2>1. lines \in Seq(Seq(Chars)) /\ v \in [1..SIZE -> Chars \cup {NUL}]
    BY DEF ShellInv, ShellTypeOK
  <2>2. PICK f : Layers(f, lines) /\ Holds(f[Len(lines)])
    BY DEF ShellInv
  <2>3. Len(lines) \in Nat /\ Len(lines) \in 0..Len(lines)
    BY <2>1
  <2>4. Overlaid(lines) = f[Len(lines)] /\ f[Len(lines)] \in Seq(Chars)
    BY <2>2, <2>3, OverlaidIs DEF Layers
  <2>5. test_process = Meant(Overlaid(lines))
    BY <2>1, <2>2, <2>4, Understood
  <2> QED BY <2>5 DEF ShellInv
<1> QED BY <1>1, ShellInvariant, PTL

(* The row of the cursor is the prompt and the line that is being typed:   *)
(* whatever was printed before, on a screen of any size (scanf).           *)
THEOREM LinesAsShown == ShellSpec => []ShownIsTyped
<1>1. ShellInv => ShownIsTyped
  BY DEF ShellInv, ShownIsTyped, RowShows, Upto, Row, RowOf
<1> QED BY <1>1, ShellInvariant, PTL
=============================================================================
