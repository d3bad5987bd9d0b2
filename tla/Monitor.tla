------------------------------- MODULE Monitor ------------------------------
(***************************************************************************)
(* monitor.c: the text screen at 0xb8000 and its cursor.  A cell is its    *)
(* character; the attribute and the position that move_cursor() sends to   *)
(* the video controller follow from the rest and are left out.             *)
(***************************************************************************)
EXTENDS Naturals, Sequences

CONSTANTS MONITOR_WIDTH, MONITOR_HEIGTH,  \* 80 and 25 in the source
          Glyphs                          \* the characters >= ' ' but ' '

SPACE == " "
BS    == "BS"     \* 0x08
TAB   == "TAB"
CR    == "CR"
NL    == "NL"
INERT == "INERT"  \* any other character below ' ', char being signed

\* The cursor is two uint8, and goes up to four past the edge.
ASSUME MonitorAssumption ==
  /\ MONITOR_WIDTH \in 1..252 /\ MONITOR_HEIGTH \in 1..255
  /\ Glyphs \cap {SPACE, BS, TAB, CR, NL, INERT} = {}

Printable == Glyphs \cup {SPACE}
Chars     == Printable \cup {BS, TAB, CR, NL, INERT}
Locations == 0..(MONITOR_WIDTH * MONITOR_HEIGTH - 1)

VARIABLE screen   \* video_memory, cursor_x and cursor_y

Screens ==
  [video_memory : [Locations -> Printable],
   cursor_x : 0..(MONITOR_WIDTH - 1), cursor_y : 0..(MONITOR_HEIGTH - 1)]

ScreenOK == screen \in Screens

\* monitor_clear(), which main() calls first.
Cleared == [video_memory |-> [l \in Locations |-> SPACE], cursor_x |-> 0, cursor_y |-> 0]

-----------------------------------------------------------------------------
NextStop(x) == x + 4 - (x % 4)   \* (x + 4) & ~(4 - 1)

Drawn(video, x, y) == [video_memory |-> video, cursor_x |-> x, cursor_y |-> y]
MoveTo(s, x, y)    == Drawn(s.video_memory, x, y)

Written(s, c) ==
  [s.video_memory EXCEPT ![s.cursor_y * MONITOR_WIDTH + s.cursor_x] = c]

\* What the character itself does; x and y may leave the screen.
Applied(s, c) ==
  LET x == s.cursor_x
      y == s.cursor_y
  IN  CASE c = BS /\ x > 0    -> MoveTo(s, x - 1, y)
        [] c = TAB            -> MoveTo(s, NextStop(x), y)
        [] c = CR             -> MoveTo(s, 0, y)
        [] c = NL             -> MoveTo(s, 0, y + 1)
        [] c \in Printable    -> Drawn(Written(s, c), x + 1, y)
        [] OTHER              -> s

MutNoWrap(s) == s
Wrapped(s) ==
  IF s.cursor_x >= MONITOR_WIDTH THEN MoveTo(s, 0, s.cursor_y + 1) ELSE s

\* All rows move up by one and the last one is blanked.
MutLastRowStays(l, video) ==
  IF l < (MONITOR_HEIGTH - 1) * MONITOR_WIDTH THEN video[l + MONITOR_WIDTH] ELSE video[l]
MovedUp(l, video) ==
  IF l < (MONITOR_HEIGTH - 1) * MONITOR_WIDTH THEN video[l + MONITOR_WIDTH] ELSE SPACE

scroll(s) ==
  IF s.cursor_y >= MONITOR_HEIGTH
  THEN Drawn([l \in Locations |-> MovedUp(l, s.video_memory)],
             s.cursor_x, MONITOR_HEIGTH - 1)
  ELSE s

monitor_put(s, c) == scroll(Wrapped(Applied(s, c)))

-----------------------------------------------------------------------------
MonitorInit == screen = Cleared
MonitorNext == \E c \in Chars : screen' = monitor_put(screen, c)
MonitorSpec == MonitorInit /\ [][MonitorNext]_screen

Row(y) == [x \in 0..(MONITOR_WIDTH - 1) |-> screen.video_memory[y * MONITOR_WIDTH + x]]

(* Wrapping and scrolling keep the last lines that were printed, in order  *)
(* and whole, with blank memory where the next line goes: the rows down to *)
(* the cursor's are the window of Teletype (monitor_put, scroll).          *)
Paper == INSTANCE Teletype WITH
           WIDTH <- MONITOR_WIDTH, ROWS <- MONITOR_HEIGTH, STOP <- 4, BLANK <- SPACE,
           paper <- [r \in 1..(screen.cursor_y + 1) |-> Row(r - 1)],
           column <- screen.cursor_x
ImplementsTeletype == Paper!Spec
=============================================================================
