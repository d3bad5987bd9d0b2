------------------------------ MODULE Teletype ------------------------------
(***************************************************************************)
(* What the console is for its reader: the last ROWS lines of an endless   *)
(* roll of paper.  Only the lowest line is ever printed on; a line feed    *)
(* brings a blank one, and when the window is full the highest goes.       *)
(* There is no second coordinate, no copying and no memory below the line. *)
(***************************************************************************)
EXTENDS Naturals, Sequences

CONSTANTS WIDTH,      \* columns of a line
          ROWS,       \* lines of the window
          STOP,       \* distance of the tab stops
          Printable,  \* the characters that leave a mark
          BLANK

VARIABLES paper,   \* the lines in the window, the lowest one last
          column   \* where the next character goes

tvars == <<paper, column>>

BlankLine == [k \in 0..(WIDTH - 1) |-> BLANK]

Fed(lines) ==
  IF Len(lines) < ROWS THEN Append(lines, BlankLine)
  ELSE Append(Tail(lines), BlankLine)

Init == paper = <<BlankLine>> /\ column = 0

\* The head goes to a column, or to the next line when that is beyond the edge.
Advance(lines, to) ==
  \/ to < WIDTH /\ paper' = lines /\ column' = to
  \/ to >= WIDTH /\ paper' = Fed(lines) /\ column' = 0

Type ==
  \E c \in Printable :
    Advance([paper EXCEPT ![Len(paper)] = [@ EXCEPT ![column] = c]], column + 1)

Tab == Advance(paper, column + STOP - (column % STOP))

Back   == column > 0 /\ column' = column - 1 /\ UNCHANGED paper
Return == column' = 0 /\ UNCHANGED paper
Feed   == paper' = Fed(paper) /\ column' = 0

Next == Type \/ Tab \/ Back \/ Return \/ Feed

Spec == Init /\ [][Next]_tvars
=============================================================================
