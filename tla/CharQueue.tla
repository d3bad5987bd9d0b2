------------------------------ MODULE CharQueue -----------------------------
(***************************************************************************)
(* What the keyboard buffer is for its reader: a first-in first-out queue  *)
(* of characters of limited capacity, with no cursors and no in-between    *)
(* steps.  A character that finds the queue full is refused.               *)
(***************************************************************************)
EXTENDS Naturals, Sequences

CONSTANTS Chars,     \* what can be typed
          NoChar,    \* what the reader gets from an empty queue
          Capacity

VARIABLES queue,  \* characters accepted and not yet taken
          got     \* the reader's last answer

qvars == <<queue, got>>

Init == queue = <<>> /\ got = NoChar

Put ==
  /\ Len(queue) < Capacity
  /\ \E c \in Chars : queue' = Append(queue, c)
  /\ UNCHANGED got

Take ==
  /\ queue # <<>>
  /\ got' = Head(queue) /\ queue' = Tail(queue)

TakeNothing ==
  /\ queue = <<>>
  /\ got' = NoChar
  /\ UNCHANGED queue

Next == Put \/ Take \/ TakeNothing

Spec == Init /\ [][Next]_qvars
=============================================================================
