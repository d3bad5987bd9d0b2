----------------------------- MODULE Scheduler ------------------------------
(***************************************************************************)
(* What the kernel's multitasking promises, with no list, no saved context *)
(* and no interrupt flag: a set of tasks in the order of their pids, one   *)
(* of which runs.  A tick hands the processor to the next pid and wraps    *)
(* round to the first; a new task enters behind all others; a task that is *)
(* removed leaves the processor to the one before it, never to itself.     *)
(* Module Tasks is shown to implement this specification.                  *)
(***************************************************************************)
EXTENDS Naturals

VARIABLES ready,    \* the pids of the tasks that take part in the rotation
          issued,   \* the largest pid ever given out: pids are not reused
          running   \* the pid that has the processor, 0 before the first task

svars == <<ready, issued, running>>

\* q is the task that follows p in pid order, or the first one after the last.
Follows(q, p) ==
  \/ /\ q > p
     /\ \A r \in ready : r > p => r >= q
  \/ /\ \A r \in ready : r <= p /\ r >= q

\* q is the task that precedes p in pid order.
Precedes(q, p) ==
  /\ q < p
  /\ \A r \in ready : r < p => r <= q

Init == ready = {} /\ issued = 0 /\ running = 0

Start ==
  /\ ready = {}
  /\ ready' = {1} /\ issued' = 1 /\ running' = 1

Spawn ==
  /\ ready # {}
  /\ issued' = issued + 1
  /\ ready' = ready \cup {issued'}
  /\ UNCHANGED running

Rotate ==
  /\ \E q \in ready : Follows(q, running) /\ running' = q
  /\ UNCHANGED <<ready, issued>>

Remove ==
  \E p \in ready, q \in ready :
    /\ Precedes(q, p)
    /\ ready' = ready \ {p}
    /\ running' = q
    /\ UNCHANGED issued

Next == Start \/ Spawn \/ Rotate \/ Remove

Spec == Init /\ [][Next]_svars
=============================================================================
