------------------------------- MODULE MCTasks ------------------------------
(***************************************************************************)
(* Instances of Tasks for TLC: a few pids, so that tasks are killed at the *)
(* front, in the middle and at the end of the list and pids go missing     *)
(* from it, and a short type-ahead, so that a command can follow the one   *)
(* that lost the interrupt flag.                                           *)
(***************************************************************************)
EXTENDS Tasks
=============================================================================
