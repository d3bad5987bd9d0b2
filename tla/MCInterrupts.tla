---------------------------- MODULE MCInterrupts ----------------------------
(***************************************************************************)
(* An instance of Interrupts for TLC: the timer, the keyboard, a device of *)
(* the master without a handler and the first line of the slave.           *)
(***************************************************************************)
EXTENDS Interrupts
=============================================================================
