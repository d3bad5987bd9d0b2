-------------------------- MODULE InterruptsProofs --------------------------
(***************************************************************************)
(* Proofs about Interrupts for any lines, any number of waiting scancodes, *)
(* with keys pressed early or not: its types, and that no line is left in  *)
(* service by code outside a handler, resumed timer_callback()s included.  *)
(*                                                                         *)
(* NothingInService is not inductive: it says nothing of the steps of a    *)
(* handler, which end in code outside of it.  InService says of each step  *)
(* which lines are in service: before the end of interrupt the one that is *)
(* handled, on both chips if it is the slave's, and none after it.  No     *)
(* second line joins it, because the processor's IF is off until the       *)
(* return (HandlersAlone).                                                 *)
(***************************************************************************)
EXTENDS Interrupts, TLAPS

\* The slave's line that is in service while n is handled.
SlaveLine(n) == {n} \cap (8..15)

InService ==
  IF irq # NoIrq /\ step = 1
  THEN master = {Pin(irq)} /\ slave = SlaveLine(irq)
  ELSE master = {} /\ slave = {}

HandlersAlone == irq # NoIrq => ~interrupts

IInv == TypeOK /\ InService /\ HandlersAlone

-----------------------------------------------------------------------------
(* What the assumption gives of the lines.                                 *)
LEMMA LinesOfChips ==
  ASSUME NEW n \in Lines
  PROVE  /\ n \in 0..15 /\ n # NoIrq /\ Pin(n) \in 0..7
         /\ SlaveLine(n) \in SUBSET (8..15)
         /\ OnSlave(n + 32) <=> SlaveLine(n) = {n}
         /\ ~OnSlave(n + 32) => SlaveLine(n) = {}
<1>1. n \in 0..15
  BY InterruptsAssumption
<1>2. n # NoIrq /\ Pin(n) \in 0..7
  BY <1>1 DEF NoIrq, Pin, Cascade
<1>3. OnSlave(n + 32) <=> n \in 8..15
  BY <1>1 DEF OnSlave
<1> QED BY <1>1, <1>2, <1>3 DEF SlaveLine

(* The end of interrupt takes the only line out of service.                *)
LEMMA EndedAlone == ASSUME NEW n \in Nat PROVE Ended({n}) = {}
<1>1. Min({n}) = n
  BY DEF Min
<1> QED BY <1>1 DEF Ended

(* With nothing in service there is nothing to end.                        *)
LEMMA EndedNone == Ended({}) = {}
BY DEF Ended

(* Where main() enters, no line is in service and no handler runs.         *)
LEMMA InitInvariant == Init => IInv
<1> SUFFICES ASSUME Init PROVE IInv
  OBVIOUS
<1>1. TypeOK
  <2>1. stage \in 1..Len(Stages) /\ step \in 1..3 /\ bytes \in 0..MaxBytes
    BY InterruptsAssumption DEF Init, Stages
  <2>2. interrupts \in BOOLEAN /\ full \in BOOLEAN /\ unwinding \in BOOLEAN /\ interrupt_handler = {}
        /\ irr \subseteq Lines /\ master = {} /\ slave = {} /\ irq = NoIrq
    BY Zenon DEF Init
  <2> QED BY <2>1, <2>2 DEF TypeOK
<1>2. InService /\ HandlersAlone
  BY DEF Init, InService, HandlersAlone
<1> QED BY <1>1, <1>2 DEF IInv

-----------------------------------------------------------------------------
(* The devices only raise requests.                                        *)
LEMMA Devices ==
  ASSUME IInv, press \/ fill \/ \E n \in Lines : raise(n)
  PROVE  IInv'
<1>1. UNCHANGED <<stage, interrupts, interrupt_handler, master, slave, irq, step, unwinding>>
  BY DEF press, fill, raise, pic, keys
<1>2. irr' \subseteq Lines /\ bytes' \in 0..MaxBytes /\ full' \in BOOLEAN
  <2>1. CASE press
    BY <2>1, InterruptsAssumption DEF press, pic, IInv, TypeOK
  <2>2. CASE fill
    <3>1. bytes' \in 0..MaxBytes
      BY <2>2, InterruptsAssumption DEF fill, IInv, TypeOK
    <3>2. full' = TRUE /\ irr' = irr \cup {Keyboard} /\ Keyboard \in Lines
      BY <2>2, InterruptsAssumption DEF fill
    <3> QED BY <3>1, <3>2, Zenon DEF IInv, TypeOK
  <2>3. CASE \E n \in Lines : raise(n)
    BY <2>3 DEF raise, keys, IInv, TypeOK
  <2> QED BY <2>1, <2>2, <2>3
<1>3. TypeOK'
  BY <1>1, <1>2 DEF IInv, TypeOK
<1>4. InService' /\ HandlersAlone'
  BY <1>1 DEF IInv, InService, HandlersAlone
<1> QED BY <1>3, <1>4 DEF IInv

(* An accepted request finds no other line in service.                     *)
LEMMA Accept == ASSUME IInv, NEW n \in Lines, accept(n) PROVE IInv'
<1>1. /\ irq = NoIrq /\ master = {} /\ slave = {}
  BY DEF accept, IInv, InService, HandlersAlone
<1>2. master' = {Pin(n)} /\ slave' = SlaveLine(n)
  BY <1>1 DEF accept, SlaveLine
<1>3. /\ irr' = irr \ {n} /\ interrupts' = FALSE /\ irq' = n /\ step' = 1
      /\ UNCHANGED <<stage, interrupt_handler, unwinding, bytes, full>>
  BY DEF accept, keys
<1>4. TypeOK'
  <2>1. interrupts' \in BOOLEAN /\ unwinding' = unwinding /\ bytes' = bytes /\ full' = full
    BY <1>3, Zenon
  <2>2. Pin(n) \in 0..7 /\ SlaveLine(n) \in SUBSET (8..15)
    BY LinesOfChips
  <2>3. master' \subseteq 0..7 /\ slave' \subseteq 8..15 /\ 1 \in 1..3
    BY <1>2, <2>2
  <2> QED BY <1>3, <2>1, <2>3, Zenon DEF IInv, TypeOK
<1>5. InService' /\ HandlersAlone'
  BY <1>2, <1>3, LinesOfChips DEF InService, HandlersAlone
<1> QED BY <1>4, <1>5 DEF IInv

(* irq_handler() first ends the interrupt, on the chips that need it.      *)
LEMMA EndOfInterrupt == ASSUME IInv, end_of_interrupt PROVE IInv'
<1>1. irq \in Lines /\ irq # NoIrq /\ step = 1
  BY DEF end_of_interrupt, At, Steps, IInv, TypeOK
<1>2. master = {Pin(irq)} /\ slave = SlaveLine(irq)
  BY <1>1 DEF IInv, InService
<1>3. master' = {}
  BY <1>1, <1>2, LinesOfChips, EndedAlone DEF end_of_interrupt
<1>4. slave' = {}
  <2>1. CASE OnSlave(irq + 32)
    BY <1>1, <1>2, <2>1, LinesOfChips, EndedAlone DEF end_of_interrupt
  <2>2. CASE ~OnSlave(irq + 32)
    BY <1>1, <1>2, <2>2, LinesOfChips DEF end_of_interrupt
  <2> QED BY <2>1, <2>2
<1>5. step' = 2 /\ UNCHANGED <<stage, interrupts, interrupt_handler, irr, irq, unwinding, bytes, full>>
  BY <1>1 DEF end_of_interrupt, keys
<1>6. TypeOK'
  BY <1>3, <1>4, <1>5 DEF IInv, TypeOK
<1>7. InService' /\ HandlersAlone'
  BY <1>3, <1>4, <1>5 DEF IInv, InService, HandlersAlone
<1> QED BY <1>6, <1>7 DEF IInv

(* The handler, the return and the switch come after it: no line is in     *)
(* service in what they go on with.                                        *)
LEMMA AfterEnd ==
  ASSUME IInv, call_handler \/ switch_away \/ return
  PROVE  IInv'
<1>1. irq # NoIrq /\ step \in {2, 3} /\ master = {} /\ slave = {}
  BY DEF call_handler, switch_away, return, At, Steps, IInv, TypeOK, InService
<1>2. /\ UNCHANGED <<stage, interrupt_handler, irr, master, slave, bytes>>
      /\ full' \in BOOLEAN /\ unwinding' \in BOOLEAN
      /\ \/ irq' = irq /\ step' = 3 /\ interrupts' = interrupts
         \/ irq' = NoIrq /\ step' = 1 /\ interrupts' = TRUE
  <2>1. CASE call_handler
    BY <1>1, <2>1 DEF call_handler, At, Steps, pic, IInv, TypeOK
  <2>2. CASE switch_away
    BY <2>2 DEF switch_away, Resumed, pic, keys, IInv, TypeOK
  <2>3. CASE return
    BY <2>3 DEF return, pic, keys, IInv, TypeOK
  <2> QED BY <2>1, <2>2, <2>3
<1>3. TypeOK'
  <2>1. interrupts' \in BOOLEAN
    BY <1>2, Zenon DEF IInv, TypeOK
  <2>2. irq' \in Lines \cup {NoIrq}
    BY <1>2, Zenon DEF IInv, TypeOK
  <2>3. step' \in 1..3
    BY <1>2
  <2> QED BY <1>2, <2>1, <2>2, <2>3, Zenon DEF IInv, TypeOK
<1>4. InService' /\ HandlersAlone'
  BY <1>1, <1>2 DEF IInv, InService, HandlersAlone
<1> QED BY <1>3, <1>4 DEF IInv

(* main(), the tasks and resumed timer_callback()s run outside of it.      *)
LEMMA Outside == ASSUME IInv, Boot \/ unwind \/ cli \/ sti \/ task_exit_pid PROVE IInv'
<1>1. irq = NoIrq /\ master = {} /\ slave = {}
  BY DEF Boot, init_descriptor_tables, main_sti, init_timer, init_multitask,
    init_keyboard_driver, main_fork, Advance, Running, unwind, cli, sti, task_exit_pid,
    IInv, InService
<1>2. /\ UNCHANGED <<irq, step, bytes, full>> /\ stage' \in 1..Len(Stages)
      /\ unwinding' \in BOOLEAN
      /\ master' = {} /\ slave' = {} /\ irr' \subseteq Lines
      /\ interrupts' \in BOOLEAN /\ interrupt_handler' \subseteq {Timer, Keyboard}
  <2>1. CASE Boot
    <3>1. /\ stage' = stage + 1 /\ Stages[stage] # "fork"
          /\ UNCHANGED <<irq, step, unwinding, bytes, full>>
      BY <2>1 DEF Boot, init_descriptor_tables, main_sti, init_timer, init_multitask,
        init_keyboard_driver, main_fork, Advance, keys
    <3>2. stage' \in 1..Len(Stages)
      BY <3>1 DEF IInv, TypeOK, Stages
    <3>3. /\ master' = {} /\ slave' = {} /\ irr' \subseteq Lines
          /\ interrupts' \in BOOLEAN /\ interrupt_handler' \subseteq {Timer, Keyboard}
      BY <1>1, <2>1 DEF Boot, init_descriptor_tables, main_sti, init_timer, init_multitask,
        init_keyboard_driver, main_fork, pic, IInv, TypeOK
    <3>4. unwinding' \in BOOLEAN
      BY <3>1 DEF IInv, TypeOK
    <3> QED BY <3>1, <3>2, <3>3, <3>4
  <2>2. CASE cli \/ sti
    BY <1>1, <2>2 DEF cli, sti, pic, keys, IInv, TypeOK
  <2>3. CASE unwind \/ task_exit_pid
    BY <1>1, <2>3 DEF unwind, task_exit_pid, Resumed, pic, keys, IInv, TypeOK
  <2> QED BY <2>1, <2>2, <2>3
<1>3. TypeOK'
  BY <1>2 DEF IInv, TypeOK
<1>4. InService' /\ HandlersAlone'
  BY <1>1, <1>2 DEF InService, HandlersAlone
<1> QED BY <1>3, <1>4 DEF IInv

-----------------------------------------------------------------------------
(* The inductive invariant holds throughout.                               *)
THEOREM Invariance == Spec => []IInv
<1>1. IInv /\ [Next]_vars => IInv'
  <2> SUFFICES ASSUME IInv, [Next]_vars PROVE IInv'
    OBVIOUS
  <2>1. CASE UNCHANGED vars
    BY <2>1 DEF vars, pic, keys, IInv, TypeOK, InService, HandlersAlone
  <2>2. CASE Next
    <3>1. CASE \E n \in Lines : accept(n)
      BY <3>1, Accept
    <3>2. CASE irq_handler
      BY <3>2, EndOfInterrupt, AfterEnd DEF irq_handler
    <3> QED BY <2>2, <3>1, <3>2, Devices, Outside DEF Next
  <2> QED BY <2>1, <2>2
<1> QED BY <1>1, InitInvariant, PTL DEF Spec

(* TypeOK of the Interrupts module, for any lines.                         *)
THEOREM TypeCorrectness == Spec => []TypeOK
BY Invariance, PTL DEF IInv

(* Code outside a handler runs with no line in service, a task switched to *)
(* in the middle of a timer interrupt included: no device's requests are   *)
(* held back by a line whose handler never returned.                       *)
THEOREM NoLineLeftInService == Spec => []NothingInService
<1>1. IInv => NothingInService
  BY DEF IInv, InService, NothingInService
<1> QED BY <1>1, Invariance, PTL
=============================================================================
