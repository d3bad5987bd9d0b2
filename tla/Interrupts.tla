----------------------------- MODULE Interrupts -----------------------------
(***************************************************************************)
(* How a device's request becomes a call of its handler: the two 8259A as  *)
(* idt_init() programs them, the IRQ stubs of interrupt.s, isr.c's         *)
(* irq_handler(), and the keyboard controller, whose output byte holds its *)
(* line until a handler reads it.  main() registers the handlers one after *)
(* the other with interrupts on.                                           *)
(*                                                                         *)
(* Once there are tasks timer_callback() does not come back to a handler   *)
(* with interrupts off: task_switch() turns them on and goes on with a     *)
(* task, at the first ticks with the same one.  The frame of the interrupt *)
(* waits on its task's stack and is unwound, by way of irq_handler() and   *)
(* the stub, when a later switch resumes the task: with interrupts on, so  *)
(* that other handlers are entered meanwhile.                              *)
(***************************************************************************)
EXTENDS Naturals, Sequences, FiniteSets, FiniteSetsExt

CONSTANTS Lines,      \* the IRQ lines on which devices raise requests
          MaxBytes,   \* bound: scancodes waiting inside the keyboard
          EarlyKeys   \* may keys be pressed before init_keyboard_driver()?

Timer    == 0
Keyboard == 1
Cascade  == 2
NoIrq    == 16

ASSUME InterruptsAssumption ==
  /\ {Timer, Keyboard} \subseteq Lines /\ Lines \subseteq (0..15) \ {Cascade}
  /\ MaxBytes \in Nat \ {0} /\ EarlyKeys \in BOOLEAN

VARIABLES
  stage,           \* how far main() is
  interrupts,      \* the processor's IF
  interrupt_handler, \* the lines with a handler
  irr,             \* requests latched by the 8259As
  master, slave,   \* the lines in service
  irq, step,       \* the interrupt being handled and the next step of it
  unwinding,       \* does the running task have a resumed timer_callback() to leave?
  bytes, full      \* scancodes in the keyboard; the controller's output byte

pic  == <<irr, master, slave>>
keys == <<bytes, full>>
vars == <<stage, interrupts, interrupt_handler, pic, irq, step, unwinding, keys>>

\* What main() has done.
Stages == <<"start", "tables", "sti", "timer", "multitask", "keyboard", "fork">>
Reached(s) == \E i \in 1..stage : Stages[i] = s

TypeOK ==
  /\ stage \in 1..Len(Stages)
  /\ interrupts \in BOOLEAN
  /\ interrupt_handler \subseteq {Timer, Keyboard}
  /\ irr \subseteq Lines /\ master \subseteq 0..7 /\ slave \subseteq 8..15
  /\ irq \in Lines \cup {NoIrq} /\ step \in 1..3 /\ unwinding \in BOOLEAN
  /\ bytes \in 0..MaxBytes /\ full \in BOOLEAN

\* GRUB enters main() with interrupts off; devices may have raised their lines.
Init ==
  /\ stage = 1 /\ interrupts = FALSE /\ interrupt_handler = {}
  /\ irr \in SUBSET (Lines \ {Keyboard}) /\ master = {} /\ slave = {}
  /\ irq = NoIrq /\ step = 1 /\ unwinding = FALSE
  /\ bytes = 0 /\ full = FALSE

-----------------------------------------------------------------------------
\* The devices.

raise(n) ==
  /\ n \in Lines \ {Keyboard}
  /\ irr' = irr \cup {n}
  /\ UNCHANGED <<stage, interrupts, interrupt_handler, master, slave, irq, step, unwinding, keys>>

press ==
  /\ EarlyKeys \/ Keyboard \in interrupt_handler
  /\ bytes < MaxBytes /\ bytes' = bytes + 1
  /\ UNCHANGED <<stage, interrupts, interrupt_handler, pic, irq, step, unwinding, full>>

\* The controller takes the next byte when its output was read; the line's edge
\* is the request.
fill ==
  /\ bytes > 0 /\ ~full
  /\ bytes' = bytes - 1 /\ full' = TRUE
  /\ irr' = irr \cup {Keyboard}
  /\ UNCHANGED <<stage, interrupts, interrupt_handler, master, slave, irq, step, unwinding>>

-----------------------------------------------------------------------------
\* The 8259As: fully nested, the slave on line 2 of the master.

Pin(n) == IF n < 8 THEN n ELSE Cascade

Presented ==
  {n \in irr : /\ \A m \in master : Pin(n) < m
               /\ n >= 8 => \A m \in slave : n < m}

Before(n, m) == Pin(n) < Pin(m) \/ (Pin(n) = Pin(m) /\ n <= m)

accept(n) ==
  /\ interrupts /\ n \in Presented /\ \A m \in Presented : Before(n, m)
  /\ irr' = irr \ {n}
  /\ master' = master \cup {Pin(n)} /\ slave' = slave \cup ({n} \cap (8..15))
  /\ interrupts' = FALSE /\ irq' = n /\ step' = 1
  /\ UNCHANGED <<stage, interrupt_handler, unwinding, keys>>

\* A non-specific end of interrupt.
Ended(service) == IF service = {} THEN {} ELSE service \ {Min(service)}

-----------------------------------------------------------------------------
\* irq_handler() between the two halves of the stub.

MutAcknowledgedTwice == <<"eoi", "handler", "eoi", "iret">>
MutHandlerFirst == <<"handler", "eoi", "iret">>
Steps == <<"eoi", "handler", "iret">>
At(s) == irq # NoIrq /\ Steps[step] = s

MutOnlyAbove40(int_no) == int_no > 40
OnSlave(int_no) == int_no > 39

end_of_interrupt ==
  /\ At("eoi") /\ step' = step + 1
  /\ slave' = IF OnSlave(irq + 32) THEN Ended(slave) ELSE slave
  /\ master' = Ended(master)
  /\ UNCHANGED <<stage, interrupts, interrupt_handler, irr, irq, unwinding, keys>>

\* A line without a handler is acknowledged and nothing else; task_switch()
\* returns at once while there is no task.
call_handler ==
  /\ At("handler") /\ step' = step + 1
  /\ irq = Timer => ~Reached("multitask")
  /\ full' = (full /\ ~(irq = Keyboard /\ Keyboard \in interrupt_handler))
  /\ UNCHANGED <<stage, interrupts, interrupt_handler, pic, irq, unwinding, bytes>>

\* A context to go on with: a timer_callback() that a switch left, or, with more
\* than one task, a fork() or task_exit_pid() that returns.
Resumed == IF Reached("fork") THEN BOOLEAN ELSE {TRUE}

\* task_switch() goes on with the next task, interrupts on.
switch_away ==
  /\ At("handler") /\ irq = Timer /\ Reached("multitask")
  /\ irq' = NoIrq /\ step' = 1 /\ interrupts' = TRUE /\ unwinding' \in Resumed
  /\ UNCHANGED <<stage, interrupt_handler, pic, keys>>

\* The resumed timer_callback() and irq_handler() return and the stub's iret
\* finds the flags of before the tick, interrupts on.  Below may be the frame
\* of an earlier tick that was being left when this one came.
unwind ==
  /\ irq = NoIrq /\ unwinding /\ unwinding' \in BOOLEAN
  /\ UNCHANGED <<stage, interrupts, interrupt_handler, pic, irq, step, keys>>

return ==
  /\ At("iret") /\ irq' = NoIrq /\ step' = 1 /\ interrupts' = TRUE
  /\ UNCHANGED <<stage, interrupt_handler, pic, unwinding, keys>>

-----------------------------------------------------------------------------
\* main(), and after it the tasks.

Running == irq = NoIrq /\ ~unwinding

Advance(from) ==
  /\ Running /\ Stages[stage] = from /\ stage' = stage + 1
  /\ UNCHANGED <<irq, step, unwinding, keys>>

\* ICW1 clears both chips.
init_descriptor_tables ==
  /\ Advance("start")
  /\ irr' = {} /\ master' = {} /\ slave' = {}
  /\ UNCHANGED <<interrupts, interrupt_handler>>

main_sti ==
  /\ Advance("tables") /\ interrupts' = TRUE
  /\ UNCHANGED <<interrupt_handler, pic>>

init_timer ==
  /\ Advance("sti") /\ interrupts
  /\ interrupt_handler' = interrupt_handler \cup {Timer}
  /\ UNCHANGED <<interrupts, pic>>

init_multitask ==
  /\ Advance("timer") /\ interrupts
  /\ UNCHANGED <<interrupts, interrupt_handler, pic>>

init_keyboard_driver ==
  /\ Advance("multitask") /\ interrupts
  /\ interrupt_handler' = interrupt_handler \cup {Keyboard}
  /\ UNCHANGED <<interrupts, pic>>

main_fork ==
  /\ Advance("keyboard") /\ interrupts
  /\ UNCHANGED <<interrupts, interrupt_handler, pic>>

\* switch_page_directory(), fork(), task_exit() and task_exit_pid() begin with a
\* cli.  The first two go on to a sti; task_exit_pid() returns without one when
\* no task has the pid, and interrupts stay off until some other function's.
cli ==
  /\ Running /\ interrupts /\ interrupts' = FALSE
  /\ UNCHANGED <<stage, interrupt_handler, pic, irq, step, unwinding, keys>>
sti ==
  /\ Running /\ ~interrupts /\ Reached("sti") /\ interrupts' = TRUE
  /\ UNCHANGED <<stage, interrupt_handler, pic, irq, step, unwinding, keys>>

\* A task that ends itself or another goes on as the one before it in the list.
task_exit_pid ==
  /\ Running /\ ~interrupts /\ Reached("fork")
  /\ interrupts' = TRUE /\ unwinding' \in Resumed
  /\ UNCHANGED <<stage, interrupt_handler, pic, irq, step, keys>>

Boot ==
  \/ init_descriptor_tables \/ main_sti \/ init_timer \/ init_multitask
  \/ init_keyboard_driver \/ main_fork
irq_handler == end_of_interrupt \/ call_handler \/ switch_away \/ return

Next ==
  \/ press \/ fill \/ Boot \/ irq_handler \/ unwind \/ cli \/ sti \/ task_exit_pid
  \/ \E n \in Lines : raise(n) \/ accept(n)

Spec == Init /\ [][Next]_vars

\* The processor finishes handlers and takes requests, the controller delivers.
\* Nothing is assumed of main(), the tasks or their sti.
FairSpec ==
  /\ Spec /\ WF_vars(irq_handler) /\ WF_vars(fill)
  /\ \A n \in Lines : SF_vars(accept(n))

\* What line n needs of the rest, and what the code does not ensure: again and
\* again interrupts are on and no line before n is presented.  Devices of higher
\* priority leave time (the timer's period is 10 ms), and nobody has turned
\* interrupts off for good, as "t -k" with the pid of no task does.
Unloaded(n) == []<>(interrupts /\ \A m \in Presented : Before(n, m))

-----------------------------------------------------------------------------
(* Whatever code runs outside a handler, a task that was switched to in    *)
(* the middle of a timer interrupt and a timer_callback() that is resumed  *)
(* and unwound included, no line is left in service: irq_handler() ends    *)
(* the interrupt before it calls the handler, on the chips that need it.   *)
NothingInService == irq = NoIrq => master = {} /\ slave = {}

(* A request that is latched once the 8259As are set up reaches the        *)
(* processor, on either chip and whichever tasks the ticks switch to, as   *)
(* long as interrupts come back on and leave its line its turn.            *)
RequestsAccepted ==
  \A n \in Lines : Unloaded(n) => (n \in irr /\ Reached("tables") ~> n \notin irr)

(* main.c:50, "[^]keyboard ready": with the handler registered a byte in   *)
(* the controller's output is read, and the next key can follow, as long   *)
(* as interrupts come back on and leave IRQ1 its turn.                     *)
KeyboardReady ==
  Unloaded(Keyboard) => (full /\ Keyboard \in interrupt_handler ~> ~full)
=============================================================================
