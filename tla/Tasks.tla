------------------------------- MODULE Tasks --------------------------------
(***************************************************************************)
(* Kernel multitasking: task.c, its driver timer.c, and the shell commands *)
(* that reach it ("t -n", "t -k <digit>").                                 *)
(*                                                                         *)
(* A task is its pid: no pcb is ever released, so a pcb address and a pid  *)
(* name the same thing.  pcb->next is the function next, and head_task,    *)
(* cur_task, next_pid, cur_vm_page_dir are the globals of that name; a     *)
(* page directory is named by the task it was made for.  The saved         *)
(* esp/ebp/eip of a pcb are abstracted to the place they resume (ctx), the *)
(* stack of a task to the code it is in (pc).                              *)
(*                                                                         *)
(* Code between cli and sti is one action: nothing else can run.  The      *)
(* processor runs the task cur_task; the clock and the keyboard interrupt  *)
(* it whenever the interrupt flag is set.                                  *)
(***************************************************************************)
EXTENDS Naturals, FiniteSets

CONSTANTS MaxPid,    \* bound: forks stop once next_pid is above MaxPid
          MaxTyped   \* bound: command lines waiting in the keyboard buffer

ASSUME TasksAssumption == MaxPid \in Nat \ {0} /\ MaxTyped \in Nat

NULL == 0
Pids == 1..MaxPid
KillDigits == 2..9   \* shell.c lets v[5] be '2'..'9'

VARIABLES
  head_task, cur_task, next_pid, next, cur_vm_page_dir,
  ctx,         \* ctx[p]: where pcb p's saved esp/ebp/eip resume
  pc,          \* pc[p]: the code on p's stack
  interrupts,  \* the IF bit of EFLAGS
  typed,       \* command lines typed and not yet read by the shell
  killed       \* history: the pids unlinked by task_exit_pid

vars == <<head_task, cur_task, next_pid, next, cur_vm_page_dir,
          ctx, pc, interrupts, typed, killed>>

(* Saved contexts: "none" is esp = ebp = eip = 0; "fork", "irq" and "exit" *)
(* are the read_eip() of fork, task_switch and task_exit_pid; "used" marks *)
(* a context that was resumed and not saved again since.                   *)
Saved == {"fork", "irq", "exit"}
Contexts == Saved \cup {"none", "used"}

(* Code: "boot" is main() before init_multitask() and "main" after it, up  *)
(* to its fork(); "shell" is init_shell()'s loop, "idle" is for(;;);       *)
(* "lost" is a jump through a context that is not the task's own.          *)
Codes == {"none", "boot", "main", "shell", "idle", "lost"}

TypeOK ==
  /\ head_task \in Pids \cup {NULL} /\ cur_task \in Pids \cup {NULL}
  /\ next_pid \in 1..(MaxPid + 1)
  /\ next \in [Pids -> Pids \cup {NULL}]
  /\ cur_vm_page_dir \in Pids
  /\ ctx \in [Pids -> Contexts] /\ pc \in [Pids -> Codes]
  /\ interrupts \in BOOLEAN
  /\ typed \in 0..MaxTyped
  /\ killed \in SUBSET Pids

-----------------------------------------------------------------------------
\* The tasks a walk along pcb->next from head_task meets: the least set that
\* holds head_task and, with a task, its successor.
OnList ==
  {p \in Pids : \A S \in SUBSET Pids :
     (/\ head_task \in S
      /\ \A q \in S : next[q] # NULL => next[q] \in S) => p \in S}

live == (1..(next_pid - 1)) \ killed

\* main() with the descriptor tables loaded, paging on and interrupts enabled.
Init ==
  /\ head_task = NULL /\ cur_task = NULL /\ next_pid = 1
  /\ next = [p \in Pids |-> NULL]
  /\ cur_vm_page_dir = 1
  /\ ctx = [p \in Pids |-> "none"]
  /\ pc = [p \in Pids |-> IF p = 1 THEN "boot" ELSE "none"]
  /\ interrupts = TRUE /\ typed = 0 /\ killed = {}

init_multitask ==
  /\ pc[1] = "boot"
  /\ cur_task' = next_pid /\ head_task' = next_pid
  /\ next_pid' = next_pid + 1
  /\ next' = [next EXCEPT ![next_pid] = NULL]
  /\ ctx' = [ctx EXCEPT ![next_pid] = "none"]
  /\ pc' = [pc EXCEPT ![1] = "main"]
  /\ interrupts' = TRUE
  /\ UNCHANGED <<cur_vm_page_dir, typed, killed>>

\* The code a new task finds itself in when fork() returns 0 to it, by the
\* code its stack was copied from: main() goes on to init_shell(), the shell's
\* create_task() to for(;;).
MutNoParentTest(code) == IF code = "main" THEN "shell" ELSE code
ChildReturn(code) == IF code = "main" THEN "shell" ELSE "idle"

\* The running task's esp, ebp and eip go into its pcb, to resume at place.
MutNotSaved(place) == ctx
Saving(place) == [ctx EXCEPT ![cur_task] = place]

\* The common end of task_switch and task_exit_pid: t becomes the current task
\* and the jump takes its saved context, with interrupts on.
Resume(t, saved) ==
  /\ cur_task' = t /\ cur_vm_page_dir' = t /\ interrupts' = TRUE
  /\ ctx' = [saved EXCEPT ![t] = "used"]
  /\ pc' = [pc EXCEPT ![t] = IF saved[t] = "fork" THEN ChildReturn(@)
                             ELSE IF saved[t] \in Saved THEN @ ELSE "lost"]

\* The list with new behind tail.
MutForkAtHead(tail, new) ==
  [next EXCEPT ![head_task] = new, ![new] = next[head_task]]
Appended(tail, new) == [next EXCEPT ![tail] = new, ![new] = NULL]

\* fork(): the new pcb goes behind the last one, with the context of the
\* read_eip() in fork(); its page directory is a clone of the current one, so
\* the code on its stack is what the current directory's stack holds.  after is
\* the code of the caller once fork() has returned the new pid to it.
fork(after) ==
  /\ next_pid \in Pids
  /\ \E tail \in OnList :
       /\ next[tail] = NULL
       /\ next' = Appended(tail, next_pid)
  /\ ctx' = [ctx EXCEPT ![next_pid] = "fork"]
  /\ pc' = [pc EXCEPT ![next_pid] = pc[cur_vm_page_dir], ![cur_task] = after]
  /\ next_pid' = next_pid + 1
  /\ interrupts' = TRUE
  /\ UNCHANGED <<head_task, cur_task, cur_vm_page_dir, killed>>

main_fork ==
  /\ cur_task # NULL
  /\ pc[cur_task] = "main"
  /\ fork("idle")
  /\ UNCHANGED typed

-----------------------------------------------------------------------------
\* The task after t: the next one of the list, or head_task after the last.
MutNoWrap(t) == next[t]
Successor(t) == IF next[t] # NULL THEN next[t] ELSE head_task

\* IRQ0.  Before init_multitask() there is no current task and the handler
\* returns at once, a stuttering step.
task_switch ==
  /\ interrupts /\ cur_task # NULL
  /\ Resume(Successor(cur_task), Saving("irq"))
  /\ UNCHANGED <<head_task, next_pid, next, typed, killed>>

\* IRQ1: the keyboard handler has put one more command line into its buffer.
keyboard_handler ==
  /\ interrupts /\ head_task # NULL
  /\ typed < MaxTyped
  /\ typed' = typed + 1
  /\ UNCHANGED <<head_task, cur_task, next_pid, next, cur_vm_page_dir,
                 ctx, pc, interrupts, killed>>

\* The shell has read one command line.
ReadCommand ==
  /\ cur_task # NULL
  /\ pc[cur_task] = "shell"
  /\ typed > 0
  /\ typed' = typed - 1

\* "t -n"
create_task == ReadCommand /\ fork("shell")

\* The list without pid, which stands behind t.
MutUnlinkNothing(t, pid) == next
MutCutTheRest(t, pid) == [next EXCEPT ![t] = NULL]
Unlinked(t, pid) == [next EXCEPT ![t] = next[pid]]

\* "t -k pid" for a task of the list: unlink it, save the shell's context and
\* resume the task before it.
task_exit_pid(pid) ==
  /\ ReadCommand
  /\ \E t \in OnList :
       /\ next[t] = pid
       /\ next' = Unlinked(t, pid)
       /\ Resume(t, Saving("exit"))
  /\ killed' = killed \cup {pid}
  /\ UNCHANGED <<head_task, next_pid>>

\* "t -k pid" for a pid that is not on the list: "not thread with pid" and
\* return, after cli and with no sti.
task_exit_pid_missing(pid) ==
  /\ ReadCommand
  /\ \A t \in OnList : next[t] # pid
  /\ interrupts' = FALSE
  /\ UNCHANGED <<head_task, cur_task, next_pid, next, cur_vm_page_dir,
                 ctx, pc, killed>>

\* Any other command: it does not touch the tasks.
other_command ==
  /\ ReadCommand
  /\ UNCHANGED <<head_task, cur_task, next_pid, next, cur_vm_page_dir,
                 ctx, pc, interrupts, killed>>

Next ==
  \/ init_multitask \/ main_fork
  \/ task_switch \/ keyboard_handler
  \/ create_task \/ other_command
  \/ \E pid \in KillDigits : task_exit_pid(pid) \/ task_exit_pid_missing(pid)

Spec == Init /\ [][Next]_vars

\* The processor executes main()'s straight-line boot code and the timer chip
\* goes on ticking: nothing in the source masks IRQ0.
Fairness == WF_vars(init_multitask) /\ WF_vars(main_fork) /\ WF_vars(task_switch)

FairSpec == Spec /\ Fairness

-----------------------------------------------------------------------------
(* The list threads exactly the tasks that were created and not killed:    *)
(* after any mix of forks and kills none is lost from the rotation and     *)
(* none that was unlinked is still in it (task.c, fork and task_exit_pid). *)
ListIsLive == head_task # NULL => OnList = live

(* The processor never returns to a task that task_exit_pid removed, not   *)
(* even when the shell removes itself while it is the current task.        *)
KilledNeverRuns == cur_task \notin killed

(* Every context that a switch may load is one its task saved when it last *)
(* gave up the processor: no jump to eip 0 (main's pcb starts all zero)    *)
(* and no second return from fork() or task_exit_pid().                    *)
NoLostTask == \A p \in Pids : pc[p] # "lost"

(* fork() returns 0 to the child with a copy of the right stack: whatever  *)
(* the order of forks, switches and kills, there is at most one task in    *)
(* the command loop, the child of main().                                  *)
OneShell ==
  \A p, q \in live :
    /\ pc[p] = "shell" /\ ctx[p] # "fork"
    /\ pc[q] = "shell" /\ ctx[q] # "fork"
    => p = q

-----------------------------------------------------------------------------
\* The parts of the inductive invariant that stands behind the properties above.

Booting ==
  /\ head_task = NULL /\ cur_task = NULL /\ next_pid = 1
  /\ next[1] = NULL /\ killed = {} /\ pc[1] = "boot" /\ cur_vm_page_dir = 1

HeadStays ==
  /\ head_task = 1 /\ next_pid > 1 /\ pc[1] # "boot"
  /\ killed \subseteq 2..(next_pid - 1)

\* cur_task and the page directory in cr3 belong together and to a live task.
CurrentIsLive == cur_task \in live /\ cur_vm_page_dir = cur_task

\* next leads from each live task to the live task with the next larger pid.
Ordered ==
  \A p \in live :
    \/ next[p] = NULL /\ \A q \in live : q <= p
    \/ /\ next[p] \in live /\ next[p] > p
       /\ \A q \in live : q > p => q >= next[p]

\* Whoever waits has a saved context; the running task's context is spent.
ContextsSaved ==
  /\ \A p \in live \ {cur_task} : ctx[p] \in Saved
  /\ ctx[cur_task] \in {"used", "none"}

\* p runs the command loop, or will once main()'s fork() returns in it.
BecomesShell(p) == pc[p] = "main" \/ (pc[p] = "shell" /\ ctx[p] # "fork")
OneLineage == \A p, q \in live : BecomesShell(p) /\ BecomesShell(q) => p = q

(* Between two interrupts the scheduler's tables agree with one another:   *)
(* list order is pid order (fork appends, task_exit_pid bridges), the      *)
(* directory in cr3 is the current task's, exactly the waiting tasks have  *)
(* a context to resume, and one line of descent leads to the shell.        *)
Consistent ==
  \/ Booting
  \/ HeadStays /\ CurrentIsLive /\ Ordered /\ ContextsSaved /\ OneLineage

-----------------------------------------------------------------------------
(* While interrupts are not lost for good, every task that was created and *)
(* not killed gets the processor again and again (round robin of           *)
(* task_switch).                                                           *)
RoundRobin ==
  []<>interrupts =>
    \A p \in Pids : []<>(p \in live => cur_task = p)

(* task.h:27 calls a task of the list runnable; each one would then get    *)
(* the processor again and again, whatever is typed at the shell.          *)
RunnableRuns ==
  \A p \in Pids : []<>(p \in live => cur_task = p)

(* The pointers, contexts and directories implement the ordered rotation   *)
(* of module Scheduler: task_switch is Rotate, fork is Spawn,              *)
(* task_exit_pid is Remove.                                                *)
Sched == INSTANCE Scheduler WITH
           ready <- live, issued <- next_pid - 1, running <- cur_task
ImplementsScheduler == Sched!Spec
=============================================================================
