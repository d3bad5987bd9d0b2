---------------------------- MODULE TasksProofs -----------------------------
(***************************************************************************)
(* Proofs about module Tasks, for every MaxPid and MaxTyped.  TypeOK,      *)
(* Consistent and NoLostTask together are inductive; the list properties   *)
(* and the implementation of module Scheduler follow from them.            *)
(***************************************************************************)
EXTENDS Tasks, WellFoundedInduction, TLAPS

Running == HeadStays /\ CurrentIsLive /\ Ordered /\ ContextsSaved /\ OneLineage

IInv == TypeOK /\ Consistent /\ NoLostTask

(* A set of numbers that is not empty has a least one.                     *)
LEMMA LeastExists ==
  ASSUME NEW S \in SUBSET Nat, NEW m \in S
  PROVE  \E n \in S : \A k \in S : n <= k
<1>1. PICK n \in S : \A k \in S : <<k, n>> \notin OpToRel(<, Nat)
  BY NatLessThanWellFounded, WFMin, Zenon
<1>2. \A k \in S : <<k, n>> \in Nat \X Nat
  OBVIOUS
<1>3. \A k \in S : ~(k < n)
  BY <1>1, <1>2 DEF OpToRel
<1> QED
  BY <1>3

(* The live tasks are pids, and pids are numbers.                          *)
LEMMA LiveAreTasks == ASSUME TypeOK PROVE live \subseteq Pids /\ Pids \subseteq Nat
  BY TasksAssumption DEF live, Pids, TypeOK

(* The walk along the list never meets a pcb that was unlinked.            *)
LEMMA ListInLive == ASSUME TypeOK, Running PROVE OnList \subseteq live
<1>1. head_task \in live
  BY DEF Running, HeadStays, live, TypeOK
<1>2. \A q \in live : next[q] # NULL => next[q] \in live
  BY DEF Running, Ordered
<1> QED
  BY <1>1, <1>2, LiveAreTasks DEF OnList

(* The head and the successor of a listed task are on the list.            *)
LEMMA ListIsClosed ==
  ASSUME TypeOK, Running
  PROVE  /\ head_task \in OnList
         /\ \A q \in OnList : next[q] # NULL => next[q] \in OnList
<1>1. head_task \in Pids
  BY TasksAssumption DEF Running, HeadStays, TypeOK, Pids, NULL
<1>2. \A q \in Pids : next[q] # NULL => next[q] \in Pids
  BY DEF TypeOK
<1> QED
  BY <1>1, <1>2 DEF OnList

(* Every live task but the head is the successor of a smaller live one:    *)
(* the live task closest below it.                                         *)
LEMMA HasPredecessor ==
  ASSUME TypeOK, Running, NEW p \in live, p # 1
  PROVE  \E q \in live : q < p /\ next[q] = p
<1> DEFINE Gaps == {n \in Nat : \E r \in live : r < p /\ n = p - r}
<1>1. p \in Nat /\ p > 1 /\ 1 \in live /\ live \subseteq Nat
  BY LiveAreTasks DEF Running, HeadStays, live, TypeOK, Pids
<1>2. p - 1 \in Gaps
  BY <1>1
<1> HIDE DEF Gaps
<1>3. PICK n \in Gaps : \A k \in Gaps : n <= k
  BY <1>2, LeastExists DEF Gaps
<1>4. PICK q \in live : q < p /\ n = p - q
  BY <1>3 DEF Gaps
<1>5. \A r \in live : r < p => r <= q
  BY <1>1, <1>3, <1>4 DEF Gaps
<1>6. next[q] \in live /\ next[q] > q /\ p >= next[q]
  BY <1>1, <1>4 DEF Running, Ordered
<1>7. next[q] = p
  <2>1. q \in Nat /\ next[q] \in Nat
    BY <1>1, <1>4, <1>6
  <2>2. next[q] < p => next[q] <= q
    BY <1>5, <1>6
  <2> QED
    BY <1>1, <1>6, <2>1, <2>2
<1> QED
  BY <1>4, <1>7

(* The list threads exactly the live tasks.                                *)
LEMMA ListIsAllLive == ASSUME TypeOK, Running PROVE OnList = live
<1> DEFINE Missing == live \ OnList
<1>1. SUFFICES ASSUME NEW m \in Missing PROVE FALSE
  BY ListInLive
<1>2. Missing \in SUBSET Nat
  BY LiveAreTasks
<1>3. PICK p \in Missing : \A k \in Missing : p <= k
  BY <1>1, <1>2, LeastExists
<1>4. p # 1
  BY <1>3, ListIsClosed DEF Running, HeadStays
<1>5. PICK q \in live : q < p /\ next[q] = p
  BY <1>3, <1>4, HasPredecessor
<1>6. q \in OnList
  BY <1>2, <1>3, <1>5, LiveAreTasks
<1> QED
  BY <1>2, <1>3, <1>5, <1>6, ListIsClosed DEF NULL, live

-----------------------------------------------------------------------------
(* main() before init_multitask() satisfies the invariant.                 *)
LEMMA InitInvariant == Init => IInv
  BY TasksAssumption
  DEF Init, IInv, TypeOK, Consistent, Booting, NoLostTask, Pids, NULL,
      Contexts, Codes

(* What the jump into a saved context leaves behind.                       *)
LEMMA AfterResume ==
  ASSUME TypeOK, NoLostTask, NEW t \in Pids,
         NEW saved \in [Pids -> Contexts], saved[t] \in Saved,
         Resume(t, saved)
  PROVE  /\ cur_task' = t /\ cur_vm_page_dir' = t /\ interrupts' = TRUE
         /\ ctx' \in [Pids -> Contexts] /\ pc' \in [Pids -> Codes]
         /\ ctx'[t] = "used"
         /\ \A q \in Pids : q # t => ctx'[q] = saved[q] /\ pc'[q] = pc[q]
         /\ pc'[t] = IF saved[t] = "fork" THEN ChildReturn(pc[t]) ELSE pc[t]
         /\ \A q \in Pids : pc'[q] # "lost"
<1>1. pc' = [pc EXCEPT ![t] = IF saved[t] = "fork" THEN ChildReturn(pc[t])
                             ELSE pc[t]]
  BY DEF Resume, TypeOK
<1> QED
  BY <1>1 DEF Resume, TypeOK, NoLostTask, ChildReturn, Contexts, Saved, Codes

(* Unlinking a task of the list: it stands behind the live task before it. *)
LEMMA UnlinkedTask ==
  ASSUME TypeOK, Running, NEW t \in OnList, NEW pid \in KillDigits, next[t] = pid
  PROVE  /\ t \in live /\ pid \in live /\ t < pid /\ pid # 1
         /\ \A q \in live : q > t => q >= pid
  BY ListInLive DEF Running, Ordered, KillDigits, NULL, HeadStays, live, TypeOK, Pids

(* task_switch(): the successor of a live task is live and has a context.  *)
LEMMA SwitchKeeps == IInv /\ task_switch => IInv'
<1> SUFFICES ASSUME IInv, task_switch PROVE IInv'
  OBVIOUS
<1> DEFINE t == Successor(cur_task)
<1> DEFINE saved == Saving("irq")
<1>1. Running
  BY DEF IInv, Consistent, Booting, task_switch, Running
<1>2. TypeOK /\ NoLostTask /\ live \subseteq Pids
  BY LiveAreTasks DEF IInv
<1>3. t \in live
  BY <1>1, <1>2 DEF Running, HeadStays, CurrentIsLive, Ordered, Successor,
                  live, TypeOK
<1>4. saved \in [Pids -> Contexts] /\ saved[cur_task] = "irq"
  /\ \A q \in Pids \ {cur_task} : saved[q] = ctx[q]
  BY <1>1, <1>2 DEF Running, CurrentIsLive, Saving, TypeOK, Contexts, Saved
<1>5. \A q \in live : saved[q] \in Saved
  BY <1>1, <1>2, <1>4 DEF Running, ContextsSaved, Saved
<1>6. Resume(t, saved) /\ UNCHANGED <<head_task, next_pid, next, typed, killed>>
  BY DEF task_switch
<1> HIDE DEF t, saved
<1>7. /\ cur_task' = t /\ cur_vm_page_dir' = t /\ interrupts' = TRUE
      /\ ctx' \in [Pids -> Contexts] /\ pc' \in [Pids -> Codes]
      /\ ctx'[t] = "used"
      /\ \A q \in Pids : q # t => ctx'[q] = saved[q] /\ pc'[q] = pc[q]
      /\ pc'[t] = IF saved[t] = "fork" THEN ChildReturn(pc[t]) ELSE pc[t]
      /\ \A q \in Pids : pc'[q] # "lost"
  BY <1>2, <1>3, <1>4, <1>5, <1>6, AfterResume
<1>8. TypeOK'
  BY <1>2, <1>3, <1>6, <1>7 DEF TypeOK
<1>9. live' = live
  BY <1>6 DEF live
<1>10. HeadStays'
  <2>1. pc'[1] # "boot"
    BY <1>1, <1>7, TasksAssumption DEF Running, HeadStays, ChildReturn, Pids
  <2> QED
    BY <1>1, <1>6, <2>1 DEF Running, HeadStays
<1>11. CurrentIsLive'
  BY <1>3, <1>7, <1>9 DEF CurrentIsLive
<1>12. Ordered'
  BY <1>1, <1>6, <1>9 DEF Running, Ordered
<1>13. ContextsSaved'
  BY <1>2, <1>5, <1>7, <1>9 DEF ContextsSaved
<1>14. \A q \in live : BecomesShell(q)' => BecomesShell(q)
  BY <1>1, <1>2, <1>3, <1>4, <1>7
  DEF BecomesShell, ChildReturn, Running, ContextsSaved, CurrentIsLive
<1>15. OneLineage'
  BY <1>1, <1>9, <1>14 DEF Running, OneLineage
<1> QED
  BY <1>7, <1>8, <1>10, <1>11, <1>12, <1>13, <1>15
  DEF IInv, Consistent, NoLostTask

\* The two callers of fork(): main() goes idle, the shell stays the shell.
Forks(after) ==
  \/ after = "idle" /\ pc[cur_task] = "main"
  \/ after = "shell" /\ pc[cur_task] = "shell"

(* fork(): the new pid is the largest, so it belongs behind the last task. *)
LEMMA ForkKeeps ==
  ASSUME IInv, cur_task # NULL, NEW after, Forks(after), fork(after),
         typed' \in 0..MaxTyped
  PROVE  IInv'
<1>1. Running
  BY DEF IInv, Consistent, Booting, Running
<1>2. TypeOK /\ NoLostTask /\ live \subseteq Pids /\ Pids \subseteq Nat
  BY LiveAreTasks DEF IInv
<1>3. PICK tail \in OnList : next[tail] = NULL /\ next' = Appended(tail, next_pid)
  BY DEF fork
<1>4. /\ tail \in live /\ cur_task \in live /\ cur_vm_page_dir = cur_task
      /\ \A q \in live : q <= tail
  <2>1. tail \in live /\ cur_task \in live /\ cur_vm_page_dir = cur_task
    BY <1>1, <1>2, ListInLive DEF Running, CurrentIsLive
  <2>2. ~(next[tail] > tail)
    BY <1>2, <1>3, <2>1 DEF NULL, Pids
  <2> QED
    BY <1>1, <2>1, <2>2 DEF Running, Ordered
<1>5. next_pid \in Pids /\ next_pid \notin live /\ next_pid # NULL
  /\ \A q \in live : q < next_pid
  BY DEF fork, live, Pids, NULL
<1>6. live' = live \cup {next_pid}
  BY <1>1, <1>2 DEF live, fork, Running, HeadStays, TypeOK
<1>7. /\ next' \in [Pids -> Pids \cup {NULL}]
      /\ next'[tail] = next_pid /\ next'[next_pid] = NULL
      /\ \A q \in live \ {tail} : next'[q] = next[q]
  BY <1>2, <1>3, <1>4, <1>5 DEF Appended, TypeOK
<1>8. /\ ctx' \in [Pids -> Contexts] /\ ctx'[next_pid] = "fork"
      /\ \A q \in live : ctx'[q] = ctx[q]
  BY <1>2, <1>5 DEF fork, TypeOK, Contexts, Saved
<1>9. /\ pc' \in [Pids -> Codes] /\ pc'[next_pid] = pc[cur_task]
      /\ pc'[cur_task] = after
      /\ \A q \in Pids \ {cur_task, next_pid} : pc'[q] = pc[q]
  BY <1>2, <1>4, <1>5 DEF fork, TypeOK, Codes, Forks
<1>10. UNCHANGED <<head_task, cur_task, cur_vm_page_dir, killed>>
  /\ next_pid' = next_pid + 1 /\ interrupts' = TRUE
  BY DEF fork
<1>11. TypeOK'
  BY TasksAssumption, <1>2, <1>5, <1>7, <1>8, <1>9, <1>10 DEF TypeOK, Pids
<1>12. HeadStays'
  <2>1. pc'[1] # "boot"
    BY <1>1, <1>5, <1>9, TasksAssumption DEF Running, HeadStays, Forks, Pids
  <2> QED
    BY <1>1, <1>2, <1>10, <2>1 DEF Running, HeadStays, TypeOK
<1>13. CurrentIsLive'
  BY <1>4, <1>6, <1>10 DEF CurrentIsLive
<1>14. Ordered'
  <2> SUFFICES ASSUME NEW p \in live \cup {next_pid}
               PROVE \/ next'[p] = NULL /\ \A q \in live \cup {next_pid} : q <= p
                     \/ /\ next'[p] \in live \cup {next_pid} /\ next'[p] > p
                        /\ \A q \in live \cup {next_pid} : q > p => q >= next'[p]
    BY <1>6 DEF Ordered
  <2>1. CASE p = next_pid
    BY <1>2, <1>5, <1>7, <2>1
  <2>2. CASE p = tail
    BY <1>2, <1>4, <1>5, <1>7, <2>2
  <2>3. CASE p \in live \ {tail}
    <3>1. tail > p /\ next'[p] = next[p]
      BY <1>2, <1>4, <1>7, <2>3
    <3>2. next[p] \in live /\ next[p] > p /\ \A q \in live : q > p => q >= next[p]
      BY <1>1, <1>2, <1>4, <2>3, <3>1 DEF Running, Ordered
    <3>3. p \in Nat /\ next[p] \in Nat /\ next_pid \in Nat
      BY <1>2, <1>5, <2>3, <3>2
    <3>4. \A q \in live \cup {next_pid} : q > p => q >= next[p]
      BY <1>2, <1>5, <3>2, <3>3
    <3> QED
      BY <3>1, <3>2, <3>4
  <2> QED
    BY <2>1, <2>2, <2>3
<1>15. ContextsSaved'
  BY <1>1, <1>4, <1>5, <1>6, <1>8, <1>10 DEF Running, ContextsSaved, Saved
<1>16. OneLineage'
  <2>1. BecomesShell(cur_task)
    BY <1>1 DEF Forks, BecomesShell, Running, ContextsSaved
  <2>2. \A q \in live \ {cur_task} : BecomesShell(q)' = BecomesShell(q)
    BY <1>2, <1>5, <1>8, <1>9 DEF BecomesShell
  <2>3. \A q \in live \ {cur_task} : ~ BecomesShell(q)
    BY <1>1, <1>4, <2>1 DEF Running, OneLineage
  <2>4. PICK new, c : new = next_pid /\ c = cur_task
    OBVIOUS
  <2>5. ~ (BecomesShell(new)' /\ BecomesShell(c)')
    BY <1>4, <1>8, <1>9, <2>4 DEF BecomesShell, Forks
  <2>6. \A q \in live \ {c} : ~ BecomesShell(q)'
    BY <2>2, <2>3, <2>4
  <2> QED
    BY <1>6, <2>4, <2>5, <2>6 DEF OneLineage
<1>17. NoLostTask'
  BY <1>2, <1>9 DEF NoLostTask, Forks
<1> QED
  BY <1>11, <1>12, <1>13, <1>14, <1>15, <1>16, <1>17 DEF IInv, Consistent

(* task_exit_pid(): bridging the gap keeps the list in pid order, and the  *)
(* task before the one that is removed is live.                            *)
LEMMA KillKeeps ==
  ASSUME NEW pid \in KillDigits
  PROVE  IInv /\ task_exit_pid(pid) => IInv'
<1> SUFFICES ASSUME IInv, task_exit_pid(pid) PROVE IInv'
  OBVIOUS
<1>1. Running
  BY DEF IInv, Consistent, Booting, task_exit_pid, ReadCommand, Running
<1>2. TypeOK /\ NoLostTask /\ live \subseteq Pids /\ Pids \subseteq Nat
  BY LiveAreTasks DEF IInv
<1>3. PICK t \in OnList : /\ next[t] = pid
                         /\ next' = Unlinked(t, pid)
                         /\ Resume(t, Saving("exit"))
  BY DEF task_exit_pid
<1>4. /\ t \in live /\ pid \in live /\ t < pid /\ pid # 1
      /\ \A q \in live : q > t => q >= pid
  BY <1>1, <1>2, <1>3, UnlinkedTask
<1> DEFINE saved == Saving("exit")
<1>5. saved \in [Pids -> Contexts] /\ saved[cur_task] = "exit"
  /\ \A q \in Pids \ {cur_task} : saved[q] = ctx[q]
  BY <1>1, <1>2 DEF Running, CurrentIsLive, Saving, TypeOK, Contexts, Saved
<1>6. \A q \in live : saved[q] \in Saved
  BY <1>1, <1>2, <1>5 DEF Running, ContextsSaved, Saved
<1> HIDE DEF saved
<1>7. /\ cur_task' = t /\ cur_vm_page_dir' = t /\ interrupts' = TRUE
      /\ ctx' \in [Pids -> Contexts] /\ pc' \in [Pids -> Codes]
      /\ ctx'[t] = "used"
      /\ \A q \in Pids : q # t => ctx'[q] = saved[q] /\ pc'[q] = pc[q]
      /\ pc'[t] = IF saved[t] = "fork" THEN ChildReturn(pc[t]) ELSE pc[t]
      /\ \A q \in Pids : pc'[q] # "lost"
  BY <1>2, <1>3, <1>4, <1>5, <1>6, AfterResume DEF saved
<1>8. UNCHANGED <<head_task, next_pid>> /\ killed' = killed \cup {pid}
  BY DEF task_exit_pid
<1>9. live' = live \ {pid}
  BY <1>8 DEF live
<1>10. /\ next' \in [Pids -> Pids \cup {NULL}] /\ next'[t] = next[pid]
       /\ \A q \in Pids \ {t} : next'[q] = next[q]
  BY <1>2, <1>3, <1>4 DEF Unlinked, TypeOK
<1>11. typed' \in 0..MaxTyped
  BY <1>2, TasksAssumption DEF task_exit_pid, ReadCommand, TypeOK
<1>12. TypeOK'
  BY <1>2, <1>4, <1>7, <1>8, <1>10, <1>11 DEF TypeOK
<1>13. HeadStays'
  <2>1. pc'[1] # "boot"
    BY <1>1, <1>7, TasksAssumption DEF Running, HeadStays, ChildReturn, Pids
  <2> QED
    BY <1>1, <1>4, <1>8, <2>1 DEF Running, HeadStays, live
<1>14. CurrentIsLive'
  BY <1>2, <1>4, <1>7, <1>9 DEF CurrentIsLive
<1>15. Ordered'
  <2> SUFFICES ASSUME NEW p \in live \ {pid}
               PROVE \/ next'[p] = NULL /\ \A q \in live \ {pid} : q <= p
                     \/ /\ next'[p] \in live \ {pid} /\ next'[p] > p
                        /\ \A q \in live \ {pid} : q > p => q >= next'[p]
    BY <1>9 DEF Ordered
  <2>1. CASE p = t
    <3>1. \A q \in live \ {pid} : q > t => q > pid
      BY <1>2, <1>4
    <3>2. CASE next[pid] = NULL
      <4>1. \A q \in live : q <= pid
        BY <1>1, <1>2, <1>4, <3>2 DEF Running, Ordered, NULL, Pids
      <4> QED
        BY <1>2, <1>4, <1>10, <2>1, <3>1, <3>2, <4>1
    <3>3. CASE next[pid] # NULL
      <4>1. /\ next[pid] \in live /\ next[pid] > pid
            /\ \A q \in live : q > pid => q >= next[pid]
        BY <1>1, <1>4, <3>3 DEF Running, Ordered
      <4> t \in Nat /\ pid \in Nat /\ next[pid] \in Nat
        BY <1>2, <1>4, <4>1
      <4>2. next[pid] > t /\ next[pid] \in live \ {pid}
        BY <1>4, <4>1
      <4>3. \A q \in live \ {pid} : q > t => q >= next[pid]
        BY <3>1, <4>1
      <4>4. next'[p] = next[pid]
        BY <1>10, <2>1
      <4> QED
        BY <2>1, <4>2, <4>3, <4>4
    <3> QED
      BY <3>2, <3>3
  <2>2. CASE p # t
    <3>1. next'[p] = next[p]
      BY <1>2, <1>10, <2>2
    <3>2. p \in Nat /\ t \in Nat /\ pid \in Nat
      BY <1>2, <1>4
    <3>3. next[p] # pid
      <4>1. SUFFICES ASSUME next[p] = pid PROVE FALSE
        OBVIOUS
      <4>2. p < pid /\ \A q \in live : q > p => q >= pid
        BY <1>1, <1>2, <1>4, <4>1 DEF Running, Ordered, NULL, Pids
      <4>3. t > p \/ p > t
        BY <2>2, <3>2
      <4> QED
        BY <1>4, <3>2, <4>2, <4>3
    <3> QED
      BY <1>1, <3>1, <3>3 DEF Running, Ordered
  <2> QED
    BY <2>1, <2>2
<1>16. ContextsSaved'
  BY <1>2, <1>6, <1>7, <1>9 DEF ContextsSaved
<1>17. \A q \in live : BecomesShell(q)' => BecomesShell(q)
  BY <1>1, <1>2, <1>4, <1>5, <1>7
  DEF BecomesShell, ChildReturn, Running, ContextsSaved, CurrentIsLive
<1>18. OneLineage'
  BY <1>1, <1>9, <1>17 DEF Running, OneLineage
<1> QED
  BY <1>7, <1>12, <1>13, <1>14, <1>15, <1>16, <1>18
  DEF IInv, Consistent, NoLostTask

(* The one task of an empty system: main() becomes task 1.                 *)
LEMMA FirstTaskKeeps == IInv /\ init_multitask => IInv'
<1> SUFFICES ASSUME IInv, init_multitask PROVE IInv'
  OBVIOUS
<1>1. TypeOK /\ Booting /\ 1 \in Pids
  BY TasksAssumption
  DEF IInv, Consistent, HeadStays, init_multitask, Pids
<1>2. /\ head_task' = 1 /\ cur_task' = 1 /\ next_pid' = 2 /\ killed' = {}
      /\ cur_vm_page_dir' = 1 /\ next'[1] = NULL /\ ctx'[1] = "none"
      /\ pc'[1] = "main"
  BY <1>1 DEF init_multitask, Booting, TypeOK, NULL
<1>3. live' = {1}
  BY <1>2 DEF live
<1>4. TypeOK'
  BY <1>1, TasksAssumption
  DEF init_multitask, TypeOK, Booting, Pids, Contexts, Codes, NULL
<1>5. HeadStays' /\ CurrentIsLive' /\ Ordered' /\ ContextsSaved' /\ OneLineage'
  BY <1>2, <1>3
  DEF HeadStays, CurrentIsLive, Ordered, ContextsSaved, OneLineage
<1>6. NoLostTask'
  BY <1>1 DEF IInv, NoLostTask, init_multitask, TypeOK
<1> QED
  BY <1>4, <1>5, <1>6 DEF IInv, Consistent

(* The steps that leave the tasks alone.                                   *)
LEMMA OtherStepsKeep ==
  ASSUME IInv, UNCHANGED <<head_task, cur_task, next_pid, next,
                           cur_vm_page_dir, ctx, pc, killed>>,
         typed' \in 0..MaxTyped, interrupts' \in BOOLEAN
  PROVE  IInv'
<1>1. TypeOK'
  BY DEF IInv, TypeOK
<1>2. live' = live
  BY DEF live
<1>3. Consistent' /\ NoLostTask'
  BY <1>2 DEF IInv, Consistent, NoLostTask, Booting, HeadStays, CurrentIsLive,
              Ordered, ContextsSaved, OneLineage, BecomesShell
<1> QED
  BY <1>1, <1>3 DEF IInv

(* Every step of Spec keeps the invariant.                                 *)
LEMMA StepKeepsInvariant == IInv /\ [Next]_vars => IInv'
<1> SUFFICES ASSUME IInv, [Next]_vars PROVE IInv'
  OBVIOUS
<1>0. /\ typed \in 0..MaxTyped /\ interrupts \in BOOLEAN
      /\ ReadCommand => typed' \in 0..MaxTyped
  BY TasksAssumption DEF IInv, TypeOK, ReadCommand
<1>1. CASE init_multitask
  BY <1>1, FirstTaskKeeps
<1>2. CASE main_fork
  BY <1>0, <1>2, ForkKeeps DEF main_fork, Forks
<1>3. CASE task_switch
  BY <1>3, SwitchKeeps
<1>4. CASE keyboard_handler
  <2>1. typed' \in 0..MaxTyped
    BY <1>0, <1>4, TasksAssumption DEF keyboard_handler
  <2> QED
    BY <1>0, <1>4, <2>1, OtherStepsKeep DEF keyboard_handler
<1>5. CASE create_task
  BY <1>0, <1>5, ForkKeeps DEF create_task, ReadCommand, Forks
<1>6. CASE other_command
  BY <1>0, <1>6, OtherStepsKeep DEF other_command
<1>7. ASSUME NEW pid \in KillDigits, task_exit_pid(pid) PROVE IInv'
  BY <1>7, KillKeeps
<1>8. ASSUME NEW pid \in KillDigits, task_exit_pid_missing(pid) PROVE IInv'
  BY <1>0, <1>8, OtherStepsKeep DEF task_exit_pid_missing
<1>9. CASE UNCHANGED vars
  BY <1>0, <1>9, OtherStepsKeep DEF vars
<1> QED
  BY <1>1, <1>2, <1>3, <1>4, <1>5, <1>6, <1>7, <1>8, <1>9 DEF Next

-----------------------------------------------------------------------------
(* In every reachable state the tables agree with one another.             *)
THEOREM Invariance == Spec => []IInv
<1>1. Init => IInv
  BY InitInvariant
<1>2. IInv /\ [Next]_vars => IInv'
  BY StepKeepsInvariant
<1> QED
  BY <1>1, <1>2, PTL DEF Spec

(* Every variable keeps its type.                                          *)
THEOREM TypeCorrectness == Spec => []TypeOK
<1>1. IInv => TypeOK
  BY DEF IInv
<1> QED
  BY <1>1, Invariance, PTL

(* No order of forks, kills and clock ticks makes pcb order, directories,  *)
(* saved contexts and stacks disagree.                                     *)
THEOREM TablesAgree == Spec => []Consistent
<1>1. IInv => Consistent
  BY DEF IInv
<1> QED
  BY <1>1, Invariance, PTL

(* Every jump through a saved context resumes the task's own code: none    *)
(* goes to the eip 0 of main()'s fresh pcb or takes a context twice.       *)
THEOREM NoTaskIsLost == Spec => []NoLostTask
<1>1. IInv => NoLostTask
  BY DEF IInv
<1> QED
  BY <1>1, Invariance, PTL

(* A task removed by task_exit_pid never has the processor again.          *)
THEOREM KilledTasksNeverRun == Spec => []KilledNeverRuns
<1>1. IInv => KilledNeverRuns
  BY DEF IInv, Consistent, Booting, CurrentIsLive, live, KilledNeverRuns
<1> QED
  BY <1>1, Invariance, PTL

(* The list threads exactly the tasks created and not killed.              *)
THEOREM ListThreadsLiveTasks == Spec => []ListIsLive
<1>1. IInv => ListIsLive
  BY ListIsAllLive DEF IInv, Consistent, Booting, Running, ListIsLive
<1> QED
  BY <1>1, Invariance, PTL

(* At most one live task runs the command loop.                            *)
THEOREM AtMostOneShell == Spec => []OneShell
<1>1. IInv => OneShell
  <2>1. Booting => live = {}
    BY DEF Booting, live
  <2> QED
    BY <2>1 DEF IInv, Consistent, OneLineage, BecomesShell, OneShell
<1> QED
  BY <1>1, Invariance, PTL

(* The abstract rotation: each step of the kernel is a step of module      *)
(* Scheduler or leaves its variables alone.                                *)
THEOREM ImplementsRotation == Spec => ImplementsScheduler
<1>1. Init => Sched!Init
  BY DEF Init, Sched!Init, live, NULL
<1>2. IInv /\ [Next]_vars => [Sched!Next]_(Sched!svars)
  <2> SUFFICES ASSUME IInv, [Next]_vars PROVE [Sched!Next]_(Sched!svars)
    OBVIOUS
  <2>1. TypeOK /\ live \subseteq Pids /\ Pids \subseteq Nat
    BY LiveAreTasks DEF IInv
  <2>2. CASE init_multitask
    <3>1. Booting
      BY <2>2 DEF IInv, Consistent, HeadStays, init_multitask
    <3>2. live = {} /\ live' = {1} /\ next_pid' - 1 = 1 /\ cur_task' = 1
      BY <2>2, <3>1 DEF live, init_multitask, Booting
    <3> QED
      BY <3>2 DEF Sched!Next, Sched!Start
  <2>3. ASSUME NEW after, fork(after), cur_task # NULL PROVE Sched!Spawn
    <3>1. Running
      BY <2>3 DEF IInv, Consistent, Booting, Running
    <3>2. live' = live \cup {next_pid' - 1}
      BY <2>1, <2>3, <3>1 DEF live, fork, Running, HeadStays, TypeOK
    <3> QED
      BY <2>1, <2>3, <3>1, <3>2
      DEF Sched!Spawn, fork, Running, CurrentIsLive, TypeOK
  <2>4. CASE main_fork
    BY <2>3, <2>4 DEF main_fork, Sched!Next
  <2>5. CASE create_task
    BY <2>3, <2>5 DEF create_task, ReadCommand, Sched!Next
  <2>6. CASE task_switch
    <3>1. Running
      BY <2>6 DEF IInv, Consistent, Booting, Running, task_switch
    <3>2. live' = live /\ next_pid' = next_pid /\ cur_task' = Successor(cur_task)
      BY <2>6 DEF task_switch, Resume, live
    <3>3. /\ Successor(cur_task) \in live
          /\ Sched!Follows(Successor(cur_task), cur_task)
      <4>1. /\ cur_task \in live /\ 1 \in live /\ head_task = 1
            /\ 0 \notin live /\ \A q \in live : q \in Nat /\ 1 <= q
        BY <2>1, <3>1 DEF Running, HeadStays, CurrentIsLive, live, TypeOK
      <4>2. CASE next[cur_task] = NULL
        BY <3>1, <4>1, <4>2
        DEF Running, Ordered, Successor, Sched!Follows, NULL
      <4>3. CASE next[cur_task] # NULL
        BY <3>1, <4>1, <4>3 DEF Running, Ordered, Successor, Sched!Follows
      <4> QED
        BY <4>2, <4>3
    <3> QED
      BY <3>2, <3>3 DEF Sched!Next, Sched!Rotate
  <2>7. ASSUME NEW pid \in KillDigits, task_exit_pid(pid) PROVE Sched!Remove
    <3>1. Running
      BY <2>7 DEF IInv, Consistent, Booting, Running, task_exit_pid, ReadCommand
    <3>2. PICK t \in OnList : next[t] = pid /\ cur_task' = t
      BY <2>7 DEF task_exit_pid, Resume
    <3>3. /\ t \in live /\ pid \in live /\ t < pid
          /\ \A q \in live : q > t => q >= pid
      BY <2>1, <3>1, <3>2, UnlinkedTask
    <3>4. live' = live \ {pid} /\ next_pid' = next_pid
      BY <2>7 DEF task_exit_pid, live
    <3>5. Sched!Precedes(t, pid)
      BY <2>1, <3>3 DEF Sched!Precedes
    <3> QED
      BY <3>2, <3>3, <3>4, <3>5 DEF Sched!Remove
  <2>8. CASE UNCHANGED <<head_task, cur_task, next_pid, killed>>
    BY <2>8 DEF Sched!svars, live
  <2>9. CASE keyboard_handler \/ other_command \/ UNCHANGED vars
    BY <2>8, <2>9 DEF keyboard_handler, other_command, vars
  <2>10. ASSUME NEW pid \in KillDigits, task_exit_pid_missing(pid)
         PROVE  UNCHANGED <<head_task, cur_task, next_pid, killed>>
    BY <2>10 DEF task_exit_pid_missing
  <2> QED
    BY <2>2, <2>4, <2>5, <2>6, <2>7, <2>8, <2>9, <2>10 DEF Next, Sched!Next
<1> QED
  BY <1>1, <1>2, Invariance, PTL DEF Spec, ImplementsScheduler, Sched!Spec
=============================================================================
