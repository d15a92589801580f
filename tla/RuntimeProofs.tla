----------------------------- MODULE RuntimeProofs -----------------------------
(***************************************************************************)
(* Proofs about the two halves of runtime/task_manager.go: TaskManager,    *)
(* for any number of tasks, callers of Wait, failed log writes and         *)
(* crashes, and Pumps, for any pumps, configurations and callers and any   *)
(* number of registrations.                                                *)
(***************************************************************************)
EXTENDS TaskManager, Pumps, WellFoundedInduction, TLAPS

-----------------------------------------------------------------------------
(***************************************************************************)
(* The task manager                                                        *)
(***************************************************************************)
-----------------------------------------------------------------------------
(* What a step does to the records *)

Pc == {"created", "starting", "ready", "running", "cascading", "ended", "saved", "closed", "gone"}

LEMMA NoRecordType == NoRecord \in Record
  BY DEF NoRecord, Record, Status

\* The goroutine of i goes on, and nothing else changes.
LEMMA GotoFacts ==
  ASSUME task \in [Task -> Record], NEW i \in Task, NEW to \in Pc, Goto(i, to)
  PROVE  /\ task' \in [Task -> Record]
         /\ \A j \in Task : j # i => task'[j] = task[j]
         /\ task'[i].pc = to /\ task'[i].parent = task[i].parent
         /\ task'[i].status = task[i].status
         /\ task'[i].canceled = task[i].canceled /\ task'[i].ctxDone = task[i].ctxDone
<1>1. task' = [task EXCEPT ![i] = [task[i] EXCEPT !.pc = to]]
  BY DEF Goto
<1>2. [task[i] EXCEPT !.pc = to] \in Record
  BY DEF Record, Pc
<1>3. task'[i] = [task[i] EXCEPT !.pc = to] /\ task[i] \in Record
  BY <1>1
<1>4. /\ task'[i].pc = to /\ task'[i].parent = task[i].parent
      /\ task'[i].status = task[i].status
      /\ task'[i].canceled = task[i].canceled /\ task'[i].ctxDone = task[i].ctxDone
  BY <1>3 DEF Record
<1> QED BY <1>1, <1>2, <1>4

LEMMA RunFacts ==
  ASSUME task \in [Task -> Record], NEW i \in Task, Run(i)
  PROVE  /\ task' \in [Task -> Record]
         /\ \A j \in Task : j # i => task'[j] = task[j]
         /\ task'[i].pc = "running" /\ task'[i].parent = task[i].parent
         /\ task'[i].status = task[i].status
         /\ task'[i].canceled = task[i].canceled /\ task'[i].ctxDone = task[i].canceled
<1> DEFINE x == [task[i] EXCEPT !.pc = "running", !.ctxDone = task[i].canceled]
<1>1. task' = [task EXCEPT ![i] = x]
  BY DEF Run
<1>2. x \in Record
  BY DEF Record
<1>3. /\ x.pc = "running" /\ x.parent = task[i].parent /\ x.status = task[i].status
      /\ x.canceled = task[i].canceled /\ x.ctxDone = task[i].canceled
  BY DEF Record
<1> HIDE DEF x
<1> QED BY <1>1, <1>2, <1>3

LEMMA ReturnFacts ==
  ASSUME task \in [Task -> Record], NEW i \in Task, Return(i)
  PROVE  /\ task' \in [Task -> Record]
         /\ \A j \in Task : j # i => task'[j] = task[j]
         /\ \/ task'[i].pc = "cascading" /\ task'[i].status = "canceled"
            \/ task'[i].pc = "ended" /\ task'[i].status \in {"done", "failed"}
         /\ task'[i].parent = task[i].parent
         /\ task'[i].canceled = task[i].canceled /\ task'[i].ctxDone = task[i].ctxDone
<1>1. PICK s \in {"done", "failed", "canceled"} :
        task' = [task EXCEPT ![i] =
                   [@ EXCEPT !.status = s, !.pc = IF s = "canceled" THEN "cascading" ELSE "ended"]]
  BY DEF Return
<1> DEFINE pc == IF s = "canceled" THEN "cascading" ELSE "ended"
           x == [task[i] EXCEPT !.status = s, !.pc = pc]
<1>2. task' = [task EXCEPT ![i] = x]
  BY <1>1
<1>3. pc \in Pc /\ s \in Status
  BY DEF Pc, Status
<1>4. \/ pc = "cascading" /\ s = "canceled"
      \/ pc = "ended" /\ s \in {"done", "failed"}
  OBVIOUS
<1> HIDE DEF pc
<1>5. x \in Record
  BY <1>3 DEF Record, Pc
<1>6. /\ x.pc = pc /\ x.parent = task[i].parent /\ x.status = s
      /\ x.canceled = task[i].canceled /\ x.ctxDone = task[i].ctxDone
  BY DEF Record
<1> HIDE DEF x
<1> QED BY <1>2, <1>4, <1>5, <1>6

LEMMA DeleteFacts ==
  ASSUME task \in [Task -> Record], NEW i \in Task, Delete(i)
  PROVE  /\ task' \in [Task -> Record]
         /\ \A j \in Task : j # i => task'[j] = task[j]
         /\ task'[i].pc = "gone" /\ task'[i].parent = task[i].parent
         /\ task'[i].status = task[i].status /\ task'[i].canceled = task[i].canceled
<1> DEFINE x == [task[i] EXCEPT !.pc = "gone", !.ctxDone = TRUE]
<1>1. task' = [task EXCEPT ![i] = x]
  BY DEF Delete
<1>2. x \in Record
  BY DEF Record
<1>3. /\ x.pc = "gone" /\ x.parent = task[i].parent /\ x.status = task[i].status
      /\ x.canceled = task[i].canceled
  BY DEF Record
<1> HIDE DEF x
<1> QED BY <1>1, <1>2, <1>3

\* A Cancel changes requests, and where the goroutine of r is.
LEMMA MarkFacts ==
  ASSUME task \in [Task -> Record], NEW r \in Task, NEW pc \in Pc, Mark(r, pc)
  PROVE  /\ task' \in [Task -> Record]
         /\ \A i \in Task :
              /\ task'[i].pc = IF i = r THEN pc ELSE task[i].pc
              /\ task'[i].parent = task[i].parent /\ task'[i].status = task[i].status
              /\ task'[i].canceled <=> task[i].canceled \/ i \in Marked(r)
              /\ task'[i].ctxDone = task[i].ctxDone
<1> DEFINE b(i) == task[i].canceled \/ i \in Marked(r)
           p(i) == IF i = r THEN pc ELSE task[i].pc
<1>1. task' = [i \in Task |-> [task[i] EXCEPT !.canceled = b(i), !.pc = p(i)]]
  BY Zenon DEF Mark
<1>2. \A i \in Task : b(i) \in BOOLEAN /\ p(i) \in Pc
  BY DEF Record, Pc
<1>3. ASSUME NEW i \in Task
      PROVE  /\ task'[i] \in Record /\ task'[i].pc = p(i) /\ task'[i].canceled = b(i)
             /\ task'[i].parent = task[i].parent /\ task'[i].status = task[i].status
             /\ task'[i].ctxDone = task[i].ctxDone
  <2> HIDE DEF b, p
  <2>1. task'[i] = [task[i] EXCEPT !.canceled = b(i), !.pc = p(i)]
    BY <1>1, Zenon
  <2>2. b(i) \in BOOLEAN /\ p(i) \in Pc /\ task[i] \in Record
    BY <1>2
  <2> QED BY <2>1, <2>2 DEF Record, Pc
<1>4. task' \in [Task -> Record]
  <2> HIDE DEF b, p
  <2> QED BY <1>1, <1>3, Zenon
<1>5. ASSUME NEW i \in Task
      PROVE  /\ p(i) = IF i = r THEN pc ELSE task[i].pc
             /\ b(i) <=> task[i].canceled \/ i \in Marked(r)
  BY Zenon
<1> HIDE DEF b, p
<1> QED BY <1>3, <1>4, <1>5, Zenon

LEMMA CallCancelFacts ==
  ASSUME task \in [Task -> Record], NEW i \in Task, CallCancel(i)
  PROVE  /\ task' \in [Task -> Record]
         /\ \A j \in Task : j # i => task'[j] = task[j]
         /\ task'[i].pc = task[i].pc /\ task'[i].parent = task[i].parent
         /\ task'[i].status = task[i].status /\ task'[i].canceled = task[i].canceled
         /\ At(i, "running") => task'[i].ctxDone
<1>1. CASE At(i, "running")
  <2> DEFINE x == [task[i] EXCEPT !.ctxDone = TRUE]
  <2>1. task' = [task EXCEPT ![i] = x]
    BY <1>1 DEF CallCancel
  <2>2. x \in Record
    BY DEF Record
  <2>3. /\ x.pc = task[i].pc /\ x.parent = task[i].parent /\ x.status = task[i].status
        /\ x.canceled = task[i].canceled /\ x.ctxDone
    BY DEF Record
  <2> HIDE DEF x
  <2> QED BY <2>1, <2>2, <2>3
<1>2. CASE ~At(i, "running")
  BY <1>2 DEF CallCancel
<1> QED BY <1>1, <1>2

LEMMA NewRecordFacts ==
  ASSUME TypeOK, NewRecord
  PROVE  /\ nextID + 1 \in Task /\ nextID' = nextID + 1
         /\ \E p \in Task \cup {NoTask} :
              /\ MaySpawn(p) /\ (p # NoTask => Started(p))
              /\ task'[nextID + 1] = [pc |-> "created", parent |-> p, status |-> "running",
                                      canceled |-> FALSE, ctxDone |-> FALSE]
         /\ task' \in [Task -> Record]
         /\ \A j \in Task : j # nextID + 1 => task'[j] = task[j]
<1>1. nextID + 1 \in Task /\ task \in [Task -> Record]
  BY TaskManagerAssumption DEF NewRecord, TypeOK, Task
<1>2. PICK p \in NoParent \cup ByFunction :
        /\ MaySpawn(p)
        /\ task' = [task EXCEPT ![nextID + 1] =
                      [pc |-> "created", parent |-> p, status |-> "running",
                       canceled |-> FALSE, ctxDone |-> FALSE]]
  BY DEF NewRecord
<1>3. p \in Task \cup {NoTask} /\ (p # NoTask => Started(p))
  BY DEF NoParent, ByFunction
<1>4. [pc |-> "created", parent |-> p, status |-> "running",
       canceled |-> FALSE, ctxDone |-> FALSE] \in Record
  BY <1>3 DEF Record, Status
<1> QED BY <1>1, <1>2, <1>3, <1>4 DEF NewRecord

\* Every non-empty set of natural numbers has a least element.
LEMMA LeastNatural ==
  ASSUME NEW T, T \subseteq Nat, T # {}
  PROVE  \E n \in T : \A m \in T : n <= m
<1>1. PICK n \in T : \A m \in T : <<m, n>> \notin OpToRel(<, Nat)
  BY WFMin, NatLessThanWellFounded, Zenon
<1>2. \A m \in T : ~(m < n)
  BY <1>1, Zenon DEF OpToRel
<1>3. \A m \in T : n \in Nat /\ m \in Nat
  OBVIOUS
<1> QED BY <1>2, <1>3

\* A restart goes on from the highest id in the log.
LEMMA RestartedFacts ==
  ASSUME TypeOK
  PROVE  Restarted \in 0..MaxTasks /\ \A i \in Task : log[i] # "none" => i <= Restarted
<1> DEFINE Above == {n \in 0..MaxTasks : \A i \in Task : log[i] # "none" => i <= n}
<1>1. Above \subseteq Nat /\ MaxTasks \in Above
  BY TaskManagerAssumption DEF Task
<1>2. PICK n \in Above : \A m \in Above : n <= m
  <2> HIDE DEF Above
  <2> QED BY <1>1, LeastNatural
<1>3. n \in 0..MaxTasks /\ \A i \in Task : log[i] # "none" => i <= n
  OBVIOUS
<1>4. ASSUME n # 0, log[n] = "none" PROVE FALSE
  <2>1. n - 1 \in 0..MaxTasks /\ n \in Task
    BY <1>3, <1>4, TaskManagerAssumption DEF Task
  <2>2. \A i \in Task : log[i] # "none" => i <= n - 1
    BY <1>3, <1>4 DEF Task
  <2>3. n - 1 \in Above
    BY <2>1, <2>2
  <2> HIDE DEF Above
  <2> QED BY <1>2, <1>3, <2>3
<1> HIDE DEF Above
<1>5. \E k \in 0..MaxTasks : /\ \A i \in Task : log[i] # "none" => i <= k
                             /\ k # 0 => log[k] # "none"
  BY <1>3, <1>4
<1> QED BY <1>5 DEF Restarted

-----------------------------------------------------------------------------
(* Type correctness *)

\* A caller of Wait that is blocked waits for a task.
BlockedOnTask == \A w \in Waiters : waiter[w].pc = "blocked" => waiter[w].id \in Task

TypeInv == TypeOK /\ BlockedOnTask

LEMMA TypeInit == Init => TypeInv
  BY TaskManagerAssumption, NoRecordType
  DEF Init, TypeInv, TypeOK, BlockedOnTask, Idle, WaitState, Status

LEMMA PersistType ==
  ASSUME TypeOK, NEW i \in Task, Persist(i)
  PROVE  /\ log' \in [Task -> Status] /\ faults' \in 0..MaxFaults /\ broken' \subseteq Task
         /\ \A j \in Task : j # i => log'[j] = log[j]
         /\ \/ log'[i] = task[i].status /\ broken' = broken
            \/ log' = log /\ broken' = broken \cup {i}
<1>0. /\ task[i].status \in Status /\ log \in [Task -> Status]
      /\ faults \in 0..MaxFaults /\ broken \subseteq Task
  BY DEF TypeOK, Record
<1>1. CASE log' = [log EXCEPT ![i] = task[i].status] /\ UNCHANGED <<faults, broken>>
  BY <1>0, <1>1
<1>2. CASE Fault /\ broken' = broken \cup {i} /\ UNCHANGED log
  BY <1>0, <1>2, TaskManagerAssumption DEF Fault
<1> QED BY <1>1, <1>2, Zenon DEF Persist

LEMMA TypeStep == TypeInv /\ [Next]_vars => TypeInv'
<1> SUFFICES ASSUME TypeInv, [Next]_vars PROVE TypeInv'
  OBVIOUS
<1> USE DEF BlockedOnTask
<1>0. /\ nextID \in 0..MaxTasks
      /\ task \in [Task -> Record]
      /\ calls \subseteq Task
      /\ log \in [Task -> Status]
      /\ waiter \in [Waiters -> WaitState]
      /\ faults \in 0..MaxFaults
      /\ handed \subseteq Task
      /\ broken \subseteq Task
      /\ \A w \in Waiters : waiter[w].pc = "blocked" => waiter[w].id \in Task
      /\ TypeOK
  BY DEF TypeOK, TypeInv
<1>1. CASE NewRecord
  <2>1. task' \in [Task -> Record] /\ nextID' \in 0..MaxTasks
    BY <1>0, <1>1, NewRecordFacts DEF Task
  <2> QED BY <1>0, <1>1, <2>1 DEF NewRecord, TypeOK, TypeInv
<1>2. ASSUME NEW i \in Task, Spawned(i) \/ LogStart(i) \/ LogEnd(i) \/ CloseDone(i) PROVE TypeInv'
  <2>1. task' \in [Task -> Record]
    BY <1>0, <1>2, GotoFacts DEF Spawned, LogStart, LogEnd, CloseDone, Pc
  <2>2. log' \in [Task -> Status] /\ faults' \in 0..MaxFaults /\ broken' \subseteq Task
    BY <1>0, <1>2, PersistType DEF Spawned, LogStart, LogEnd, CloseDone
  <2> QED BY <1>0, <1>2, <2>1, <2>2 DEF Spawned, LogStart, LogEnd, CloseDone, TypeOK, TypeInv
<1>3. ASSUME NEW i \in Task, Run(i) \/ Return(i) \/ Delete(i) PROVE TypeInv'
  <2>1. task' \in [Task -> Record]
    BY <1>0, <1>3, RunFacts, ReturnFacts, DeleteFacts
  <2> QED BY <1>0, <1>3, <2>1 DEF Run, Return, Delete, TypeOK, TypeInv
<1>4. ASSUME NEW i \in Task, Cancel(i) \/ Cascade(i) PROVE TypeInv'
  <2>1. PICK pc \in Pc : Mark(i, pc)
    <3>1. task[i].pc \in Pc
      BY <1>0 DEF Record, Pc
    <3> QED BY <1>4, <3>1 DEF Cancel, Cascade, Pc
  <2>2. task' \in [Task -> Record]
    BY <1>0, <2>1, MarkFacts
  <2>3. calls' \subseteq Task
    <3>1. Marked(i) \subseteq Task
      BY Zenon DEF Marked, Visited
    <3>2. calls' = calls \cup {j \in Marked(i) : At(j, "running")}
      BY <2>1, Zenon DEF Mark
    <3> QED BY <1>0, <3>1, <3>2
  <2> QED BY <1>0, <1>4, <2>2, <2>3 DEF Cancel, Cascade, TypeOK, TypeInv
<1>5. ASSUME NEW i \in Task, CallCancel(i) PROVE TypeInv'
  <2>1. task' \in [Task -> Record]
    BY <1>0, <1>5, CallCancelFacts
  <2> QED BY <1>0, <1>5, <2>1 DEF CallCancel, TypeOK, TypeInv
<1>6. ASSUME NEW w \in Waiters, NEW x \in WaitState, waiter' = [waiter EXCEPT ![w] = x],
             x.pc = "blocked" => x.id \in Task,
             UNCHANGED <<nextID, task, calls, log, faults, handed, broken>>
      PROVE  TypeInv'
  BY <1>0, <1>6 DEF TypeOK, TypeInv
<1>7. ASSUME NEW w \in Waiters, NEW i \in Task, Wait(w, i) PROVE TypeInv'
  <2>1. log[i] \in Status
    BY <1>0
  <2>2. /\ [pc |-> "blocked", id |-> i, got |-> "none"] \in WaitState
        /\ [pc |-> "returned", id |-> i, got |-> log[i]] \in WaitState
        /\ [pc |-> "blocked", id |-> i, got |-> "none"].id \in Task
    BY <2>1 DEF WaitState, Status
  <2> QED BY <1>6, <1>7, <2>2 DEF Wait
<1>8. ASSUME NEW w \in Waiters, Wake(w) PROVE TypeInv'
  <2> DEFINE x == [waiter[w] EXCEPT !.pc = "returned", !.got = task[waiter[w].id].status]
  <2>1. waiter[w] \in WaitState /\ waiter[w].id \in Task
    BY <1>0, <1>8 DEF Wake
  <2>2. task[waiter[w].id].status \in Status
    BY <1>0, <2>1 DEF Record
  <2>3. x \in WaitState /\ x.pc = "returned"
    BY <2>1, <2>2 DEF WaitState
  <2>4. waiter' = [waiter EXCEPT ![w] = x]
    BY <1>8 DEF Wake
  <2> HIDE DEF x
  <2> QED BY <1>6, <1>8, <2>3, <2>4 DEF Wake
<1>9. ASSUME NEW w \in Waiters, Timeout(w) PROVE TypeInv'
  <2>1. Idle \in WaitState /\ Idle.pc = "idle"
    BY DEF Idle, WaitState, Status
  <2> QED BY <1>6, <1>9, <2>1 DEF Timeout
<1>10. CASE Crash
  <2>1. nextID' \in 0..MaxTasks
    BY <1>0, <1>10, RestartedFacts DEF Crash
  <2>2. Idle \in WaitState /\ Idle.pc = "idle"
    BY DEF Idle, WaitState, Status
  <2>3. faults' \in 0..MaxFaults
    BY <1>0, <1>10, TaskManagerAssumption DEF Crash, Fault
  <2>4. task' \in [Task -> Record] /\ calls' \subseteq Task /\ log' \in [Task -> Status]
    BY <1>0, <1>10, NoRecordType DEF Crash
  <2>5. /\ waiter' \in [Waiters -> WaitState]
        /\ \A w \in Waiters : waiter'[w].pc = "blocked" => waiter'[w].id \in Task
    BY <1>10, <2>2 DEF Crash
  <2>6. handed' \subseteq Task /\ broken' \subseteq Task
    BY <1>0, <1>10 DEF Crash
  <2> QED BY <2>1, <2>3, <2>4, <2>5, <2>6 DEF TypeOK, TypeInv
<1>11. CASE UNCHANGED vars
  BY <1>0, <1>11 DEF vars, TypeOK, TypeInv
<1> QED
  BY <1>1, <1>2, <1>3, <1>4, <1>5, <1>7, <1>8, <1>9, <1>10, <1>11 DEF Next

-----------------------------------------------------------------------------
(* Cancellation *)

\* A canceled task is marked itself before its goroutine leaves the cascade.
CascadedMarked ==
  \A i \in Task : task[i].status = "canceled" /\ task[i].pc \in {"ended", "saved", "closed"}
                  => task[i].canceled

CancelInv == CascadedMarked /\ CancelNotLost /\ ChildrenCanceled

\* The task that a Cancel is for is visited, and so are the live children of
\* every live task that is.
LEMMA VisitedFacts ==
  ASSUME NEW r \in Task
  PROVE  /\ r \in Visited(r)
         /\ \A p, c \in Task : /\ p \in Visited(r) /\ Live(p) /\ Live(c) /\ task[c].parent = p
                               => c \in Visited(r)
<1>1. r \in Visited(r)
  BY DEF Visited
<1>2. ASSUME NEW p \in Task, NEW c \in Task, p \in Visited(r), Live(p), Live(c),
             task[c].parent = p
      PROVE  c \in Visited(r)
  <2>1. ASSUME NEW S \in SUBSET Task, r \in S, Closed(S) PROVE c \in S
    <3>1. p \in S
      BY <1>2, <2>1 DEF Visited
    <3> QED BY <1>2, <2>1, <3>1 DEF Closed
  <2> QED BY <2>1 DEF Visited
<1> QED BY <1>1, <1>2

LEMMA CancelInit == Init => CancelInv
  BY DEF Init, NoRecord, CancelInv, CascadedMarked, CancelNotLost, ChildrenCanceled, At

\* The marking reaches the children, so it keeps the invariant.
LEMMA MarkStep ==
  ASSUME TypeOK, CancelInv, NEW r \in Task, Cancel(r) \/ Cascade(r)
  PROVE  CancelInv'
<1>0. task \in [Task -> Record]
  BY DEF TypeOK
<1>1. PICK pc \in Pc : /\ Mark(r, pc)
                       /\ pc = "closed" <=> task[r].pc = "closed"
                       /\ pc # "gone" /\ Live(r)
                       /\ pc # task[r].pc => At(r, "cascading") /\ pc = "ended"
  <2>1. task[r].pc \in Pc
    BY <1>0 DEF Record, Pc
  <2> QED BY <2>1 DEF Cancel, Cascade, Pc, At, Live
<1>2. \A i \in Task : /\ task'[i].pc = IF i = r THEN pc ELSE task[i].pc
                      /\ task'[i].parent = task[i].parent /\ task'[i].status = task[i].status
                      /\ task'[i].canceled <=> task[i].canceled \/ i \in Marked(r)
                      /\ task'[i].ctxDone = task[i].ctxDone
  BY <1>0, <1>1, MarkFacts
<1>3. \A i \in Task : Done(i)' <=> Done(i)
  BY <1>1, <1>2 DEF Done, Live, At
<1>4. calls' = calls \cup {i \in Marked(r) : At(i, "running")}
  BY <1>1, Zenon DEF Mark
<1>5. CascadedMarked'
  <2> SUFFICES ASSUME NEW i \in Task, task'[i].status = "canceled",
                      task'[i].pc \in {"ended", "saved", "closed"}
               PROVE  task'[i].canceled
    BY DEF CascadedMarked
  <2>1. CASE task'[i].pc = task[i].pc
    BY <1>2, <2>1 DEF CancelInv, CascadedMarked
  <2>2. CASE task'[i].pc # task[i].pc
    <3>1. i = r /\ At(r, "cascading")
      BY <1>1, <1>2, <2>2
    <3>2. r \in Marked(r)
      BY <3>1, VisitedFacts DEF Marked, Live, Done, At
    <3> QED BY <1>2, <3>1, <3>2
  <2> QED BY <2>1, <2>2
<1>6. CancelNotLost'
  <2> SUFFICES ASSUME NEW i \in Task, task'[i].pc = "running", task'[i].canceled
               PROVE  task'[i].ctxDone \/ i \in calls'
    BY DEF CancelNotLost, At
  <2>1. At(i, "running")
    BY <1>1, <1>2 DEF At
  <2>2. CASE task[i].canceled
    BY <1>2, <1>4, <2>1, <2>2 DEF CancelInv, CancelNotLost
  <2>3. CASE i \in Marked(r)
    BY <1>4, <2>1, <2>3
  <2> QED BY <1>2, <2>2, <2>3
<1>7. ChildrenCanceled'
  <2> SUFFICES ASSUME NEW p \in Task, NEW c \in Task, task'[c].parent = p, task'[p].canceled,
                      ~Done(c)'
               PROVE  task'[c].canceled
    BY DEF ChildrenCanceled
  <2>1. task[c].parent = p /\ ~Done(c) /\ Live(c)
    BY <1>2, <1>3 DEF Done, Live
  <2>2. CASE task[p].canceled
    BY <1>2, <2>1, <2>2 DEF CancelInv, ChildrenCanceled
  <2>3. CASE p \in Marked(r)
    <3>1. c \in Visited(r)
      BY <2>1, <2>3, VisitedFacts DEF Marked
    <3>2. c \in Marked(r)
      BY <2>1, <3>1 DEF Marked
    <3> QED BY <1>2, <3>2
  <2> QED BY <1>2, <2>2, <2>3
<1> QED BY <1>5, <1>6, <1>7 DEF CancelInv

LEMMA CancelStep == TypeInv /\ CancelInv /\ [Next]_vars => CancelInv'
<1> SUFFICES ASSUME TypeOK, CancelInv, [Next]_vars PROVE CancelInv'
  BY DEF TypeInv
<1>0. task \in [Task -> Record] /\ CascadedMarked /\ CancelNotLost /\ ChildrenCanceled
  BY DEF TypeOK, CancelInv
<1>1. CASE NewRecord
  <2>1. PICK n \in Task, q \in Task \cup {NoTask} :
          /\ MaySpawn(q) /\ (q # NoTask => Started(q))
          /\ task'[n] = [pc |-> "created", parent |-> q, status |-> "running",
                         canceled |-> FALSE, ctxDone |-> FALSE]
          /\ \A j \in Task : j # n => task'[j] = task[j]
    BY <1>1, NewRecordFacts
  <2>2. /\ task'[n].pc = "created" /\ task'[n].parent = q /\ task'[n].status = "running"
        /\ task'[n].canceled = FALSE
    BY <2>1
  <2>3. calls' = calls
    BY <1>1 DEF NewRecord
  <2>4. CascadedMarked' /\ CancelNotLost'
    BY <1>0, <2>1, <2>2, <2>3 DEF CascadedMarked, CancelNotLost, At
  <2>5. ChildrenCanceled'
    <3> SUFFICES ASSUME NEW p \in Task, NEW c \in Task, task'[c].parent = p, task'[p].canceled
                 PROVE  task'[c].canceled \/ Done(c)'
      BY DEF ChildrenCanceled
    <3>1. p # n /\ task[p].canceled
      BY <2>1, <2>2
    <3>2. c # n
      BY <2>1, <2>2, <3>1, TaskManagerAssumption DEF MaySpawn, Task, NoTask
    <3> QED BY <1>0, <2>1, <3>1, <3>2 DEF ChildrenCanceled, Done
  <2> QED BY <2>4, <2>5 DEF CancelInv
<1>2. ASSUME NEW i \in Task, NEW to \in Pc, Goto(i, to), calls' = calls,
             to # "running", ~Done(i),
             to \in {"ended", "saved", "closed"} =>
               task[i].pc \in {"ended", "saved", "closed"}
      PROVE  CancelInv'
  <2>1. /\ \A j \in Task : j # i => task'[j] = task[j]
        /\ task'[i].pc = to /\ task'[i].parent = task[i].parent
        /\ task'[i].status = task[i].status
        /\ task'[i].canceled = task[i].canceled /\ task'[i].ctxDone = task[i].ctxDone
    BY <1>0, <1>2, GotoFacts
  <2> QED BY <1>0, <1>2, <2>1
          DEF CancelInv, CascadedMarked, CancelNotLost, ChildrenCanceled, Done, At
<1>3. ASSUME NEW i \in Task, Spawned(i) \/ LogStart(i) \/ LogEnd(i) \/ CloseDone(i)
      PROVE  CancelInv'
  <2>1. PICK to \in Pc :
          /\ Goto(i, to) /\ calls' = calls /\ to # "running" /\ ~Done(i)
          /\ to \in {"ended", "saved", "closed"} => task[i].pc \in {"ended", "saved", "closed"}
    BY <1>3 DEF Spawned, LogStart, LogEnd, CloseDone, At, Done, Pc
  <2> QED BY <1>2, <2>1
<1>4. ASSUME NEW i \in Task, Run(i) PROVE CancelInv'
  <2>1. /\ \A j \in Task : j # i => task'[j] = task[j]
        /\ task'[i].pc = "running" /\ task'[i].parent = task[i].parent
        /\ task'[i].canceled = task[i].canceled /\ task'[i].ctxDone = task[i].canceled
    BY <1>0, <1>4, RunFacts
  <2>2. calls' = calls /\ ~Done(i)
    BY <1>4 DEF Run, At, Done
  <2> QED BY <1>0, <2>1, <2>2
          DEF CancelInv, CascadedMarked, CancelNotLost, ChildrenCanceled, Done, At
<1>5. ASSUME NEW i \in Task, Return(i) PROVE CancelInv'
  <2>1. /\ \A j \in Task : j # i => task'[j] = task[j]
        /\ \/ task'[i].pc = "cascading" /\ task'[i].status = "canceled"
           \/ task'[i].pc = "ended" /\ task'[i].status \in {"done", "failed"}
        /\ task'[i].parent = task[i].parent /\ task'[i].canceled = task[i].canceled
    BY <1>0, <1>5, ReturnFacts
  <2>2. calls' = calls /\ ~Done(i)
    BY <1>5 DEF Return, At, Done
  <2> QED BY <1>0, <2>1, <2>2
          DEF CancelInv, CascadedMarked, CancelNotLost, ChildrenCanceled, Done, At
<1>6. ASSUME NEW i \in Task, Delete(i) PROVE CancelInv'
  <2>1. /\ \A j \in Task : j # i => task'[j] = task[j]
        /\ task'[i].pc = "gone" /\ task'[i].parent = task[i].parent
        /\ task'[i].canceled = task[i].canceled
    BY <1>0, <1>6, DeleteFacts
  <2>2. calls' = calls
    BY <1>6 DEF Delete
  <2> QED BY <1>0, <2>1, <2>2
          DEF CancelInv, CascadedMarked, CancelNotLost, ChildrenCanceled, Done, At
<1>7. ASSUME NEW i \in Task, CallCancel(i) PROVE CancelInv'
  <2>1. /\ \A j \in Task : j # i => task'[j] = task[j]
        /\ task'[i].pc = task[i].pc /\ task'[i].parent = task[i].parent
        /\ task'[i].status = task[i].status /\ task'[i].canceled = task[i].canceled
        /\ At(i, "running") => task'[i].ctxDone
    BY <1>0, <1>7, CallCancelFacts
  <2>2. calls' = calls \ {i}
    BY <1>7 DEF CallCancel
  <2> QED BY <1>0, <2>1, <2>2
          DEF CancelInv, CascadedMarked, CancelNotLost, ChildrenCanceled, Done, At
<1>8. ASSUME UNCHANGED <<task, calls>> PROVE CancelInv'
  BY <1>0, <1>8 DEF CancelInv, CascadedMarked, CancelNotLost, ChildrenCanceled, Done, At
<1>9. CASE \E w \in Waiters : (\E i \in Task : Wait(w, i)) \/ Wake(w) \/ Timeout(w)
  BY <1>8, <1>9 DEF Wait, Wake, Timeout
<1>10. CASE Crash
  <2>1. \A i \in Task : task'[i] = NoRecord
    BY <1>10 DEF Crash
  <2> QED BY <2>1
          DEF NoRecord, CancelInv, CascadedMarked, CancelNotLost, ChildrenCanceled, At
<1>11. CASE UNCHANGED vars
  BY <1>8, <1>11 DEF vars
<1> QED
  BY <1>1, <1>3, <1>4, <1>5, <1>6, <1>7, <1>9, <1>10, <1>11, MarkStep DEF Next

LEMMA CanceledCascadesHolds == CancelInv => CanceledCascades
  BY DEF CancelInv, CascadedMarked, ChildrenCanceled, CanceledCascades

\* The types hold, and a request to stop is never lost between the record and
\* the cancel function: runTask looks at cancelRequested after it installed the
\* function, and Cancel collects the function under the same lock as it sets
\* cancelRequested.
THEOREM RequestsReach == Spec => []TaskInv
<1>1. Init => TypeInv /\ CancelInv
  BY TypeInit, CancelInit
<1>2. TypeInv /\ CancelInv /\ [Next]_vars => (TypeInv /\ CancelInv)'
  BY TypeStep, CancelStep
<1>3. TypeInv /\ CancelInv => TaskInv
  BY DEF TypeInv, CancelInv, TaskInv
<1> QED BY <1>1, <1>2, <1>3, PTL DEF Spec

\* A direct child of a task that was asked to stop was asked too, or is done, as
\* long as the parent's record is there: for any forest of tasks, however the parent
\* came to be canceled and whatever was being spawned at that moment.  A grandchild
\* whose parent's record has been deleted before is not reached.
THEOREM ChildrenAreStopped == Spec => []ChildrenStopped
<1>1. Init => TypeInv /\ CancelInv
  BY TypeInit, CancelInit
<1>2. TypeInv /\ CancelInv /\ [Next]_vars => (TypeInv /\ CancelInv)'
  BY TypeStep, CancelStep
<1>3. CancelInv => ChildrenStopped
  BY CanceledCascadesHolds DEF CancelInv, ChildrenStopped
<1> QED BY <1>1, <1>2, <1>3, PTL DEF Spec

-----------------------------------------------------------------------------
(* The log *)

\* The status of a record follows its goroutine.
StatusKnown ==
  \A i \in Task :
    /\ task[i].pc \in {"created", "starting", "ready", "running"} => task[i].status = "running"
    /\ task[i].pc = "cascading" => task[i].status = "canceled"
    /\ task[i].pc \in {"ended", "saved", "closed"} => task[i].status \in Final
    /\ task[i].pc = "gone" => task[i].status \in Final \cup {"none"}

\* A final status is written once, by the goroutine that ends, and a task that
\* is gone without one had a failed write or a crash.
LogKnown ==
  \A i \in Task :
    /\ i > nextID => log[i] = "none" /\ task[i].pc = "gone"
    /\ task[i].pc \in {"created", "starting", "ready", "running", "cascading", "ended"}
       => log[i] \notin Final
    /\ task[i].pc \in {"saved", "closed"} /\ i \notin broken => log[i] = task[i].status
    /\ task[i].pc = "gone" /\ i \in handed \ broken => log[i] \in Final

\* What is waited for was spawned.
WaitsForSpawned ==
  \A w \in Waiters : waiter[w].pc = "blocked" => task[waiter[w].id].status # "none"

LogInv == StatusKnown /\ LogKnown /\ WaitsForSpawned /\ WaitReturnsFinal

LEMMA LogInit == Init => LogInv
  BY DEF Init, Idle, NoRecord, LogInv, StatusKnown, LogKnown, WaitsForSpawned, WaitReturnsFinal

\* What the log holds while no caller of Wait moves: the waiting callers keep
\* their tasks, the others their results.
LEMMA WaitersKeep ==
  ASSUME TypeInv, LogInv, UNCHANGED waiter, broken \subseteq broken',
         \A i \in Task : task[i].status # "none" => task'[i].status # "none"
  PROVE  (WaitsForSpawned /\ WaitReturnsFinal)'
<1>1. WaitsForSpawned'
  BY DEF TypeInv, BlockedOnTask, LogInv, WaitsForSpawned
<1>2. WaitReturnsFinal'
  BY DEF LogInv, WaitReturnsFinal
<1> QED BY <1>1, <1>2

LEMMA LogStep == TypeInv /\ LogInv /\ [Next]_vars => LogInv' /\ KeepsFinal
<1> SUFFICES ASSUME TypeInv, LogInv, [Next]_vars PROVE LogInv' /\ KeepsFinal
  OBVIOUS
<1>0. /\ TypeOK /\ task \in [Task -> Record] /\ log \in [Task -> Status]
      /\ StatusKnown /\ LogKnown /\ nextID \in 0..MaxTasks
  BY DEF TypeInv, TypeOK, LogInv
<1>1. CASE NewRecord
  <2>1. PICK n \in Task :
          /\ n = nextID + 1 /\ nextID' = n
          /\ task'[n].pc = "created" /\ task'[n].status = "running"
          /\ \A j \in Task : j # n => task'[j] = task[j]
    <3>1. /\ nextID + 1 \in Task /\ nextID' = nextID + 1
          /\ \A j \in Task : j # nextID + 1 => task'[j] = task[j]
      BY <1>0, <1>1, NewRecordFacts
    <3>2. \E q : task'[nextID + 1] =
                   [pc |-> "created", parent |-> q, status |-> "running",
                    canceled |-> FALSE, ctxDone |-> FALSE]
      BY <1>0, <1>1, NewRecordFacts
    <3>3. task'[nextID + 1].pc = "created" /\ task'[nextID + 1].status = "running"
      BY <3>2
    <3> QED BY <3>1, <3>3
  <2>2. log' = log /\ waiter' = waiter /\ handed' = handed /\ broken' = broken
    BY <1>1 DEF NewRecord
  <2>3. log[n] = "none"
    BY <1>0, <2>1 DEF LogKnown
  <2>4. StatusKnown'
    BY <1>0, <2>1 DEF StatusKnown
  <2>5. LogKnown'
    <3>1. \A i \in Task : i > nextID' => i > nextID /\ i # n
      BY <1>0, <2>1 DEF Task
    <3>2. log'[n] \notin Final
      BY <2>2, <2>3 DEF Final
    <3> QED BY <1>0, <2>1, <2>2, <3>1, <3>2 DEF LogKnown
  <2>6. (WaitsForSpawned /\ WaitReturnsFinal)'
    BY <2>1, <2>2, WaitersKeep
  <2> QED BY <2>2, <2>4, <2>5, <2>6 DEF LogInv, KeepsFinal
<1>2. ASSUME NEW i \in Task, Persist(i), task[i].pc \in {"created", "starting", "ended"},
             NEW to \in Pc, Goto(i, to),
             to \in {"starting", "ready", "saved"}, to = "saved" <=> task[i].pc = "ended",
             handed' \subseteq handed \cup {i}, nextID' = nextID, waiter' = waiter
      PROVE  LogInv' /\ KeepsFinal
  <2>1. /\ \A j \in Task : j # i => task'[j] = task[j]
        /\ task'[i].pc = to /\ task'[i].status = task[i].status
    BY <1>0, <1>2, GotoFacts
  <2>2. /\ \A j \in Task : j # i => log'[j] = log[j]
        /\ \/ log'[i] = task[i].status /\ broken' = broken
           \/ log' = log /\ broken' = broken \cup {i}
    BY <1>0, <1>2, PersistType
  <2>3. /\ task[i].status \in Final <=> to = "saved"
        /\ task[i].status # "none" /\ log[i] \notin Final
    BY <1>0, <1>2 DEF StatusKnown, LogKnown, Final
  <2>4. ~(i > nextID)
    BY <1>0, <1>2 DEF LogKnown
  <2>5. StatusKnown'
    BY <1>0, <1>2, <2>1 DEF StatusKnown
  <2>6. LogKnown'
    <3> SUFFICES ASSUME NEW j \in Task
                 PROVE  /\ j > nextID => log'[j] = "none" /\ task'[j].pc = "gone"
                        /\ task'[j].pc \in {"created", "starting", "ready", "running",
                                            "cascading", "ended"}
                           => log'[j] \notin Final
                        /\ task'[j].pc \in {"saved", "closed"} /\ j \notin broken'
                           => log'[j] = task'[j].status
                        /\ task'[j].pc = "gone" /\ j \in handed' \ broken'
                           => log'[j] \in Final
      BY <1>2 DEF LogKnown
    <3>1. CASE j = i
      <4>1. ~(j > nextID) /\ task'[j].pc # "gone"
        BY <1>0, <1>2, <2>1, <2>4, <3>1 DEF Task
      <4> QED BY <1>2, <2>1, <2>2, <2>3, <3>1, <4>1
    <3>2. CASE j # i
      BY <1>0, <1>2, <2>1, <2>2, <3>2 DEF LogKnown
    <3> QED BY <3>1, <3>2
  <2>7. (WaitsForSpawned /\ WaitReturnsFinal)'
    BY <1>2, <2>1, <2>2, WaitersKeep
  <2>8. KeepsFinal
    BY <2>2, <2>3 DEF KeepsFinal
  <2> QED BY <2>5, <2>6, <2>7, <2>8 DEF LogInv
<1>3. ASSUME NEW i \in Task, Spawned(i) \/ LogStart(i) \/ LogEnd(i)
      PROVE  LogInv' /\ KeepsFinal
  BY <1>2, <1>3 DEF Spawned, LogStart, LogEnd, At, Pc
\* Only the records change, and none that is saved, closed or gone.
<1>4. ASSUME UNCHANGED <<nextID, log, waiter, handed, broken>>,
             \A j \in Task :
               /\ task'[j].pc = task[j].pc /\ task'[j].status = task[j].status
               \/ /\ task[j].pc \in {"ready", "running", "cascading"}
                  /\ \/ task'[j].pc = "running" /\ task'[j].status = task[j].status
                                                /\ task[j].pc = "ready"
                     \/ task'[j].pc = "cascading" /\ task'[j].status = "canceled"
                     \/ task'[j].pc = "ended" /\ task'[j].status \in Final
      PROVE  LogInv' /\ KeepsFinal
  <2>1. StatusKnown'
    BY <1>0, <1>4 DEF StatusKnown, Final
  <2>2. LogKnown'
    BY <1>0, <1>4 DEF LogKnown
  <2>3. \A j \in Task : task[j].status # "none" => task'[j].status # "none"
    BY <1>0, <1>4 DEF StatusKnown, Final
  <2>4. (WaitsForSpawned /\ WaitReturnsFinal)'
    BY <1>4, <2>3, WaitersKeep
  <2> QED BY <1>4, <2>1, <2>2, <2>4 DEF LogInv, KeepsFinal
<1>5. ASSUME NEW i \in Task, Run(i) PROVE LogInv' /\ KeepsFinal
  <2>1. /\ \A j \in Task : j # i => task'[j] = task[j]
        /\ task'[i].pc = "running" /\ task'[i].status = task[i].status
    BY <1>0, <1>5, RunFacts
  <2> QED BY <1>4, <1>5, <2>1 DEF Run, At
<1>6. ASSUME NEW i \in Task, Return(i) PROVE LogInv' /\ KeepsFinal
  <2>1. /\ \A j \in Task : j # i => task'[j] = task[j]
        /\ \/ task'[i].pc = "cascading" /\ task'[i].status = "canceled"
           \/ task'[i].pc = "ended" /\ task'[i].status \in {"done", "failed"}
    BY <1>0, <1>6, ReturnFacts
  <2> QED BY <1>4, <1>6, <2>1 DEF Return, At, Final
<1>7. ASSUME NEW i \in Task, Cancel(i) \/ Cascade(i) PROVE LogInv' /\ KeepsFinal
  <2>1. PICK pc \in Pc : Mark(i, pc) /\ (pc # task[i].pc => At(i, "cascading") /\ pc = "ended")
    <3>1. task[i].pc \in Pc
      BY <1>0 DEF Record, Pc
    <3> QED BY <1>7, <3>1 DEF Cancel, Cascade, Pc
  <2>2. \A j \in Task : /\ task'[j].pc = IF j = i THEN pc ELSE task[j].pc
                        /\ task'[j].status = task[j].status
    BY <1>0, <2>1, MarkFacts
  <2>3. At(i, "cascading") => task[i].status = "canceled"
    BY <1>0 DEF StatusKnown, At
  <2> QED BY <1>4, <1>7, <2>1, <2>2, <2>3 DEF Cancel, Cascade, At, Final
<1>8. ASSUME NEW i \in Task, CallCancel(i) PROVE LogInv' /\ KeepsFinal
  <2>1. /\ \A j \in Task : j # i => task'[j] = task[j]
        /\ task'[i].pc = task[i].pc /\ task'[i].status = task[i].status
    BY <1>0, <1>8, CallCancelFacts
  <2> QED BY <1>4, <1>8, <2>1 DEF CallCancel
\* A task is closed or deleted after its final status was written.
<1>9. ASSUME NEW i \in Task, CloseDone(i) \/ Delete(i) PROVE LogInv' /\ KeepsFinal
  <2>1. /\ \A j \in Task : j # i => task'[j] = task[j]
        /\ task'[i].status = task[i].status
        /\ \/ task[i].pc = "saved" /\ task'[i].pc = "closed"
           \/ task[i].pc = "closed" /\ task'[i].pc = "gone"
    <3>1. CASE CloseDone(i)
      <4>1. Goto(i, "closed") /\ "closed" \in Pc /\ task[i].pc = "saved"
        BY <3>1 DEF CloseDone, At, Pc
      <4> QED BY <1>0, <4>1, GotoFacts
    <3>2. CASE Delete(i)
      <4>1. task[i].pc = "closed"
        BY <3>2 DEF Delete, At
      <4> QED BY <1>0, <3>2, <4>1, DeleteFacts
    <3> QED BY <1>9, <3>1, <3>2
  <2>2. UNCHANGED <<nextID, log, waiter, handed, broken>>
    BY <1>9 DEF CloseDone, Delete
  <2>3. StatusKnown'
    BY <1>0, <2>1 DEF StatusKnown
  <2>4. LogKnown'
    BY <1>0, <2>1, <2>2 DEF LogKnown, StatusKnown
  <2>5. (WaitsForSpawned /\ WaitReturnsFinal)'
    BY <2>1, <2>2, WaitersKeep
  <2> QED BY <2>2, <2>3, <2>4, <2>5 DEF LogInv, KeepsFinal
\* One caller of Wait moves.
<1>10. ASSUME NEW w \in Waiters, NEW x, waiter' = [waiter EXCEPT ![w] = x],
              x.pc = "blocked" => task[x.id].status # "none",
              x.pc = "returned" /\ x.id \notin broken => x.got \in Final,
              UNCHANGED <<nextID, task, log, handed, broken>>
       PROVE  LogInv' /\ KeepsFinal
  <2>1. waiter \in [Waiters -> WaitState]
    BY <1>0 DEF TypeOK
  <2>2. (WaitsForSpawned /\ WaitReturnsFinal)'
    BY <1>10, <2>1 DEF LogInv, WaitsForSpawned, WaitReturnsFinal
  <2> QED BY <1>0, <1>10, <2>2 DEF LogInv, StatusKnown, LogKnown, KeepsFinal
<1>11. ASSUME NEW w \in Waiters, NEW i \in Task, Wait(w, i) PROVE LogInv' /\ KeepsFinal
  <2>1. Live(i) => task[i].status # "none"
    <3>1. task[i].pc \in Pc
      BY <1>0 DEF Record, Pc
    <3> QED BY <1>0, <3>1 DEF Live, StatusKnown, Final, Pc
  <2>2. ~Live(i) /\ i \notin broken => log[i] \in Final
    BY <1>0, <1>11 DEF Wait, Live, LogKnown
  <2>3. CASE Live(i)
    <3>1. waiter' = [waiter EXCEPT ![w] = [pc |-> "blocked", id |-> i, got |-> "none"]]
      BY <1>11, <2>3 DEF Wait
    <3>2. UNCHANGED <<nextID, task, log, handed, broken>>
      BY <1>11 DEF Wait
    <3> QED BY <1>10, <2>1, <2>3, <3>1, <3>2
  <2>4. CASE ~Live(i)
    <3>1. waiter' = [waiter EXCEPT ![w] = [pc |-> "returned", id |-> i, got |-> log[i]]]
      BY <1>11, <2>4 DEF Wait
    <3>2. UNCHANGED <<nextID, task, log, handed, broken>>
      BY <1>11 DEF Wait
    <3> QED BY <1>10, <2>2, <2>4, <3>1, <3>2
  <2> QED BY <2>3, <2>4
<1>12. ASSUME NEW w \in Waiters, Wake(w) PROVE LogInv' /\ KeepsFinal
  <2> DEFINE x == [waiter[w] EXCEPT !.pc = "returned", !.got = task[waiter[w].id].status]
  <2>1. waiter[w] \in WaitState /\ waiter[w].id \in Task
    BY <1>12 DEF Wake, TypeInv, TypeOK, BlockedOnTask
  <2>2. task[waiter[w].id].status \in Final
    BY <1>0, <1>12, <2>1 DEF Wake, Done, StatusKnown, LogInv, WaitsForSpawned
  <2>3. x.pc = "returned" /\ x.got \in Final
    BY <2>1, <2>2 DEF WaitState
  <2>4. waiter' = [waiter EXCEPT ![w] = x] /\ UNCHANGED <<nextID, task, log, handed, broken>>
    BY <1>12 DEF Wake
  <2> HIDE DEF x
  <2> QED BY <1>10, <2>3, <2>4
<1>13. ASSUME NEW w \in Waiters, Timeout(w) PROVE LogInv' /\ KeepsFinal
  <2>1. Idle.pc = "idle"
    BY DEF Idle
  <2>2. waiter' = [waiter EXCEPT ![w] = Idle] /\ UNCHANGED <<nextID, task, log, handed, broken>>
    BY <1>13 DEF Timeout
  <2> QED BY <1>10, <2>1, <2>2
\* A crash leaves the log, from which the next manager numbers its tasks.
<1>14. CASE Crash
  <2>1. /\ \A i \in Task : log[i] # "none" => i <= Restarted
        /\ Restarted \in 0..MaxTasks
    BY <1>0, RestartedFacts
  <2>2. /\ \A i \in Task : task'[i].pc = "gone" /\ task'[i].status = "none"
        /\ log' = log /\ handed' = handed /\ nextID' = Restarted
        /\ \A w \in Waiters : waiter'[w].pc = "idle"
    BY <1>14 DEF Crash, NoRecord, Idle
  <2>3. broken' = broken \cup {i \in Task : Live(i) /\ task[i].pc \notin {"saved", "closed"}}
    BY <1>14 DEF Crash
  <2>4. StatusKnown'
    BY <2>2 DEF StatusKnown
  <2>5. \A i \in Task : i > nextID' => log'[i] = "none"
    BY <2>1, <2>2 DEF Task
  <2>6. \A i \in Task : i \in handed \ broken' => log[i] \in Final
    BY <1>0, <2>3 DEF LogKnown, StatusKnown, Live
  <2>7. LogKnown'
    BY <2>2, <2>5, <2>6 DEF LogKnown
  <2>8. (WaitsForSpawned /\ WaitReturnsFinal)'
    BY <2>2 DEF WaitsForSpawned, WaitReturnsFinal
  <2> QED BY <2>2, <2>4, <2>7, <2>8 DEF LogInv, KeepsFinal
<1>15. CASE UNCHANGED vars
  BY <1>4, <1>15 DEF vars
<1> QED
  BY <1>1, <1>3, <1>5, <1>6, <1>7, <1>8, <1>9, <1>11, <1>12, <1>13, <1>14, <1>15 DEF Next

LEMMA LogFinalHolds == TypeOK /\ StatusKnown /\ LogKnown => LogFinal
  BY DEF TypeOK, StatusKnown, LogKnown, LogFinal, Done

\* As soon as a task is reported done its final status can be read, from the
\* record or from the log, unless a write failed or the process died: the write
\* comes before the channel is closed and the record deleted.
THEOREM FinalStatusIsKnown == Spec => []FinalStatusKnown
<1>1. Init => TypeInv /\ LogInv
  BY TypeInit, LogInit
<1>2. TypeInv /\ LogInv /\ [Next]_vars => (TypeInv /\ LogInv)'
  BY TypeStep, LogStep
<1>3. TypeInv /\ LogInv => FinalStatusKnown
  BY LogFinalHolds DEF TypeInv, LogInv, FinalStatusKnown
<1> QED BY <1>1, <1>2, <1>3, PTL DEF Spec

\* A final status in the log is never overwritten, also not by a task of a later
\* process: a restart goes on from the highest id in the log.
THEOREM FinalStays == Spec => FinalStatusStays
<1>1. Init => TypeInv /\ LogInv
  BY TypeInit, LogInit
<1>2. TypeInv /\ LogInv /\ [Next]_vars => (TypeInv /\ LogInv)'
  BY TypeStep, LogStep
<1>3. TypeInv /\ LogInv /\ [Next]_vars => [KeepsFinal]_vars
  BY LogStep
<1> QED BY <1>1, <1>2, <1>3, PTL DEF Spec, FinalStatusStays

-----------------------------------------------------------------------------
(***************************************************************************)
(* Pumps and shutdown                                                      *)
(***************************************************************************)
-----------------------------------------------------------------------------
(* Type correctness *)

RunnerState == [pc : {"unused", "made", "start", "idle", "task", "done"}, id : Ids,
                config : Configs, canceled : BOOLEAN]
CallState == [pc : {"none", "replace", "stop", "wait"}, for : Runner \cup {NoRunner},
              new : Runner \cup {NoRunner}]

LEMMA NoCallType == NoCall \in CallState
  BY DEF NoCall, CallState

\* A step of one runner's loop.
LEMMA RunnerMoves ==
  ASSUME PumpsTypeOK, NEW r \in Runner,
         NEW x \in {"unused", "made", "start", "idle", "task", "done"},
         runner' = [runner EXCEPT ![r].pc = x]
  PROVE  /\ runner' \in [Runner -> RunnerState]
         /\ runner'[r].pc = x /\ \A q \in Runner : q # r => runner'[q].pc = runner[q].pc
         /\ \A q \in Runner : runner'[q].id = runner[q].id
<1>1. runner \in [Runner -> RunnerState]
  BY DEF PumpsTypeOK, RunnerState
<1>2. runner' = [runner EXCEPT ![r] = [runner[r] EXCEPT !.pc = x]]
  OBVIOUS
<1>3. [runner[r] EXCEPT !.pc = x] \in RunnerState
  BY <1>1 DEF RunnerState
<1>4. runner'[r] = [runner[r] EXCEPT !.pc = x] /\ \A q \in Runner : q # r => runner'[q] = runner[q]
  BY <1>1, <1>2
<1>5. runner'[r].pc = x /\ runner'[r].id = runner[r].id
  BY <1>1, <1>4 DEF RunnerState
<1> QED BY <1>1, <1>2, <1>3, <1>4, <1>5

\* Runners that are canceled go on as they are.
LEMMA RunnersCanceled ==
  ASSUME PumpsTypeOK, NEW S,
         runner' = [r \in Runner |-> IF r \in S THEN [runner[r] EXCEPT !.canceled = TRUE] ELSE runner[r]]
  PROVE  /\ runner' \in [Runner -> RunnerState]
         /\ \A q \in Runner : runner'[q].pc = runner[q].pc /\ runner'[q].id = runner[q].id
<1>1. runner \in [Runner -> RunnerState]
  BY DEF PumpsTypeOK, RunnerState
<1>2. ASSUME NEW r \in Runner
      PROVE  /\ [runner[r] EXCEPT !.canceled = TRUE] \in RunnerState
             /\ [runner[r] EXCEPT !.canceled = TRUE].pc = runner[r].pc
             /\ [runner[r] EXCEPT !.canceled = TRUE].id = runner[r].id
  BY <1>1 DEF RunnerState
<1> QED BY <1>1, <1>2

LEMMA CallMoves ==
  ASSUME PumpsTypeOK, NEW c \in Callers, NEW x \in CallState, call' = [call EXCEPT ![c] = x]
  PROVE  /\ call' \in [Callers -> CallState]
         /\ call'[c] = x /\ \A d \in Callers : d # c => call'[d] = call[d]
<1>1. call \in [Callers -> CallState]
  BY DEF PumpsTypeOK, CallState
<1> QED BY <1>1

\* The call of CancelOld goes on to wait for the old runner.
LEMMA CallStops ==
  ASSUME PumpsTypeOK, NEW c \in Callers, call' = [call EXCEPT ![c].pc = "stop"]
  PROVE  /\ call' \in [Callers -> CallState]
         /\ call'[c].pc = "stop" /\ call'[c].for = call[c].for /\ call'[c].new = call[c].new
         /\ \A d \in Callers : d # c => call'[d] = call[d]
<1>1. call \in [Callers -> CallState]
  BY DEF PumpsTypeOK, CallState
<1>2. call' = [call EXCEPT ![c] = [call[c] EXCEPT !.pc = "stop"]]
  OBVIOUS
<1>3. [call[c] EXCEPT !.pc = "stop"] \in CallState
  BY <1>1 DEF CallState
<1>4. call'[c] = [call[c] EXCEPT !.pc = "stop"] /\ \A d \in Callers : d # c => call'[d] = call[d]
  BY <1>1, <1>2
<1>5. call'[c].pc = "stop" /\ call'[c].for = call[c].for /\ call'[c].new = call[c].new
  BY <1>1, <1>4 DEF CallState
<1> QED BY <1>1, <1>2, <1>3, <1>4, <1>5

LEMMA PumpsTypeInit == PumpsInit => PumpsTypeOK
<1> SUFFICES ASSUME PumpsInit PROVE PumpsTypeOK
  OBVIOUS
<1>1. (CHOOSE p \in Ids : TRUE) \in Ids /\ (CHOOSE x \in Configs : TRUE) \in Configs
  BY PumpsAssumption
<1>2. Unused \in RunnerState
  BY <1>1 DEF Unused, RunnerState
<1>3. runner \in [Runner -> RunnerState] /\ call \in [Callers -> CallState]
  BY <1>2, NoCallType DEF PumpsInit
<1> QED BY <1>3 DEF PumpsInit, PumpsTypeOK, RunnerState, CallState

LEMMA PumpsTypeStep == PumpsTypeOK /\ [PumpsNext]_pumpsVars => PumpsTypeOK'
<1> SUFFICES ASSUME PumpsTypeOK, [PumpsNext]_pumpsVars PROVE PumpsTypeOK'
  OBVIOUS
<1>0. /\ pumps \in [Ids -> Runner \cup {NoRunner}]
      /\ runner \in [Runner -> RunnerState]
      /\ call \in [Callers -> CallState]
      /\ manager \in [pc : {"open", "closing", "waiting", "closed"}, left : SUBSET Runner]
      /\ late \in BOOLEAN
      /\ Runner \subseteq Callers
  BY DEF PumpsTypeOK, RunnerState, CallState, Callers
<1> SUFFICES /\ (pumps \in [Ids -> Runner \cup {NoRunner}])'
             /\ (runner \in [Runner -> RunnerState])'
             /\ (call \in [Callers -> CallState])'
             /\ (manager \in [pc : {"open", "closing", "waiting", "closed"}, left : SUBSET Runner])'
             /\ (late \in BOOLEAN)'
  BY DEF PumpsTypeOK, RunnerState, CallState
<1>1. ASSUME NEW c \in Callers, NEW p \in Ids, NEW x \in Configs, Register(c, p, x) PROVE PumpsTypeOK'
  <2>1. PICK r \in Free :
          /\ runner' = [runner EXCEPT ![r] = [pc |-> "made", id |-> p, config |-> x, canceled |-> FALSE]]
          /\ pumps' = [pumps EXCEPT ![p] = r]
          /\ call' = [call EXCEPT ![c] = [pc |-> "replace", for |-> pumps[p], new |-> r]]
    BY <1>1 DEF Register
  <2>2. r \in Runner /\ pumps[p] \in Runner \cup {NoRunner}
    BY <1>0 DEF Free
  <2>3. /\ [pc |-> "made", id |-> p, config |-> x, canceled |-> FALSE] \in RunnerState
        /\ [pc |-> "replace", for |-> pumps[p], new |-> r] \in CallState
    BY <2>2 DEF RunnerState, CallState
  <2> QED BY <1>0, <1>1, <2>1, <2>2, <2>3 DEF Register, PumpsTypeOK, RunnerState, CallState
<1>2. ASSUME NEW c \in Callers, CancelOld(c) PROVE PumpsTypeOK'
  <2>1. runner' = [r \in Runner |-> IF r \in {call[c].for} THEN [runner[r] EXCEPT !.canceled = TRUE]
                                                          ELSE runner[r]]
    BY <1>2 DEF CancelOld
  <2>2. runner' \in [Runner -> RunnerState] /\ call' \in [Callers -> CallState]
    <3>1. runner' \in [Runner -> RunnerState]
      BY <2>1, RunnersCanceled
    <3>2. call' \in [Callers -> CallState]
      BY <1>2, CallStops DEF CancelOld
    <3> QED BY <3>1, <3>2
  <2> QED BY <1>0, <1>2, <2>2 DEF CancelOld, PumpsTypeOK, RunnerState, CallState
<1>3. ASSUME NEW c \in Callers, StartNew(c) PROVE PumpsTypeOK'
  <2>1. call' \in [Callers -> CallState]
    BY <1>3, NoCallType, CallMoves DEF StartNew
  <2>2. runner' \in [Runner -> RunnerState]
    <3>1. CASE call[c].new \in Runner
      BY <1>3, <3>1, RunnerMoves DEF StartNew
    <3>2. CASE call[c].new \notin Runner
      BY <1>0, <1>3, <3>2 DEF StartNew
    <3> QED BY <3>1, <3>2
  <2> QED BY <1>0, <1>3, <2>1, <2>2 DEF StartNew, PumpsTypeOK, RunnerState, CallState
<1>4. ASSUME NEW c \in Callers, NEW r \in Runner, WaitFor(c, r) PROVE PumpsTypeOK'
  <2>1. [pc |-> "wait", for |-> r, new |-> NoRunner] \in CallState
    BY DEF CallState
  <2>2. call' \in [Callers -> CallState]
    BY <1>4, <2>1, CallMoves DEF WaitFor
  <2> QED BY <1>0, <1>4, <2>2 DEF WaitFor, PumpsTypeOK, RunnerState, CallState
<1>5. ASSUME NEW r \in Runner, RunOnce(r) \/ End(r) PROVE PumpsTypeOK'
  <2>1. runner' \in [Runner -> RunnerState]
    BY <1>5, RunnerMoves DEF RunOnce, End
  <2> QED BY <1>0, <1>5, <2>1 DEF RunOnce, End, PumpsTypeOK, RunnerState, CallState
<1>6. ASSUME NEW r \in Runner, TaskReturns(r) PROVE PumpsTypeOK'
  <2>1. runner' \in [Runner -> RunnerState]
    BY <1>6, RunnerMoves DEF TaskReturns
  <2>2. call' \in [Callers -> CallState]
    BY <1>0, <1>6, NoCallType DEF TaskReturns
  <2> QED BY <1>0, <1>6, <2>1, <2>2 DEF TaskReturns, PumpsTypeOK, RunnerState, CallState
<1>7. ASSUME NEW r \in Runner, Awaited(r) PROVE PumpsTypeOK'
  BY <1>0, <1>7 DEF Awaited, PumpsTypeOK, RunnerState, CallState
<1>8. CASE BeginClose
  <2>1. runner' = [r \in Runner |-> IF r \in Runner \ Free THEN [runner[r] EXCEPT !.canceled = TRUE]
                                                          ELSE runner[r]]
    BY <1>8 DEF BeginClose
  <2>2. runner' \in [Runner -> RunnerState]
    BY <2>1, RunnersCanceled
  <2> QED BY <1>0, <1>8, <2>2 DEF BeginClose
<1>9. CASE StopAllPumps
  <2>1. ToAwait \subseteq Runner
    BY <1>0 DEF ToAwait
  <2> QED BY <1>0, <1>9, <2>1 DEF StopAllPumps
<1>10. CASE CloseDatabases
  BY <1>0, <1>10 DEF CloseDatabases
<1>11. CASE UNCHANGED pumpsVars
  BY <1>0, <1>11 DEF pumpsVars
<1> QED
  BY <1>1, <1>2, <1>3, <1>4, <1>5, <1>6, <1>7, <1>8, <1>9, <1>10, <1>11
     DEF PumpsNext, PumpsTypeOK, RunnerState, CallState

\* Type correctness of the pump map, the runners and the calls.
THEOREM PumpsTypeCorrect == PumpsSpec => []PumpsTypeOK
  BY PumpsTypeInit, PumpsTypeStep, PTL DEF PumpsSpec

-----------------------------------------------------------------------------
(* Runners of one pump follow each other *)

Registered(r) == runner[r].pc # "unused"
LoopStarted(r)    == runner[r].pc \notin {"unused", "made"}
Replacing(c)  == call[c].pc \in {"replace", "stop"}

\* Runners are numbered in the order in which they are registered.
InOrder == \A r, q \in Runner : q < r /\ Registered(r) => Registered(q)

\* Once a loop has started, all earlier ones of its pump have ended.
Succession ==
  \A r, q \in Runner : q < r /\ LoopStarted(r) /\ runner[q].id = runner[r].id => runner[q].pc = "done"

\* A call that replaces a pump is the only one that may start its runner, and
\* waits for the one registered just before.
CallMade(c) ==
  /\ call[c].new \in Runner /\ runner[call[c].new].pc = "made"
  /\ \A d \in Callers : Replacing(d) /\ call[d].new = call[c].new => d = c
  /\ \A q \in Runner :
       q < call[c].new /\ runner[q].id = runner[call[c].new].id => q <= call[c].for
  /\ call[c].for # NoRunner =>
       Registered(call[c].for) /\ runner[call[c].for].id = runner[call[c].new].id

CallsMade == \A c \in Callers : Replacing(c) => CallMade(c)

\* Until Close empties the map, it holds the last runner of every pump.
MapIsLast ==
  /\ \A p \in Ids : pumps[p] # NoRunner => Registered(pumps[p]) /\ runner[pumps[p]].id = p
  /\ manager.pc \in {"open", "closing"} => \A r \in Runner : Registered(r) => r <= pumps[runner[r].id]

\* Close still waits for the last runner of a pump that has not ended.
AwaitsLast ==
  manager.pc \in {"waiting", "closed"} /\ ~late =>
    \A r \in Runner : \/ runner[r].pc \in {"unused", "done"}
                      \/ \E q \in manager.left : r <= q /\ runner[q].id = runner[r].id

ClosedEmpty == manager.pc = "closed" => manager.left = {}

PumpOrder ==
  InOrder /\ Succession /\ CallsMade /\ MapIsLast /\ AwaitsLast /\ ClosedEmpty

LEMMA Numbers ==
  ASSUME PumpsTypeOK
  PROVE  /\ Runner \subseteq Nat \ {0} /\ NoRunner \notin Runner
         /\ \A r \in Runner : runner[r].id \in Ids
         /\ \A p \in Ids : pumps[p] \in Runner \/ pumps[p] = NoRunner
         /\ \A c \in Callers : /\ call[c].for \in Runner \/ call[c].for = NoRunner
                               /\ call[c].new \in Runner \/ call[c].new = NoRunner
         /\ manager.left \subseteq Runner
<1>1. Runner \subseteq Nat \ {0} /\ NoRunner \notin Runner
  BY PumpsAssumption DEF Runner, NoRunner
<1> QED BY <1>1 DEF PumpsTypeOK

LEMMA PumpOrderInit == PumpsInit => PumpOrder
<1> SUFFICES ASSUME PumpsInit PROVE PumpOrder
  OBVIOUS
<1>1. \A r \in Runner : runner[r].pc = "unused"
  BY DEF PumpsInit, Unused
<1>2. \A c \in Callers : call[c].pc = "none"
  BY DEF PumpsInit, NoCall
<1>3. manager.pc = "open" /\ \A p \in Ids : pumps[p] = NoRunner
  BY DEF PumpsInit
<1> QED
  BY <1>1, <1>2, <1>3
     DEF PumpOrder, InOrder, Succession, CallsMade, MapIsLast, AwaitsLast, ClosedEmpty,
         Registered, LoopStarted, Replacing

\* A step in which runners only go on from one state of a started loop to another.
LoopsGoOn ==
  /\ \A r \in Runner : /\ runner'[r].id = runner[r].id
                       /\ Registered(r)' <=> Registered(r)
                       /\ runner'[r].pc = "made" <=> runner[r].pc = "made"
                       /\ runner[r].pc = "done" => runner'[r].pc = "done"
  /\ \A c \in Callers : /\ Replacing(c)' <=> Replacing(c)
                        /\ Replacing(c) => call'[c].new = call[c].new /\ call'[c].for = call[c].for

LEMMA GoingOn ==
  ASSUME PumpsTypeOK, PumpOrder, LoopsGoOn
  PROVE  /\ InOrder' /\ Succession' /\ CallsMade'
         /\ pumps' = pumps /\ manager' = manager /\ late' = late
              => MapIsLast' /\ AwaitsLast' /\ ClosedEmpty'
<1>1. \A r \in Runner : LoopStarted(r)' <=> LoopStarted(r)
  BY DEF LoopsGoOn, LoopStarted, Registered
<1>2. InOrder' /\ Succession'
  BY <1>1, Numbers DEF PumpOrder, InOrder, Succession, LoopsGoOn
<1>3. CallsMade'
  <2> SUFFICES ASSUME NEW c \in Callers, Replacing(c)' PROVE CallMade(c)'
    BY DEF CallsMade
  <2>1. CallMade(c) /\ call'[c].new = call[c].new /\ call'[c].for = call[c].for
    BY DEF PumpOrder, CallsMade, LoopsGoOn
  <2>2. call[c].for # NoRunner => call[c].for \in Runner
    BY Numbers
  <2> QED BY <2>1, <2>2 DEF CallMade, LoopsGoOn
<1>4. ASSUME pumps' = pumps, manager' = manager, late' = late
      PROVE  MapIsLast' /\ AwaitsLast' /\ ClosedEmpty'
  <2>1. MapIsLast'
    BY <1>4, Numbers DEF PumpOrder, MapIsLast, LoopsGoOn
  <2>2. AwaitsLast'
    BY <1>4, Numbers DEF PumpOrder, AwaitsLast, LoopsGoOn, Registered
  <2>3. ClosedEmpty'
    BY <1>4 DEF PumpOrder, ClosedEmpty
  <2> QED BY <2>1, <2>2, <2>3
<1> QED BY <1>2, <1>3, <1>4

LEMMA PumpOrderStep == PumpsTypeOK /\ PumpOrder /\ [PumpsNext]_pumpsVars => PumpOrder'
<1> SUFFICES ASSUME PumpsTypeOK, PumpOrder, [PumpsNext]_pumpsVars PROVE PumpOrder'
  OBVIOUS
<1>0. /\ pumps \in [Ids -> Runner \cup {NoRunner}]
      /\ runner \in [Runner -> RunnerState]
      /\ call \in [Callers -> CallState]
      /\ InOrder /\ Succession /\ CallsMade /\ MapIsLast /\ AwaitsLast /\ ClosedEmpty
      /\ Runner \subseteq Callers
  BY DEF PumpsTypeOK, RunnerState, CallState, PumpOrder, Callers
<1>a. ASSUME LoopsGoOn, pumps' = pumps, manager' = manager, late' = late PROVE PumpOrder'
  BY <1>a, GoingOn DEF PumpOrder
<1>1. ASSUME NEW c \in Callers, NEW p \in Ids, NEW x \in Configs, Register(c, p, x) PROVE PumpOrder'
  <2>1. PICK r \in Free :
          /\ \A q \in Free : r <= q
          /\ runner' = [runner EXCEPT ![r] = [pc |-> "made", id |-> p, config |-> x, canceled |-> FALSE]]
          /\ pumps' = [pumps EXCEPT ![p] = r]
          /\ call' = [call EXCEPT ![c] = [pc |-> "replace", for |-> pumps[p], new |-> r]]
    BY <1>1 DEF Register
  <2>2. /\ r \in Runner /\ ~Registered(r) /\ manager' = manager /\ late' = late
        /\ manager.pc = "open" /\ ~Replacing(c)
    BY <1>1, <2>1 DEF Free, Registered, Register, AtWork, Replacing
  <2>3. /\ runner'[r].pc = "made" /\ runner'[r].id = p
        /\ \A q \in Runner : q # r => runner'[q] = runner[q]
    BY <1>0, <2>1, <2>2
  <2>4. /\ call'[c].pc = "replace" /\ call'[c].for = pumps[p] /\ call'[c].new = r
        /\ \A d \in Callers : d # c => call'[d] = call[d]
    BY <1>0, <2>1
  <2>5. pumps'[p] = r /\ \A i \in Ids : i # p => pumps'[i] = pumps[i]
    BY <1>0, <2>1
  \* r comes after all that are registered.
  <2>6. \A q \in Runner : Registered(q) <=> q < r
    <3>1. ASSUME NEW q \in Runner, q < r PROVE Registered(q)
      BY <2>1, <2>2, <3>1, Numbers DEF Free, Registered
    <3>2. ASSUME NEW q \in Runner, Registered(q) PROVE q < r
      <4>1. q # r /\ ~(r < q)
        BY <1>0, <2>2, <3>2 DEF InOrder
      <4> QED BY <2>2, <4>1, Numbers
    <3> QED BY <3>1, <3>2
  <2>7. InOrder'
    <3>1. \A q \in Runner : Registered(q)' <=> q <= r
      BY <2>2, <2>3, <2>6, Numbers DEF Registered
    <3> QED BY <2>2, <3>1, Numbers DEF InOrder
  <2>8. Succession'
    <3> SUFFICES ASSUME NEW s \in Runner, NEW q \in Runner, q < s, LoopStarted(s)',
                        runner'[q].id = runner'[s].id
                 PROVE  runner'[q].pc = "done"
      BY DEF Succession
    <3>1. s # r /\ LoopStarted(s)
      BY <2>3 DEF LoopStarted
    <3>2. s < r /\ q # r
      BY <2>2, <2>6, <3>1, Numbers DEF LoopStarted, Registered
    <3> QED BY <1>0, <2>3, <3>1, <3>2 DEF Succession
  <2>9. CallsMade'
    <3> SUFFICES ASSUME NEW d \in Callers, Replacing(d)' PROVE CallMade(d)'
      BY DEF CallsMade
    <3>1. CASE d = c
      <4>1. \A e \in Callers : Replacing(e)' /\ call'[e].new = r => e = c
        <5> SUFFICES ASSUME NEW e \in Callers, Replacing(e)', call'[e].new = r, e # c PROVE FALSE
          OBVIOUS
        <5>1. Replacing(e) /\ call[e].new = r
          BY <2>4 DEF Replacing
        <5> QED BY <1>0, <2>2, <5>1 DEF CallsMade, CallMade, Registered
      <4>2. ASSUME NEW q \in Runner, q < r, runner'[q].id = p PROVE q <= pumps[p]
        <5>1. Registered(q) /\ q # r /\ runner[q].id = p
          BY <2>2, <2>3, <2>6, <4>2
        <5> QED BY <1>0, <2>2, <5>1 DEF MapIsLast
      <4>3. pumps[p] # NoRunner => runner'[pumps[p]].pc # "unused" /\ runner'[pumps[p]].id = p
        <5>1. pumps[p] # NoRunner => /\ pumps[p] \in Runner /\ pumps[p] # r
                                    /\ Registered(pumps[p]) /\ runner[pumps[p]].id = p
          BY <1>0, <2>2, Numbers DEF MapIsLast
        <5> QED BY <2>3, <5>1 DEF Registered
      <4> QED BY <2>2, <2>3, <2>4, <3>1, <4>1, <4>2, <4>3 DEF CallMade, Registered
    <3>2. CASE d # c
      <4>1. Replacing(d) /\ call'[d] = call[d]
        BY <2>4, <3>2 DEF Replacing
      <4>2. CallMade(d)
        BY <1>0, <4>1 DEF CallsMade
      <4>3. call[d].new \in Runner /\ call[d].new # r /\ call[d].new < r
        BY <2>2, <2>6, <4>2 DEF CallMade, Registered
      <4>4. call[d].for # NoRunner => call[d].for \in Runner /\ runner'[call[d].for] = runner[call[d].for]
        <5>1. call[d].for # NoRunner => call[d].for \in Runner /\ call[d].for # r
          BY <2>2, <4>2, Numbers DEF CallMade
        <5> QED BY <2>3, <5>1
      <4>5. \A e \in Callers : Replacing(e)' /\ call'[e].new = call[d].new => e = d
        BY <2>4, <4>2, <4>3 DEF CallMade, Replacing
      <4>6. \A q \in Runner : q < call[d].new /\ runner'[q].id = runner'[call[d].new].id => q <= call[d].for
        <5> SUFFICES ASSUME NEW q \in Runner, q < call[d].new,
                            runner'[q].id = runner'[call[d].new].id
                     PROVE  q <= call[d].for
          OBVIOUS
        <5>1. q # r
          BY <2>2, <4>3, Numbers
        <5> QED BY <2>3, <4>2, <4>3, <5>1 DEF CallMade
      <4> QED BY <2>3, <4>1, <4>2, <4>3, <4>4, <4>5, <4>6 DEF CallMade, Registered
    <3> QED BY <3>1, <3>2
  <2>10. MapIsLast'
    <3>1. ASSUME NEW i \in Ids, pumps'[i] # NoRunner
          PROVE  runner'[pumps'[i]].pc # "unused" /\ runner'[pumps'[i]].id = i
      <4>1. CASE i = p
        BY <2>3, <2>5, <4>1
      <4>2. CASE i # p
        <5>1. /\ pumps[i] \in Runner /\ pumps[i] # r /\ pumps'[i] = pumps[i]
              /\ Registered(pumps[i]) /\ runner[pumps[i]].id = i
          BY <1>0, <2>2, <2>5, <3>1, <4>2, Numbers DEF MapIsLast
        <5> QED BY <2>3, <5>1 DEF Registered
      <4> QED BY <4>1, <4>2
    <3>2. ASSUME NEW q \in Runner, Registered(q)' PROVE q <= pumps'[runner'[q].id]
      <4>1. CASE q = r
        BY <2>3, <2>5, <4>1, Numbers
      <4>2. CASE q # r
        <5>1. Registered(q) /\ q < r /\ runner'[q].id = runner[q].id /\ runner[q].id \in Ids
          BY <2>3, <2>6, <3>2, <4>2, Numbers DEF Registered
        <5>2. q <= pumps[runner[q].id]
          BY <1>0, <2>2, <5>1 DEF MapIsLast
        <5> QED BY <2>2, <2>5, <5>1, <5>2, Numbers
      <4> QED BY <4>1, <4>2
    <3> QED BY <3>1, <3>2 DEF MapIsLast, Registered
  <2>11. AwaitsLast' /\ ClosedEmpty'
    BY <2>2 DEF AwaitsLast, ClosedEmpty
  <2> QED BY <2>7, <2>8, <2>9, <2>10, <2>11 DEF PumpOrder
<1>2. ASSUME NEW c \in Callers, CancelOld(c) PROVE PumpOrder'
  <2>1. runner' = [r \in Runner |-> IF r \in {call[c].for} THEN [runner[r] EXCEPT !.canceled = TRUE]
                                                          ELSE runner[r]]
    BY <1>2 DEF CancelOld
  <2>2. \A q \in Runner : runner'[q].pc = runner[q].pc /\ runner'[q].id = runner[q].id
    BY <2>1, RunnersCanceled
  <2>3. /\ call'[c].pc = "stop" /\ call'[c].for = call[c].for /\ call'[c].new = call[c].new
        /\ \A d \in Callers : d # c => call'[d] = call[d]
    BY <1>2, CallStops DEF CancelOld
  <2>4. LoopsGoOn
    BY <1>2, <2>2, <2>3 DEF LoopsGoOn, Registered, Replacing, CancelOld
  <2> QED BY <1>a, <1>2, <2>4 DEF CancelOld
<1>3. ASSUME NEW c \in Callers, StartNew(c) PROVE PumpOrder'
  <2>1. PICK n \in Runner : n = call[c].new
    BY <1>0, <1>3 DEF StartNew, CallsMade, CallMade, Replacing
  <2>2. CallMade(c) /\ Ended(call[c].for) /\ runner[n].pc = "made"
    BY <1>0, <1>3, <2>1 DEF StartNew, CallsMade, CallMade, Replacing
  <2>3. /\ runner'[n].pc = "start" /\ \A q \in Runner : q # n => runner'[q].pc = runner[q].pc
        /\ \A q \in Runner : runner'[q].id = runner[q].id
    BY <1>3, <2>1, RunnerMoves DEF StartNew
  <2>4. call'[c].pc = "none" /\ \A d \in Callers : d # c => call'[d] = call[d]
    BY <1>0, <1>3, NoCallType, CallMoves DEF StartNew, NoCall
  <2>5. pumps' = pumps /\ manager' = manager /\ late' = late
    BY <1>3 DEF StartNew
  <2>6. \A q \in Runner : Registered(q)' <=> Registered(q)
    BY <2>2, <2>3 DEF Registered
  <2>7. InOrder'
    BY <1>0, <2>6 DEF InOrder
  <2>8. Succession'
    <3>1. ASSUME NEW q \in Runner, q < n, runner[q].id = runner[n].id PROVE runner[q].pc = "done"
      <4>1. q <= call[c].for /\ call[c].for # NoRunner
        BY <2>1, <2>2, <3>1, Numbers DEF CallMade, NoRunner
      <4>2. /\ call[c].for \in Runner /\ runner[call[c].for].pc = "done"
            /\ runner[call[c].for].id = runner[n].id
        BY <2>1, <2>2, <4>1, Numbers DEF CallMade, Ended
      <4>3. CASE q = call[c].for
        BY <4>2, <4>3
      <4>4. CASE q # call[c].for
        <5>1. q < call[c].for
          BY <4>1, <4>2, <4>4, Numbers
        <5> QED BY <1>0, <3>1, <4>2, <5>1 DEF Succession, LoopStarted
      <4> QED BY <4>3, <4>4
    <3> SUFFICES ASSUME NEW r \in Runner, NEW q \in Runner, q < r, LoopStarted(r)',
                        runner'[q].id = runner'[r].id
                 PROVE  runner'[q].pc = "done"
      BY DEF Succession
    <3>2. runner[q].pc = "done"
      BY <1>0, <2>3, <3>1 DEF Succession, LoopStarted
    <3>3. q # n
      BY <2>2, <3>2
    <3> QED BY <2>3, <3>2, <3>3
  <2>9. CallsMade'
    <3> SUFFICES ASSUME NEW d \in Callers, Replacing(d)' PROVE CallMade(d)'
      BY DEF CallsMade
    <3>1. d # c /\ Replacing(d) /\ call'[d] = call[d]
      BY <2>4 DEF Replacing
    <3>2. CallMade(d)
      BY <1>0, <3>1 DEF CallsMade
    <3>3. call[d].new # n
      BY <1>3, <2>1, <2>2, <3>1 DEF CallMade, StartNew, Replacing
    <3>4. call[d].for # NoRunner => call[d].for \in Runner
      BY Numbers
    <3>5. \A e \in Callers : Replacing(e)' => Replacing(e) /\ call'[e] = call[e]
      BY <2>4 DEF Replacing
    <3> QED BY <2>3, <2>6, <3>1, <3>2, <3>3, <3>4, <3>5 DEF CallMade
  <2>10. MapIsLast'
    BY <1>0, <2>3, <2>5, <2>6, Numbers DEF MapIsLast
  <2>11. AwaitsLast' /\ ClosedEmpty'
    <3>1. \A q \in Runner : runner[q].pc \in {"unused", "done"} => runner'[q].pc \in {"unused", "done"}
      BY <2>2, <2>3
    <3> QED BY <1>0, <2>3, <2>5, <3>1, Numbers DEF AwaitsLast, ClosedEmpty
  <2> QED BY <2>7, <2>8, <2>9, <2>10, <2>11 DEF PumpOrder
<1>4. ASSUME NEW c \in Callers, NEW r \in Runner, WaitFor(c, r) PROVE PumpOrder'
  <2>1. [pc |-> "wait", for |-> r, new |-> NoRunner] \in CallState
    BY DEF CallState
  <2>2. call'[c].pc = "wait" /\ \A d \in Callers : d # c => call'[d] = call[d]
    BY <1>4, <2>1, CallMoves DEF WaitFor
  <2>3. LoopsGoOn
    BY <1>4, <2>2 DEF LoopsGoOn, Registered, Replacing, WaitFor, AtWork
  <2> QED BY <1>a, <1>4, <2>3 DEF WaitFor
<1>5. ASSUME NEW r \in Runner, RunOnce(r) \/ End(r) PROVE PumpOrder'
  <2>1. /\ \A q \in Runner : q # r => runner'[q].pc = runner[q].pc
        /\ \A q \in Runner : runner'[q].id = runner[q].id
        /\ runner'[r].pc \in {"task", "done"} /\ runner[r].pc \in {"start", "idle"}
    BY <1>5, RunnerMoves DEF RunOnce, End
  <2>2. LoopsGoOn
    BY <1>5, <2>1 DEF LoopsGoOn, Registered, RunOnce, End, Replacing
  <2> QED BY <1>a, <1>5, <2>2 DEF RunOnce, End
<1>6. ASSUME NEW r \in Runner, TaskReturns(r) PROVE PumpOrder'
  <2>1. /\ \A q \in Runner : q # r => runner'[q].pc = runner[q].pc
        /\ \A q \in Runner : runner'[q].id = runner[q].id
        /\ runner'[r].pc = "idle" /\ runner[r].pc = "task"
    BY <1>6, RunnerMoves DEF TaskReturns
  <2>2. \A c \in Callers : call'[c] = IF call[c].pc = "wait" /\ call[c].for = r THEN NoCall ELSE call[c]
    BY <1>6 DEF TaskReturns
  <2>3. LoopsGoOn
    BY <2>1, <2>2 DEF LoopsGoOn, Registered, Replacing, NoCall
  <2> QED BY <1>a, <1>6, <2>3 DEF TaskReturns
<1>7. ASSUME NEW r \in Runner, Awaited(r) PROVE PumpOrder'
  <2>1. LoopsGoOn /\ pumps' = pumps
    BY <1>7 DEF LoopsGoOn, Registered, Replacing, Awaited
  <2>2. /\ manager'.pc = manager.pc /\ manager'.left = manager.left \ {r} /\ r \in manager.left
    BY <1>7 DEF Awaited, PumpsTypeOK
  <2>3. InOrder' /\ Succession' /\ CallsMade'
    BY <2>1, GoingOn
  <2>4. MapIsLast'
    BY <1>0, <1>7, <2>2 DEF MapIsLast, Awaited, Registered
  <2>5. ClosedEmpty'
    BY <1>0, <2>2 DEF ClosedEmpty
  <2>6. AwaitsLast'
    <3> SUFFICES ASSUME manager.pc \in {"waiting", "closed"}, ~late', NEW q \in Runner,
                        runner[q].pc \notin {"unused", "done"}
                 PROVE  \E l \in manager'.left : q <= l /\ runner[l].id = runner[q].id
      BY <1>7, <2>2 DEF AwaitsLast, Awaited
    <3>1. ~late /\ runner[r].pc = "done"
      BY <1>7 DEF Awaited
    <3>2. PICK l \in manager.left : q <= l /\ runner[l].id = runner[q].id
      BY <1>0, <3>1 DEF AwaitsLast
    <3>3. l # r
      <4> SUFFICES ASSUME l = r PROVE FALSE
        OBVIOUS
      <4>1. q # r
        BY <3>1
      <4>2. q < r
        BY <3>2, <4>1, Numbers
      <4> QED BY <1>0, <3>1, <3>2, <4>2 DEF Succession, LoopStarted
    <3> QED BY <2>2, <3>2, <3>3
  <2> QED BY <2>3, <2>4, <2>5, <2>6 DEF PumpOrder
<1>8. CASE BeginClose
  <2>1. runner' = [r \in Runner |-> IF r \in Runner \ Free THEN [runner[r] EXCEPT !.canceled = TRUE]
                                                          ELSE runner[r]]
    BY <1>8 DEF BeginClose
  <2>2. \A q \in Runner : runner'[q].pc = runner[q].pc /\ runner'[q].id = runner[q].id
    BY <2>1, RunnersCanceled
  <2>3. pumps' = pumps /\ manager.pc = "open" /\ manager'.pc = "closing"
    BY <1>8 DEF BeginClose, PumpsTypeOK
  <2>4. LoopsGoOn
    BY <1>8, <2>2 DEF LoopsGoOn, Registered, Replacing, BeginClose
  <2>5. MapIsLast'
    BY <1>0, <2>2, <2>3, Numbers DEF MapIsLast, Registered
  <2>6. AwaitsLast' /\ ClosedEmpty'
    BY <2>3 DEF AwaitsLast, ClosedEmpty
  <2> QED BY <2>4, <2>5, <2>6, GoingOn DEF PumpOrder
<1>9. CASE StopAllPumps
  <2>1. /\ LoopsGoOn /\ manager'.pc = "waiting" /\ manager'.left = ToAwait
        /\ manager.pc = "closing" /\ runner' = runner
        /\ pumps' = [p \in Ids |-> NoRunner]
    BY <1>9 DEF LoopsGoOn, Registered, Replacing, StopAllPumps
  <2>2. MapIsLast'
    BY <2>1 DEF MapIsLast
  <2>3. AwaitsLast'
    <3> SUFFICES ASSUME NEW q \in Runner, Registered(q)
                 PROVE  \E l \in ToAwait : q <= l /\ runner[l].id = runner[q].id
      BY <2>1 DEF AwaitsLast, Registered
    <3>1. runner[q].id \in Ids /\ q <= pumps[runner[q].id] /\ q >= 1
      BY <1>0, <2>1, Numbers DEF MapIsLast
    <3>2. pumps[runner[q].id] # NoRunner
      BY <3>1, Numbers DEF NoRunner
    <3>3. runner[pumps[runner[q].id]].id = runner[q].id /\ pumps[runner[q].id] \in ToAwait
      BY <1>0, <3>1, <3>2 DEF MapIsLast, ToAwait
    <3> QED BY <3>1, <3>3
  <2>4. ClosedEmpty'
    BY <2>1 DEF ClosedEmpty
  <2> QED BY <2>1, <2>2, <2>3, <2>4, GoingOn DEF PumpOrder
<1>10. CASE CloseDatabases
  <2>1. /\ LoopsGoOn /\ manager'.pc = "closed" /\ manager'.left = manager.left
        /\ manager.pc = "waiting" /\ manager.left = {}
        /\ runner' = runner /\ pumps' = pumps /\ late' = late
    BY <1>10 DEF LoopsGoOn, Registered, Replacing, CloseDatabases, PumpsTypeOK
  <2>2. MapIsLast' /\ AwaitsLast' /\ ClosedEmpty'
    BY <1>0, <2>1 DEF MapIsLast, AwaitsLast, ClosedEmpty, Registered
  <2> QED BY <2>1, <2>2, GoingOn DEF PumpOrder
<1>11. CASE UNCHANGED pumpsVars
  <2>1. LoopsGoOn
    BY <1>11 DEF LoopsGoOn, Registered, Replacing, pumpsVars
  <2> QED BY <1>a, <1>11, <2>1 DEF pumpsVars
<1> QED
  BY <1>1, <1>2, <1>3, <1>4, <1>5, <1>6, <1>7, <1>8, <1>9, <1>10, <1>11 DEF PumpsNext

\* The loops of one pump never overlap, whoever replaces it, however often, and
\* whether or not the replacement has started.
THEOREM OneLoopEach == PumpsSpec => []PumpsInv
<1>1. PumpsTypeOK /\ PumpOrder => PumpsInv
  <2> SUFFICES ASSUME PumpsTypeOK, PumpOrder, NEW r \in Runner, NEW q \in Runner,
                      {runner[r].pc, runner[q].pc} \subseteq {"start", "idle", "task"},
                      runner[r].id = runner[q].id, r # q
               PROVE  FALSE
    BY DEF PumpsInv, OneLoop
  <2>1. LoopStarted(r) /\ LoopStarted(q) /\ runner[r].pc # "done" /\ runner[q].pc # "done"
    BY DEF LoopStarted
  <2>2. r < q \/ q < r
    BY Numbers
  <2> QED BY <2>1, <2>2 DEF PumpOrder, Succession
<1> QED BY <1>1, PumpsTypeInit, PumpsTypeStep, PumpOrderInit, PumpOrderStep, PTL DEF PumpsSpec

\* When the databases are closed no pump runs and none will, replaced ones
\* included, unless Close has stopped waiting.
THEOREM CloseIsLast == PumpsSpec => []CloseWaits
<1>1. PumpOrder => CloseWaits
  BY DEF PumpOrder, AwaitsLast, ClosedEmpty, CloseWaits
<1> QED BY <1>1, PumpsTypeInit, PumpsTypeStep, PumpOrderInit, PumpOrderStep, PTL DEF PumpsSpec
=============================================================================
