---------------------------- MODULE TaskManager ----------------------------
(***************************************************************************)
(* The task manager (runtime/task_manager.go): tasks that run functions in *)
(* goroutines, spawn children, are waited for and canceled together with   *)
(* their children, and are logged in SQLite.                               *)
(*                                                                         *)
(* Every section under m.mu is one action, and so is every write to the    *)
(* task log; what other goroutines do between two of them is what the      *)
(* module is about.  A crash keeps the log and nothing else, and the next  *)
(* manager numbers its tasks from the log.                                 *)
(***************************************************************************)
EXTENDS Integers, FiniteSets

CONSTANTS
  Waiters,    \* callers of Wait
  MaxTasks,   \* bound: task ids
  MaxFaults   \* bound: failed writes to the log, and crashes

ASSUME TaskManagerAssumption == MaxTasks \in Nat /\ MaxFaults \in Nat

Task == 1..MaxTasks
NoTask == 0

VARIABLES
  nextID,   \* the id handed out last
  task,     \* m.tasks and the goroutine of every task
  calls,    \* tasks whose cancel function a Cancel has collected and will call
  log,      \* the task log: the status stored for every id
  waiter,   \* what every caller of Wait is doing
  faults,
  handed,   \* history: ids that Spawn has returned
  broken    \* history: ids with a failed log write or cut short by a crash

vars == <<nextID, task, calls, log, waiter, faults, handed, broken>>

\* pc: where the goroutine is.  canceled: rec.cancelRequested.  ctxDone: the
\* task's context is canceled.
NoRecord == [pc |-> "gone", parent |-> NoTask, status |-> "none",
             canceled |-> FALSE, ctxDone |-> FALSE]

Idle == [pc |-> "idle", id |-> NoTask, got |-> "none"]

Init ==
  /\ nextID = 0
  /\ task = [i \in Task |-> NoRecord]
  /\ calls = {}
  /\ log = [i \in Task |-> "none"]
  /\ waiter = [w \in Waiters |-> Idle]
  /\ faults = 0
  /\ handed = {}
  /\ broken = {}

-----------------------------------------------------------------------------
(* The map of live records *)

Live(i) == task[i].pc # "gone"                 \* in m.tasks
Done(i) == task[i].pc \in {"closed", "gone"}   \* rec.done is closed
Started(i) == task[i].pc \in {"running", "cascading", "ended", "saved", "closed"}

At(i, from) == task[i].pc = from
Goto(i, to) == task' = [task EXCEPT ![i].pc = to]

Fault == /\ faults < MaxFaults
         /\ faults' = faults + 1

\* persistTask, whose error every caller drops.
Persist(i) ==
  \/ /\ log' = [log EXCEPT ![i] = task[i].status]
     /\ UNCHANGED <<faults, broken>>
  \/ /\ Fault
     /\ broken' = broken \cup {i}
     /\ UNCHANGED log

-----------------------------------------------------------------------------
(* Spawn *)

\* Faulty MaySpawn: a parent that was asked to stop may still spawn.
MaySpawn_Canceled(p) == p # NoTask => Live(p) /\ ~Done(p)

\* The parent, if any, is live, not done and not asked to stop.
MaySpawn(p) == p # NoTask => Live(p) /\ ~task[p].canceled /\ ~Done(p)

\* Callers outside of any task have no parent to give, and neither has the tool
\* call_zoafunction, whatever task the model that uses it works for.
NoParent == {NoTask}

\* runFunction gives a function its own task as the parent of what it spawns:
\* the function runs, or has left something behind.
ByFunction == {q \in Task : Started(q)}

\* newRecord
NewRecord ==
  /\ nextID < MaxTasks
  /\ \E p \in NoParent \cup ByFunction :
       /\ MaySpawn(p)
       /\ task' = [task EXCEPT ![nextID + 1] =
                     [pc |-> "created", parent |-> p, status |-> "running",
                      canceled |-> FALSE, ctxDone |-> FALSE]]
  /\ nextID' = nextID + 1
  /\ UNCHANGED <<calls, log, waiter, faults, handed, broken>>

\* The rest of spawnWithParent: log the task, start it, return its id.
Spawned(i) ==
  /\ At(i, "created")
  /\ Persist(i)
  /\ Goto(i, "starting")
  /\ handed' = handed \cup {i}
  /\ UNCHANGED <<nextID, calls, waiter>>

-----------------------------------------------------------------------------
(* runTask *)

LogStart(i) ==
  /\ At(i, "starting")
  /\ Persist(i)
  /\ Goto(i, "ready")
  /\ UNCHANGED <<nextID, calls, waiter, handed>>

\* Faulty Run: an earlier request is forgotten.
Run_Forgets(i) ==
  /\ At(i, "ready")
  /\ task' = [task EXCEPT ![i] = [@ EXCEPT !.pc = "running", !.ctxDone = FALSE]]
  /\ UNCHANGED <<nextID, calls, log, waiter, faults, handed, broken>>

\* Install cancelFunc; a Cancel that came earlier only left its request.
Run(i) ==
  /\ At(i, "ready")
  /\ task' = [task EXCEPT ![i] = [@ EXCEPT !.pc = "running", !.ctxDone = task[i].canceled]]
  /\ UNCHANGED <<nextID, calls, log, waiter, faults, handed, broken>>

\* The function returns: with a result, an error, or context.Canceled (its own
\* context's or another's).
Return(i) ==
  /\ At(i, "running")
  /\ \E s \in {"done", "failed", "canceled"} :
       task' = [task EXCEPT ![i] =
                  [@ EXCEPT !.status = s, !.pc = IF s = "canceled" THEN "cascading" ELSE "ended"]]
  /\ UNCHANGED <<nextID, calls, log, waiter, faults, handed, broken>>

\* Faulty LogEnd: the final status is not written.
LogEnd_Skipped(i) ==
  /\ At(i, "ended")
  /\ Goto(i, "saved")
  /\ UNCHANGED <<nextID, calls, log, waiter, faults, handed, broken>>

LogEnd(i) ==
  /\ At(i, "ended")
  /\ Persist(i)
  /\ Goto(i, "saved")
  /\ UNCHANGED <<nextID, calls, waiter, handed>>

CloseDone(i) ==
  /\ At(i, "saved")
  /\ Goto(i, "closed")
  /\ UNCHANGED <<nextID, calls, log, waiter, faults, handed, broken>>

\* The record goes; the deferred taskCancel ends the context.
Delete(i) ==
  /\ At(i, "closed")
  /\ task' = [task EXCEPT ![i] = [@ EXCEPT !.pc = "gone", !.ctxDone = TRUE]]
  /\ UNCHANGED <<nextID, calls, log, waiter, faults, handed, broken>>

-----------------------------------------------------------------------------
(* Cancel *)

\* The breadth-first visit: a live task leads to the live tasks it spawned.
Closed(S) == \A p \in S, c \in Task : Live(p) /\ Live(c) /\ task[c].parent = p => c \in S
Visited(r) == {i \in Task : \A S \in SUBSET Task : r \in S /\ Closed(S) => i \in S}

\* What a Cancel marks: the visited tasks that are not done.
Marked(r) == {i \in Visited(r) : Live(i) /\ ~Done(i)}

\* The marked tasks are asked to stop; those that have installed a cancel
\* function get it called after the lock.  The goroutine of r goes on at pc.
Mark(r, pc) ==
  LET marked == Marked(r) IN
  /\ calls' = calls \cup {i \in marked : At(i, "running")}
  /\ task' = [i \in Task |-> [task[i] EXCEPT !.canceled = task[i].canceled \/ i \in marked,
                                             !.pc = IF i = r THEN pc ELSE task[i].pc]]

\* Cancel of a live task, by anybody.
Cancel(r) ==
  /\ Live(r)
  /\ Mark(r, task[r].pc)
  /\ UNCHANGED <<nextID, log, waiter, faults, handed, broken>>

\* runTask cancels what a canceled task left running.
Cascade(r) ==
  /\ At(r, "cascading")
  /\ Mark(r, "ended")
  /\ UNCHANGED <<nextID, log, waiter, faults, handed, broken>>

\* Faulty CallCancel: the function is dropped.
CallCancel_Dropped(i) ==
  /\ i \in calls
  /\ calls' = calls \ {i}
  /\ UNCHANGED <<nextID, task, log, waiter, faults, handed, broken>>

\* A collected cancel function is called; on a finished context it does nothing.
CallCancel(i) ==
  /\ i \in calls
  /\ calls' = calls \ {i}
  /\ task' = IF At(i, "running") THEN [task EXCEPT ![i].ctxDone = TRUE] ELSE task
  /\ UNCHANGED <<nextID, log, waiter, faults, handed, broken>>

-----------------------------------------------------------------------------
(* Wait *)

\* A live task is waited for; of any other the log is asked.
Wait(w, i) ==
  /\ i \in handed /\ waiter[w].pc # "blocked"
  /\ waiter' = [waiter EXCEPT ![w] =
                  IF Live(i) THEN [pc |-> "blocked", id |-> i, got |-> "none"]
                             ELSE [pc |-> "returned", id |-> i, got |-> log[i]]]
  /\ UNCHANGED <<nextID, task, calls, log, faults, handed, broken>>

\* done is closed: the record's snapshot is returned, deleted or not.
Wake(w) ==
  /\ waiter[w].pc = "blocked" /\ Done(waiter[w].id)
  /\ waiter' = [waiter EXCEPT ![w] = [@ EXCEPT !.pc = "returned", !.got = task[waiter[w].id].status]]
  /\ UNCHANGED <<nextID, task, calls, log, faults, handed, broken>>

Timeout(w) ==
  /\ waiter[w].pc = "blocked"
  /\ waiter' = [waiter EXCEPT ![w] = Idle]
  /\ UNCHANGED <<nextID, task, calls, log, faults, handed, broken>>

-----------------------------------------------------------------------------
(* Crash and restart *)

\* Faulty Restarted: the highest id is handed out again.
Restarted_OffByOne == CHOOSE n \in 0..MaxTasks :
  /\ \A i \in Task : log[i] # "none" => i <= n + 1
  /\ IF n = 0 THEN \A i \in Task : i > 1 => log[i] = "none" ELSE log[n + 1] # "none"

\* Nothing is left but the log; MaxTaskSequence is the highest id in it.
Restarted == CHOOSE n \in 0..MaxTasks : /\ \A i \in Task : log[i] # "none" => i <= n
                                        /\ n # 0 => log[n] # "none"

Crash ==
  /\ Fault
  /\ broken' = broken \cup {i \in Task : Live(i) /\ task[i].pc \notin {"saved", "closed"}}
  /\ nextID' = Restarted
  /\ task' = [i \in Task |-> NoRecord]
  /\ calls' = {}
  /\ waiter' = [w \in Waiters |-> Idle]
  /\ UNCHANGED <<log, handed>>

Next ==
  \/ NewRecord
  \/ \E i \in Task : \/ Spawned(i) \/ LogStart(i) \/ Run(i) \/ Return(i) \/ LogEnd(i)
                     \/ CloseDone(i) \/ Delete(i)
                     \/ Cancel(i) \/ Cascade(i) \/ CallCancel(i)
  \/ \E w \in Waiters : \/ \E i \in Task : Wait(w, i)
                        \/ Wake(w) \/ Timeout(w)
  \/ Crash

Spec == Init /\ [][Next]_vars

\* The goroutines run; a function may take as long as it likes.
FairSpec ==
  /\ Spec
  /\ \A i \in Task : /\ WF_vars(Spawned(i))
                     /\ WF_vars(LogStart(i))
                     /\ WF_vars(Run(i))
                     /\ WF_vars(CallCancel(i))

-----------------------------------------------------------------------------
(* Properties *)

Status == {"none", "running", "done", "failed", "canceled"}
Final == {"done", "failed", "canceled"}
Record == [pc : {"created", "starting", "ready", "running", "cascading", "ended", "saved",
                 "closed", "gone"},
           parent : Task \cup {NoTask}, status : Status, canceled : BOOLEAN, ctxDone : BOOLEAN]

WaitState == [pc : {"idle", "blocked", "returned"}, id : Task \cup {NoTask}, got : Status]

\* Every variable keeps its type.
TypeOK ==
  /\ nextID \in 0..MaxTasks
  /\ task \in [Task -> Record]
  /\ calls \subseteq Task
  /\ log \in [Task -> Status]
  /\ waiter \in [Waiters -> WaitState]
  /\ faults \in 0..MaxFaults
  /\ handed \subseteq Task
  /\ broken \subseteq Task

\* A cancellation is never lost between the request and the cancel function:
\* a running task that was asked to stop has a canceled context, or the call
\* that cancels it is on its way (runTask looks at cancelRequested after it
\* installed cancelFunc).
CancelNotLost ==
  \A i \in Task : At(i, "running") /\ task[i].canceled => task[i].ctxDone \/ i \in calls

\* With the types.
TaskInv == TypeOK /\ CancelNotLost

\* No direct child escapes: once a task was asked to stop, each of its children was
\* asked too or is done, also one that was being spawned at that moment.
ChildrenCanceled ==
  \A p, c \in Task : task[c].parent = p /\ task[p].canceled => task[c].canceled \/ Done(c)

\* A task that ends as canceled takes its children along, whoever canceled it.
CanceledCascades ==
  \A p, c \in Task :
    (/\ task[p].status = "canceled" /\ task[p].pc \in {"ended", "saved", "closed"}
     /\ task[c].parent = p)
    => task[c].canceled \/ Done(c)

\* Direct children are stopped, however their parent was.
ChildrenStopped == ChildrenCanceled /\ CanceledCascades

\* When a task is reported done its final status is in the log, so a reader that
\* misses it in the map finds it there (unless the write failed or the process died).
LogFinal ==
  \A i \in handed \ broken : Done(i) => log[i] \in Final

\* Wait without timeout returns a final status, from the record or from the log.
WaitReturnsFinal ==
  \A w \in Waiters :
    waiter[w].pc = "returned" /\ waiter[w].id \notin broken => waiter[w].got \in Final

\* The final status of a task is known as soon as it is reported done.
FinalStatusKnown == LogFinal /\ WaitReturnsFinal

KeepsFinal == \A i \in Task : log[i] \in Final => log'[i] = log[i]

\* A final status in the log stays: persistTask upserts the row, and the writes
\* of one task come in the order of its life, also across restarts.
FinalStatusStays == [][KeepsFinal]_vars

Returned(i) == task[i].pc \in {"cascading", "ended", "saved", "closed", "gone"}

\* A task that was asked to stop sees its context canceled, or has returned.
CancelTakesEffect ==
  \A i \in Task : (Live(i) /\ task[i].canceled) ~> (task[i].ctxDone \/ Returned(i))
=============================================================================
