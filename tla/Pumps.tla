-------------------------------- MODULE Pumps --------------------------------
(***************************************************************************)
(* Pumps and the shutdown of the task manager (runtime/task_manager.go): a *)
(* pump is a loop that runs a function again and again, each time as a     *)
(* task, until a pump of the same id replaces it or the manager is closed. *)
(*                                                                         *)
(* A function is anything that returns: on its way it may register a pump, *)
(* its own included, and wait for other tasks.  What a task does besides   *)
(* is in TaskManager.  A section under pumpMu is one action.               *)
(***************************************************************************)
EXTENDS Integers, FiniteSets

CONSTANTS
  Ids,         \* pump ids
  Configs,     \* function, input and interval of a pump
  Threads,     \* callers of RegisterPump that are no task of a pump
  MaxRunners   \* bound: pumps ever registered

ASSUME PumpsAssumption ==
  /\ Ids # {} /\ Configs # {}
  /\ MaxRunners \in Nat
  /\ Threads \cap (0..MaxRunners) = {}

Runner == 1..MaxRunners
NoRunner == 0

\* The task of a pump goes by the number of its runner.
Callers == Threads \cup Runner

VARIABLES
  pumps,    \* m.pumps
  runner,   \* every pumpRunner, its loop and the task of its loop
  call,     \* what every caller waits for: a runner to end, or a task
  manager,  \* Close: how far it is, and the runners it still waits for
  late      \* history: Close has stopped waiting for a runner

pumpsVars == <<pumps, runner, call, manager, late>>

Unused == [pc |-> "unused", id |-> CHOOSE p \in Ids : TRUE, config |-> CHOOSE x \in Configs : TRUE,
           canceled |-> FALSE]
NoCall == [pc |-> "none", for |-> NoRunner, new |-> NoRunner]

PumpsInit ==
  /\ pumps = [p \in Ids |-> NoRunner]
  /\ runner = [r \in Runner |-> Unused]
  /\ call = [c \in Callers |-> NoCall]
  /\ manager = [pc |-> "open", left |-> {}]
  /\ late = FALSE

Free == {r \in Runner : runner[r].pc = "unused"}

\* The caller is at work: a task between two calls.
AtWork(c) == call[c].pc = "none" /\ (c \in Runner => runner[c].pc = "task")

-----------------------------------------------------------------------------
(* registerPump *)

\* The locked part: the new runner takes the place of the old one, if it is
\* any different.
Register(c, p, x) ==
  LET old == pumps[p] IN
  /\ AtWork(c) /\ manager.pc = "open"
  /\ old # NoRunner => runner[old].config # x
  /\ \E r \in Free :
       /\ \A q \in Free : r <= q
       /\ runner' = [runner EXCEPT ![r] = [pc |-> "made", id |-> p, config |-> x, canceled |-> FALSE]]
       /\ pumps' = [pumps EXCEPT ![p] = r]
       /\ call' = [call EXCEPT ![c] = [pc |-> "replace", for |-> old, new |-> r]]
  /\ UNCHANGED <<manager, late>>

\* Faulty CancelOld: the replaced runner is only waited for.
CancelOld_Forgets(c) ==
  /\ call[c].pc = "replace"
  /\ call' = [call EXCEPT ![c].pc = "stop"]
  /\ UNCHANGED <<pumps, runner, manager, late>>

CancelOld(c) ==
  /\ call[c].pc = "replace"
  /\ runner' = [r \in Runner |-> IF r = call[c].for THEN [runner[r] EXCEPT !.canceled = TRUE] ELSE runner[r]]
  /\ call' = [call EXCEPT ![c].pc = "stop"]
  /\ UNCHANGED <<pumps, manager, late>>

\* Faulty Ended: a canceled runner counts as ended.
Ended_Canceled(r) == r # NoRunner => runner[r].canceled

Ended(r) == r # NoRunner => runner[r].pc = "done"

\* The loop of the new runner starts when the one of the old has ended.
StartNew(c) ==
  /\ call[c].pc = "stop" /\ Ended(call[c].for)
  /\ runner' = [runner EXCEPT ![call[c].new].pc = "start"]
  /\ call' = [call EXCEPT ![c] = NoCall]
  /\ UNCHANGED <<pumps, manager, late>>

-----------------------------------------------------------------------------
(* runPumpLoop *)

\* runPumpOnce spawns a task: first of all, even if the runner is canceled by
\* then, and at every tick.
RunOnce(r) ==
  /\ runner[r].pc \in {"start", "idle"}
  /\ runner' = [runner EXCEPT ![r].pc = "task"]
  /\ UNCHANGED <<pumps, call, manager, late>>

\* A task waits for another one, as wait_zoafunction without a timeout does.
WaitFor(c, r) ==
  /\ AtWork(c) /\ runner[r].pc = "task"
  /\ call' = [call EXCEPT ![c] = [pc |-> "wait", for |-> r, new |-> NoRunner]]
  /\ UNCHANGED <<pumps, runner, manager, late>>

\* The task returns, and everyone who waits for it goes on.
TaskReturns(r) ==
  /\ runner[r].pc = "task" /\ AtWork(r)
  /\ runner' = [runner EXCEPT ![r].pc = "idle"]
  /\ call' = [c \in Callers |-> IF call[c].pc = "wait" /\ call[c].for = r THEN NoCall ELSE call[c]]
  /\ UNCHANGED <<pumps, manager, late>>

\* The loop sees that it is canceled, when it looks at that rather than at a
\* tick that has come in the meantime.
End(r) ==
  /\ runner[r].pc = "idle" /\ runner[r].canceled
  /\ runner' = [runner EXCEPT ![r].pc = "done"]
  /\ UNCHANGED <<pumps, call, manager, late>>

-----------------------------------------------------------------------------
(* Close *)

\* Nothing is registered any more, and every runner's context is canceled.
BeginClose ==
  /\ manager.pc = "open"
  /\ manager' = [manager EXCEPT !.pc = "closing"]
  /\ runner' = [r \in Runner |-> IF r \in Free THEN runner[r] ELSE [runner[r] EXCEPT !.canceled = TRUE]]
  /\ UNCHANGED <<pumps, call, late>>

\* Faulty ToAwait: only the loops that have started.
ToAwait_Started == {pumps[p] : p \in Ids} \ ({NoRunner} \cup {r \in Runner : runner[r].pc = "made"})

ToAwait == {pumps[p] : p \in Ids} \ {NoRunner}

\* stopAllPumps takes the pumps out of the map.
StopAllPumps ==
  /\ manager.pc = "closing"
  /\ manager' = [pc |-> "waiting", left |-> ToAwait]
  /\ pumps' = [p \in Ids |-> NoRunner]
  /\ UNCHANGED <<runner, call, late>>

Awaited(r) ==
  /\ r \in manager.left
  /\ late' = (late \/ runner[r].pc # "done")
  /\ manager' = [manager EXCEPT !.left = manager.left \ {r}]
  /\ UNCHANGED <<pumps, runner, call>>

\* Both databases are closed.
CloseDatabases ==
  /\ manager.pc = "waiting" /\ manager.left = {}
  /\ manager' = [manager EXCEPT !.pc = "closed"]
  /\ UNCHANGED <<pumps, runner, call, late>>

-----------------------------------------------------------------------------

PumpsNext ==
  \/ \E c \in Callers :
       \/ \E p \in Ids, x \in Configs : Register(c, p, x)
       \/ CancelOld(c) \/ StartNew(c)
       \/ \E r \in Runner : WaitFor(c, r)
  \/ \E r \in Runner : RunOnce(r) \/ TaskReturns(r) \/ End(r) \/ Awaited(r)
  \/ BeginClose \/ StopAllPumps \/ CloseDatabases

PumpsSpec == PumpsInit /\ [][PumpsNext]_pumpsVars

\* Functions return, goroutines go on, and select is fair to a canceled context.
PumpsFairness ==
  /\ \A c \in Callers : WF_pumpsVars(CancelOld(c)) /\ WF_pumpsVars(StartNew(c))
  /\ \A r \in Runner : WF_pumpsVars(runner[r].pc = "start" /\ RunOnce(r)) /\ SF_pumpsVars(TaskReturns(r)) /\ SF_pumpsVars(End(r))

PumpsFairSpec == PumpsSpec /\ PumpsFairness

-----------------------------------------------------------------------------
(* Properties *)

\* Every variable keeps its type.
PumpsTypeOK ==
  /\ pumps \in [Ids -> Runner \cup {NoRunner}]
  /\ runner \in [Runner -> [pc : {"unused", "made", "start", "idle", "task", "done"}, id : Ids,
                            config : Configs, canceled : BOOLEAN]]
  /\ call \in [Callers -> [pc : {"none", "replace", "stop", "wait"}, for : Runner \cup {NoRunner},
                           new : Runner \cup {NoRunner}]]
  /\ manager \in [pc : {"open", "closing", "waiting", "closed"}, left : SUBSET Runner]
  /\ late \in BOOLEAN

\* The loops of one pump follow each other: however often it is replaced, also
\* before the replacement has started, no two run at the same time.
OneLoop ==
  \A r, q \in Runner :
    /\ {runner[r].pc, runner[q].pc} \subseteq {"start", "idle", "task"}
    /\ runner[r].id = runner[q].id
    => r = q

\* With the types.
PumpsInv == PumpsTypeOK /\ OneLoop

\* When the databases are closed no pump runs, and none will, unless Close has
\* stopped waiting: also pumps that had been replaced, or were being replaced,
\* when Close was called.
CloseWaits ==
  manager.pc = "closed" => late \/ \A r \in Runner : runner[r].pc \in {"unused", "done"}

\* r can go on only after q has: its loop has yet to start, after q has ended;
\* or its task waits for q, to end or to return.
WaitsFor(r, q) ==
  \/ runner[r].pc = "made" /\ \E c \in Callers : call[c].new = r /\ call[c].for = q
  \/ runner[r].pc = "task" /\ call[r].pc # "none" /\ call[r].for = q

Deadlock == \E R \in SUBSET Runner \ {{}} : \A r \in R : \E q \in R : WaitsFor(r, q)

\* RegisterPump and waits for tasks come back, unless tasks wait for each
\* other in a circle: for themselves, or to replace a pump whose task waits
\* for them.
CallsReturn == \A c \in Callers : call[c].pc # "none" ~> call[c].pc = "none" \/ Deadlock
=============================================================================
