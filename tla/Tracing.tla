------------------------------- MODULE Tracing -------------------------------
(***************************************************************************)
(* Runtime traces: the manager behind the trace control server             *)
(* (internal/tracecontrol), whose requests start and stop a trace, the     *)
(* recorder of semantic events (internal/semtrace), to which every task of *)
(* the program reports its start and its end, and what `zoa trace'         *)
(* (cmd/zoa/trace.go) makes of the events it downloads.                    *)
(*                                                                         *)
(* Regions are recorded as tasks are and are left out, and so are the log  *)
(* events; the clock is the place of an event in the recording.            *)
(***************************************************************************)
EXTENDS Integers, Sequences, FiniteSets, FiniteSetsExt, SequencesExt

CONSTANTS
  Requests,     \* concurrent requests to the server
  Handles,      \* tasks of the program, with their parents
  Hidden,       \* those that are hidden from the log by default
  Threshold,    \* omit-hidden-root-below-ms
  MaxSessions   \* bound: traces ever started

ASSUME TracingAssumption ==
  Hidden \subseteq Handles /\ Threshold \in Nat /\ MaxSessions \in Nat

VARIABLES
  manager,     \* is a trace active, and which
  goTrace,     \* does the Go runtime trace
  recorder,    \* is it active, its events, idCounter, and the session they belong to
  request,     \* end_trace requests: how far they are, and the trace they end
  task,        \* semtrace.Task: where it is, its id, its parent's id, session of the id
  dump,        \* history: the trace the last dump was made for, the one it is of
  overlapped   \* history: a trace was started while another one was being stopped

vars == <<manager, goTrace, recorder, request, task, dump, overlapped>>

Idle == [pc |-> "idle", session |-> 0]

Init ==
  /\ manager = [active |-> FALSE, session |-> 0]
  /\ goTrace = FALSE
  /\ recorder = [on |-> FALSE, events |-> <<>>, ids |-> 0, session |-> 0]
  /\ request = [q \in Requests |-> Idle]
  /\ task = [h \in Handles |-> [pc |-> "new", id |-> 0, parent |-> 0, session |-> 0]]
  /\ dump = [for |-> 0, of |-> 0]
  /\ overlapped = FALSE

-----------------------------------------------------------------------------
(* Requests *)

\* Manager.Start, under its lock, with Recorder.Start.  It fails when a trace
\* is active, or the runtime still traces for one that is being stopped.
Start(q) ==
  /\ request[q].pc = "idle"
  /\ ~manager.active /\ ~goTrace
  /\ recorder.session < MaxSessions
  /\ manager' = [active |-> TRUE, session |-> recorder.session + 1]
  /\ goTrace' = TRUE
  /\ recorder' = [on |-> TRUE, events |-> <<>>, ids |-> 0, session |-> recorder.session + 1]
  /\ overlapped' = (overlapped \/ \E p \in Requests : request[p].pc # "idle")
  /\ UNCHANGED <<request, task, dump>>

At(q, from, to) ==
  /\ request[q].pc = from
  /\ request' = [request EXCEPT ![q] = IF to = "idle" THEN Idle ELSE [@ EXCEPT !.pc = to]]

\* Faulty Take: the trace stays active until it has been stopped.
Take_Late(q) ==
  /\ request[q].pc = "idle" /\ manager.active
  /\ request' = [request EXCEPT ![q] = [pc |-> "stop", session |-> manager.session]]
  /\ UNCHANGED <<manager, goTrace, recorder, task, dump, overlapped>>

\* Manager.Stop, under its lock.
Take(q) ==
  /\ request[q].pc = "idle" /\ manager.active
  /\ request' = [request EXCEPT ![q] = [pc |-> "stop", session |-> manager.session]]
  /\ manager' = [active |-> FALSE, session |-> 0]
  /\ UNCHANGED <<goTrace, recorder, task, dump, overlapped>>

\* The rest of it is done without the lock.
StopGoTrace(q) ==
  /\ At(q, "stop", "read")
  /\ goTrace' = FALSE
  /\ UNCHANGED <<manager, recorder, task, dump, overlapped>>

\* The file of the trace cannot be read: the recorder is left as it is.
ReadFails(q) ==
  /\ At(q, "read", "idle")
  /\ UNCHANGED <<manager, goTrace, recorder, task, dump, overlapped>>

\* The file is read, and StopAndDump follows: first the flag ...
Deactivate(q) ==
  /\ At(q, "read", "dump")
  /\ recorder' = [recorder EXCEPT !.on = FALSE]
  /\ UNCHANGED <<manager, goTrace, task, dump, overlapped>>

\* ... then, under the recorder's lock, the events.
Dump(q) ==
  /\ At(q, "dump", "idle")
  /\ dump' = [for |-> request[q].session, of |-> recorder.session]
  /\ UNCHANGED <<manager, goTrace, recorder, task, overlapped>>

-----------------------------------------------------------------------------
(* Tasks *)

Record(ev) == recorder' = [recorder EXCEPT !.events = Append(recorder.events, ev)]

\* The task ids in the contexts a task may be started with, of this session or
\* of an earlier one.
ParentIds == {0} \cup {task[h].id : h \in {k \in Handles : task[k].pc \in {"open", "ending"}}}

\* Faulty Name: the counter moves when the event is recorded.
Name_Shared(h, p) ==
  /\ task[h].pc = "new" /\ recorder.on
  /\ task' = [task EXCEPT ![h] = [pc |-> "named", id |-> Len(recorder.events) + 1, parent |-> p,
                                  session |-> recorder.session]]
  /\ UNCHANGED <<manager, goTrace, recorder, request, dump, overlapped>>

\* NewTaskWithAttrs: a number for the task, if the recorder is active.
Name(h, p) ==
  /\ task[h].pc = "new" /\ recorder.on
  /\ recorder' = [recorder EXCEPT !.ids = recorder.ids + 1]
  /\ task' = [task EXCEPT ![h] = [pc |-> "named", id |-> recorder.ids + 1, parent |-> p,
                                  session |-> recorder.session]]
  /\ UNCHANGED <<manager, goTrace, request, dump, overlapped>>

\* The event is recorded, whatever has happened to the recorder since.
Begin(h) ==
  /\ task[h].pc = "named"
  /\ Record([kind |-> "task_start", id |-> task[h].id, parent |-> task[h].parent, by |-> h])
  /\ task' = [task EXCEPT ![h].pc = "open"]
  /\ UNCHANGED <<manager, goTrace, request, dump, overlapped>>

\* A task that is over: only the trace it was numbered in is of interest still.
Done(h) == [task[h] EXCEPT !.pc = "done", !.id = 0, !.parent = 0]

\* Task.End sees whether the recorder is active ...
Finish(h) ==
  /\ task[h].pc = "open"
  /\ task' = [task EXCEPT ![h] = IF recorder.on THEN [@ EXCEPT !.pc = "ending"] ELSE Done(h)]
  /\ UNCHANGED <<manager, goTrace, recorder, request, dump, overlapped>>

\* ... and records the event.
End(h) ==
  /\ task[h].pc = "ending"
  /\ Record([kind |-> "task_end", id |-> task[h].id, parent |-> 0, by |-> h])
  /\ task' = [task EXCEPT ![h] = Done(h)]
  /\ UNCHANGED <<manager, goTrace, request, dump, overlapped>>

Next ==
  \/ \E q \in Requests :
       Start(q) \/ Take(q) \/ StopGoTrace(q) \/ ReadFails(q) \/ Deactivate(q) \/ Dump(q)
  \/ \E h \in Handles : (\E p \in ParentIds : Name(h, p)) \/ Begin(h) \/ Finish(h) \/ End(h)

Spec == Init /\ [][Next]_vars

-----------------------------------------------------------------------------
(* What zoa trace makes of a dump *)

Starts(ev) == {i \in DOMAIN ev : ev[i].kind = "task_start"}
Ends(ev) == {i \in DOMAIN ev : ev[i].kind = "task_end"}

\* appendSemanticEventsToTraceJSON: an end makes a slice with the last start
\* of its id.
StartOf(ev, j) == {i \in Starts(ev) : i < j /\ ev[i].id = ev[j].id}
Slices(ev) == {<<Max(StartOf(ev, j)), j>> : j \in {k \in Ends(ev) : StartOf(ev, k) # {}}}

\* parentByTask: 0 for none.
Parent(ev, id) ==
  LET S == {i \in Starts(ev) : ev[i].id = id} IN IF S = {} THEN 0 ELSE ev[Max(S)].parent

\* The way up from id, id included.
Ancestors(ev, id) ==
  LET known == {id} \cup {ev[i].id : i \in DOMAIN ev} \cup {ev[i].parent : i \in DOMAIN ev} IN
  {a \in known :
     \A S \in SUBSET known :
       id \in S /\ (\A b \in S : Parent(ev, b) # 0 => Parent(ev, b) \in S) => a \in S}

\* findTaskRoot: the end of the way up, or the task itself if it goes in a circle.
Tops(ev, id) == {a \in Ancestors(ev, id) : Parent(ev, a) = 0}
Element(S) == CHOOSE a \in S : TRUE
Root(ev, id) == IF Tops(ev, id) = {} THEN id ELSE Element(Tops(ev, id))

\* dropShortHiddenSemanticRoots: hidden roots that ended before the threshold ...
DropRoots(ev) ==
  {ev[i].id : i \in {k \in Starts(ev) :
     /\ k = Max({l \in Starts(ev) : ev[l].id = ev[k].id})
     /\ ev[k].parent = 0 /\ ev[k].by \in Hidden
     /\ \E j \in Ends(ev) : /\ ev[j].id = ev[k].id
                            /\ \A l \in Ends(ev) : ev[l].id = ev[k].id => l <= j
                            /\ j - k < Threshold}}

\* ... go, with all that belongs to them.
Dropped(ev, id) == Root(ev, id) \in DropRoots(ev)
Kept(ev) == SelectSeq(ev, LAMBDA e : ~Dropped(ev, e.id))

-----------------------------------------------------------------------------
(* Properties *)

Event == [kind : {"task_start", "task_end"}, id : Nat, parent : Nat, by : Handles]

\* Every variable keeps its type.
TypeOK ==
  /\ manager \in [active : BOOLEAN, session : Nat] /\ goTrace \in BOOLEAN
  /\ request \in [Requests -> [pc : {"idle", "stop", "read", "dump"}, session : Nat]]
  /\ task \in [Handles -> [pc : {"new", "named", "open", "ending", "done"}, id : Nat, parent : Nat, session : Nat]]
  /\ recorder \in [on : BOOLEAN, events : Seq(Event), ids : Nat, session : Nat]
  /\ dump \in [for : Nat, of : Nat]
  /\ overlapped \in BOOLEAN

\* Traces do not mix: a dump has the events of the trace that was stopped, the
\* runtime traces and the recorder records while a trace is active.  All that
\* holds unless a trace was started while another was being stopped, which the
\* manager lets happen.
TracesApart ==
  /\ TypeOK
  /\ overlapped \/ /\ dump.for = dump.of
                   /\ manager.active => goTrace /\ recorder.on /\ recorder.session = manager.session

\* The task took its number in the trace it is recorded in.
Current(ev, i) == task[ev[i].by].session = recorder.session

\* A slice goes from the start to the end of one task, unless one of the two
\* events is of a task that was numbered in an earlier trace: numbers begin
\* anew with every trace, the handles of the earlier one stay in use.
SlicesOwn ==
  LET ev == recorder.events IN
  \A s \in Slices(ev) :
    Current(ev, s[1]) /\ Current(ev, s[2]) => ev[s[1]].by = ev[s[2]].by

\* Whole trees are dropped: of a task and its parent both are kept or neither.
TreesWhole ==
  LET ev == recorder.events IN
  \A i, j \in Starts(ev) :
    /\ \A k \in DOMAIN ev : Current(ev, k)
    /\ ev[j].parent = ev[i].id
    => (Dropped(ev, ev[j].id) <=> Dropped(ev, ev[i].id))

\* What zoa trace shows: slices of one task each, and whole trees of tasks.
TraceStitched == SlicesOwn /\ TreesWhole
=============================================================================
