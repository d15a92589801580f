---------------------------- MODULE TracingProofs ----------------------------
(***************************************************************************)
(* Proofs about Tracing for any requests, tasks, hidden tasks and number   *)
(* of traces.                                                              *)
(***************************************************************************)
EXTENDS Tracing, WellFoundedInduction, TLAPS

-----------------------------------------------------------------------------
(* What a step does to the recorder and to the tasks *)

TaskState == [pc : {"new", "named", "open", "ending", "done"}, id : Nat, parent : Nat, session : Nat]
RequestState == [pc : {"idle", "stop", "read", "dump"}, session : Nat]

\* A request goes on, or is over.
LEMMA AtFacts ==
  ASSUME TypeOK, NEW q \in Requests, NEW from, NEW to \in {"idle", "read", "dump"}, At(q, from, to)
  PROVE  /\ request' \in [Requests -> RequestState]
         /\ request[q].pc = from /\ request'[q].pc = to
         /\ request'[q].session = (IF to = "idle" THEN 0 ELSE request[q].session)
         /\ \A p \in Requests : p # q => request'[p] = request[p]
<1>1. request \in [Requests -> RequestState]
  BY DEF TypeOK, RequestState
<1> DEFINE x == IF to = "idle" THEN Idle ELSE [request[q] EXCEPT !.pc = to]
<1>2. request' = [request EXCEPT ![q] = x] /\ request[q].pc = from
  BY <1>1 DEF At
<1>3. CASE to = "idle"
  <2>1. x = Idle /\ x \in RequestState /\ x.pc = "idle" /\ x.session = 0
    BY <1>3 DEF Idle, RequestState
  <2> HIDE DEF x
  <2> QED BY <1>1, <1>2, <1>3, <2>1
<1>4. CASE to # "idle"
  <2>1. x \in RequestState /\ x.pc = to /\ x.session = request[q].session
    BY <1>1, <1>4 DEF RequestState
  <2> HIDE DEF x
  <2> QED BY <1>1, <1>2, <1>4, <2>1
<1> QED BY <1>3, <1>4

LEMMA TakeFacts ==
  ASSUME TypeOK, NEW q \in Requests, Take(q)
  PROVE  /\ request' \in [Requests -> RequestState]
         /\ request[q].pc = "idle" /\ request'[q] = [pc |-> "stop", session |-> manager.session]
         /\ \A p \in Requests : p # q => request'[p] = request[p]
         /\ manager.active /\ manager' = [active |-> FALSE, session |-> 0]
<1>1. request \in [Requests -> RequestState] /\ manager.session \in Nat
  BY DEF TypeOK, RequestState
<1>2. [pc |-> "stop", session |-> manager.session] \in RequestState
  BY <1>1 DEF RequestState
<1> QED BY <1>1, <1>2 DEF Take

\* An event is put at the end.
LEMMA RecordFacts ==
  ASSUME TypeOK, NEW e \in Event, Record(e)
  PROVE  LET ev == recorder.events IN
         /\ recorder' \in [on : BOOLEAN, events : Seq(Event), ids : Nat, session : Nat]
         /\ recorder'.on = recorder.on /\ recorder'.ids = recorder.ids
         /\ recorder'.session = recorder.session
         /\ DOMAIN ev = 1..Len(ev) /\ DOMAIN recorder'.events = 1..Len(ev) + 1 /\ Len(ev) \in Nat
         /\ \A i \in DOMAIN ev : recorder'.events[i] = ev[i]
         /\ recorder'.events[Len(ev) + 1] = e
<1> DEFINE ev == recorder.events
           new == Append(ev, e)
<1>1. recorder \in [on : BOOLEAN, events : Seq(Event), ids : Nat, session : Nat] /\ ev \in Seq(Event)
  BY DEF TypeOK
<1>2. /\ new \in Seq(Event) /\ DOMAIN ev = 1..Len(ev) /\ DOMAIN new = 1..Len(ev) + 1
      /\ Len(ev) \in Nat /\ \A i \in DOMAIN ev : new[i] = ev[i]
      /\ new[Len(ev) + 1] = e
  BY <1>1
<1>3. recorder' = [recorder EXCEPT !.events = new]
  BY DEF Record
<1> HIDE DEF new
<1>4. /\ recorder' \in [on : BOOLEAN, events : Seq(Event), ids : Nat, session : Nat]
      /\ recorder'.on = recorder.on /\ recorder'.ids = recorder.ids
      /\ recorder'.session = recorder.session /\ recorder'.events = new
  BY <1>1, <1>2, <1>3
<1> QED BY <1>2, <1>4

\* Only h changes.
Others(h) == \A k \in Handles : k # h => task'[k] = task[k]

LEMMA NameFacts ==
  ASSUME TypeOK, NEW h \in Handles, NEW p \in ParentIds, Name(h, p)
  PROVE  /\ task' \in [Handles -> TaskState] /\ Others(h)
         /\ task[h].pc = "new" /\ recorder.on
         /\ task'[h] = [pc |-> "named", id |-> recorder.ids + 1, parent |-> p, session |-> recorder.session]
         /\ recorder' \in [on : BOOLEAN, events : Seq(Event), ids : Nat, session : Nat]
         /\ recorder'.ids = recorder.ids + 1 /\ recorder'.events = recorder.events
         /\ recorder'.session = recorder.session /\ recorder'.on = recorder.on
<1>1. /\ recorder \in [on : BOOLEAN, events : Seq(Event), ids : Nat, session : Nat]
      /\ task \in [Handles -> TaskState]
  BY DEF TypeOK, TaskState
<1>2. p \in Nat
  BY <1>1 DEF ParentIds, TaskState
<1>3. [pc |-> "named", id |-> recorder.ids + 1, parent |-> p, session |-> recorder.session] \in TaskState
  BY <1>1, <1>2 DEF TaskState
<1>4. /\ recorder' = [recorder EXCEPT !.ids = recorder.ids + 1]
      /\ task[h].pc = "new" /\ recorder.on
      /\ task' = [task EXCEPT ![h] = [pc |-> "named", id |-> recorder.ids + 1, parent |-> p,
                                      session |-> recorder.session]]
  BY DEF Name
<1>5. task' \in [Handles -> TaskState] /\ Others(h)
  BY <1>1, <1>3, <1>4 DEF Others
<1>6. task'[h] = [pc |-> "named", id |-> recorder.ids + 1, parent |-> p, session |-> recorder.session]
  BY <1>1, <1>4
<1>7. /\ recorder' \in [on : BOOLEAN, events : Seq(Event), ids : Nat, session : Nat]
      /\ recorder'.ids = recorder.ids + 1 /\ recorder'.events = recorder.events
      /\ recorder'.session = recorder.session /\ recorder'.on = recorder.on
  <2> DEFINE Evs == Seq(Event)
  <2>1. recorder \in [on : BOOLEAN, events : Evs, ids : Nat, session : Nat]
    BY <1>1
  <2> HIDE DEF Evs
  <2>2. recorder.ids + 1 \in Nat
    BY <2>1
  <2>3. recorder' = [recorder EXCEPT !.ids = recorder.ids + 1]
    BY <1>4
  <2>4. recorder' \in [on : BOOLEAN, events : Evs, ids : Nat, session : Nat]
    BY <2>1, <2>2, <2>3
  <2>5. /\ recorder'.ids = recorder.ids + 1 /\ recorder'.events = recorder.events
        /\ recorder'.session = recorder.session /\ recorder'.on = recorder.on
    BY <2>1, <2>3
  <2> QED BY <2>4, <2>5 DEF Evs
<1> QED BY <1>4, <1>5, <1>6, <1>7

LEMMA BeginFacts ==
  ASSUME TypeOK, NEW h \in Handles, Begin(h)
  PROVE  /\ task' \in [Handles -> TaskState] /\ Others(h)
         /\ task[h].pc = "named" /\ task'[h].pc = "open" /\ task'[h].id = task[h].id
         /\ task'[h].session = task[h].session
         /\ [kind |-> "task_start", id |-> task[h].id, parent |-> task[h].parent, by |-> h] \in Event
         /\ Record([kind |-> "task_start", id |-> task[h].id, parent |-> task[h].parent, by |-> h])
<1>1. task \in [Handles -> TaskState]
  BY DEF TypeOK, TaskState
<1>2. task[h] \in TaskState /\ [task[h] EXCEPT !.pc = "open"] \in TaskState
  BY <1>1 DEF TaskState
<1>3. task' = [task EXCEPT ![h] = [task[h] EXCEPT !.pc = "open"]] /\ task[h].pc = "named"
  BY DEF Begin
<1>4. task'[h] = [task[h] EXCEPT !.pc = "open"] /\ task' \in [Handles -> TaskState] /\ Others(h)
  BY <1>1, <1>2, <1>3 DEF Others
<1>5. [kind |-> "task_start", id |-> task[h].id, parent |-> task[h].parent, by |-> h] \in Event
  BY <1>2 DEF Event, TaskState
<1>6. task'[h].pc = "open" /\ task'[h].id = task[h].id /\ task'[h].session = task[h].session
  BY <1>2, <1>4 DEF TaskState
<1> QED BY <1>3, <1>4, <1>5, <1>6 DEF Begin

LEMMA DoneFacts ==
  ASSUME TypeOK, NEW h \in Handles
  PROVE  Done(h) \in TaskState /\ Done(h).pc = "done" /\ Done(h).session = task[h].session
<1> DEFINE r == task[h]
<1>1. r \in TaskState /\ Done(h) = [r EXCEPT !.pc = "done", !.id = 0, !.parent = 0]
  BY DEF TypeOK, TaskState, Done
<1>2. r.session = task[h].session
  OBVIOUS
<1> HIDE DEF r
<1>3. [r EXCEPT !.pc = "done", !.id = 0, !.parent = 0] \in TaskState
  BY <1>1 DEF TaskState
<1>4. [r EXCEPT !.pc = "done", !.id = 0, !.parent = 0].pc = "done"
  BY <1>1 DEF TaskState
<1>5. [r EXCEPT !.pc = "done", !.id = 0, !.parent = 0].session = r.session
  BY <1>1 DEF TaskState
<1> QED BY <1>1, <1>2, <1>3, <1>4, <1>5

LEMMA FinishFacts ==
  ASSUME TypeOK, NEW h \in Handles, Finish(h)
  PROVE  /\ task' \in [Handles -> TaskState] /\ Others(h)
         /\ task[h].pc = "open" /\ task'[h].session = task[h].session
         /\ task'[h].pc = "done" \/ (task'[h].pc = "ending" /\ task'[h].id = task[h].id)
<1>1. task \in [Handles -> TaskState] /\ task[h] \in TaskState
  BY DEF TypeOK, TaskState
<1> DEFINE x == IF recorder.on THEN [task[h] EXCEPT !.pc = "ending"] ELSE Done(h)
<1>2. task' = [task EXCEPT ![h] = x] /\ task[h].pc = "open"
  BY DEF Finish
<1>3. /\ x \in TaskState /\ x.session = task[h].session
      /\ x.pc = "done" \/ (x.pc = "ending" /\ x.id = task[h].id)
  <2>1. CASE recorder.on
    BY <1>1, <2>1 DEF TaskState
  <2>2. CASE ~recorder.on
    BY <2>2, DoneFacts
  <2> QED BY <2>1, <2>2
<1> HIDE DEF x
<1>4. task' \in [Handles -> TaskState] /\ Others(h) /\ task'[h] = x
  BY <1>1, <1>2, <1>3 DEF Others
<1> QED BY <1>2, <1>3, <1>4

LEMMA EndFacts ==
  ASSUME TypeOK, NEW h \in Handles, End(h)
  PROVE  /\ task' \in [Handles -> TaskState] /\ Others(h)
         /\ task[h].pc = "ending" /\ task'[h].pc = "done" /\ task'[h].session = task[h].session
         /\ [kind |-> "task_end", id |-> task[h].id, parent |-> 0, by |-> h] \in Event
         /\ Record([kind |-> "task_end", id |-> task[h].id, parent |-> 0, by |-> h])
<1>1. task \in [Handles -> TaskState] /\ task[h] \in TaskState
  BY DEF TypeOK, TaskState
<1>2. task' = [task EXCEPT ![h] = Done(h)] /\ task[h].pc = "ending"
  BY DEF End
<1>3. task' \in [Handles -> TaskState] /\ Others(h) /\ task'[h] = Done(h)
  BY <1>1, <1>2, DoneFacts DEF Others
<1>4. [kind |-> "task_end", id |-> task[h].id, parent |-> 0, by |-> h] \in Event
  BY <1>1 DEF Event, TaskState
<1> QED BY <1>2, <1>3, <1>4, DoneFacts DEF End

LEMMA StartFacts ==
  ASSUME TypeOK, NEW q \in Requests, Start(q)
  PROVE  /\ recorder' = [on |-> TRUE, events |-> <<>>, ids |-> 0, session |-> recorder.session + 1]
         /\ recorder' \in [on : BOOLEAN, events : Seq(Event), ids : Nat, session : Nat]
         /\ manager' = [active |-> TRUE, session |-> recorder.session + 1]
         /\ manager' \in [active : BOOLEAN, session : Nat]
         /\ goTrace' = TRUE /\ recorder.session \in Nat
         /\ recorder'.session = recorder.session + 1 /\ recorder'.events = <<>> /\ recorder'.on
         /\ manager'.session = recorder.session + 1
<1>1. recorder.session \in Nat /\ <<>> \in Seq(Event)
  BY DEF TypeOK
<1> QED BY <1>1 DEF Start

-----------------------------------------------------------------------------
(* Type correctness *)

LEMMA TypeInit == Init => TypeOK
<1> SUFFICES ASSUME Init PROVE TypeOK
  OBVIOUS
<1>1. Idle \in RequestState /\ <<>> \in Seq(Event)
  BY DEF Idle, RequestState
<1> QED BY <1>1 DEF Init, TypeOK, RequestState

LEMMA TypeStep == TypeOK /\ [Next]_vars => TypeOK'
<1> SUFFICES ASSUME TypeOK, [Next]_vars PROVE TypeOK'
  OBVIOUS
<1>1. ASSUME NEW q \in Requests, Start(q) PROVE TypeOK'
  BY <1>1, StartFacts DEF Start, TypeOK
<1>2. ASSUME NEW q \in Requests, Take(q) PROVE TypeOK'
  BY <1>2, TakeFacts DEF Take, TypeOK, RequestState
<1>3. ASSUME NEW q \in Requests, StopGoTrace(q) PROVE TypeOK'
  BY <1>3, AtFacts DEF StopGoTrace, TypeOK, RequestState
<1>4. ASSUME NEW q \in Requests, ReadFails(q) PROVE TypeOK'
  BY <1>4, AtFacts DEF ReadFails, TypeOK, RequestState
<1>5. ASSUME NEW q \in Requests, Deactivate(q) PROVE TypeOK'
  BY <1>5, AtFacts DEF Deactivate, TypeOK, RequestState
<1>6. ASSUME NEW q \in Requests, Dump(q) PROVE TypeOK'
  BY <1>6, AtFacts DEF Dump, TypeOK, RequestState
<1>7. ASSUME NEW h \in Handles, NEW p \in ParentIds, Name(h, p) PROVE TypeOK'
  BY <1>7, NameFacts DEF Name, TypeOK, TaskState
<1>8. ASSUME NEW h \in Handles, Begin(h) PROVE TypeOK'
  BY <1>8, BeginFacts, RecordFacts DEF Begin, TypeOK, TaskState
<1>9. ASSUME NEW h \in Handles, Finish(h) PROVE TypeOK'
  BY <1>9, FinishFacts DEF Finish, TypeOK, TaskState
<1>10. ASSUME NEW h \in Handles, End(h) PROVE TypeOK'
  BY <1>10, EndFacts, RecordFacts DEF End, TypeOK, TaskState
<1>11. CASE UNCHANGED vars
  BY <1>11 DEF vars, TypeOK
<1> QED
  BY <1>1, <1>2, <1>3, <1>4, <1>5, <1>6, <1>7, <1>8, <1>9, <1>10, <1>11 DEF Next
-----------------------------------------------------------------------------
(* Traces do not mix *)

\* Requests that are being answered.
Stopping == {q \in Requests : request[q].pc # "idle"}

\* As long as no trace was started while one was being stopped: an active trace
\* is the recorder's and nobody stops one, and at most one request stops one,
\* the last that was started.
OneAtATime ==
  overlapped \/
    /\ dump.for = dump.of
    /\ manager.active => /\ goTrace /\ recorder.on /\ recorder.session = manager.session
                         /\ Stopping = {}
    /\ \A q \in Stopping : /\ request[q].session = recorder.session
                           /\ \A p \in Stopping : p = q

LEMMA ApartInit == Init => OneAtATime
BY DEF Init, OneAtATime, Stopping, Idle

LEMMA ApartStep == TypeOK /\ OneAtATime /\ [Next]_vars => OneAtATime'
<1> SUFFICES ASSUME TypeOK, OneAtATime, [Next]_vars, ~overlapped' PROVE OneAtATime'
  BY DEF OneAtATime
<1>1. ASSUME NEW q \in Requests, Start(q) PROVE OneAtATime'
  <2>1. /\ ~overlapped /\ request' = request /\ dump' = dump
        /\ Stopping = {}
    BY <1>1 DEF Start, Stopping
  <2>2. Stopping' = {} /\ dump.for = dump.of
    BY <2>1 DEF Stopping, OneAtATime
  <2> QED BY <1>1, <2>1, <2>2, StartFacts DEF OneAtATime
<1> USE DEF OneAtATime
<1>2. ASSUME NEW q \in Requests, Take(q) PROVE OneAtATime'
  <2>1. /\ recorder' = recorder /\ dump' = dump /\ ~overlapped
        /\ manager.active /\ ~manager'.active /\ Stopping = {}
        /\ recorder.session = manager.session
    BY <1>2, TakeFacts DEF Take
  <2>2. Stopping' = {q} /\ request'[q].session = recorder.session
    BY <1>2, <2>1, TakeFacts DEF Stopping
  <2> QED BY <2>1, <2>2
\* A request on its way, the trace it ends being the recorder's.
<1>3. ASSUME NEW q \in Requests, NEW from \in {"stop", "read", "dump"},
             NEW to \in {"idle", "read", "dump"}, At(q, from, to)
      PROVE  /\ request[q].session = recorder.session \/ overlapped
             /\ ~manager.active \/ overlapped
             /\ \A p \in Stopping' : p \in Stopping /\ (overlapped \/ request'[p].session = request[p].session)
  <2>1. q \in Stopping
    BY <1>3, AtFacts DEF Stopping
  <2>2. \A p \in Stopping' : p \in Stopping /\ request'[p].session = request[p].session
    BY <1>3, <2>1, AtFacts DEF Stopping
  <2> QED BY <2>1, <2>2
<1>4. ASSUME NEW q \in Requests, StopGoTrace(q) PROVE OneAtATime'
  BY <1>3, <1>4 DEF StopGoTrace
<1>5. ASSUME NEW q \in Requests, ReadFails(q) PROVE OneAtATime'
  BY <1>3, <1>5 DEF ReadFails
<1>6. ASSUME NEW q \in Requests, Deactivate(q) PROVE OneAtATime'
  <2>1. recorder'.session = recorder.session
    BY <1>6 DEF Deactivate, TypeOK
  <2> QED BY <1>3, <1>6, <2>1 DEF Deactivate
<1>7. ASSUME NEW q \in Requests, Dump(q) PROVE OneAtATime'
  <2>1. dump'.for = request[q].session /\ dump'.of = recorder.session
    BY <1>7 DEF Dump
  <2> QED BY <1>3, <1>7, <2>1 DEF Dump
<1>8. ASSUME NEW h \in Handles PROVE
        ((\E p \in ParentIds : Name(h, p)) \/ Begin(h) \/ Finish(h) \/ End(h)) => OneAtATime'
  <2>1. ASSUME recorder'.on = recorder.on, recorder'.session = recorder.session,
               UNCHANGED <<manager, goTrace, request, dump, overlapped>>
        PROVE  OneAtATime'
    BY <2>1 DEF Stopping
  <2>2. ASSUME NEW p \in ParentIds, Name(h, p) PROVE OneAtATime'
    BY <2>1, <2>2, NameFacts DEF Name
  <2>3. ASSUME Begin(h) PROVE OneAtATime'
    BY <2>1, <2>3, BeginFacts, RecordFacts DEF Begin
  <2>4. ASSUME Finish(h) PROVE OneAtATime'
    BY <2>1, <2>4 DEF Finish
  <2>5. ASSUME End(h) PROVE OneAtATime'
    BY <2>1, <2>5, EndFacts, RecordFacts DEF End
  <2> QED BY <2>2, <2>3, <2>4, <2>5
<1>9. CASE UNCHANGED vars
  BY <1>9 DEF vars, Stopping
<1> QED
  BY <1>1, <1>2, <1>4, <1>5, <1>6, <1>7, <1>8, <1>9 DEF Next

\* Manager.Stop clears the active trace before the runtime's trace is stopped
\* and the recorder is dumped: as long as nobody starts a trace in between, a
\* dump is of the trace it was asked for, and an active trace is recorded.
THEOREM TracesStayApart == Spec => []TracesApart
<1>1. TypeOK /\ OneAtATime => TracesApart
  BY DEF TracesApart, OneAtATime
<1> QED BY <1>1, TypeInit, TypeStep, ApartInit, ApartStep, PTL DEF Spec
-----------------------------------------------------------------------------
(* Numbers *)

\* The fields of an event.
LEMMA EventTypes ==
  ASSUME TypeOK
  PROVE  LET ev == recorder.events IN
         /\ ev \in Seq(Event) /\ Len(ev) \in Nat /\ DOMAIN ev = 1..Len(ev)
         /\ \A i \in DOMAIN ev : /\ ev[i].id \in Nat /\ ev[i].parent \in Nat /\ ev[i].by \in Handles
                                 /\ ev[i].kind \in {"task_start", "task_end"}
<1>1. recorder.events \in Seq(Event)
  BY DEF TypeOK
<1>2. \A i \in DOMAIN recorder.events : recorder.events[i] \in Event
  BY <1>1
<1> QED BY <1>1, <1>2 DEF Event

Live(h) == task[h].pc \in {"named", "open", "ending"}

\* A live task with a number of the present trace.
Numbered(h) == Live(h) /\ task[h].session = recorder.session

\* No task is of a trace to come.
SessionsKnown == \A h \in Handles : task[h].session <= recorder.session

\* Every live task has a number, those of the present trace different ones.
Numbers ==
  /\ \A h \in Handles : Live(h) => task[h].id > 0
  /\ \A h \in Handles : Numbered(h) => task[h].id <= recorder.ids
  /\ \A h, k \in Handles : Numbered(h) /\ Numbered(k) /\ task[h].id = task[k].id => h = k

\* Every event is of a task that has begun.
EventsBegun ==
  LET ev == recorder.events IN
  /\ \A i \in DOMAIN ev : ev[i].id > 0 /\ task[ev[i].by].pc \in {"open", "ending", "done"}
  /\ \A i, j \in Starts(ev) : ev[i].by = ev[j].by => i = j

\* Of the tasks numbered in the present trace, the number in an event tells them
\* from each other.
EventsTell ==
  LET ev == recorder.events IN
  /\ \A i \in DOMAIN ev : Current(ev, i) => ev[i].id <= recorder.ids
  /\ \A i \in DOMAIN ev, h \in Handles :
       Current(ev, i) /\ Numbered(h) => (ev[i].id = task[h].id <=> ev[i].by = h)
  /\ \A i, j \in DOMAIN ev :
       Current(ev, i) /\ Current(ev, j) => (ev[i].id = ev[j].id <=> ev[i].by = ev[j].by)

NumInv == SessionsKnown /\ Numbers /\ EventsBegun /\ EventsTell

LEMMA NumInit == Init => NumInv
<1> SUFFICES ASSUME Init PROVE NumInv
  OBVIOUS
<1>1. /\ recorder.events = <<>> /\ recorder.session = 0
      /\ \A h \in Handles : task[h].pc = "new" /\ task[h].session = 0
  BY DEF Init
<1>2. DOMAIN recorder.events = {}
  BY <1>1
<1>3. EventsBegun /\ EventsTell
  BY <1>2 DEF EventsBegun, EventsTell, Starts
<1> QED BY <1>1, <1>3 DEF NumInv, SessionsKnown, Numbers, Numbered, Live

\* Nothing is numbered or recorded: no number is given, tasks only end.
LEMMA NumQuiet ==
  ASSUME TypeOK, NumInv,
         recorder'.events = recorder.events, recorder'.ids = recorder.ids,
         recorder'.session = recorder.session,
         \A h \in Handles : /\ task'[h].session = task[h].session
                            /\ Live(h)' => Live(h) /\ task'[h].id = task[h].id
                            /\ task[h].pc \in {"open", "ending", "done"} => task'[h].pc \in {"open", "ending", "done"}
  PROVE  NumInv'
<1>1. SessionsKnown'
  BY DEF NumInv, SessionsKnown
<1>2. \A h \in Handles : Numbered(h)' => Numbered(h) /\ task'[h].id = task[h].id
  BY DEF Numbered
<1>3. Numbers'
  <2>1. Numbers
    BY DEF NumInv
  <2> QED BY <1>2, <2>1 DEF Numbers
<1>4. EventsBegun'
  <2>1. EventsBegun
    BY DEF NumInv
  <2> QED BY <2>1, EventTypes DEF EventsBegun, Starts
<1>5. \A i \in DOMAIN recorder.events : Current(recorder.events, i)' <=> Current(recorder.events, i)
  BY EventTypes DEF Current
<1>6. EventsTell'
  <2>1. EventsTell
    BY DEF NumInv
  <2> QED BY <1>2, <1>5, <2>1 DEF EventsTell
<1> QED BY <1>1, <1>3, <1>4, <1>6 DEF NumInv

\* A new trace: no task is of it yet.
LEMMA NumStart ==
  ASSUME TypeOK, NumInv, NEW q \in Requests, Start(q)
  PROVE  NumInv'
<1>1. task' = task /\ recorder'.session = recorder.session + 1 /\ recorder.session \in Nat
  BY StartFacts DEF Start
<1>2. DOMAIN recorder'.events = {}
  <2>1. recorder'.events = <<>>
    BY StartFacts
  <2> QED BY <2>1
<1>3. \A h \in Handles : task[h].session \in Nat /\ task[h].session <= recorder.session
  BY DEF TypeOK, NumInv, SessionsKnown
<1>4. SessionsKnown' /\ \A h \in Handles : ~Numbered(h)'
  BY <1>1, <1>3 DEF SessionsKnown, Numbered
<1>5. Numbers'
  BY <1>1, <1>4 DEF NumInv, Numbers, Live
<1>6. EventsBegun' /\ EventsTell'
  BY <1>2 DEF EventsBegun, EventsTell, Starts
<1> QED BY <1>4, <1>5, <1>6 DEF NumInv

\* The counter moves with every number given, whether the start is recorded or
\* not: the number is of no other task of this trace.
LEMMA NumName ==
  ASSUME TypeOK, NumInv, NEW h \in Handles, NEW p \in ParentIds, Name(h, p)
  PROVE  NumInv'
<1> DEFINE ev == recorder.events
<1>1. /\ Others(h) /\ task[h].pc = "new" /\ recorder'.ids = recorder.ids + 1 /\ recorder.ids \in Nat
      /\ recorder.session \in Nat
      /\ recorder'.events = ev /\ recorder'.session = recorder.session
      /\ task'[h].pc = "named" /\ task'[h].id = recorder.ids + 1 /\ task'[h].session = recorder.session
  <2>1. recorder.ids \in Nat /\ recorder.session \in Nat
    BY DEF TypeOK
  <2>2. task'[h] = [pc |-> "named", id |-> recorder.ids + 1, parent |-> p, session |-> recorder.session]
    BY NameFacts
  <2>3. task'[h].pc = "named" /\ task'[h].id = recorder.ids + 1 /\ task'[h].session = recorder.session
    BY <2>2
  <2> QED BY <2>1, <2>3, NameFacts
<1>2. \A k \in Handles : /\ task[k].id \in Nat
                         /\ k # h => task'[k] = task[k] /\ (Numbered(k)' <=> Numbered(k)) /\ (Live(k)' <=> Live(k))
  BY <1>1 DEF Others, Numbered, Live, TypeOK
<1>3. SessionsKnown'
  BY <1>1, <1>2 DEF NumInv, SessionsKnown
<1>4. \A k \in Handles : k # h /\ Numbered(k)' => task'[k].id <= recorder.ids
  BY <1>2 DEF NumInv, Numbers
<1>5. Numbers'
  <2>1. \A k \in Handles : Live(k)' => task'[k].id > 0
    BY <1>1, <1>2 DEF NumInv, Numbers
  <2>2. \A k \in Handles : Numbered(k)' => task'[k].id <= recorder'.ids
    BY <1>1, <1>2, <1>4
  <2>3. \A k, l \in Handles : Numbered(k)' /\ Numbered(l)' /\ task'[k].id = task'[l].id => k = l
    BY <1>1, <1>2, <1>4 DEF NumInv, Numbers
  <2> QED BY <2>1, <2>2, <2>3 DEF Numbers
<1>6. \A i \in DOMAIN ev : /\ ev[i].by \in Handles /\ ev[i].by # h /\ ev[i].id \in Nat
                           /\ Current(ev, i)' <=> Current(ev, i)
  <2>1. \A i \in DOMAIN ev : ev[i].by \in Handles /\ ev[i].by # h /\ ev[i].id \in Nat
    BY <1>1, EventTypes DEF NumInv, EventsBegun
  <2> QED BY <1>1, <1>2, <2>1 DEF Current
<1>7. EventsBegun'
  <2>1. EventsBegun
    BY DEF NumInv
  <2> QED BY <1>1, <1>2, <1>6, <2>1 DEF EventsBegun, Starts
<1>8. EventsTell'
  <2>1. EventsTell
    BY DEF NumInv
  <2>2. \A i \in DOMAIN ev : Current(ev, i)' => ev[i].id <= recorder.ids
    BY <1>6, <2>1 DEF EventsTell
  <2>3. \A i \in DOMAIN ev : Current(ev, i)' => ev[i].id <= recorder.ids + 1
    BY <1>1, <1>6, <2>2
  <2>4. ASSUME NEW i \in DOMAIN ev, NEW k \in Handles, Current(ev, i)', Numbered(k)'
        PROVE  ev[i].id = task'[k].id <=> ev[i].by = k
    <3>1. CASE k = h
      BY <1>1, <1>6, <2>2, <2>4, <3>1
    <3>2. CASE k # h
      BY <1>2, <1>6, <2>1, <2>4, <3>2 DEF EventsTell
    <3> QED BY <3>1, <3>2
  <2>5. \A i, j \in DOMAIN ev :
          Current(ev, i)' /\ Current(ev, j)' => (ev[i].id = ev[j].id <=> ev[i].by = ev[j].by)
    BY <1>6, <2>1 DEF EventsTell
  <2> QED BY <1>1, <2>3, <2>4, <2>5 DEF EventsTell
<1> QED BY <1>3, <1>5, <1>7, <1>8 DEF NumInv

\* An event of h with its number, its start or its end.
LEMMA NumRecord ==
  ASSUME TypeOK, NumInv, NEW h \in Handles, NEW e \in Event, Record(e), Others(h), Live(h),
         e.by = h, e.id = task[h].id, e.kind = "task_start" => task[h].pc = "named",
         task'[h].session = task[h].session, Live(h)' => task'[h].id = task[h].id,
         task'[h].pc \in {"open", "ending", "done"}
  PROVE  NumInv'
<1> DEFINE ev == recorder.events
           new == recorder'.events
           n == Len(ev) + 1
           Now(i) == task'[new[i].by].session = recorder'.session
<1>1. /\ recorder'.ids = recorder.ids /\ recorder'.session = recorder.session
      /\ n \notin DOMAIN ev /\ DOMAIN new = DOMAIN ev \cup {n}
      /\ \A i \in DOMAIN ev : new[i] = ev[i]
      /\ new[n] = e
  <2>1. DOMAIN ev = 1..Len(ev) /\ DOMAIN new = 1..Len(ev) + 1 /\ Len(ev) \in Nat
    BY RecordFacts
  <2> QED BY <2>1, RecordFacts
<1>2. \A i \in DOMAIN ev : ev[i].by \in Handles /\ ev[i].id \in Nat
  BY EventTypes
<1> HIDE DEF ev, new, n
<1>3. \A k \in Handles : /\ task'[k].session = task[k].session
                         /\ Live(k)' => Live(k) /\ task'[k].id = task[k].id
                         /\ Numbered(k)' => Numbered(k) /\ task'[k].id = task[k].id
                         /\ task[k].pc \in {"open", "ending", "done"} => task'[k].pc \in {"open", "ending", "done"}
  BY <1>1 DEF Others, Live, Numbered
<1>4. SessionsKnown' /\ Numbers'
  BY <1>1, <1>3 DEF NumInv, SessionsKnown, Numbers
<1>5. /\ \A i \in DOMAIN ev : Now(i) <=> Current(ev, i)
      /\ Now(n) <=> Numbered(h)
  BY <1>1, <1>2, <1>3 DEF Current, Numbered
<1> HIDE DEF Now
<1>6. EventsBegun'
  <2>1. EventsBegun
    BY DEF NumInv
  <2>2. e.id > 0
    BY DEF NumInv, Numbers
  <2>3. \A i \in DOMAIN new : new[i].id > 0 /\ task'[new[i].by].pc \in {"open", "ending", "done"}
    BY <1>1, <1>2, <1>3, <2>1, <2>2 DEF EventsBegun, ev
  <2>4. ASSUME NEW i \in Starts(new), NEW j \in Starts(new), new[i].by = new[j].by PROVE i = j
    <3>1. \A k \in DOMAIN ev : new[k].kind = "task_start" => k \in Starts(ev)
      BY <1>1 DEF Starts
    <3>2. n \in Starts(new) => \A k \in DOMAIN ev : ev[k].by # h
      BY <1>1, <2>1 DEF Starts, EventsBegun, ev
    <3> QED BY <1>1, <2>1, <2>4, <3>1, <3>2 DEF Starts, EventsBegun, ev
  <2> QED BY <2>3, <2>4 DEF EventsBegun, new
<1>7. EventsTell'
  <2>1. EventsTell /\ Numbers
    BY DEF NumInv
  <2>2. \A i \in DOMAIN new : Now(i) => new[i].id <= recorder'.ids
    BY <1>1, <1>5, <2>1 DEF EventsTell, Numbers, ev
  <2>3. ASSUME NEW i \in DOMAIN ev, NEW k \in Handles, Current(ev, i), Numbered(k)
        PROVE  ev[i].id = task[k].id <=> ev[i].by = k
    BY <2>1, <2>3 DEF EventsTell, ev
  <2>4. ASSUME NEW i \in DOMAIN new, NEW k \in Handles, Now(i), Numbered(k)'
        PROVE  new[i].id = task'[k].id <=> new[i].by = k
    <3>1. Numbered(k) /\ task'[k].id = task[k].id
      BY <1>3, <2>4 DEF Numbered
    <3>2. CASE i = n
      BY <1>1, <1>5, <2>1, <2>4, <3>1, <3>2 DEF Numbers
    <3>3. CASE i \in DOMAIN ev
      BY <1>1, <1>5, <2>3, <2>4, <3>1, <3>3
    <3> QED BY <1>1, <3>2, <3>3
  <2>5. ASSUME NEW i \in DOMAIN new, NEW j \in DOMAIN new, Now(i), Now(j)
        PROVE  new[i].id = new[j].id <=> new[i].by = new[j].by
    <3>1. CASE i \in DOMAIN ev /\ j \in DOMAIN ev
      BY <1>1, <1>5, <2>1, <2>5, <3>1 DEF EventsTell, ev
    <3>2. CASE i = n /\ j \in DOMAIN ev
      BY <1>1, <1>5, <2>3, <2>5, <3>2
    <3>3. CASE i \in DOMAIN ev /\ j = n
      BY <1>1, <1>5, <2>3, <2>5, <3>3
    <3> QED BY <1>1, <3>1, <3>2, <3>3
  <2> QED BY <2>2, <2>4, <2>5 DEF EventsTell, Current, new, Now
<1> QED BY <1>4, <1>6, <1>7 DEF NumInv

LEMMA NumStep == TypeOK /\ NumInv /\ [Next]_vars => NumInv'
<1> SUFFICES ASSUME TypeOK, NumInv, [Next]_vars PROVE NumInv'
  OBVIOUS
<1>1. ASSUME recorder'.events = recorder.events, recorder'.ids = recorder.ids,
             recorder'.session = recorder.session, task' = task
      PROVE  NumInv'
  BY <1>1, NumQuiet DEF Live
<1>2. ASSUME NEW q \in Requests, Start(q) PROVE NumInv'
  BY <1>2, NumStart
<1>3. ASSUME NEW q \in Requests,
             Take(q) \/ StopGoTrace(q) \/ ReadFails(q) \/ Dump(q)
      PROVE  NumInv'
  BY <1>1, <1>3 DEF Take, StopGoTrace, ReadFails, Dump
<1>4. ASSUME NEW q \in Requests, Deactivate(q) PROVE NumInv'
  <2>1. recorder' = [recorder EXCEPT !.on = FALSE] /\ task' = task
    BY <1>4 DEF Deactivate
  <2>2. /\ recorder'.events = recorder.events /\ recorder'.ids = recorder.ids
        /\ recorder'.session = recorder.session
    BY <2>1 DEF TypeOK
  <2> QED BY <1>1, <2>1, <2>2
<1>5. ASSUME NEW h \in Handles, NEW p \in ParentIds, Name(h, p) PROVE NumInv'
  BY <1>5, NumName
<1>6. ASSUME NEW h \in Handles, Begin(h) PROVE NumInv'
  <2> DEFINE e == [kind |-> "task_start", id |-> task[h].id, parent |-> task[h].parent, by |-> h]
  <2>1. e \in Event /\ e.kind = "task_start" /\ e.id = task[h].id /\ e.by = h /\ Record(e)
    BY <1>6, BeginFacts
  <2> HIDE DEF e
  <2> QED BY <1>6, <2>1, BeginFacts, NumRecord DEF Live
<1>7. ASSUME NEW h \in Handles, Finish(h) PROVE NumInv'
  <2>1. /\ Others(h) /\ task[h].pc = "open" /\ task'[h].session = task[h].session
        /\ task'[h].pc = "done" \/ (task'[h].pc = "ending" /\ task'[h].id = task[h].id)
    BY <1>7, FinishFacts
  <2>2. recorder' = recorder
    BY <1>7 DEF Finish
  <2> QED BY <2>1, <2>2, NumQuiet DEF Live, Others
<1>8. ASSUME NEW h \in Handles, End(h) PROVE NumInv'
  <2> DEFINE e == [kind |-> "task_end", id |-> task[h].id, parent |-> 0, by |-> h]
  <2>1. e \in Event /\ e.kind = "task_end" /\ e.id = task[h].id /\ e.by = h /\ Record(e)
    BY <1>8, EndFacts
  <2> HIDE DEF e
  <2> QED BY <1>8, <2>1, EndFacts, NumRecord DEF Live
<1>9. CASE UNCHANGED vars
  BY <1>1, <1>9 DEF vars
<1> QED
  BY <1>2, <1>3, <1>4, <1>5, <1>6, <1>7, <1>8, <1>9 DEF Next
-----------------------------------------------------------------------------
(* Slices are of one task *)

\* A nonempty set of places in a recording has a last one.
LEMMA Largest ==
  ASSUME NEW n \in Nat, NEW S, S \subseteq 1..n, S # {}
  PROVE  Max(S) \in S
<1> DEFINE T == {n - x : x \in S}
<1>1. T \subseteq Nat /\ T # {}
  <2>1. \A x \in S : n - x \in Nat
    OBVIOUS
  <2>2. PICK x \in S : TRUE
    OBVIOUS
  <2>3. n - x \in T
    OBVIOUS
  <2> QED BY <2>1, <2>3
<1>2. PICK m \in T : \A k \in T : <<k, m>> \notin OpToRel(<, Nat)
  <2> HIDE DEF T
  <2> QED BY <1>1, WFMin, NatLessThanWellFounded, Zenon
<1>3. \A k \in T : k \in Nat /\ m \in Nat /\ ~(k < m)
  <2> HIDE DEF T
  <2>1. \A k \in T : ~(k < m)
    BY <1>1, <1>2, Zenon DEF OpToRel
  <2> QED BY <1>1, <2>1
<1>4. PICK x \in S : m = n - x
  OBVIOUS
<1>5. \A y \in S : n - y \in T /\ y \in Nat
  OBVIOUS
<1>6. \A y \in S : x >= y
  <2> HIDE DEF T
  <2> QED BY <1>3, <1>4, <1>5
<1>7. Max(S) = CHOOSE z \in S : \A y \in S : z >= y
  BY DEF Max
<1> QED BY <1>6, <1>7

LEMMA SlicesAreOwn ==
  ASSUME TypeOK, NumInv
  PROVE  SlicesOwn
<1> DEFINE ev == recorder.events
<1>1. Len(ev) \in Nat /\ DOMAIN ev = 1..Len(ev)
  BY EventTypes
<1>2. \A i, j \in DOMAIN ev : Current(ev, i) /\ Current(ev, j) => (ev[i].id = ev[j].id <=> ev[i].by = ev[j].by)
  BY DEF NumInv, EventsTell
<1> HIDE DEF ev
<1>3. SUFFICES ASSUME NEW s \in Slices(ev), Current(ev, s[1]), Current(ev, s[2])
               PROVE  ev[s[1]].by = ev[s[2]].by
  BY DEF SlicesOwn, ev
<1>4. PICK j \in Ends(ev) : StartOf(ev, j) # {} /\ s = <<Max(StartOf(ev, j)), j>>
  BY DEF Slices
<1>5. StartOf(ev, j) \subseteq 1..Len(ev)
  BY <1>1 DEF StartOf, Starts
<1>6. Max(StartOf(ev, j)) \in StartOf(ev, j)
  BY <1>1, <1>4, <1>5, Largest
<1>7. s[1] \in DOMAIN ev /\ s[2] \in DOMAIN ev /\ ev[s[1]].id = ev[s[2]].id
  BY <1>4, <1>6 DEF StartOf, Starts, Ends
<1> QED BY <1>2, <1>3, <1>7

-----------------------------------------------------------------------------
(* Trees are whole *)

\* One task starts under an id: its event says what its parent is.
LEMMA OneStart ==
  ASSUME NEW ev, NEW n \in Nat, DOMAIN ev = 1..n, NEW i \in Starts(ev),
         \A k \in Starts(ev) : ev[k].id = ev[i].id => k = i
  PROVE  /\ Parent(ev, ev[i].id) = ev[i].parent
         /\ Max({k \in Starts(ev) : ev[k].id = ev[i].id}) = i
<1> DEFINE S == {k \in Starts(ev) : ev[k].id = ev[i].id}
<1>1. S = {i} /\ S \subseteq 1..n
  BY DEF Starts
<1>2. Max(S) \in S
  <2> HIDE DEF S
  <2> QED BY <1>1, Largest
<1>3. Max(S) = i
  <2> HIDE DEF S
  <2> QED BY <1>1, <1>2
<1>4. Parent(ev, ev[i].id) = IF S = {} THEN 0 ELSE ev[Max(S)].parent
  BY DEF Parent
<1> QED BY <1>1, <1>3, <1>4

\* The way up from a task goes through its parent.
LEMMA WayUp ==
  ASSUME NEW ev, NEW i \in DOMAIN ev, NEW j \in DOMAIN ev,
         Parent(ev, ev[j].id) = ev[i].id, ev[i].id # 0
  PROVE  Ancestors(ev, ev[j].id) = {ev[j].id} \cup Ancestors(ev, ev[i].id)
<1> DEFINE K == {ev[k].id : k \in DOMAIN ev} \cup {ev[k].parent : k \in DOMAIN ev}
           a == ev[j].id
           b == ev[i].id
           Closed(S) == \A x \in S : Parent(ev, x) # 0 => Parent(ev, x) \in S
           Up(c) == {x \in K : \A S \in SUBSET K : c \in S /\ Closed(S) => x \in S}
<1>1. /\ {a} \cup {ev[k].id : k \in DOMAIN ev} \cup {ev[k].parent : k \in DOMAIN ev} = K
      /\ {b} \cup {ev[k].id : k \in DOMAIN ev} \cup {ev[k].parent : k \in DOMAIN ev} = K
      /\ a \in K /\ b \in K
  OBVIOUS
<1>2. Ancestors(ev, a) = Up(a) /\ Ancestors(ev, b) = Up(b)
  BY <1>1, Zenon DEF Ancestors
<1> HIDE DEF K, a, b
<1>3. Parent(ev, a) = b /\ b # 0
  BY DEF a, b
<1>4. a \in Up(a)
  BY <1>1
<1>5. ASSUME NEW x \in Up(b) PROVE x \in Up(a)
  <2>1. ASSUME NEW S \in SUBSET K, a \in S, Closed(S) PROVE x \in S
    <3>1. b \in S
      BY <1>3, <2>1
    <3> QED BY <1>5, <2>1, <3>1
  <2> QED BY <1>5, <2>1
<1>6. ASSUME NEW x \in Up(a), x # a PROVE x \in Up(b)
  <2>1. ASSUME NEW S \in SUBSET K, b \in S, Closed(S) PROVE x \in S
    <3>1. S \cup {a} \in SUBSET K /\ Closed(S \cup {a})
      BY <1>1, <1>3, <2>1
    <3>2. x \in S \cup {a}
      BY <1>6, <3>1
    <3> QED BY <1>6, <3>2
  <2> QED BY <1>6, <2>1
<1>7. Up(a) = {a} \cup Up(b)
  <2> HIDE DEF Up
  <2> QED BY <1>4, <1>5, <1>6
<1> QED BY <1>2, <1>7 DEF a, b

\* Every task is on the way up from itself.
LEMMA OwnAncestor ==
  ASSUME NEW ev, NEW id
  PROVE  id \in Ancestors(ev, id)
BY DEF Ancestors

LEMMA TreesAreWhole ==
  ASSUME TypeOK, NumInv
  PROVE  TreesWhole
<1> DEFINE ev == recorder.events
<1>1. Len(ev) \in Nat /\ DOMAIN ev = 1..Len(ev)
  BY EventTypes
<1>2. \A k \in DOMAIN ev : ev[k].id > 0 /\ ev[k].id \in Nat
  BY EventTypes DEF NumInv, EventsBegun
<1>3. \A k, l \in Starts(ev) : ev[k].by = ev[l].by => k = l
  BY DEF NumInv, EventsBegun
<1>4. \A k, l \in DOMAIN ev : Current(ev, k) /\ Current(ev, l) => (ev[k].id = ev[l].id <=> ev[k].by = ev[l].by)
  BY DEF NumInv, EventsTell
<1> HIDE DEF ev
<1>5. SUFFICES ASSUME NEW i \in Starts(ev), NEW j \in Starts(ev),
                      \A k \in DOMAIN ev : Current(ev, k), ev[j].parent = ev[i].id
               PROVE  Dropped(ev, ev[j].id) <=> Dropped(ev, ev[i].id)
  BY DEF TreesWhole, ev
<1> DEFINE a == ev[j].id
           b == ev[i].id
<1>6. i \in DOMAIN ev /\ j \in DOMAIN ev /\ Starts(ev) \subseteq DOMAIN ev
  BY DEF Starts
<1>7. \A k, l \in Starts(ev) : ev[k].id = ev[l].id => k = l
  BY <1>3, <1>4, <1>5, <1>6
\* An id that goes is that of a task without a parent.
<1>8. ASSUME NEW c \in DropRoots(ev) PROVE Parent(ev, c) = 0
  <2>1. PICK k \in Starts(ev) : c = ev[k].id /\ ev[k].parent = 0
    BY <1>8 DEF DropRoots
  <2> QED BY <1>1, <1>7, <2>1, OneStart
<1>9. Parent(ev, a) = b /\ b # 0
  <2>1. Parent(ev, a) = ev[j].parent
    BY <1>1, <1>7, OneStart
  <2> QED BY <1>2, <1>5, <1>6, <2>1
<1>10. Tops(ev, a) = Tops(ev, b)
  <2>1. Ancestors(ev, a) = {a} \cup Ancestors(ev, b)
    BY <1>6, <1>9, WayUp
  <2> QED BY <1>9, <2>1 DEF Tops
<1>11. CASE Tops(ev, a) = {}
  <2>1. Root(ev, a) = a /\ Root(ev, b) = b
    BY <1>10, <1>11 DEF Root
  <2>2. Parent(ev, b) # 0
    BY <1>10, <1>11, OwnAncestor DEF Tops
  <2> QED BY <1>8, <1>9, <2>1, <2>2 DEF Dropped
<1>12. CASE Tops(ev, a) # {}
  <2>1. Root(ev, a) = Root(ev, b)
    BY <1>10, <1>12 DEF Root
  <2> QED BY <2>1 DEF Dropped
<1> QED BY <1>11, <1>12

\* A task takes its number from a counter that moves at once, and the recorder
\* keeps every event in order: what `zoa trace` shows are slices of one task
\* each, and of a tree of tasks all is dropped or nothing.
THEOREM TraceIsStitched == Spec => []TraceStitched
<1>1. TypeOK /\ NumInv => TraceStitched
  BY SlicesAreOwn, TreesAreWhole DEF TraceStitched
<1> QED BY <1>1, TypeInit, TypeStep, NumInit, NumStep, PTL DEF Spec
=============================================================================
