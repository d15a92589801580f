------------------------- MODULE GatewayQueueProofs -------------------------
(***************************************************************************)
(* Proofs about GatewayQueue for any number of sessions and messages and   *)
(* any lease, backoff, attempt limit and number of faults.                 *)
(***************************************************************************)
EXTENDS GatewayQueue, SequenceTheorems, FiniteSetTheorems, TLAPS

-----------------------------------------------------------------------------
(* Type correctness *)

LEMMA MinusType == ASSUME NEW n \in Nat PROVE Minus1(n) \in Nat
  BY DEF Minus1

LEMMA RowChange ==
  ASSUME inbound \in [Id -> Row], NEW i \in Id,
         NEW st \in Status, NEW a \in Nat, NEW d \in Nat, NEW l \in Nat
  PROVE  /\ [inbound[i] EXCEPT !.status = st, !.attempt = a, !.lease = l] \in Row
         /\ [inbound[i] EXCEPT !.status = st, !.due = d, !.lease = l] \in Row
         /\ [inbound[i] EXCEPT !.status = st, !.lease = l] \in Row
         /\ [inbound[i] EXCEPT !.lease = l, !.due = d] \in Row
         /\ [inbound[i] EXCEPT !.lease = l] \in Row
         /\ inbound[i].attempt \in Nat /\ inbound[i].lease \in Nat /\ inbound[i].due \in Nat
  <1>1. inbound[i] \in Row
    OBVIOUS
  <1> QED BY <1>1 DEF Row

LEMMA PutRow ==
  ASSUME inbound \in [Id -> Row], NEW i \in Id, NEW r \in Row
  PROVE  [inbound EXCEPT ![i] = r] \in [Id -> Row]
  OBVIOUS

LEMMA ClaimRowType ==
  ASSUME inbound \in [Id -> Row], NEW i \in Id, ClaimRow(i)
  PROVE  inbound' \in [Id -> Row]
  <1>1. inbound[i] \in Row /\ Lease \in Nat /\ "processing" \in Status
    BY GatewayQueueAssumption DEF Status
  <1>2. inbound[i].attempt + 1 \in Nat
    BY <1>1 DEF Row
  <1>3. [inbound[i] EXCEPT !.status  = "processing",
                           !.attempt = inbound[i].attempt + 1,
                           !.lease   = Lease] \in Row
    BY <1>1, <1>2, RowChange
  <1> QED BY <1>3, PutRow DEF ClaimRow

LEMMA RenewedType ==
  ASSUME inbound \in [Id -> Row], NEW i \in Id
  PROVE  Renewed(i) \in [Id -> Row]
  <1>1. "pending" \in Status /\ Lease \in Nat
    BY GatewayQueueAssumption DEF Status
  <1>2. [inbound[i] EXCEPT !.lease = Lease] \in Row
    BY <1>1, RowChange
  <1> QED BY <1>2, PutRow DEF Renewed

LEMMA FinishType ==
  ASSUME TypeOK, NEW i \in Id, NEW a \in Nat, NEW k \in {"answer", "failure"},
         NEW st \in {"done", "failed"}, Finish(i, a, st, k)
  PROVE  inbound' \in [Id -> Row] /\ outbox' \in Seq(ReplyRow)
  <1>1. CASE Holds(i, a)
    <2>1. st \in Status /\ 0 \in Nat
      BY DEF Status
    <2>2. [inbound[i] EXCEPT !.status = st, !.lease = 0] \in Row
      BY <2>1, RowChange DEF TypeOK
    <2>3. inbound' \in [Id -> Row]
      BY <1>1, <2>2, PutRow DEF TypeOK, Finish
    <2>4. Reply(i, a, k) \in ReplyRow
      BY <1>1 DEF Reply, ReplyRow, Holds, TypeOK, Row
    <2>5. outbox \in Seq(ReplyRow) /\ outbox' = Append(outbox, Reply(i, a, k))
      BY <1>1 DEF TypeOK, Finish
    <2>6. outbox' \in Seq(ReplyRow)
      BY <2>4, <2>5
    <2> QED BY <2>3, <2>6
  <1> QED BY <1>1 DEF TypeOK, Finish

TaskState == IdleTask \cup BusyTask

LEMMA RestingType == Resting("ready") \in IdleTask /\ Resting("off") \in IdleTask
  BY DEF Resting, IdleTask

LEMMA InitialTasksType == InitialTasks \in [PumpTask -> TaskState]
  BY RestingType DEF InitialTasks, TaskState

LEMMA EndType ==
  ASSUME task \in [PumpTask -> TaskState], NEW t \in PumpTask, End(t)
  PROVE  task' \in [PumpTask -> TaskState]
  BY RestingType DEF End, TaskState

LEMMA PutTask ==
  ASSUME task \in [PumpTask -> TaskState], NEW t \in PumpTask, NEW r \in TaskState
  PROVE  [task EXCEPT ![t] = r] \in [PumpTask -> TaskState]
  OBVIOUS

\* A busy task works on a message.
LEMMA Busy ==
  ASSUME task \in [PumpTask -> TaskState], NEW t \in PumpTask,
         task[t].pc \in {"claimed", "handling", "settling"}
  PROVE  task[t] \in BusyTask /\ task[t].id \in Id /\ task[t].attempt \in Nat
  BY DEF TaskState, IdleTask, BusyTask

LEMMA TypeInit == Init => TypeOK
  BY GatewayQueueAssumption, InitialTasksType
     DEF Init, TypeOK, AbsentRow, Row, Status, Id, TaskState

LEMMA TypeStep == TypeOK /\ [Next]_vars => TypeOK'
<1> USE GatewayQueueAssumption
<1> SUFFICES ASSUME TypeOK, [Next]_vars PROVE TypeOK'
  OBVIOUS
<1>0. /\ lastId \in 0..MaxInbound
      /\ inbound \in [Id -> Row]
      /\ outbox \in Seq(ReplyRow)
      /\ task \in [PumpTask -> TaskState]
      /\ stray \subseteq Id \X Nat
      /\ faults \in 0..MaxFaults
  BY DEF TypeOK, TaskState
<1> SUFFICES /\ (lastId \in 0..MaxInbound)'
             /\ (inbound \in [Id -> Row])'
             /\ (outbox \in Seq(ReplyRow))'
             /\ (task \in [PumpTask -> TaskState])'
             /\ (stray \subseteq Id \X Nat)'
             /\ (faults \in 0..MaxFaults)'
  BY DEF TypeOK, TaskState
<1>1. CASE Recv
  <2>1. lastId + 1 \in Id /\ RecvPump(lastId + 1) \in PumpTask
    BY <1>0, <1>1 DEF Recv, Id, PumpTask
  <2>2. inbound' \in [Id -> Row]
    <3>1. PICK s \in Sessions : inbound' = [inbound EXCEPT ![lastId + 1] =
             [session |-> s, status |-> "pending", attempt |-> 0, due |-> 0, lease |-> 0]]
      BY <1>1 DEF Recv
    <3>2. [session |-> s, status |-> "pending", attempt |-> 0, due |-> 0, lease |-> 0] \in Row
      BY DEF Row, Status
    <3> QED BY <1>0, <2>1, <3>1, <3>2, PutRow
  <2>3. task' \in [PumpTask -> TaskState]
    BY <1>0, <1>1, <2>1, RestingType DEF Recv, TaskState
  <2>4. faults' \in 0..MaxFaults
    BY <1>0, <1>1 DEF Recv, Fault
  <2> QED BY <1>0, <1>1, <2>1, <2>2, <2>3, <2>4 DEF Recv, Id
<1>2. ASSUME NEW t \in PumpTask, Claim(t) PROVE TypeOK'
  <2>1. PICK i \in Id : /\ ClaimRow(i)
                        /\ task' = [task EXCEPT ![t] =
                             [pc |-> "claimed", id |-> i, attempt |-> 0,
                              beaten |-> TRUE, lost |-> FALSE, result |-> "none"]]
    BY <1>2 DEF Claim
  <2>2. inbound' \in [Id -> Row]
    BY <1>0, <2>1, ClaimRowType
  <2>3. task' \in [PumpTask -> TaskState]
    BY <1>0, <2>1 DEF TaskState, BusyTask, Results
  <2> QED BY <1>0, <1>2, <2>2, <2>3 DEF Claim, TypeOK, TaskState
<1>3. ASSUME NEW t \in PumpTask, ReadBack(t) PROVE TypeOK'
  <2>1. task[t] \in BusyTask /\ task[t].id \in Id
    BY <1>0, <1>3, Busy DEF ReadBack
  <2>2. inbound[task[t].id].attempt \in Nat
    BY <1>0, <2>1 DEF Row
  <2>3. [task[t] EXCEPT !.pc = "handling", !.attempt = inbound[task[t].id].attempt] \in TaskState
    BY <2>1, <2>2 DEF TaskState, BusyTask
  <2>4. task' \in [PumpTask -> TaskState]
    BY <1>0, <1>3, <2>3, PutTask DEF ReadBack
  <2> QED BY <1>0, <1>3, <2>4 DEF ReadBack, TypeOK, TaskState
<1>3a. ASSUME NEW t \in PumpTask, ReadBackError(t) PROVE TypeOK'
  <2>1. task' \in [PumpTask -> TaskState]
    BY <1>0, <1>3a, EndType DEF ReadBackError
  <2> QED BY <1>0, <1>3a, <2>1 DEF ReadBackError, Fault, TypeOK, TaskState
<1>4. ASSUME NEW t \in PumpTask, ClaimNothing(t) PROVE TypeOK'
  <2>1. task' \in [PumpTask -> TaskState]
    BY <1>0, <1>4, EndType DEF ClaimNothing
  <2> QED BY <1>0, <1>4, <2>1 DEF ClaimNothing, Fault, TypeOK, TaskState
<1>5. ASSUME NEW t \in PumpTask, Heartbeat(t) PROVE TypeOK'
  <2>1. task[t] \in BusyTask /\ task[t].id \in Id
    BY <1>0, <1>5, Busy DEF Heartbeat
  <2>2. inbound' \in [Id -> Row]
    BY <1>0, <1>5, <2>1, RenewedType DEF Heartbeat
  <2>3. /\ [task[t] EXCEPT !.beaten = TRUE] \in TaskState
        /\ [task[t] EXCEPT !.lost = TRUE] \in TaskState
    BY <2>1 DEF TaskState, BusyTask
  <2>4. task' \in [PumpTask -> TaskState]
    BY <1>0, <1>5, <2>3, PutTask DEF Heartbeat
  <2> QED BY <1>0, <1>5, <2>2, <2>4 DEF Heartbeat, TypeOK, TaskState
<1>6. ASSUME NEW t \in PumpTask, Return(t) PROVE TypeOK'
  <2>1. task[t] \in BusyTask /\ task[t].id \in Id /\ task[t].attempt \in Nat
    BY <1>0, <1>6, Busy DEF Return
  <2>2. PICK r \in {"ok", "retryable", "permanent"} :
          task' = [task EXCEPT ![t] =
            [@ EXCEPT !.pc = "settling", !.beaten = FALSE, !.lost = FALSE,
                      !.result = IF task[t].lost THEN "leaseLost" ELSE r]]
    BY <1>6 DEF Return
  <2>3. [task[t] EXCEPT !.pc = "settling", !.beaten = FALSE, !.lost = FALSE,
                        !.result = IF task[t].lost THEN "leaseLost" ELSE r] \in TaskState
    BY <2>1 DEF TaskState, BusyTask, Results
  <2>4. task' \in [PumpTask -> TaskState]
    BY <1>0, <2>2, <2>3, PutTask
  <2>5. stray' \subseteq Id \X Nat
    BY <1>0, <1>6, <2>1 DEF Return
  <2> QED BY <1>0, <1>6, <2>4, <2>5 DEF Return, TypeOK, TaskState
<1>7. ASSUME NEW t \in PumpTask, Settle(t) PROVE TypeOK'
  <2>1. task' \in [PumpTask -> TaskState]
    BY <1>0, <1>7, EndType DEF Settle
  <2>2. task[t].id \in Id /\ task[t].attempt \in Nat
    BY <1>0, <1>7, Busy DEF Settle
  <2>3. inbound' \in [Id -> Row] /\ outbox' \in Seq(ReplyRow)
    <3>1. CASE Complete(t)
      BY <2>2, <3>1, FinishType DEF Complete
    <3>2. CASE Retry(t)
      <4>1. PICK d \in 0..Backoff :
              inbound' = IF Holds(task[t].id, task[t].attempt)
                           THEN [inbound EXCEPT ![task[t].id] =
                                   [@ EXCEPT !.status = "pending", !.due = d, !.lease = 0]]
                           ELSE inbound
        BY <3>2 DEF Retry
      <4>2. "pending" \in Status /\ d \in Nat /\ 0 \in Nat
        BY DEF Status
      <4>3. [inbound[task[t].id] EXCEPT !.status = "pending", !.due = d, !.lease = 0] \in Row
        BY <1>0, <2>2, <4>2, RowChange
      <4> QED BY <1>0, <2>2, <3>2, <4>1, <4>3, PutRow DEF Retry
    <3>3. CASE Fail(t)
      BY <2>2, <3>3, FinishType DEF Fail
    <3>4. CASE GiveUp(t)
      BY <1>0, <3>4 DEF GiveUp
    <3> QED BY <1>7, <3>1, <3>2, <3>3, <3>4 DEF Settle
  <2> QED BY <1>0, <1>7, <2>1, <2>3 DEF Settle, TypeOK, TaskState
<1>8. ASSUME NEW t \in PumpTask, SettleError(t) PROVE TypeOK'
  <2>1. task' \in [PumpTask -> TaskState]
    BY <1>0, <1>8, EndType DEF SettleError
  <2> QED BY <1>0, <1>8, <2>1 DEF SettleError, Fault, TypeOK, TaskState
<1>9. ASSUME NEW h \in stray, StrayHeartbeat(h) PROVE TypeOK'
  <2>1. h[1] \in Id
    BY <1>0
  <2>2. inbound' \in [Id -> Row]
    BY <1>0, <1>9, <2>1, RenewedType DEF StrayHeartbeat
  <2> QED BY <1>0, <1>9, <2>2 DEF StrayHeartbeat, TypeOK, TaskState
<1>10. CASE Tick
  <2>1. inbound' \in [Id -> Row]
    <3>1. ASSUME NEW i \in Id
          PROVE  [inbound[i] EXCEPT !.lease = Minus1(@), !.due = Minus1(@)] \in Row
      BY <1>0, MinusType DEF Row
    <3> QED BY <1>10, <3>1 DEF Tick
  <2>2. task' \in [PumpTask -> TaskState]
    <3>1. ASSUME NEW t \in PumpTask
          PROVE  [task[t] EXCEPT !.beaten = FALSE] \in TaskState
      <4>1. task[t] \in IdleTask \/ task[t] \in BusyTask
        BY <1>0 DEF TaskState
      <4> QED BY <4>1 DEF TaskState, IdleTask, BusyTask
    <3> QED BY <1>10, <3>1 DEF Tick
  <2>3. faults' \in 0..MaxFaults
    <3>1. CASE \E t \in PumpTask : Late(t)
      <4>1. Fault
        BY <1>10, <3>1, Zenon DEF Tick
      <4> QED BY <1>0, <4>1 DEF Fault
    <3>2. CASE ~\E t \in PumpTask : Late(t)
      BY <1>0, <1>10, <3>2 DEF Tick
    <3> QED BY <3>1, <3>2
  <2> QED BY <1>0, <1>10, <2>1, <2>2, <2>3 DEF Tick
<1>11. CASE Crash
  BY <1>0, <1>11, InitialTasksType DEF Crash, Fault
<1>12. CASE UNCHANGED vars
  BY <1>0, <1>12 DEF vars
<1> QED
  BY <1>1, <1>2, <1>3, <1>3a, <1>4, <1>5, <1>6, <1>7, <1>8, <1>9, <1>10, <1>11, <1>12
     DEF Next, TypeOK, TaskState

\* TypeOK: rows, tasks, replies, in-flight heartbeats and counters keep their
\* types through every statement of the queue.
THEOREM TypeCorrect == Spec => []TypeOK
  BY TypeInit, TypeStep, PTL DEF Spec


-----------------------------------------------------------------------------
(* What a step does to the tables *)

Untouched(i) == /\ inbound'[i].session = inbound[i].session
                /\ inbound'[i].status = inbound[i].status
                /\ inbound'[i].attempt = inbound[i].attempt

AcceptStep ==
  /\ lastId < MaxInbound
  /\ lastId' = lastId + 1
  /\ inbound'[lastId + 1].session \in Sessions
  /\ inbound'[lastId + 1].status = "pending"
  /\ \A j \in Id \ {lastId + 1} : Untouched(j)
  /\ outbox' = outbox

ClaimStep(i) ==
  /\ HeadOf(inbound[i].session, i)
  /\ inbound'[i].session = inbound[i].session
  /\ inbound'[i].status = "processing"
  /\ \A j \in Id \ {i} : Untouched(j)
  /\ outbox' = outbox /\ lastId' = lastId

RetryStep(i) ==
  /\ inbound[i].status = "processing"
  /\ inbound'[i].session = inbound[i].session
  /\ inbound'[i].status = "pending"
  /\ \A j \in Id \ {i} : Untouched(j)
  /\ outbox' = outbox /\ lastId' = lastId

FinishStep(i, st, k) ==
  /\ st = IF k = "answer" THEN "done" ELSE "failed"
  /\ inbound[i].status = "processing"
  /\ inbound'[i].session = inbound[i].session
  /\ inbound'[i].status = st
  /\ inbound'[i].attempt = inbound[i].attempt
  /\ \A j \in Id \ {i} : Untouched(j)
  /\ outbox' = Append(outbox, Reply(i, inbound[i].attempt, k))
  /\ lastId' = lastId

QuietStep == /\ \A i \in Id : Untouched(i)
             /\ outbox' = outbox
             /\ lastId' = lastId

RowStep ==
  \/ AcceptStep
  \/ \E i \in Id : ClaimStep(i) \/ RetryStep(i)
  \/ \E i \in Id, st \in {"done", "failed"}, k \in {"answer", "failure"} : FinishStep(i, st, k)
  \/ QuietStep

LEMMA ClaimIsClaimStep ==
  ASSUME TypeOK, NEW s, NEW i \in Id, Claimable(s, i), ClaimRow(i),
         outbox' = outbox, lastId' = lastId
  PROVE  ClaimStep(i)
  <1>1. HeadOf(inbound[i].session, i)
    BY DEF Claimable, HeadOf
  <1>2. inbound[i] \in Row
    BY DEF TypeOK
  <1>3. /\ inbound'[i].session = inbound[i].session
        /\ inbound'[i].status = "processing"
    BY <1>2 DEF ClaimRow, TypeOK, Row
  <1>4. \A j \in Id \ {i} : Untouched(j)
    BY DEF ClaimRow, TypeOK, Untouched
  <1> QED BY <1>1, <1>3, <1>4 DEF ClaimStep

LEMMA RenewedIsQuiet ==
  ASSUME TypeOK, NEW i \in Id, inbound' = Renewed(i), outbox' = outbox, lastId' = lastId
  PROVE  QuietStep
  <1>1. inbound[i] \in Row
    BY DEF TypeOK
  <1>2. \A j \in Id : Untouched(j)
    BY <1>1 DEF Renewed, TypeOK, Untouched, Row
  <1> QED BY <1>2 DEF QuietStep

LEMMA UnchangedIsQuiet ==
  ASSUME inbound' = inbound, outbox' = outbox, lastId' = lastId
  PROVE  QuietStep
  BY DEF QuietStep, Untouched

LEMMA FinishIsStep ==
  ASSUME TypeOK, NEW i \in Id, NEW a \in Nat, NEW k \in {"answer", "failure"},
         NEW st \in {"done", "failed"}, st = IF k = "answer" THEN "done" ELSE "failed",
         Finish(i, a, st, k), lastId' = lastId
  PROVE  FinishStep(i, st, k) \/ QuietStep
  <1>1. CASE Holds(i, a)
    <2>1. inbound[i] \in Row
      BY DEF TypeOK
    <2>2. /\ inbound' = [inbound EXCEPT ![i] = [@ EXCEPT !.status = st, !.lease = 0]]
          /\ outbox' = Append(outbox, Reply(i, a, k))
          /\ inbound[i].status = "processing" /\ inbound[i].attempt = a
      BY <1>1 DEF Finish, Holds
    <2>3. \A j \in Id \ {i} : Untouched(j)
      BY <2>2 DEF TypeOK, Untouched
    <2>4. /\ inbound'[i].session = inbound[i].session
          /\ inbound'[i].status = st
          /\ inbound'[i].attempt = inbound[i].attempt
      BY <2>1, <2>2 DEF TypeOK, Row
    <2> QED BY <2>2, <2>3, <2>4 DEF FinishStep
  <1>2. CASE ~Holds(i, a)
    BY <1>2, UnchangedIsQuiet DEF Finish
  <1> QED BY <1>1, <1>2

\* Every step of the queue is one of five changes of the tables.
LEMMA NextIsRowStep == TypeOK /\ [Next]_vars => RowStep
<1> SUFFICES ASSUME TypeOK, [Next]_vars PROVE RowStep
  OBVIOUS
<1> USE GatewayQueueAssumption
<1>1. CASE Recv
  <2>1. lastId + 1 \in Id
    BY <1>1 DEF Recv, Id, TypeOK
  <2>2. PICK s \in Sessions : inbound' = [inbound EXCEPT ![lastId + 1] =
           [session |-> s, status |-> "pending", attempt |-> 0, due |-> 0, lease |-> 0]]
    BY <1>1 DEF Recv
  <2>3. \A j \in Id \ {lastId + 1} : Untouched(j)
    BY <2>2 DEF TypeOK, Untouched
  <2>4. inbound'[lastId + 1].session \in Sessions /\ inbound'[lastId + 1].status = "pending"
    BY <2>1, <2>2 DEF TypeOK
  <2>5. AcceptStep
    BY <1>1, <2>3, <2>4 DEF Recv, AcceptStep
  <2> QED BY <2>5 DEF RowStep
<1>2. ASSUME NEW t \in PumpTask, Claim(t) PROVE RowStep
  <2>1. PICK i \in Id : Claimable(SessionOf(t), i) /\ ClaimRow(i)
    BY <1>2 DEF Claim
  <2>2. outbox' = outbox /\ lastId' = lastId
    BY <1>2 DEF Claim
  <2> QED BY <2>1, <2>2, ClaimIsClaimStep DEF RowStep
<1>3. ASSUME NEW t \in PumpTask,
             \/ ReadBack(t) \/ ReadBackError(t) \/ ClaimNothing(t)
             \/ Return(t) \/ SettleError(t)
      PROVE  RowStep
  BY <1>3, UnchangedIsQuiet
     DEF ReadBack, ReadBackError, ClaimNothing, Return, SettleError, RowStep
<1>4. ASSUME NEW t \in PumpTask, Heartbeat(t) PROVE RowStep
  <2>1. task[t].id \in Id
    BY <1>4, Busy DEF Heartbeat, TypeOK, TaskState
  <2>2. outbox' = outbox /\ lastId' = lastId /\ (inbound' = inbound \/ inbound' = Renewed(task[t].id))
    BY <1>4 DEF Heartbeat
  <2> QED BY <2>1, <2>2, RenewedIsQuiet, UnchangedIsQuiet DEF RowStep
<1>5. ASSUME NEW t \in PumpTask, Settle(t) PROVE RowStep
  <2>1. task[t].id \in Id /\ task[t].attempt \in Nat
    BY <1>5, Busy DEF Settle, TypeOK, TaskState
  <2>2. lastId' = lastId
    BY <1>5 DEF Settle
  <2>3. CASE Complete(t)
    <3>1. Finish(task[t].id, task[t].attempt, "done", "answer")
      BY <2>3 DEF Complete
    <3>2. FinishStep(task[t].id, "done", "answer") \/ QuietStep
      BY <2>1, <2>2, <3>1, FinishIsStep
    <3> QED BY <2>1, <3>2 DEF RowStep
  <2>4. CASE Retry(t)
    <3> DEFINE i == task[t].id
    <3>1. PICK d \in 0..Backoff :
            inbound' = IF Holds(i, task[t].attempt)
                         THEN [inbound EXCEPT ![i] =
                                 [@ EXCEPT !.status = "pending", !.due = d, !.lease = 0]]
                         ELSE inbound
      BY <2>4 DEF Retry
    <3>2. outbox' = outbox
      BY <2>4 DEF Retry
    <3>3. CASE Holds(i, task[t].attempt)
      <4>1. inbound[i] \in Row
        BY <2>1 DEF TypeOK
      <4>2. \A j \in Id \ {i} : Untouched(j)
        BY <3>1, <3>3 DEF TypeOK, Untouched
      <4>3. /\ inbound'[i].session = inbound[i].session
            /\ inbound'[i].status = "pending"
        BY <2>1, <3>1, <3>3, <4>1 DEF TypeOK, Row
      <4>4. RetryStep(i)
        BY <2>2, <3>2, <3>3, <4>2, <4>3 DEF RetryStep, Holds
      <4> QED BY <2>1, <4>4 DEF RowStep
    <3>4. CASE ~Holds(i, task[t].attempt)
      BY <2>2, <3>1, <3>2, <3>4, UnchangedIsQuiet DEF RowStep
    <3> QED BY <3>3, <3>4
  <2>5. CASE Fail(t)
    <3>1. Finish(task[t].id, task[t].attempt, "failed", "failure")
      BY <2>5 DEF Fail
    <3>2. FinishStep(task[t].id, "failed", "failure") \/ QuietStep
      BY <2>1, <2>2, <3>1, FinishIsStep
    <3> QED BY <2>1, <3>2 DEF RowStep
  <2>6. CASE GiveUp(t)
    BY <2>2, <2>6, UnchangedIsQuiet DEF GiveUp, RowStep
  <2> QED BY <1>5, <2>3, <2>4, <2>5, <2>6 DEF Settle
<1>6. ASSUME NEW h \in stray, StrayHeartbeat(h) PROVE RowStep
  <2>1. h[1] \in Id
    BY DEF TypeOK
  <2>2. outbox' = outbox /\ lastId' = lastId /\ (inbound' = inbound \/ inbound' = Renewed(h[1]))
    BY <1>6 DEF StrayHeartbeat
  <2> QED BY <2>1, <2>2, RenewedIsQuiet, UnchangedIsQuiet DEF RowStep
<1>7. CASE Tick
  <2>1. ASSUME NEW i \in Id PROVE Untouched(i)
    <3>1. inbound[i] \in Row
      BY DEF TypeOK
    <3>2. inbound'[i] = [inbound[i] EXCEPT !.lease = Minus1(inbound[i].lease),
                                           !.due = Minus1(inbound[i].due)]
      BY <1>7 DEF Tick
    <3> QED BY <3>1, <3>2 DEF Untouched, Row
  <2>2. QuietStep
    BY <1>7, <2>1 DEF Tick, QuietStep
  <2> QED BY <2>2 DEF RowStep
<1>8. CASE Crash \/ UNCHANGED vars
  BY <1>8, UnchangedIsQuiet DEF Crash, vars, RowStep
<1> QED
  BY <1>1, <1>2, <1>3, <1>4, <1>5, <1>6, <1>7, <1>8 DEF Next

-----------------------------------------------------------------------------
(* One reply per message, from its last attempt, in order *)

LEMMA QueueInvInit == Init => QueueInv
<1> SUFFICES ASSUME Init PROVE QueueInv
  OBVIOUS
<1>1. TypeOK
  BY TypeInit
<1>2. \A i \in Id : inbound[i].status = "absent" /\ i > lastId /\ ~(i <= lastId)
  BY GatewayQueueAssumption DEF Init, AbsentRow, Id
<1>3. DOMAIN outbox = {}
  BY DEF Init
<1> QED
  BY <1>1, <1>2, <1>3
     DEF QueueInv, IdsInOrder, NothingOvertakes, RepliesOwnSession, ReplyIffTerminal,
         ReplyFromLastAttempt, RepliesInOrder, Terminal

\* A step that leaves the outbox and the answered rows alone keeps what relates them.
LEMMA OutboxKept ==
  ASSUME QueueInv, outbox' = outbox,
         \A i \in Id : Terminal(i) <=> Terminal(i)',
         \A i \in Id : Terminal(i) => Untouched(i)
  PROVE  (/\ RepliesOwnSession /\ ReplyIffTerminal /\ ReplyFromLastAttempt /\ RepliesInOrder)'
<1>1. \A n \in DOMAIN outbox : outbox[n].to \in Id
  <2>1. outbox \in Seq(ReplyRow)
    BY DEF QueueInv, TypeOK
  <2>2. \A n \in DOMAIN outbox : outbox[n] \in ReplyRow
    BY <2>1
  <2> QED BY <2>2 DEF ReplyRow
<1>2. \A n \in DOMAIN outbox : Terminal(outbox[n].to) /\ Untouched(outbox[n].to)
  BY <1>1 DEF QueueInv, ReplyIffTerminal
<1>3. RepliesOwnSession' /\ ReplyFromLastAttempt' /\ RepliesInOrder'
  BY <1>2 DEF QueueInv, RepliesOwnSession, ReplyFromLastAttempt, RepliesInOrder, Untouched
<1>4. ReplyIffTerminal'
  BY <1>2 DEF QueueInv, ReplyIffTerminal, Untouched
<1> QED BY <1>3, <1>4

LEMMA QueueInvStep == QueueInv /\ [Next]_vars => QueueInv'
<1> SUFFICES ASSUME QueueInv, [Next]_vars PROVE QueueInv'
  OBVIOUS
<1>0. TypeOK /\ TypeOK' /\ RowStep /\ lastId \in Nat /\ MaxInbound \in Nat
  BY TypeStep, NextIsRowStep, GatewayQueueAssumption DEF QueueInv, TypeOK
<1>a. /\ \A i \in Id : i \in Nat /\ 1 <= i /\ i <= MaxInbound
      /\ \A i \in Nat : 1 <= i /\ i <= MaxInbound => i \in Id
  BY <1>0 DEF Id
<1>b. \A i \in Id : /\ i > lastId => inbound[i].status = "absent"
                    /\ inbound[i].status = "absent" => i > lastId
                    /\ i <= lastId => inbound[i].session \in Sessions
  BY Zenon DEF QueueInv, IdsInOrder
<1>1. CASE AcceptStep
  <2>1. lastId + 1 \in Id /\ inbound[lastId + 1].status = "absent"
    BY <1>0, <1>1, <1>a, <1>b DEF AcceptStep
  <2>2. \A i \in Id : inbound[i].status # "absent" => i # lastId + 1 /\ i <= lastId
    BY <1>0, <2>1, <1>a, <1>b
  <2>3. IdsInOrder'
    BY <1>0, <1>1, <2>1 DEF AcceptStep, QueueInv, IdsInOrder, Untouched, Id
  <2>4. NothingOvertakes'
    <3> SUFFICES ASSUME NEW i \in Id, NEW j \in Id, j < i,
                        inbound'[j].session = inbound'[i].session,
                        inbound'[i].status \in {"processing", "done", "failed"}
                 PROVE  Terminal(j)'
      BY DEF NothingOvertakes
    <3>1. i # lastId + 1 /\ Untouched(i)
      BY <1>1 DEF AcceptStep
    <3>2. i <= lastId
      BY <2>2, <3>1 DEF Untouched
    <3>3. j # lastId + 1 /\ Untouched(j)
      BY <1>0, <1>1, <3>2 DEF AcceptStep, Id
    <3>4. Terminal(j)
      BY <3>1, <3>3 DEF QueueInv, NothingOvertakes, Untouched
    <3> QED BY <3>3, <3>4 DEF Terminal, Untouched
  <2>5. /\ \A i \in Id : Terminal(i) <=> Terminal(i)'
        /\ \A i \in Id : Terminal(i) => Untouched(i)
    BY <1>1, <2>1 DEF AcceptStep, Terminal, Untouched
  <2> QED BY <1>0, <1>1, <2>3, <2>4, <2>5, OutboxKept DEF AcceptStep, QueueInv
<1>2. ASSUME NEW i \in Id, ClaimStep(i) PROVE QueueInv'
  <2>1. inbound[i].status \in {"pending", "processing"}
    BY <1>2 DEF ClaimStep, HeadOf, Open
  <2>2. IdsInOrder'
    BY <1>2, <2>1 DEF ClaimStep, QueueInv, IdsInOrder, Untouched
  <2>3. /\ \A j \in Id : Terminal(j) <=> Terminal(j)'
        /\ \A j \in Id : Terminal(j) => Untouched(j)
    BY <1>2, <2>1 DEF ClaimStep, Terminal, Untouched
  <2>4. \A j \in Id : j < i /\ inbound[j].session = inbound[i].session => Terminal(j)
    <3> SUFFICES ASSUME NEW j \in Id, j < i, inbound[j].session = inbound[i].session
                 PROVE  Terminal(j)
      OBVIOUS
    <3>1. ~Open(j)
      BY <1>2 DEF ClaimStep, HeadOf
    <3>2. i <= lastId
      BY <1>0, <2>1, <1>a, <1>b
    <3>3. inbound[j].status # "absent"
      BY <1>0, <3>2, <1>a, <1>b
    <3>4. inbound[j].status \in Status
      BY <1>0 DEF TypeOK, Row
    <3> QED BY <3>1, <3>3, <3>4 DEF Open, Terminal, Status
  <2>5. NothingOvertakes'
    BY <1>2, <2>3, <2>4 DEF ClaimStep, QueueInv, NothingOvertakes, Untouched
  <2> QED BY <1>0, <1>2, <2>2, <2>3, <2>5, OutboxKept DEF ClaimStep, QueueInv
<1>3. ASSUME NEW i \in Id, RetryStep(i) PROVE QueueInv'
  <2>1. IdsInOrder'
    BY <1>3 DEF RetryStep, QueueInv, IdsInOrder, Untouched
  <2>2. /\ \A j \in Id : Terminal(j) <=> Terminal(j)'
        /\ \A j \in Id : Terminal(j) => Untouched(j)
    BY <1>3 DEF RetryStep, Terminal, Untouched
  <2>3. NothingOvertakes'
    BY <1>3, <2>2 DEF RetryStep, QueueInv, NothingOvertakes, Untouched
  <2> QED BY <1>0, <1>3, <2>1, <2>2, <2>3, OutboxKept DEF RetryStep, QueueInv
<1>4. ASSUME NEW i \in Id, NEW st \in {"done", "failed"}, NEW k \in {"answer", "failure"},
             FinishStep(i, st, k)
      PROVE  QueueInv'
  <2> DEFINE r == Reply(i, inbound[i].attempt, k)
             N == Len(outbox)
  <2>1. /\ N \in Nat /\ DOMAIN outbox = 1..N
        /\ DOMAIN outbox' = 1..(N + 1)
        /\ outbox'[N + 1] = r
        /\ \A n \in 1..N : outbox'[n] = outbox[n] /\ outbox[n] \in ReplyRow
    <3>1. outbox \in Seq(ReplyRow) /\ outbox' \in Seq(ReplyRow)
      BY <1>0 DEF TypeOK
    <3> QED BY <1>4, <3>1 DEF FinishStep
  <2>2. /\ r.to = i /\ r.session = inbound[i].session
        /\ r.kind = k /\ r.attempt = inbound[i].attempt
    BY DEF Reply
  <2>3. ~Terminal(i) /\ Terminal(i)'
    BY <1>4 DEF FinishStep, Terminal
  <2>4. \A n \in 1..N : outbox[n].to \in Id /\ outbox[n].to # i /\ Untouched(outbox[n].to)
    BY <1>4, <2>1, <2>3 DEF FinishStep, QueueInv, ReplyIffTerminal, ReplyRow
  <2>5. \A j \in Id \ {i} : Terminal(j) <=> Terminal(j)'
    BY <1>4 DEF FinishStep, Terminal, Untouched
  <2>6. IdsInOrder'
    BY <1>4 DEF FinishStep, QueueInv, IdsInOrder, Untouched
  <2>7. NothingOvertakes'
    BY <1>4, <2>3, <2>5 DEF FinishStep, QueueInv, NothingOvertakes, Untouched
  <2>8. RepliesOwnSession' /\ ReplyFromLastAttempt'
    BY <1>4, <2>1, <2>2, <2>4
       DEF FinishStep, QueueInv, RepliesOwnSession, ReplyFromLastAttempt, Untouched
  <2>9. ReplyIffTerminal'
    <3>1. \A j \in Id : Terminal(j)' <=> \E n \in 1..(N + 1) : outbox'[n].to = j
      <4>1. ASSUME NEW j \in Id \ {i}
            PROVE  Terminal(j)' <=> \E n \in 1..(N + 1) : outbox'[n].to = j
        <5>1. Terminal(j) <=> \E n \in 1..N : outbox[n].to = j
          BY <2>1 DEF QueueInv, ReplyIffTerminal
        <5>2. (\E n \in 1..N : outbox[n].to = j) <=> \E n \in 1..(N + 1) : outbox'[n].to = j
          BY <2>1, <2>2
        <5> QED BY <2>5, <5>1, <5>2
      <4>2. \E n \in 1..(N + 1) : outbox'[n].to = i
        BY <2>1, <2>2
      <4> QED BY <2>3, <4>1, <4>2
    <3>2. \A n \in 1..(N + 1) :
            inbound'[outbox'[n].to].status = IF outbox'[n].kind = "answer" THEN "done" ELSE "failed"
      <4>1. \A n \in 1..N : outbox'[n] = outbox[n] /\ inbound'[outbox[n].to].status = inbound[outbox[n].to].status
        BY <2>1, <2>4 DEF Untouched
      <4>2. inbound'[outbox'[N + 1].to].status = IF outbox'[N + 1].kind = "answer" THEN "done" ELSE "failed"
        BY <1>4, <2>1, <2>2 DEF FinishStep
      <4>3. \A n \in 1..N : inbound[outbox[n].to].status = IF outbox[n].kind = "answer" THEN "done" ELSE "failed"
        BY <2>1 DEF QueueInv, ReplyIffTerminal
      <4>4. \A n \in 1..(N + 1) : n \in 1..N \/ n = N + 1
        BY <2>1
      <4> QED BY <4>1, <4>2, <4>3, <4>4
    <3>3. \A m, n \in 1..(N + 1) : outbox'[m].to = outbox'[n].to => m = n
      <4>1. \A m, n \in 1..N : outbox'[m].to = outbox'[n].to => m = n
        BY <2>1 DEF QueueInv, ReplyIffTerminal
      <4>2. \A m \in 1..N : outbox'[m].to # outbox'[N + 1].to
        BY <2>1, <2>2, <2>4
      <4>3. \A n \in 1..(N + 1) : n \in 1..N \/ n = N + 1
        BY <2>1
      <4> QED BY <4>1, <4>2, <4>3
    <3> QED BY <2>1, <3>1, <3>2, <3>3 DEF ReplyIffTerminal
  <2>10. RepliesInOrder'
    \* A reply to a later message of the session would have overtaken i.
    <3>1. \A n \in 1..N : outbox[n].session = inbound[i].session => outbox[n].to < i
      <4> SUFFICES ASSUME NEW n \in 1..N, outbox[n].session = inbound[i].session
                   PROVE  outbox[n].to < i
        OBVIOUS
      <4>1. /\ outbox[n].to \in Id /\ outbox[n].to # i
            /\ inbound[outbox[n].to].session = inbound[i].session
            /\ Terminal(outbox[n].to)
        BY <2>1, <2>4 DEF QueueInv, RepliesOwnSession, ReplyIffTerminal
      <4>2. ~(i < outbox[n].to)
        BY <2>3, <4>1 DEF QueueInv, NothingOvertakes, Terminal
      <4> QED BY <1>0, <4>1, <4>2 DEF Id
    <3>2. \A m, n \in 1..N : m < n /\ outbox'[m].session = outbox'[n].session
                               => outbox'[m].to < outbox'[n].to
      BY <2>1 DEF QueueInv, RepliesInOrder
    <3>3. \A m \in 1..N : outbox'[m].session = outbox'[N + 1].session
                               => outbox'[m].to < outbox'[N + 1].to
      BY <2>1, <2>2, <3>1
    <3>4. \A m, n \in 1..(N + 1) : m < n => m \in 1..N /\ (n \in 1..N \/ n = N + 1)
      BY <2>1
    <3> QED BY <2>1, <3>2, <3>3, <3>4 DEF RepliesInOrder
  <2> QED BY <1>0, <2>6, <2>7, <2>8, <2>9, <2>10 DEF QueueInv
<1>5. CASE QuietStep
  <2>1. IdsInOrder' /\ NothingOvertakes'
    BY <1>5 DEF QuietStep, QueueInv, IdsInOrder, NothingOvertakes, Terminal, Untouched
  <2>2. /\ \A j \in Id : Terminal(j) <=> Terminal(j)'
        /\ \A j \in Id : Terminal(j) => Untouched(j)
    BY <1>5 DEF QuietStep, Terminal, Untouched
  <2> QED BY <1>0, <1>5, <2>1, <2>2, OutboxKept DEF QuietStep, QueueInv
<1> QED BY <1>0, <1>1, <1>2, <1>3, <1>4, <1>5 DEF RowStep

\* The inductive invariant, from which the promises follow: ids in order, nothing
\* overtakes the head of a session, and replies match the rows.
THEOREM QueueInvariance == Spec => []QueueInv
<1> QED BY QueueInvInit, QueueInvStep, PTL DEF Spec

\* However pumps, heartbeats, retries, lease takeovers and crashes interleave, a
\* message has exactly one reply once it is answered and none before.
THEOREM OneReply == Spec => []ReplyIffTerminal
<1>1. QueueInv => ReplyIffTerminal
  BY DEF QueueInv
<1> QED BY <1>1, QueueInvInit, QueueInvStep, PTL DEF Spec

\* An attempt that lost its lease never gets its answer into the outbox.
THEOREM NoStaleReply == Spec => []ReplyFromLastAttempt
<1>1. QueueInv => ReplyFromLastAttempt
  BY DEF QueueInv
<1> QED BY <1>1, QueueInvInit, QueueInvStep, PTL DEF Spec

\* The replies of a session are sent in the order its messages were accepted.
THEOREM FifoOrder == Spec => []RepliesInOrder
<1>1. QueueInv => RepliesInOrder
  BY DEF QueueInv
<1> QED BY <1>1, QueueInvInit, QueueInvStep, PTL DEF Spec

-----------------------------------------------------------------------------
(* The queue implements FifoReplies *)

SentRow == [to : Id, session : Sessions \cup {"none"}, kind : {"answer", "failure"}]

LEMMA SentType ==
  ASSUME NEW s \in Seq(ReplyRow)
  PROVE  /\ [n \in DOMAIN s |-> Sent(s[n])] \in Seq(SentRow)
         /\ Len([n \in DOMAIN s |-> Sent(s[n])]) = Len(s)
<1>1. /\ Len(s) \in Nat /\ DOMAIN s = 1..Len(s)
      /\ \A n \in 1..Len(s) : s[n] \in ReplyRow
  BY LenProperties
<1>2. \A n \in 1..Len(s) : Sent(s[n]) \in SentRow
  BY <1>1 DEF Sent, SentRow, ReplyRow
<1>3. [n \in 1..Len(s) |-> Sent(s[n])] \in [1..Len(s) -> SentRow]
  BY <1>2
<1>4. [n \in 1..Len(s) |-> Sent(s[n])] \in Seq(SentRow)
  BY <1>1, <1>3, SeqDef
<1>5. Len([n \in 1..Len(s) |-> Sent(s[n])]) = Len(s)
  BY <1>1, <1>4, LenProperties
<1> QED BY <1>1, <1>4, <1>5

\* Appending a row to the outbox appends what a client sees of it.
LEMMA SentAppend ==
  ASSUME NEW s \in Seq(ReplyRow), NEW e \in ReplyRow
  PROVE  [n \in DOMAIN Append(s, e) |-> Sent(Append(s, e)[n])]
           = Append([n \in DOMAIN s |-> Sent(s[n])], Sent(e))
<1> DEFINE t == Append(s, e)
           f == [n \in DOMAIN s |-> Sent(s[n])]
           g == [n \in DOMAIN t |-> Sent(t[n])]
<1>1. t \in Seq(ReplyRow) /\ Len(t) = Len(s) + 1 /\ Len(s) \in Nat
  OBVIOUS
<1>2. DOMAIN t = 1..Len(s) + 1 /\ DOMAIN s = 1..Len(s)
  BY <1>1, LenProperties
<1>3. /\ f \in Seq(SentRow) /\ Len(f) = Len(s)
      /\ g \in Seq(SentRow) /\ Len(g) = Len(s) + 1
  BY <1>1, SentType
<1>4. Sent(e) \in SentRow
  BY DEF Sent, SentRow, ReplyRow
<1>5. Append(f, Sent(e)) \in Seq(SentRow) /\ Len(Append(f, Sent(e))) = Len(s) + 1
  BY <1>3, <1>4
<1>6. \A n \in 1..Len(s) + 1 : g[n] = Append(f, Sent(e))[n]
  <2> SUFFICES ASSUME NEW n \in 1..Len(s) + 1 PROVE g[n] = Append(f, Sent(e))[n]
    OBVIOUS
  <2>1. g[n] = Sent(t[n])
    BY <1>2
  <2>2. CASE n = Len(s) + 1
    <3>1. t[n] = e
      BY <2>2
    <3>2. Append(f, Sent(e))[n] = Sent(e)
      BY <1>3, <2>2
    <3> QED BY <2>1, <3>1, <3>2
  <2>3. CASE n # Len(s) + 1
    <3>1. n \in 1..Len(s)
      BY <1>1, <2>3
    <3>2. t[n] = s[n]
      BY <3>1
    <3>3. Append(f, Sent(e))[n] = f[n]
      BY <1>3, <3>1
    <3>4. f[n] = Sent(s[n])
      BY <1>2, <3>1
    <3> QED BY <2>1, <3>2, <3>3, <3>4
  <2> QED BY <2>2, <2>3
<1> HIDE DEF f, g
<1>7. g = Append(f, Sent(e))
  BY <1>3, <1>5, <1>6, SeqEqual
<1> QED BY <1>7 DEF f, g

LEMMA RefinesInit == Init => Replies!Init
<1> SUFFICES ASSUME Init PROVE Replies!Init
  OBVIOUS
<1>1. Waiting = {}
  BY DEF Init, Waiting, Open, AbsentRow
<1>2. SentReplies = <<>>
  BY DEF Init, SentReplies
<1> QED BY <1>1, <1>2 DEF Init, Replies!Init

\* Rows that stay as they are, outside i, keep their place among the waiting.
LEMMA WaitingKept ==
  ASSUME \A i \in Id : Untouched(i) \/ (/\ inbound'[i].session = inbound[i].session
                                       /\ Open(i) /\ Open(i)')
  PROVE  Waiting' = Waiting
  BY DEF Waiting, Open, Untouched

LEMMA RefinesStep == QueueInv /\ [Next]_vars => [Replies!Next]_(Replies!vars)
<1> SUFFICES ASSUME QueueInv, [Next]_vars PROVE [Replies!Next]_(Replies!vars)
  OBVIOUS
<1>0. TypeOK /\ TypeOK' /\ RowStep /\ lastId \in Nat /\ MaxInbound \in Nat
  BY TypeStep, NextIsRowStep, GatewayQueueAssumption DEF QueueInv, TypeOK
<1>1. CASE AcceptStep
  <2> DEFINE s == inbound'[lastId + 1].session
  <2>1. lastId + 1 \in Id /\ s \in Sessions
    BY <1>0, <1>1 DEF AcceptStep, Id
  <2>2. ~Open(lastId + 1)
    <3>1. inbound[lastId + 1].status = "absent"
      BY <1>0, <2>1 DEF QueueInv, IdsInOrder
    <3> QED BY <3>1 DEF Open
  <2>3. Waiting' = Waiting \cup {[id |-> lastId + 1, session |-> s]}
    BY <1>1, <2>1, <2>2 DEF AcceptStep, Waiting, Open, Untouched
  <2>4. SentReplies' = SentReplies
    BY <1>1 DEF AcceptStep, SentReplies
  <2>5. Replies!Accept(s)
    BY <1>1, <2>3, <2>4 DEF AcceptStep, Replies!Accept
  <2> QED BY <2>1, <2>5 DEF Replies!Next
<1>2. ASSUME NEW i \in Id, ClaimStep(i) \/ RetryStep(i) PROVE [Replies!Next]_(Replies!vars)
  <2>1. /\ inbound'[i].session = inbound[i].session
        /\ Open(i) /\ Open(i)'
        /\ \A j \in Id \ {i} : Untouched(j)
    BY <1>2 DEF ClaimStep, RetryStep, HeadOf, Open
  <2>2. Waiting' = Waiting
    BY <2>1, WaitingKept
  <2>3. SentReplies' = SentReplies /\ lastId' = lastId
    BY <1>2 DEF ClaimStep, RetryStep, SentReplies
  <2> QED BY <2>2, <2>3 DEF Replies!vars
<1>3. ASSUME NEW i \in Id, NEW st \in {"done", "failed"}, NEW k \in {"answer", "failure"},
             FinishStep(i, st, k)
      PROVE  [Replies!Next]_(Replies!vars)
  <2> DEFINE m == [id |-> i, session |-> inbound[i].session]
             r == Reply(i, inbound[i].attempt, k)
  <2>1. Open(i) /\ ~Open(i)' /\ inbound'[i].session = inbound[i].session
    BY <1>3 DEF FinishStep, Open
  <2>2. m \in Waiting
    BY <2>1 DEF Waiting
  <2>3. Waiting' = Waiting \ {m}
    <3>1. \A j \in Id \ {i} : /\ Open(j) <=> Open(j)'
                              /\ inbound'[j].session = inbound[j].session
      BY <1>3 DEF FinishStep, Open, Untouched
    <3> QED BY <2>1, <3>1 DEF Waiting
  <2>4. \A n \in Waiting : n.session = m.session => m.id <= n.id
    <3> SUFFICES ASSUME NEW j \in Id, Open(j), inbound[j].session = inbound[i].session
                 PROVE  i <= j
      BY DEF Waiting
    <3>1. ~(j < i)
      BY <1>3 DEF FinishStep, QueueInv, NothingOvertakes, Terminal, Open
    <3> QED BY <1>0, <3>1 DEF Id
  <2>5. SentReplies' = Append(SentReplies, [to |-> m.id, session |-> m.session, kind |-> k])
    <3>1. outbox \in Seq(ReplyRow) /\ outbox' = Append(outbox, r)
      BY <1>0, <1>3 DEF TypeOK, FinishStep
    <3>2. r \in ReplyRow
      <4>1. inbound[i] \in Row
        BY <1>0 DEF TypeOK
      <4> QED BY <4>1 DEF Reply, ReplyRow, Row
    <3>3. Sent(r) = [to |-> m.id, session |-> m.session, kind |-> k]
      BY DEF Sent, Reply
    <3> HIDE DEF r, m
    <3> QED BY <3>1, <3>2, <3>3, SentAppend DEF SentReplies
  <2>6. lastId' = lastId
    BY <1>3 DEF FinishStep
  <2> HIDE DEF m
  <2>7. Replies!Reply(m, k)
    BY <2>2, <2>3, <2>4, <2>5, <2>6 DEF Replies!Reply
  <2> QED BY <2>2, <2>7 DEF Replies!Next
<1>4. CASE QuietStep
  <2>1. Waiting' = Waiting
    BY <1>4, WaitingKept DEF QuietStep
  <2> QED BY <1>4, <2>1 DEF QuietStep, SentReplies, Replies!vars
<1> QED BY <1>0, <1>1, <1>2, <1>3, <1>4 DEF RowStep

\* Seen from a client, the queue with its pumps, leases, heartbeats, retries,
\* failed statements and crashes is a queue that answers messages in order, once.
THEOREM Refinement == Spec => ImplementsFifoReplies
<1>1. QueueInv /\ [Next]_vars => [Replies!Next]_(Replies!vars)
  BY RefinesStep
<1> QED
  BY <1>1, RefinesInit, QueueInvInit, QueueInvStep, PTL
     DEF Spec, ImplementsFifoReplies, Replies!Spec

-----------------------------------------------------------------------------
(* Rows are fenced *)

TerminalUnleased == \A i \in Id : Terminal(i) => inbound[i].lease = 0

LEMMA KeptIsFenced ==
  ASSUME TypeOK, NEW i \in Id, inbound'[i] = inbound[i]
  PROVE  RowFenced(i)
<1>1. inbound[i] \in Row
  BY DEF TypeOK
<1>2. inbound[i] = [inbound[i] EXCEPT !.due = inbound[i].due]
  BY <1>1 DEF Row
<1>3. ~(inbound[i].lease > inbound[i].lease)
  BY <1>1 DEF Row
<1> QED BY <1>2, <1>3 DEF RowFenced

\* A row that is not answered is fenced when its lease does not grow.
LEMMA NotLongerIsFenced ==
  ASSUME TypeOK, NEW i \in Id, ~Terminal(i), inbound'[i].lease \in Nat,
         inbound'[i].lease <= inbound[i].lease
  PROVE  RowFenced(i)
<1>1. inbound[i].lease \in Nat
  BY DEF TypeOK, Row
<1> QED BY <1>1 DEF RowFenced

LEMMA HeldIsFenced ==
  ASSUME TypeOK, NEW i \in Id, NEW a \in Nat, Holds(i, a), inbound' = Renewed(i), MayRenew(i),
         NEW j \in Id
  PROVE  RowFenced(j)
<1>1. CASE j = i
  <2>1. inbound'[i] = [inbound[i] EXCEPT !.lease = Lease] /\ inbound[i] \in Row
    BY DEF TypeOK, Renewed
  <2>2. inbound'[i].status = "processing"
    BY <2>1 DEF Holds, Row
  <2>3. ~Terminal(i)
    BY DEF Terminal, Holds
  <2> QED BY <1>1, <2>2, <2>3 DEF RowFenced
<1>2. CASE j # i
  BY <1>2, KeptIsFenced DEF TypeOK, Renewed
<1> QED BY <1>1, <1>2

LEMMA FinishIsFenced ==
  ASSUME TypeOK, TerminalUnleased, NEW i \in Id, NEW a \in Nat, NEW k \in {"answer", "failure"},
         NEW st \in {"done", "failed"}, Finish(i, a, st, k)
  PROVE  (\A j \in Id : RowFenced(j)) /\ TerminalUnleased'
<1>1. CASE Holds(i, a)
  <2>1. inbound' = [inbound EXCEPT ![i] = [@ EXCEPT !.status = st, !.lease = 0]]
    BY <1>1 DEF Finish
  <2>2. inbound[i] \in Row /\ inbound'[i] = [inbound[i] EXCEPT !.status = st, !.lease = 0]
    BY <2>1 DEF TypeOK
  <2>3. /\ inbound'[i].lease = 0 /\ 0 \in Nat /\ inbound[i].lease \in Nat
        /\ ~Terminal(i)
    BY <1>1, <2>2 DEF Row, Terminal, Holds
  <2>4. RowFenced(i)
    BY <2>3, NotLongerIsFenced
  <2>5. \A j \in Id \ {i} : inbound'[j] = inbound[j]
    BY <2>1 DEF TypeOK
  <2>6. \A j \in Id \ {i} : RowFenced(j)
    BY <2>5, KeptIsFenced
  <2>7. TerminalUnleased'
    BY <2>3, <2>5 DEF TerminalUnleased, Terminal
  <2> QED BY <2>4, <2>6, <2>7
<1>2. CASE ~Holds(i, a)
  <2>1. inbound' = inbound
    BY <1>2 DEF Finish
  <2> QED BY <2>1, KeptIsFenced DEF TerminalUnleased, Terminal
<1> QED BY <1>1, <1>2

LEMMA EveryStepFenced ==
  ASSUME QueueInv, TerminalUnleased, [Next]_vars
  PROVE  (\A i \in Id : RowFenced(i)) /\ TerminalUnleased'
<1> USE GatewayQueueAssumption
<1> DEFINE Goal == (\A i \in Id : RowFenced(i)) /\ TerminalUnleased'
<1>0. /\ TypeOK /\ inbound \in [Id -> Row]
      /\ task \in [PumpTask -> TaskState]
      /\ stray \subseteq Id \X Nat
  BY DEF QueueInv, TypeOK, TaskState
<1>a. ASSUME inbound' = inbound PROVE Goal
  BY <1>0, <1>a, KeptIsFenced DEF TerminalUnleased, Terminal
<1>1. ASSUME Recv PROVE Goal
  <2>1. PICK s \in Sessions : inbound' = [inbound EXCEPT ![lastId + 1] =
           [session |-> s, status |-> "pending", attempt |-> 0, due |-> 0, lease |-> 0]]
    BY <1>1 DEF Recv
  <2>2. lastId + 1 \in Id /\ lastId \in Nat
    BY <1>0, <1>1 DEF Recv, Id, TypeOK
  <2>3. ~Terminal(lastId + 1)
    <3>1. inbound[lastId + 1].status = "absent"
      BY <2>2 DEF QueueInv, IdsInOrder
    <3> QED BY <3>1 DEF Terminal
  <2>4. inbound'[lastId + 1].lease = 0 /\ inbound'[lastId + 1].status = "pending"
    BY <1>0, <2>1, <2>2
  <2>5. \A j \in Id \ {lastId + 1} : inbound'[j] = inbound[j]
    BY <1>0, <2>1
  <2>6. inbound[lastId + 1].lease \in Nat
    BY <1>0, <2>2 DEF Row
  <2>7. RowFenced(lastId + 1)
    BY <1>0, <2>2, <2>3, <2>4, <2>6, NotLongerIsFenced
  <2>8. \A j \in Id \ {lastId + 1} : RowFenced(j)
    BY <1>0, <2>5, KeptIsFenced
  <2>9. TerminalUnleased'
    BY <2>4, <2>5 DEF TerminalUnleased, Terminal
  <2> QED BY <2>7, <2>8, <2>9
<1>2. ASSUME NEW t \in PumpTask, Claim(t) PROVE Goal
  <2>1. PICK i \in Id : Claimable(SessionOf(t), i) /\ ClaimRow(i)
    BY <1>2 DEF Claim
  <2>2. /\ inbound'[i] = [inbound[i] EXCEPT !.status  = "processing",
                                            !.attempt = inbound[i].attempt + 1,
                                            !.lease   = Lease]
        /\ \A j \in Id \ {i} : inbound'[j] = inbound[j]
        /\ inbound[i] \in Row
    BY <1>0, <2>1 DEF ClaimRow
  <2>3. inbound'[i].status = "processing" /\ inbound'[i].attempt = inbound[i].attempt + 1
    BY <2>2 DEF Row
  <2>4. ~Terminal(i)
    BY <2>1 DEF Claimable, HeadOf, Open, Terminal
  <2>5. RowFenced(i)
    BY <2>3, <2>4 DEF RowFenced, MayRenew
  <2>6. \A j \in Id \ {i} : RowFenced(j)
    BY <1>0, <2>2, KeptIsFenced
  <2>7. TerminalUnleased'
    BY <2>2, <2>3 DEF TerminalUnleased, Terminal
  <2> QED BY <2>5, <2>6, <2>7
<1>3. ASSUME NEW i \in Id, NEW a \in Nat, Holds(i, a), inbound' = Renewed(i), MayRenew(i)
      PROVE  Goal
  <2>1. \A j \in Id : RowFenced(j)
    BY <1>0, <1>3, HeldIsFenced
  <2>2. inbound'[i].status = "processing" /\ \A j \in Id \ {i} : inbound'[j] = inbound[j]
    BY <1>0, <1>3 DEF Renewed, Holds, Row
  <2>3. TerminalUnleased'
    BY <2>2 DEF TerminalUnleased, Terminal
  <2> QED BY <2>1, <2>3
<1>4. ASSUME NEW t \in PumpTask, Heartbeat(t) PROVE Goal
  <2>1. task[t].id \in Id /\ task[t].attempt \in Nat /\ task[t].pc = "handling"
    BY <1>0, <1>4, Busy DEF Heartbeat
  <2>2. CASE Holds(task[t].id, task[t].attempt)
    <3>1. inbound' = Renewed(task[t].id)
      BY <1>4, <2>2 DEF Heartbeat
    <3>2. MayRenew(task[t].id)
      BY <2>1, <2>2 DEF MayRenew, Holds
    <3> QED BY <1>3, <2>1, <2>2, <3>1, <3>2
  <2>3. CASE ~Holds(task[t].id, task[t].attempt)
    BY <1>a, <1>4, <2>3 DEF Heartbeat
  <2> QED BY <2>2, <2>3
<1>5. ASSUME NEW h \in stray, StrayHeartbeat(h) PROVE Goal
  <2>1. h[1] \in Id /\ h[2] \in Nat /\ h = <<h[1], h[2]>>
    BY <1>0
  <2>2. CASE Holds(h[1], h[2])
    <3>1. inbound' = Renewed(h[1])
      BY <1>5, <2>2 DEF StrayHeartbeat
    <3>2. MayRenew(h[1])
      BY <2>1, <2>2 DEF MayRenew, Holds
    <3> QED BY <1>3, <2>1, <2>2, <3>1, <3>2
  <2>3. CASE ~Holds(h[1], h[2])
    BY <1>a, <1>5, <2>3 DEF StrayHeartbeat
  <2> QED BY <2>2, <2>3
<1>6. ASSUME NEW t \in PumpTask, Settle(t) PROVE Goal
  <2>1. task[t].id \in Id /\ task[t].attempt \in Nat
    BY <1>0, <1>6, Busy DEF Settle
  <2>2. CASE Complete(t)
    BY <1>0, <2>1, <2>2, FinishIsFenced DEF Complete
  <2>3. CASE Fail(t)
    BY <1>0, <2>1, <2>3, FinishIsFenced DEF Fail
  <2>4. CASE GiveUp(t)
    BY <1>a, <2>4 DEF GiveUp
  <2>5. CASE Retry(t)
    <3> DEFINE i == task[t].id
    <3>1. PICK d \in 0..Backoff :
            inbound' = IF Holds(i, task[t].attempt)
                         THEN [inbound EXCEPT ![i] =
                                 [@ EXCEPT !.status = "pending", !.due = d, !.lease = 0]]
                         ELSE inbound
      BY <2>5, Zenon DEF Retry
    <3> HIDE DEF i
    <3>2. CASE Holds(i, task[t].attempt)
      <4>0. i \in Id
        BY <2>1 DEF i
      <4>1. /\ inbound'[i] = [inbound[i] EXCEPT !.status = "pending", !.due = d, !.lease = 0]
            /\ \A j \in Id \ {i} : inbound'[j] = inbound[j]
            /\ inbound[i] \in Row
        BY <1>0, <3>1, <3>2, <4>0
      <4>2. inbound'[i].status = "pending" /\ inbound'[i].lease = 0 /\ inbound[i].lease \in Nat
        BY <4>1 DEF Row
      <4>3. ~Terminal(i)
        BY <3>2 DEF Holds, Terminal
      <4>4. RowFenced(i)
        BY <1>0, <4>0, <4>2, <4>3, NotLongerIsFenced
      <4>5. \A j \in Id \ {i} : RowFenced(j)
        BY <1>0, <4>1, KeptIsFenced
      <4>6. TerminalUnleased'
        BY <4>1, <4>2 DEF TerminalUnleased, Terminal
      <4> QED BY <4>4, <4>5, <4>6
    <3>3. CASE ~Holds(i, task[t].attempt)
      BY <1>a, <3>1, <3>3
    <3> QED BY <3>2, <3>3
  <2> QED BY <1>6, <2>2, <2>3, <2>4, <2>5 DEF Settle
<1>7. ASSUME Tick PROVE Goal
  <2>0. inbound' = [i \in Id |-> [inbound[i] EXCEPT !.lease = Minus1(inbound[i].lease),
                                                    !.due = Minus1(inbound[i].due)]]
    BY <1>7, Zenon DEF Tick
  <2>1. \A i \in Id : /\ inbound'[i] = [inbound[i] EXCEPT !.lease = Minus1(inbound[i].lease),
                                                          !.due = Minus1(inbound[i].due)]
                      /\ inbound[i] \in Row
    BY <1>0, <2>0, Zenon
  <2>2. ASSUME NEW i \in Id
        PROVE  /\ inbound'[i].lease = Minus1(inbound[i].lease)
               /\ inbound'[i].status = inbound[i].status
               /\ inbound[i].lease \in Nat
               /\ inbound[i].lease = Minus1(inbound[i].lease) =>
                    inbound'[i] = [inbound[i] EXCEPT !.due = inbound'[i].due]
    <3> DEFINE l == Minus1(inbound[i].lease)
               d == Minus1(inbound[i].due)
    <3>1. inbound[i] \in Row /\ inbound'[i] = [inbound[i] EXCEPT !.lease = l, !.due = d]
      BY <2>1, Zenon
    <3> HIDE DEF l, d
    <3>2. /\ inbound'[i].lease = l /\ inbound'[i].status = inbound[i].status
          /\ inbound'[i].due = d /\ inbound[i].lease \in Nat
      BY <3>1 DEF Row
    <3>3. ASSUME inbound[i].lease = l
          PROVE  inbound'[i] = [inbound[i] EXCEPT !.due = inbound'[i].due]
      <4>1. [inbound[i] EXCEPT !.lease = inbound[i].lease, !.due = d] = [inbound[i] EXCEPT !.due = d]
        BY <3>1 DEF Row
      <4> QED BY <3>1, <3>2, <3>3, <4>1, Zenon
    <3> QED BY <3>2, <3>3 DEF l
  <2>3. ASSUME NEW i \in Id PROVE RowFenced(i)
    <3>1. CASE Terminal(i)
      <4>1. inbound[i].lease = 0 /\ Minus1(inbound[i].lease) = 0
        BY <3>1 DEF TerminalUnleased, Minus1
      <4>2. inbound'[i] = [inbound[i] EXCEPT !.due = inbound'[i].due]
        BY <2>2, <4>1
      <4>3. inbound'[i].lease = inbound[i].lease
        BY <2>2, <4>1
      <4>4. ~(inbound'[i].lease > inbound[i].lease)
        BY <4>1, <4>3
      <4> QED BY <4>2, <4>4 DEF RowFenced
    <3>2. CASE ~Terminal(i)
      <4>1. inbound'[i].lease = Minus1(inbound[i].lease) /\ inbound[i].lease \in Nat
        BY <2>2
      <4>2. inbound'[i].lease \in Nat /\ inbound'[i].lease <= inbound[i].lease
        BY <4>1 DEF Minus1
      <4> QED BY <1>0, <3>2, <4>2, NotLongerIsFenced
    <3> QED BY <3>1, <3>2
  <2>4. TerminalUnleased'
    BY <2>2 DEF TerminalUnleased, Terminal, Minus1
  <2> QED BY <2>3, <2>4
<1>8. ASSUME NEW t \in PumpTask,
             ReadBack(t) \/ ReadBackError(t) \/ ClaimNothing(t) \/ Return(t) \/ SettleError(t)
      PROVE  Goal
  BY <1>a, <1>8 DEF ReadBack, ReadBackError, ClaimNothing, Return, SettleError
<1>9. ASSUME Crash PROVE Goal
  BY <1>a, <1>9 DEF Crash
<1>10. ASSUME UNCHANGED vars PROVE Goal
  BY <1>a, <1>10 DEF vars
<1> HIDE DEF Goal
<1>11. Goal
  BY <1>1, <1>2, <1>4, <1>5, <1>6, <1>7, <1>8, <1>9, <1>10 DEF Next
<1> QED BY <1>11 DEF Goal

\* RowsFenced: an answered row is never reopened, retried or claimed again, and a
\* lease grows only by a claim or for the attempt that holds the row.
THEOREM RowsAreFenced == Spec => RowsFenced
<1>1. Init => TerminalUnleased
  BY DEF Init, TerminalUnleased, Terminal, AbsentRow
<1>2. QueueInv /\ TerminalUnleased /\ [Next]_vars => TerminalUnleased'
  BY EveryStepFenced DEF FencedStep
<1>3. QueueInv /\ TerminalUnleased /\ [Next]_vars => [FencedStep]_vars
  BY EveryStepFenced DEF FencedStep
<1> QED
  BY <1>1, <1>2, <1>3, QueueInvInit, QueueInvStep, PTL DEF Spec, RowsFenced

-----------------------------------------------------------------------------
(* Attempts beyond the limit are paid for by faults *)

Slack(i) == inbound[i].attempt + 1 <= MaxAttempts + faults

\* t works on row i for the row's attempt, and the lease outlasts a period
\* without faults.
Guards(t, i) ==
  /\ task[t].id = i
  /\ \/ task[t].pc = "claimed" /\ ~task[t].lost
     \/ task[t].pc = "handling" /\ task[t].attempt = inbound[i].attempt /\ ~task[t].lost
     \/ /\ task[t].pc = "settling" /\ task[t].attempt = inbound[i].attempt
        /\ task[t].result # "leaseLost"
  /\ inbound[i].lease >= 1
  /\ task[t].beaten => inbound[i].lease >= Lease

RowBounded(i) ==
  /\ inbound[i].attempt <= MaxAttempts + faults
  /\ inbound[i].status = "pending" => Slack(i)
  /\ inbound[i].status = "processing" => Slack(i) \/ \E t \in PumpTask : Guards(t, i)

Unspawned == \A i \in Id : i > lastId => task[RecvPump(i)].pc = "off"

AttemptInv == Unspawned /\ \A i \in Id : RowBounded(i)

LEMMA RowNumbers ==
  ASSUME TypeOK, NEW i \in Id
  PROVE  /\ inbound[i].attempt \in Nat /\ inbound[i].lease \in Nat
         /\ MaxAttempts \in Nat /\ MaxAttempts >= 1 /\ faults \in Nat
         /\ Lease \in Nat /\ Lease >= 1
<1>1. inbound[i] \in Row /\ faults \in 0..MaxFaults
  BY DEF TypeOK
<1> QED BY <1>1, GatewayQueueAssumption DEF Row

LEMMA FaultGivesSlack ==
  ASSUME TypeOK, \A i \in Id : RowBounded(i), faults' = faults + 1,
         \A i \in Id : inbound'[i].attempt = inbound[i].attempt
  PROVE  \A i \in Id : RowBounded(i)'
<1> SUFFICES ASSUME NEW i \in Id PROVE RowBounded(i)'
  OBVIOUS
<1>1. Slack(i)'
  BY RowNumbers DEF RowBounded, Slack
<1>2. (inbound[i].attempt <= MaxAttempts + faults)'
  BY RowNumbers DEF RowBounded
<1> QED BY <1>1, <1>2 DEF RowBounded

\* A row that stays as it is stays bounded while its guards do.
LEMMA KeptIsBounded ==
  ASSUME TypeOK, NEW i \in Id, RowBounded(i), faults' = faults,
         inbound'[i].attempt = inbound[i].attempt, inbound'[i].status = inbound[i].status,
         \A t \in PumpTask :
           inbound[i].status = "processing" /\ Guards(t, i) => \E u \in PumpTask : Guards(u, i)'
  PROVE  RowBounded(i)'
<1>1. inbound'[i].status = "processing" => Slack(i)' \/ \E t \in PumpTask : Guards(t, i)'
  BY DEF RowBounded, Slack
<1> QED BY <1>1 DEF RowBounded, Slack

\* A step of t that leaves row i alone does so to every guard of it but t.
LEMMA OthersGuard ==
  ASSUME NEW t \in PumpTask, NEW i \in Id, inbound'[i] = inbound[i],
         \A u \in PumpTask \ {t} : task'[u] = task[u]
  PROVE  \A u \in PumpTask \ {t} : Guards(u, i) => Guards(u, i)'
  BY DEF Guards

LEMMA UnguardedStep ==
  ASSUME TypeOK, NEW t \in PumpTask, NEW i \in Id, RowBounded(i), faults' = faults,
         inbound'[i] = inbound[i],
         \A u \in PumpTask \ {t} : task'[u] = task[u],
         inbound[i].status = "processing" => ~Guards(t, i) \/ Guards(t, i)'
  PROVE  RowBounded(i)'
<1>1. \A u \in PumpTask \ {t} : Guards(u, i) => Guards(u, i)'
  BY OthersGuard
<1>2. \A u \in PumpTask :
        inbound[i].status = "processing" /\ Guards(u, i) => \E v \in PumpTask : Guards(v, i)'
  BY <1>1
<1> QED BY <1>2, KeptIsBounded

\* A renewal strengthens the guards of its row.
LEMMA RenewedIsBounded ==
  ASSUME TypeOK, NEW i \in Id, RowBounded(i), faults' = faults, NEW j \in Id,
         inbound' = Renewed(j),
         \A u \in PumpTask : /\ task'[u].id = task[u].id /\ task'[u].pc = task[u].pc
                             /\ task'[u].attempt = task[u].attempt
                             /\ task'[u].lost = task[u].lost /\ task'[u].result = task[u].result
                             /\ task[u].id # j => task'[u] = task[u]
  PROVE  RowBounded(i)'
<1>1. CASE i = j
  <2>1. inbound[i] \in Row /\ inbound'[i] = [inbound[i] EXCEPT !.lease = Lease]
    BY <1>1 DEF TypeOK, Renewed
  <2>2. /\ inbound'[i].lease = Lease /\ inbound'[i].attempt = inbound[i].attempt
        /\ inbound'[i].status = inbound[i].status
    BY <2>1 DEF Row
  <2>3. ASSUME NEW u \in PumpTask, Guards(u, i) PROVE Guards(u, i)'
    BY <2>2, <2>3, RowNumbers DEF Guards
  <2> QED BY <2>2, <2>3, KeptIsBounded
<1>2. CASE i # j
  <2>1. inbound'[i] = inbound[i]
    BY <1>2 DEF TypeOK, Renewed
  <2>2. ASSUME NEW u \in PumpTask, Guards(u, i) PROVE Guards(u, i)'
    BY <1>2, <2>1, <2>2 DEF Guards
  <2> QED BY <2>1, <2>2, KeptIsBounded
<1> QED BY <1>1, <1>2

\* Answering a row: its attempt stays, and nobody needs to guard it.
LEMMA FinishIsBounded ==
  ASSUME TypeOK, NEW i \in Id, RowBounded(i), faults' = faults,
         NEW t \in PumpTask, task[t].id \in Id, task[t].pc = "settling",
         NEW st \in {"done", "failed"}, NEW k, Finish(task[t].id, task[t].attempt, st, k),
         \A u \in PumpTask \ {t} : task'[u] = task[u]
  PROVE  RowBounded(i)'
<1>1. CASE Holds(task[t].id, task[t].attempt) /\ i = task[t].id
  <2>1. inbound[i] \in Row /\ inbound'[i] = [inbound[i] EXCEPT !.status = st, !.lease = 0]
    BY <1>1 DEF TypeOK, Finish
  <2>2. inbound'[i].status = st /\ inbound'[i].attempt = inbound[i].attempt
    BY <2>1 DEF Row
  <2> QED BY <2>2 DEF RowBounded
<1>2. CASE Holds(task[t].id, task[t].attempt) /\ i # task[t].id
  <2>1. inbound'[i] = inbound[i]
    BY <1>2 DEF TypeOK, Finish
  <2>2. ~Guards(t, i)
    BY <1>2 DEF Guards
  <2> QED BY <2>1, <2>2, UnguardedStep
<1>3. CASE ~Holds(task[t].id, task[t].attempt)
  <2>1. inbound'[i] = inbound[i]
    BY <1>3 DEF Finish
  <2>2. inbound[i].status = "processing" => ~Guards(t, i)
    BY <1>3 DEF Guards, Holds
  <2> QED BY <2>1, <2>2, UnguardedStep
<1> QED BY <1>1, <1>2, <1>3

LEMMA UnspawnedStep ==
  ASSUME TypeOK, Unspawned, [Next]_vars PROVE Unspawned'
<1>0. task \in [PumpTask -> TaskState] /\ lastId \in Nat
  BY DEF TypeOK, TaskState
<1> SUFFICES ASSUME NEW i \in Id, i > lastId' PROVE task'[RecvPump(i)].pc = "off"
  BY DEF Unspawned
<1>1. RecvPump(i) \in PumpTask /\ RecvPump(i)[1] # "loop" /\ i \in Nat
  BY DEF PumpTask, RecvPump, Id
<1>2. i > lastId /\ task[RecvPump(i)].pc = "off"
  <2>1. lastId' = lastId \/ lastId' = lastId + 1
    <3>1. CASE Recv
      BY <3>1 DEF Recv
    <3>2. CASE \E t \in PumpTask : \/ Claim(t) \/ ReadBack(t) \/ ReadBackError(t) \/ ClaimNothing(t)
                                  \/ Heartbeat(t) \/ Return(t) \/ Settle(t) \/ SettleError(t)
      BY <3>2 DEF Claim, ReadBack, ReadBackError, ClaimNothing, Heartbeat, Return, Settle, SettleError
    <3>3. CASE \E h \in stray : StrayHeartbeat(h)
      BY <3>3 DEF StrayHeartbeat
    <3>4. CASE Tick \/ Crash \/ UNCHANGED vars
      BY <3>4, Zenon DEF Tick, Crash, vars
    <3> QED BY <3>1, <3>2, <3>3, <3>4, Zenon DEF Next
  <2> QED BY <1>0, <1>1, <2>1 DEF Unspawned
<1>3. ASSUME NEW t \in PumpTask, End(t) PROVE task'[RecvPump(i)].pc = "off"
  BY <1>0, <1>1, <1>2, <1>3 DEF End, Resting
<1>4. ASSUME NEW t \in PumpTask, task[t].pc # "off", NEW x, task' = [task EXCEPT ![t] = x]
      PROVE  task'[RecvPump(i)].pc = "off"
  BY <1>0, <1>1, <1>2, <1>4
<1>5. CASE Recv
  <2>1. RecvPump(lastId + 1) # RecvPump(i)
    BY <1>0, <1>5 DEF Recv, RecvPump
  <2> QED BY <1>0, <1>1, <1>2, <1>5, <2>1 DEF Recv
<1>6. ASSUME NEW t \in PumpTask, Claim(t) PROVE task'[RecvPump(i)].pc = "off"
  BY <1>4, <1>6 DEF Claim
<1>7. ASSUME NEW t \in PumpTask, ReadBack(t) PROVE task'[RecvPump(i)].pc = "off"
  BY <1>4, <1>7 DEF ReadBack
<1>8. ASSUME NEW t \in PumpTask, Heartbeat(t) PROVE task'[RecvPump(i)].pc = "off"
  BY <1>4, <1>8 DEF Heartbeat
<1>9. ASSUME NEW t \in PumpTask, Return(t) PROVE task'[RecvPump(i)].pc = "off"
  BY <1>4, <1>9 DEF Return
<1>10. ASSUME NEW t \in PumpTask,
              ReadBackError(t) \/ ClaimNothing(t) \/ Settle(t) \/ SettleError(t)
       PROVE  task'[RecvPump(i)].pc = "off"
  BY <1>3, <1>10 DEF ReadBackError, ClaimNothing, Settle, SettleError
<1>11. CASE Tick
  <2>1. task'[RecvPump(i)] = [task[RecvPump(i)] EXCEPT !.beaten = FALSE]
    <3>1. task' = [t \in PumpTask |-> [task[t] EXCEPT !.beaten = FALSE]]
      BY <1>11, Zenon DEF Tick
    <3> QED BY <1>1, <3>1
  <2>2. task[RecvPump(i)] \in IdleTask
    BY <1>0, <1>1, <1>2 DEF TaskState, BusyTask
  <2> QED BY <1>2, <2>1, <2>2 DEF IdleTask
<1>12. CASE Crash
  BY <1>1, <1>12 DEF Crash, InitialTasks, Resting
<1>13. ASSUME task' = task PROVE task'[RecvPump(i)].pc = "off"
  BY <1>2, <1>13
<1> QED
  BY <1>5, <1>6, <1>7, <1>8, <1>9, <1>10, <1>11, <1>12, <1>13 DEF Next, StrayHeartbeat, vars

LEMMA AttemptStep ==
  ASSUME 1 < Lease, TypeOK, IdsInOrder, AttemptInv, [Next]_vars PROVE AttemptInv'
<1>0. /\ inbound \in [Id -> Row] /\ task \in [PumpTask -> TaskState]
      /\ lastId \in Nat /\ stray \subseteq Id \X Nat
  BY DEF TypeOK, TaskState
<1> DEFINE Goal == \A i \in Id : RowBounded(i)'
<1>a. \A i \in Id : RowBounded(i)
  BY DEF AttemptInv
<1>b. ASSUME Fault, \A i \in Id : inbound'[i].attempt = inbound[i].attempt PROVE Goal
  BY <1>a, <1>b, FaultGivesSlack DEF Fault
\* A task that guards nothing, or guards on, leaves all rows alone.
<1>c. ASSUME NEW t \in PumpTask, faults' = faults, inbound' = inbound,
             \A u \in PumpTask \ {t} : task'[u] = task[u],
             \A i \in Id : inbound[i].status = "processing" => ~Guards(t, i) \/ Guards(t, i)'
      PROVE  Goal
  BY <1>a, <1>c, UnguardedStep
<1>1. ASSUME Recv PROVE Goal
  <2>0. PICK n : n = lastId + 1
    OBVIOUS
  <2>1. PICK s \in Sessions : inbound' = [inbound EXCEPT ![n] =
           [session |-> s, status |-> "pending", attempt |-> 0, due |-> 0, lease |-> 0]]
    BY <1>1, <2>0 DEF Recv
  <2>2. n \in Id /\ RecvPump(n) \in PumpTask /\ n > lastId
    BY <1>0, <1>1, <2>0, GatewayQueueAssumption DEF Recv, Id, PumpTask
  <2>3. task[RecvPump(n)].pc = "off" /\ inbound[n].status = "absent"
    BY <2>2 DEF AttemptInv, Unspawned, IdsInOrder
  <2>4. \A u \in PumpTask \ {RecvPump(n)} : task'[u] = task[u]
    BY <1>0, <1>1, <2>0 DEF Recv
  <2>5. faults' = faults \/ faults' = faults + 1
    BY <1>1 DEF Recv, Fault
  <2>6. RowBounded(n)'
    <3>1. inbound'[n].status = "pending" /\ inbound'[n].attempt = 0
      BY <1>0, <2>1, <2>2
    <3> QED BY <2>2, <2>5, <3>1, RowNumbers DEF RowBounded, Slack
  <2>7. ASSUME NEW i \in Id \ {n} PROVE RowBounded(i)'
    <3>1. inbound'[i] = inbound[i]
      BY <1>0, <2>1
    <3>2. CASE faults' = faults
      <4>1. ~Guards(RecvPump(n), i)
        BY <2>3 DEF Guards
      <4> QED BY <1>a, <2>2, <2>4, <3>1, <3>2, <4>1, UnguardedStep
    <3>3. CASE faults' = faults + 1
      BY <1>a, <3>1, <3>3, RowNumbers DEF RowBounded, Slack
    <3> QED BY <2>5, <3>2, <3>3
  <2> QED BY <2>6, <2>7
<1>2. ASSUME NEW t \in PumpTask, Claim(t) PROVE Goal
  <2>1. PICK i \in Id :
          /\ Claimable(SessionOf(t), i) /\ ClaimRow(i)
          /\ task' = [task EXCEPT ![t] = [pc |-> "claimed", id |-> i, attempt |-> 0,
                         beaten |-> TRUE, lost |-> FALSE, result |-> "none"]]
    BY <1>2 DEF Claim
  <2>2. faults' = faults /\ task[t].pc = "ready"
    BY <1>2 DEF Claim
  <2>3. /\ inbound'[i] = [inbound[i] EXCEPT !.status  = "processing",
                                            !.attempt = inbound[i].attempt + 1,
                                            !.lease   = Lease]
        /\ inbound[i] \in Row
    BY <1>0, <2>1 DEF ClaimRow
  <2>4. /\ inbound'[i].status = "processing" /\ inbound'[i].lease = Lease
        /\ inbound'[i].attempt = inbound[i].attempt + 1
    BY <2>3 DEF Row
  <2>5. Slack(i)
    <3>1. CASE inbound[i].status = "pending"
      BY <1>a, <3>1 DEF RowBounded
    <3>2. CASE inbound[i].status = "processing" /\ inbound[i].lease = 0
      BY <1>a, <3>2 DEF RowBounded, Guards
    <3> QED BY <2>1, <3>1, <3>2 DEF Claimable
  <2>6. RowBounded(i)'
    <3>1. task'[t] = [pc |-> "claimed", id |-> i, attempt |-> 0,
                      beaten |-> TRUE, lost |-> FALSE, result |-> "none"]
      BY <1>0, <2>1
    <3>2. Guards(t, i)'
      BY <2>4, <3>1, RowNumbers DEF Guards
    <3>3. inbound'[i].attempt <= MaxAttempts + faults'
      BY <2>2, <2>4, <2>5 DEF Slack
    <3> QED BY <2>4, <3>2, <3>3 DEF RowBounded
  <2>7. ASSUME NEW j \in Id \ {i} PROVE RowBounded(j)'
    <3>1. inbound'[j] = inbound[j] /\ \A u \in PumpTask \ {t} : task'[u] = task[u]
      BY <1>0, <2>1 DEF ClaimRow
    <3>2. ~Guards(t, j)
      BY <2>2 DEF Guards
    <3> QED BY <1>a, <2>2, <3>1, <3>2, UnguardedStep
  <2> QED BY <2>6, <2>7
<1>3. ASSUME NEW t \in PumpTask, ReadBack(t) PROVE Goal
  <2>1. task[t] \in BusyTask /\ task[t].id \in Id
    BY <1>0, <1>3, Busy DEF ReadBack
  <2>2. task'[t] = [task[t] EXCEPT !.pc = "handling", !.attempt = inbound[task[t].id].attempt]
    BY <1>0, <1>3 DEF ReadBack
  <2>3. ASSUME NEW i \in Id, Guards(t, i) PROVE Guards(t, i)'
    <3>1. task[t].pc = "claimed" /\ ~task[t].lost /\ task[t].id = i
      BY <1>3, <2>3 DEF ReadBack, Guards
    <3>2. /\ task'[t].id = i /\ task'[t].pc = "handling"
          /\ task'[t].attempt = inbound[i].attempt
      BY <2>1, <2>2, <3>1 DEF BusyTask
    <3>3. task'[t].lost = task[t].lost /\ task'[t].beaten = task[t].beaten
      BY <2>1, <2>2, Zenon DEF BusyTask
    <3>4. inbound' = inbound
      BY <1>3 DEF ReadBack
    <3> QED BY <2>3, <3>1, <3>2, <3>3, <3>4 DEF Guards
  <2> QED BY <1>c, <1>0, <1>3, <2>3 DEF ReadBack
<1>4. ASSUME NEW t \in PumpTask, ClaimNothing(t) PROVE Goal
  <2>1. \A i \in Id : ~Guards(t, i)
    BY <1>4 DEF ClaimNothing, Guards
  <2>2. inbound' = inbound /\ \A u \in PumpTask \ {t} : task'[u] = task[u]
    BY <1>0, <1>4 DEF ClaimNothing, End
  <2>3. Fault \/ faults' = faults
    BY <1>4, Zenon DEF ClaimNothing
  <2> QED BY <1>b, <1>c, <2>1, <2>2, <2>3
<1>5. ASSUME NEW t \in PumpTask, Heartbeat(t) PROVE Goal
  <2>1. task[t] \in BusyTask /\ task[t].id \in Id /\ task[t].pc = "handling"
    BY <1>0, <1>5, Busy DEF Heartbeat
  <2>2. CASE Holds(task[t].id, task[t].attempt)
    <3>1. /\ inbound' = Renewed(task[t].id) /\ faults' = faults
          /\ task' = [task EXCEPT ![t] = [task[t] EXCEPT !.beaten = TRUE]]
      BY <1>5, <2>2 DEF Heartbeat
    <3>2. task'[t] = [task[t] EXCEPT !.beaten = TRUE] /\ \A u \in PumpTask \ {t} : task'[u] = task[u]
      BY <1>0, <3>1
    <3>3. /\ task'[t].id = task[t].id /\ task'[t].pc = task[t].pc
          /\ task'[t].attempt = task[t].attempt
          /\ task'[t].lost = task[t].lost /\ task'[t].result = task[t].result
      BY <2>1, <3>2 DEF BusyTask
    <3> QED BY <1>a, <2>1, <3>1, <3>2, <3>3, RenewedIsBounded
  <2>3. CASE ~Holds(task[t].id, task[t].attempt)
    <3>1. inbound' = inbound /\ faults' = faults /\ \A u \in PumpTask \ {t} : task'[u] = task[u]
      BY <1>0, <1>5, <2>3 DEF Heartbeat
    <3>2. \A i \in Id : inbound[i].status = "processing" => ~Guards(t, i)
      BY <2>1, <2>3 DEF Guards, Holds
    <3> QED BY <1>c, <3>1, <3>2
  <2> QED BY <2>2, <2>3
<1>6. ASSUME NEW t \in PumpTask, Return(t) PROVE Goal
  <2>1. task[t] \in BusyTask
    BY <1>0, <1>6, Busy DEF Return
  <2>2. PICK r \in {"ok", "retryable", "permanent"} :
          task' = [task EXCEPT ![t] =
            [@ EXCEPT !.pc = "settling", !.beaten = FALSE, !.lost = FALSE,
                      !.result = IF task[t].lost THEN "leaseLost" ELSE r]]
    BY <1>6 DEF Return
  <2>3. ASSUME NEW i \in Id, Guards(t, i) PROVE Guards(t, i)'
    <3>1. task[t].pc = "handling" /\ ~task[t].lost
      BY <1>6, <2>3 DEF Return, Guards
    <3>2. task'[t] = [task[t] EXCEPT !.pc = "settling", !.beaten = FALSE, !.lost = FALSE,
                                     !.result = r]
      BY <1>0, <2>2, <3>1
    <3>3. /\ task'[t].id = task[t].id /\ task'[t].pc = "settling"
          /\ task'[t].attempt = task[t].attempt /\ task'[t].result = r
          /\ task'[t].beaten = FALSE
      BY <2>1, <3>2 DEF BusyTask
    <3> QED BY <1>6, <2>3, <3>1, <3>3 DEF Guards, Return
  <2> QED BY <1>0, <1>c, <1>6, <2>3 DEF Return
<1>7. ASSUME NEW t \in PumpTask, Settle(t) PROVE Goal
  <2>1. task[t].id \in Id /\ task[t].attempt \in Nat /\ task[t].pc = "settling"
    BY <1>0, <1>7, Busy DEF Settle
  <2>2. faults' = faults /\ \A u \in PumpTask \ {t} : task'[u] = task[u]
    BY <1>0, <1>7 DEF Settle, End
  <2>3. CASE Complete(t)
    BY <1>a, <2>1, <2>2, <2>3, FinishIsBounded DEF Complete
  <2>4. CASE Fail(t)
    BY <1>a, <2>1, <2>2, <2>4, FinishIsBounded DEF Fail
  <2>5. CASE GiveUp(t)
    <3>1. inbound' = inbound /\ \A i \in Id : ~Guards(t, i)
      BY <2>1, <2>5 DEF GiveUp, Guards
    <3> QED BY <1>c, <2>2, <3>1
  <2>6. CASE Retry(t)
    <3>0. PICK i : i = task[t].id
      OBVIOUS
    <3>1. PICK d \in 0..Backoff :
            inbound' = IF Holds(i, task[t].attempt)
                         THEN [inbound EXCEPT ![i] =
                                 [@ EXCEPT !.status = "pending", !.due = d, !.lease = 0]]
                         ELSE inbound
      BY <2>6, <3>0, Zenon DEF Retry
    <3>2. i \in Id /\ task[t].attempt < MaxAttempts
      BY <2>1, <2>6, <3>0 DEF Retry, Retries
    <3>3. CASE Holds(i, task[t].attempt)
      <4>0. \A j \in Id : j # i => ~Guards(t, j)
        BY <3>0 DEF Guards
      <4>1. /\ inbound'[i] = [inbound[i] EXCEPT !.status = "pending", !.due = d, !.lease = 0]
            /\ \A j \in Id \ {i} : inbound'[j] = inbound[j]
            /\ inbound[i] \in Row
        BY <1>0, <3>1, <3>2, <3>3
      <4>2. inbound'[i].status = "pending" /\ inbound'[i].attempt = task[t].attempt
        BY <3>3, <4>1 DEF Row, Holds
      <4>3. RowBounded(i)'
        BY <2>1, <2>2, <3>2, <4>2, RowNumbers DEF RowBounded, Slack
      <4>4. \A j \in Id \ {i} : RowBounded(j)'
        BY <1>a, <2>2, <4>0, <4>1, UnguardedStep
      <4> QED BY <4>3, <4>4
    <3>4. CASE ~Holds(i, task[t].attempt)
      <4>1. \A j \in Id : inbound[j].status = "processing" => ~Guards(t, j)
        BY <2>1, <3>0, <3>4 DEF Guards, Holds
      <4>2. inbound' = inbound
        BY <3>1, <3>4
      <4> QED BY <1>c, <2>2, <4>1, <4>2
    <3> QED BY <3>3, <3>4
  <2> QED BY <1>7, <2>3, <2>4, <2>5, <2>6 DEF Settle
<1>8. ASSUME NEW t \in PumpTask, ReadBackError(t) \/ SettleError(t) PROVE Goal
  BY <1>b, <1>8 DEF ReadBackError, SettleError
<1>9. ASSUME NEW h \in stray, StrayHeartbeat(h) PROVE Goal
  <2>1. h[1] \in Id
    BY <1>0
  <2>2. task' = task /\ faults' = faults
    BY <1>9 DEF StrayHeartbeat
  <2>3. CASE Holds(h[1], h[2])
    <3>1. inbound' = Renewed(h[1])
      BY <1>9, <2>3 DEF StrayHeartbeat
    <3> QED BY <1>a, <2>1, <2>2, <3>1, RenewedIsBounded
  <2>4. CASE ~Holds(h[1], h[2])
    <3>1. inbound' = inbound
      BY <1>9, <2>4 DEF StrayHeartbeat
    <3> QED BY <1>a, <2>2, <3>1 DEF RowBounded, Slack, Guards
  <2> QED BY <2>3, <2>4
<1>10. ASSUME Tick PROVE Goal
  <2>1. inbound' = [i \in Id |-> [inbound[i] EXCEPT !.lease = Minus1(inbound[i].lease),
                                                    !.due = Minus1(inbound[i].due)]]
    BY <1>10, Zenon DEF Tick
  <2>2. ASSUME NEW i \in Id
        PROVE  /\ inbound'[i].lease = Minus1(inbound[i].lease)
               /\ inbound'[i].status = inbound[i].status
               /\ inbound'[i].attempt = inbound[i].attempt
    <3> DEFINE l == Minus1(inbound[i].lease)
               d == Minus1(inbound[i].due)
    <3>1. inbound[i] \in Row /\ inbound'[i] = [inbound[i] EXCEPT !.lease = l, !.due = d]
      BY <1>0, <2>1, Zenon
    <3> HIDE DEF l, d
    <3>2. /\ inbound'[i].lease = l /\ inbound'[i].status = inbound[i].status
          /\ inbound'[i].attempt = inbound[i].attempt
      BY <3>1 DEF Row
    <3> QED BY <3>2 DEF l
  <2>3. CASE \E t \in PumpTask : Late(t)
    <3>1. Fault
      BY <1>10, <2>3, Zenon DEF Tick
    <3> QED BY <1>b, <2>2, <3>1
  <2>4. CASE ~\E t \in PumpTask : Late(t)
    <3>1. faults' = faults
      BY <1>10, <2>4, Zenon DEF Tick
    <3>2. ASSUME NEW i \in Id, NEW t \in PumpTask, Guards(t, i) PROVE Guards(t, i)'
      <4>1. task[t].beaten /\ task[t].pc # "settling" /\ task[t].pc \in {"claimed", "handling", "settling"}
        BY <2>4, <3>2, Zenon DEF Late, Guards
      <4>2. task[t] \in BusyTask
        BY <1>0, <4>1, Busy
      <4>3. task'[t] = [task[t] EXCEPT !.beaten = FALSE]
        <5>1. task' = [u \in PumpTask |-> [task[u] EXCEPT !.beaten = FALSE]]
          BY <1>10, Zenon DEF Tick
        <5> QED BY <5>1
      <4>4. /\ task'[t].id = task[t].id /\ task'[t].pc = task[t].pc
            /\ task'[t].attempt = task[t].attempt /\ task'[t].result = task[t].result
            /\ task'[t].beaten = FALSE
        BY <4>2, <4>3 DEF BusyTask
      <4>5. task'[t].lost = task[t].lost
        BY <4>2, <4>3 DEF BusyTask
      <4>6. inbound[i].lease >= Lease
        BY <3>2, <4>1 DEF Guards
      <4>7. inbound'[i].lease >= 1
        BY <2>2, <4>6, RowNumbers DEF Minus1
      <4> QED BY <2>2, <3>2, <4>1, <4>4, <4>5, <4>7 DEF Guards
    <3> QED BY <1>a, <2>2, <3>1, <3>2, KeptIsBounded
  <2> QED BY <2>3, <2>4
<1>11. ASSUME Crash PROVE Goal
  BY <1>b, <1>11 DEF Crash
<1>12. ASSUME UNCHANGED vars PROVE Goal
  BY <1>a, <1>12 DEF vars, RowBounded, Slack, Guards
<1> HIDE DEF Goal
<1>13. Goal
  BY <1>1, <1>2, <1>3, <1>4, <1>5, <1>6, <1>7, <1>8, <1>9, <1>10, <1>11, <1>12 DEF Next
<1>14. Unspawned'
  BY UnspawnedStep DEF AttemptInv
<1> QED BY <1>13, <1>14 DEF Goal, AttemptInv

\* A message is tried beyond the limit only because of faults, when a lease
\* outlives a period between two heartbeats.
THEOREM AttemptsBounded == ASSUME 1 < Lease PROVE Spec => []AttemptsBoundedByFaults
<1>1. Init => AttemptInv
  BY GatewayQueueAssumption
     DEF Init, AttemptInv, Unspawned, RowBounded, AbsentRow, InitialTasks, Resting, PumpTask, RecvPump
<1>2. QueueInv /\ AttemptInv /\ [Next]_vars => AttemptInv'
  BY AttemptStep DEF QueueInv
<1>3. AttemptInv => AttemptsBoundedByFaults
  BY DEF AttemptInv, RowBounded, AttemptsBoundedByFaults
<1> QED
  BY <1>1, <1>2, <1>3, QueueInvInit, QueueInvStep, PTL DEF Spec

-----------------------------------------------------------------------------
(* Workers beyond the first are paid for by stalled periods *)

BusyPcs == {"claimed", "handling", "settling"}

\* Tasks work on accepted messages.
AtWork == \A t \in PumpTask : task[t].pc \in BusyPcs => inbound[task[t].id].status # "absent"

\* t may still settle its message.
Keeps(t) == Guards(t, task[t].id) /\ inbound[task[t].id].status = "processing"

Cost(n) == n * (Lease - 1)

\* Every worker has been paid for, ...
Paid(s) == faults >= Cost(Cardinality(Workers(s)))

\* ... or all but one, and the periods that its lease has come down.
PartPaid(s, l) ==
  LET c == Cost(Cardinality(Workers(s)) - 1) IN faults >= c /\ faults + l >= c + Lease - 1

StallInv(s) ==
  /\ IsFiniteSet(Workers(s))
  /\ Paid(s) \/ \E t \in Workers(s) : Keeps(t) /\ PartPaid(s, inbound[task[t].id].lease)

LEMMA Costs ==
  /\ \A n \in Nat : Cost(n) \in Nat /\ Cost(n + 1) = Cost(n) + (Lease - 1)
  /\ \A m, n \in Nat : m <= n => Cost(m) <= Cost(n)
<1>1. PICK k \in Nat : k = Lease - 1
  BY GatewayQueueAssumption
<1>2. ASSUME NEW n \in Nat PROVE n * k \in Nat /\ (n + 1) * k = n * k + k
  OBVIOUS
<1>3. ASSUME NEW m \in Nat, NEW n \in Nat, m <= n PROVE m * k <= n * k
  <2>1. PICK d \in Nat : n = m + d
    <3>1. n - m \in Nat /\ n = m + (n - m)
      BY <1>3
    <3> QED BY <3>1
  <2>2. n * k = m * k + d * k /\ m * k \in Nat /\ d * k \in Nat
    BY <2>1
  <2> QED BY <2>2
<1> QED BY <1>1, <1>2, <1>3 DEF Cost

\* A step at which t goes on as before, with its lease at least as well paid.
KeepsOn(t) ==
  /\ Keeps(t)'
  /\ task'[t].id = task[t].id
  /\ LET i == task[t].id IN
     \/ inbound'[i].lease >= Lease - 1
     \/ inbound'[i].lease + faults' >= inbound[i].lease + faults

Expires(t) == faults' = faults + 1 /\ inbound[task[t].id].lease = 1

LEMMA StallKept ==
  ASSUME TypeOK, TypeOK', NEW s, StallInv(s), faults' >= faults, Workers(s)' \subseteq Workers(s),
         \A t \in Workers(s) : Keeps(t) => KeepsOn(t) \/ Workers(s)' # Workers(s) \/ Expires(t)
  PROVE  StallInv(s)'
<1>0. /\ faults \in Nat /\ faults' \in Nat /\ Lease \in Nat
      /\ IsFiniteSet(Workers(s))
  BY GatewayQueueAssumption DEF TypeOK, StallInv
<1>1. PICK n \in Nat : n = Cardinality(Workers(s))
  BY <1>0, FS_CardinalityType
<1>2. IsFiniteSet(Workers(s)')
  BY <1>0, FS_Subset
<1>3. PICK m \in Nat : m = Cardinality(Workers(s)')
  BY <1>2, FS_CardinalityType
<1>4. m <= n
  BY <1>0, <1>1, <1>3, FS_Subset
<1>5. Workers(s)' # Workers(s) => n >= 1 /\ m <= n - 1
  <2> SUFFICES ASSUME Workers(s)' # Workers(s) PROVE n >= 1 /\ m <= n - 1
    OBVIOUS
  <2>1. PICK t \in Workers(s) : t \notin Workers(s)'
    OBVIOUS
  <2>2. IsFiniteSet(Workers(s) \ {t}) /\ Cardinality(Workers(s) \ {t}) = n - 1
    BY <1>0, <1>1, <2>1, FS_RemoveElement
  <2>3. Workers(s)' \subseteq Workers(s) \ {t}
    BY <2>1
  <2>4. m <= n - 1
    BY <1>3, <2>2, <2>3, FS_Subset
  <2> QED BY <2>4
<1>6. (faults' >= Cost(m)) => StallInv(s)'
  BY <1>2, <1>3 DEF StallInv, Paid
<1>7. CASE Paid(s)
  BY <1>0, <1>1, <1>4, <1>6, <1>7, Costs DEF Paid
<1>8. ASSUME NEW t \in Workers(s), Keeps(t), PartPaid(s, inbound[task[t].id].lease)
      PROVE  StallInv(s)'
  <2> DEFINE l == inbound[task[t].id].lease
  <2>0. n >= 1 /\ n - 1 \in Nat /\ (n - 1) + 1 = n
    BY <1>0, <1>1, FS_EmptySet
  <2>1. /\ Cost(n - 1) \in Nat /\ Cost(n) = Cost(n - 1) + (Lease - 1)
        /\ Cost(m) <= Cost(n)
    BY <1>4, <2>0, Costs
  <2>2. faults >= Cost(n - 1) /\ faults + l >= Cost(n - 1) + Lease - 1
    BY <1>1, <1>8 DEF PartPaid
  <2>3. CASE Workers(s)' # Workers(s)
    <3>1. Cost(m) <= Cost(n - 1) /\ Cost(m) \in Nat
      BY <1>5, <2>0, <2>3, Costs
    <3> QED BY <1>0, <1>6, <2>1, <2>2, <3>1
  <2>4. CASE Expires(t)
    <3>1. Cost(m) \in Nat /\ Cost(n) \in Nat
      BY Costs
    <3>2. faults' = faults + 1 /\ l = 1
      BY <2>4 DEF Expires
    <3>3. faults' >= Cost(n)
      BY <1>0, <2>1, <2>2, <3>2
    <3> QED BY <1>0, <1>6, <2>1, <3>1, <3>3
  <2>5. CASE Workers(s)' = Workers(s) /\ KeepsOn(t)
    <3>1. m = n
      BY <1>1, <1>3, <2>5
    <3>2. /\ Keeps(t)' /\ task'[t].id = task[t].id
          /\ inbound'[task[t].id].lease >= Lease - 1
             \/ inbound'[task[t].id].lease + faults' >= l + faults
      BY <2>5 DEF KeepsOn
    <3>3. task[t].id \in Id /\ l \in Nat /\ inbound'[task[t].id].lease \in Nat
      <4>1. t \in PumpTask /\ task[t].pc \in {"claimed", "handling", "settling"}
        BY DEF Workers
      <4>2. task[t].id \in Id
        BY <4>1, Busy DEF TypeOK, TaskState
      <4>3. inbound[task[t].id] \in Row /\ inbound'[task[t].id] \in Row
        BY <4>2 DEF TypeOK
      <4> QED BY <4>2, <4>3 DEF Row
    <3>4. /\ faults' >= Cost(n - 1)
          /\ faults' + inbound'[task[t].id].lease >= Cost(n - 1) + Lease - 1
      <4> HIDE DEF l
      <4> QED BY <1>0, <2>1, <2>2, <3>2, <3>3
    <3>5. PartPaid(s, inbound[task[t].id].lease)'
      BY <1>3, <3>1, <3>2, <3>4 DEF PartPaid
    <3>6. t \in Workers(s)'
      BY <2>5
    <3> QED BY <1>2, <3>2, <3>5, <3>6 DEF StallInv
  <2> QED BY <1>8, <2>3, <2>4, <2>5
<1> QED BY <1>7, <1>8 DEF StallInv

\* Accepted messages stay in their sessions.
LEMMA RowsStay ==
  ASSUME TypeOK, IdsInOrder, [Next]_vars, NEW i \in Id, inbound[i].status # "absent"
  PROVE  inbound'[i].status # "absent" /\ inbound'[i].session = inbound[i].session
<1>0. RowStep /\ lastId \in Nat
  BY NextIsRowStep DEF TypeOK
<1>1. CASE AcceptStep
  <2>1. i # lastId + 1
    BY <1>0 DEF IdsInOrder
  <2> QED BY <1>1, <2>1 DEF AcceptStep, Untouched
<1>2. ASSUME NEW j \in Id, ClaimStep(j) \/ RetryStep(j)
      PROVE  inbound'[i].status # "absent" /\ inbound'[i].session = inbound[i].session
  BY <1>2 DEF ClaimStep, RetryStep, Untouched
<1>3. ASSUME NEW j \in Id, NEW st \in {"done", "failed"}, NEW k, FinishStep(j, st, k)
      PROVE  inbound'[i].status # "absent" /\ inbound'[i].session = inbound[i].session
  BY <1>3 DEF FinishStep, Untouched
<1>4. CASE QuietStep
  BY <1>4 DEF QuietStep, Untouched
<1> QED BY <1>0, <1>1, <1>2, <1>3, <1>4 DEF RowStep

\* A task comes to work by a claim only.
LEMMA BusyStay ==
  ASSUME TypeOK, [Next]_vars, NEW t \in PumpTask, task'[t].pc \in BusyPcs, ~Claim(t)
  PROVE  task[t].pc \in BusyPcs /\ task'[t].id = task[t].id
<1>0. task \in [PumpTask -> TaskState] /\ task[t] \in TaskState
  BY DEF TypeOK, TaskState
<1> DEFINE Goal == task[t].pc \in BusyPcs /\ task'[t].id = task[t].id
<1>1. ASSUME task'[t] = task[t] PROVE Goal
  BY <1>1
<1>2. ASSUME NEW u \in PumpTask, \A v \in PumpTask \ {u} : task'[v] = task[v], u # t PROVE Goal
  BY <1>1, <1>2
<1>3. \A u \in PumpTask : End(u) => (\A v \in PumpTask \ {u} : task'[v] = task[v]) /\ task'[u].pc \in {"off", "ready"}
  BY <1>0 DEF End, Resting
<1>4. CASE Recv
  <2>0. PICK n : n = RecvPump(lastId + 1)
    OBVIOUS
  <2>1. PICK pc \in {"ready", "off"} : task' = [task EXCEPT ![n] = Resting(pc)]
    BY <1>4, <2>0 DEF Recv
  <2>2. CASE t = n
    BY <1>0, <2>1, <2>2 DEF Resting, BusyPcs
  <2> QED BY <1>0, <1>1, <2>1, <2>2
<1>5. ASSUME NEW u \in PumpTask, Claim(u) PROVE Goal
  <2>1. u # t /\ \A v \in PumpTask \ {u} : task'[v] = task[v]
    BY <1>0, <1>5 DEF Claim
  <2> QED BY <1>2, <2>1
<1>6. ASSUME NEW u \in PumpTask, ReadBack(u) \/ Heartbeat(u) \/ Return(u) PROVE Goal
  <2>1. /\ task[u].pc \in BusyPcs
        /\ \A v \in PumpTask \ {u} : task'[v] = task[v]
    BY <1>0, <1>6 DEF ReadBack, Heartbeat, Return, BusyPcs
  <2>2. CASE u = t
    <3>1. task[t] \in BusyTask
      BY <1>0, <2>1, <2>2, Busy DEF BusyPcs
    <3>2. task'[t].id = task[t].id
      <4>1. CASE ReadBack(u)
        <5>1. task'[t] = [task[t] EXCEPT !.pc = "handling", !.attempt = inbound[task[t].id].attempt]
          BY <1>0, <2>2, <4>1 DEF ReadBack
        <5> QED BY <3>1, <5>1 DEF BusyTask
      <4>2. CASE Heartbeat(u)
        <5>1. task'[t] = [task[t] EXCEPT !.beaten = TRUE] \/ task'[t] = [task[t] EXCEPT !.lost = TRUE]
          BY <1>0, <2>2, <4>2 DEF Heartbeat
        <5> QED BY <3>1, <5>1 DEF BusyTask
      <4>3. CASE Return(u)
        <5>1. PICK r \in {"ok", "retryable", "permanent"} :
                task' = [task EXCEPT ![t] =
                  [@ EXCEPT !.pc = "settling", !.beaten = FALSE, !.lost = FALSE,
                            !.result = IF task[t].lost THEN "leaseLost" ELSE r]]
          BY <2>2, <4>3 DEF Return
        <5> DEFINE x == IF task[t].lost THEN "leaseLost" ELSE r
        <5>2. task'[t] = [task[t] EXCEPT !.pc = "settling", !.beaten = FALSE, !.lost = FALSE, !.result = x]
          BY <1>0, <5>1
        <5> HIDE DEF x
        <5> QED BY <3>1, <5>2 DEF BusyTask
      <4> QED BY <1>6, <4>1, <4>2, <4>3
    <3> QED BY <2>1, <2>2, <3>2
  <2> QED BY <1>2, <2>1, <2>2
<1>7. ASSUME NEW u \in PumpTask, ReadBackError(u) \/ ClaimNothing(u) \/ Settle(u) \/ SettleError(u) PROVE Goal
  <2>1. End(u)
    BY <1>7 DEF ReadBackError, ClaimNothing, Settle, SettleError
  <2>2. u # t
    BY <1>3, <2>1 DEF BusyPcs
  <2> QED BY <1>2, <1>3, <2>1, <2>2
<1>8. CASE Tick
  <2>1. task'[t] = [task[t] EXCEPT !.beaten = FALSE]
    <3>1. task' = [u \in PumpTask |-> [task[u] EXCEPT !.beaten = FALSE]]
      BY <1>8, Zenon DEF Tick
    <3> QED BY <3>1
  <2>2. task'[t].pc = task[t].pc /\ task'[t].id = task[t].id
    BY <1>0, <2>1 DEF TaskState, BusyTask, IdleTask
  <2> QED BY <2>2
<1>9. CASE Crash
  <2>1. task'[t].pc \in {"ready", "off"}
    BY <1>9 DEF Crash, InitialTasks, Resting
  <2> QED BY <2>1 DEF BusyPcs
<1>10. ASSUME task' = task PROVE Goal
  BY <1>1, <1>10
<1> QED BY <1>4, <1>5, <1>6, <1>7, <1>8, <1>9, <1>10 DEF Next, StrayHeartbeat, vars

LEMMA AtWorkStep ==
  ASSUME TypeOK, IdsInOrder, AtWork, [Next]_vars
  PROVE  AtWork'
<1> SUFFICES ASSUME NEW t \in PumpTask, task'[t].pc \in BusyPcs
             PROVE  inbound'[task'[t].id].status # "absent"
  BY DEF AtWork
<1>0. task \in [PumpTask -> TaskState]
  BY DEF TypeOK, TaskState
<1>1. CASE Claim(t)
  <2>1. PICK i \in Id : /\ Claimable(SessionOf(t), i)
                        /\ task' = [task EXCEPT ![t] = [pc |-> "claimed", id |-> i, attempt |-> 0,
                                                        beaten |-> TRUE, lost |-> FALSE, result |-> "none"]]
    BY <1>1 DEF Claim
  <2>2. task'[t].id = i /\ inbound[i].status # "absent"
    BY <1>0, <2>1 DEF Claimable
  <2> QED BY <2>2, RowsStay
<1>2. CASE ~Claim(t)
  <2>1. task[t].pc \in BusyPcs /\ task'[t].id = task[t].id
    BY <1>2, BusyStay
  <2>2. task[t].id \in Id /\ inbound[task[t].id].status # "absent"
    BY <1>0, <2>1, Busy DEF AtWork, BusyPcs
  <2> QED BY <2>1, <2>2, RowsStay
<1> QED BY <1>1, <1>2

\* Whoever and whatever a step leaves alone is kept as it was.
LEMMA SameKeeps ==
  ASSUME TypeOK, faults' >= faults, NEW t \in PumpTask, Keeps(t), task'[t] = task[t],
         inbound'[task[t].id] = inbound[task[t].id], task[t].id \in Id,
         faults' \in Nat
  PROVE  KeepsOn(t)
<1>1. Keeps(t)'
  BY DEF Keeps, Guards
<1> QED BY <1>1, RowNumbers DEF KeepsOn

\* A renewal pays for itself.
LEMMA RenewKeeps ==
  ASSUME TypeOK, faults' = faults, NEW t \in PumpTask, Keeps(t), task[t].id \in Id,
         NEW j \in Id, inbound' = Renewed(j),
         task'[t].id = task[t].id, task'[t].pc = task[t].pc, task'[t].attempt = task[t].attempt,
         task'[t].lost = task[t].lost, task'[t].result = task[t].result,
         task[t].id # j => task'[t] = task[t]
  PROVE  KeepsOn(t)
<1>1. CASE task[t].id = j
  <2>1. inbound[j] \in Row /\ inbound'[j] = [inbound[j] EXCEPT !.lease = Lease]
    BY DEF TypeOK, Renewed
  <2>2. /\ inbound'[j].lease = Lease /\ inbound'[j].attempt = inbound[j].attempt
        /\ inbound'[j].status = inbound[j].status
    BY <2>1 DEF Row
  <2>3. Keeps(t)'
    BY <1>1, <2>2, RowNumbers DEF Keeps, Guards
  <2> QED BY <1>1, <2>2, <2>3, RowNumbers DEF KeepsOn
<1>2. CASE task[t].id # j
  <2>1. inbound'[task[t].id] = inbound[task[t].id]
    BY <1>2 DEF TypeOK, Renewed
  <2> QED BY <1>2, <2>1, SameKeeps, RowNumbers
<1> QED BY <1>1, <1>2

\* A task that keeps its message goes on with it until it settles, and in a
\* period in which it does not come down to its last it need not pay.
LEMMA KeeperGoesOn ==
  ASSUME 1 < Lease, TypeOK, TypeOK', IdsInOrder, AtWork, [Next]_vars, faults' >= faults,
         NEW s, NEW t \in Workers(s), Keeps(t), Workers(s)' = Workers(s), ~Claim(t)
  PROVE  KeepsOn(t) \/ Expires(t)
<1>0. /\ task \in [PumpTask -> TaskState] /\ inbound \in [Id -> Row] /\ stray \subseteq Id \X Nat
      /\ faults \in Nat /\ faults' \in Nat /\ lastId \in Nat
      /\ t \in PumpTask /\ task[t].pc \in BusyPcs /\ inbound[task[t].id].session = s
  BY DEF TypeOK, TaskState, Workers, BusyPcs
<1>1. /\ task[t] \in BusyTask /\ task[t].id \in Id
      /\ inbound[task[t].id] \in Row /\ inbound[task[t].id].status # "absent"
  BY <1>0, Busy DEF BusyPcs, AtWork
\* Every worker is still at work.
<1>2. \A u \in Workers(s) : task'[u].pc \in BusyPcs
  BY DEF Workers, BusyPcs
<1> DEFINE Goal == KeepsOn(t) \/ Expires(t)
<1>3. ASSUME task'[t] = task[t], inbound'[task[t].id] = inbound[task[t].id] PROVE Goal
  BY <1>0, <1>1, <1>3, SameKeeps
<1>4. \A u \in PumpTask : End(u) => (\A v \in PumpTask \ {u} : task'[v] = task[v]) /\ task'[u].pc \notin BusyPcs
  BY <1>0 DEF End, Resting, BusyPcs
<1>5. CASE Recv
  <2>0. PICK n : n = lastId + 1
    OBVIOUS
  <2>1. n \in Id /\ RecvPump(n) \in PumpTask /\ n > lastId
    BY <1>0, <1>5, <2>0, GatewayQueueAssumption DEF Recv, Id, PumpTask
  <2>2. inbound[n].status = "absent"
    BY <2>1 DEF IdsInOrder
  <2>3. inbound'[task[t].id] = inbound[task[t].id]
    BY <1>0, <1>1, <1>5, <2>0, <2>2 DEF Recv
  <2>4. task'[t] = task[t]
    <3>1. PICK pc \in {"ready", "off"} : task' = [task EXCEPT ![RecvPump(n)] = Resting(pc)]
      BY <1>5, <2>0 DEF Recv
    <3>2. t # RecvPump(n)
      <4>1. task'[t].pc \in BusyPcs
        BY <1>2
      <4> QED BY <1>0, <3>1, <4>1 DEF Resting, BusyPcs
    <3> QED BY <1>0, <3>1, <3>2
  <2> QED BY <1>3, <2>3, <2>4
<1>6. ASSUME NEW u \in PumpTask, Claim(u) PROVE Goal
  <2>1. PICK i \in Id : /\ Claimable(SessionOf(u), i) /\ ClaimRow(i)
                        /\ \A v \in PumpTask \ {u} : task'[v] = task[v]
    BY <1>0, <1>6 DEF Claim
  <2>2. t # u /\ task[t].id # i
    BY <1>6, <2>1 DEF Keeps, Guards, Claimable
  <2>3. inbound'[task[t].id] = inbound[task[t].id]
    BY <1>0, <1>1, <2>1, <2>2 DEF ClaimRow
  <2> QED BY <1>0, <1>3, <2>1, <2>2, <2>3
<1>7. ASSUME NEW u \in PumpTask, ReadBack(u) PROVE Goal
  <2>1. inbound' = inbound /\ faults' = faults /\ \A v \in PumpTask \ {u} : task'[v] = task[v]
    BY <1>0, <1>7 DEF ReadBack
  <2>2. CASE u = t
    <3>1. task'[t] = [task[t] EXCEPT !.pc = "handling", !.attempt = inbound[task[t].id].attempt]
      BY <1>0, <1>7, <2>2 DEF ReadBack
    <3>2. /\ task'[t].id = task[t].id /\ task'[t].pc = "handling"
          /\ task'[t].attempt = inbound[task[t].id].attempt
      BY <1>1, <3>1 DEF BusyTask
    <3>3. task'[t].lost = task[t].lost /\ task'[t].beaten = task[t].beaten
      BY <1>1, <3>1, Zenon DEF BusyTask
    <3>4. task[t].pc = "claimed"
      BY <1>7, <2>2 DEF ReadBack
    <3>5. Keeps(t)'
      BY <2>1, <3>2, <3>3, <3>4 DEF Keeps, Guards
    <3> QED BY <1>1, <2>1, <3>2, <3>5, RowNumbers DEF KeepsOn
  <2> QED BY <1>0, <1>3, <2>1, <2>2
<1>8. ASSUME NEW u \in PumpTask, Heartbeat(u) PROVE Goal
  <2>1. task[u] \in BusyTask /\ task[u].id \in Id /\ task[u].pc = "handling"
    BY <1>0, <1>8, Busy DEF Heartbeat
  <2>2. CASE Holds(task[u].id, task[u].attempt)
    <3>1. /\ inbound' = Renewed(task[u].id) /\ faults' = faults
          /\ task' = [task EXCEPT ![u] = [task[u] EXCEPT !.beaten = TRUE]]
      BY <1>8, <2>2 DEF Heartbeat
    <3>2. task'[u] = [task[u] EXCEPT !.beaten = TRUE] /\ \A v \in PumpTask \ {u} : task'[v] = task[v]
      BY <1>0, <3>1
    <3>3. /\ task'[u].id = task[u].id /\ task'[u].pc = task[u].pc
          /\ task'[u].attempt = task[u].attempt
          /\ task'[u].lost = task[u].lost /\ task'[u].result = task[u].result
      BY <2>1, <3>2 DEF BusyTask
    <3> QED BY <1>0, <1>1, <2>1, <3>1, <3>2, <3>3, RenewKeeps
  <2>3. CASE ~Holds(task[u].id, task[u].attempt)
    <3>1. inbound' = inbound /\ \A v \in PumpTask \ {u} : task'[v] = task[v]
      BY <1>0, <1>8, <2>3 DEF Heartbeat
    <3>2. u # t
      BY <2>1, <2>3 DEF Keeps, Guards, Holds
    <3> QED BY <1>0, <1>3, <3>1, <3>2
  <2> QED BY <2>2, <2>3
<1>9. ASSUME NEW u \in PumpTask, Return(u) PROVE Goal
  <2>1. inbound' = inbound /\ faults' = faults /\ \A v \in PumpTask \ {u} : task'[v] = task[v]
    BY <1>0, <1>9 DEF Return
  <2>2. CASE u = t
    <3>1. task[t].pc = "handling" /\ ~task[t].lost
      BY <1>9, <2>2 DEF Return, Keeps, Guards
    <3>2. PICK r \in {"ok", "retryable", "permanent"} :
            task'[t] = [task[t] EXCEPT !.pc = "settling", !.beaten = FALSE, !.lost = FALSE, !.result = r]
      BY <1>0, <1>9, <2>2, <3>1 DEF Return
    <3>3. /\ task'[t].id = task[t].id /\ task'[t].pc = "settling"
          /\ task'[t].attempt = task[t].attempt /\ task'[t].result = r
          /\ task'[t].beaten = FALSE
      BY <1>1, <3>2 DEF BusyTask
    <3>4. Keeps(t)'
      BY <2>1, <3>1, <3>3 DEF Keeps, Guards
    <3> QED BY <1>1, <2>1, <3>3, <3>4, RowNumbers DEF KeepsOn
  <2> QED BY <1>0, <1>3, <2>1, <2>2
<1>10. ASSUME NEW u \in PumpTask, ReadBackError(u) \/ ClaimNothing(u) \/ SettleError(u) PROVE Goal
  <2>1. End(u) /\ inbound' = inbound
    BY <1>10 DEF ReadBackError, ClaimNothing, SettleError
  <2>2. u # t
    BY <1>2, <1>4, <2>1
  <2> QED BY <1>0, <1>3, <1>4, <2>1, <2>2
<1>11. ASSUME NEW u \in PumpTask, Settle(u) PROVE Goal
  <2>1. End(u) /\ task[u].pc = "settling" /\ task[u].id \in Id
    BY <1>0, <1>11, Busy DEF Settle
  <2>2. u # t /\ u \notin Workers(s)
    BY <1>2, <1>4, <2>1
  <2>3. task[u].id # task[t].id
    BY <1>0, <2>1, <2>2 DEF Workers
  <2>4. inbound'[task[t].id] = inbound[task[t].id]
    <3>1. CASE Complete(u)
      BY <1>0, <1>1, <2>1, <2>3, <3>1 DEF Complete, Finish
    <3>2. CASE Fail(u)
      BY <1>0, <1>1, <2>1, <2>3, <3>2 DEF Fail, Finish
    <3>3. CASE Retry(u)
      BY <1>0, <1>1, <2>1, <2>3, <3>3 DEF Retry
    <3>4. CASE GiveUp(u)
      BY <3>4 DEF GiveUp
    <3> QED BY <1>11, <3>1, <3>2, <3>3, <3>4 DEF Settle
  <2> QED BY <1>0, <1>3, <1>4, <2>1, <2>2, <2>4
<1>12. ASSUME NEW h \in stray, StrayHeartbeat(h) PROVE Goal
  <2>1. h[1] \in Id /\ task' = task /\ faults' = faults
    BY <1>0, <1>12 DEF StrayHeartbeat
  <2>2. CASE inbound' = inbound
    BY <1>3, <2>1, <2>2
  <2>3. CASE inbound' = Renewed(h[1])
    BY <1>0, <1>1, <2>1, <2>3, RenewKeeps
  <2> QED BY <1>12, <2>2, <2>3 DEF StrayHeartbeat
<1>13. CASE Tick
  <2> DEFINE i == task[t].id
  <2>1. inbound' = [j \in Id |-> [inbound[j] EXCEPT !.lease = Minus1(inbound[j].lease),
                                                    !.due = Minus1(inbound[j].due)]]
    BY <1>13, Zenon DEF Tick
  <2>2. /\ inbound'[i].lease = Minus1(inbound[i].lease)
        /\ inbound'[i].status = inbound[i].status
        /\ inbound'[i].attempt = inbound[i].attempt
    <3> DEFINE l == Minus1(inbound[i].lease)
               d == Minus1(inbound[i].due)
    <3>1. inbound[i] \in Row /\ inbound'[i] = [inbound[i] EXCEPT !.lease = l, !.due = d]
      BY <1>0, <1>1, <2>1, Zenon
    <3> HIDE DEF l, d
    <3>2. /\ inbound'[i].lease = l /\ inbound'[i].status = inbound[i].status
          /\ inbound'[i].attempt = inbound[i].attempt
      BY <3>1 DEF Row
    <3> QED BY <3>2 DEF l
  <2>3. task'[t] = [task[t] EXCEPT !.beaten = FALSE]
    <3>1. task' = [u \in PumpTask |-> [task[u] EXCEPT !.beaten = FALSE]]
      BY <1>13, Zenon DEF Tick
    <3> QED BY <1>0, <3>1
  <2>4. /\ task'[t].id = task[t].id /\ task'[t].pc = task[t].pc
        /\ task'[t].attempt = task[t].attempt /\ task'[t].result = task[t].result
        /\ task'[t].beaten = FALSE
    BY <1>1, <2>3 DEF BusyTask
  <2>5. task'[t].lost = task[t].lost
    BY <1>1, <2>3 DEF BusyTask
  <2>6. inbound[i].lease \in Nat /\ inbound[i].lease >= 1 /\ Lease \in Nat /\ Lease >= 1
    BY <1>1, RowNumbers DEF Keeps, Guards
  <2>7. inbound'[i].lease = inbound[i].lease - 1
    BY <2>2, <2>6 DEF Minus1
  <2>8. ASSUME inbound'[i].lease >= 1 PROVE Keeps(t)'
    BY <2>2, <2>4, <2>5, <2>8 DEF Keeps, Guards
  <2>9. CASE Late(t)
    <3>1. faults' = faults + 1
      BY <1>0, <1>13, <2>9, Zenon DEF Tick, Fault
    <3>2. CASE inbound[i].lease = 1
      BY <3>1, <3>2 DEF Expires
    <3>3. CASE inbound[i].lease # 1
      <4>1. inbound'[i].lease >= 1
        BY <2>6, <2>7, <3>3
      <4>2. inbound'[i].lease + faults' >= inbound[i].lease + faults
        BY <1>0, <2>6, <2>7, <3>1
      <4> QED BY <2>4, <2>8, <4>1, <4>2 DEF KeepsOn
    <3> QED BY <3>2, <3>3
  <2>10. CASE ~Late(t)
    <3>1. task[t].beaten /\ task[t].pc # "settling"
      BY <1>0, <2>10, Zenon DEF Late, Keeps, Guards, BusyPcs
    <3>2. inbound[i].lease >= Lease
      BY <3>1 DEF Keeps, Guards
    <3>3. inbound'[i].lease >= Lease - 1
      BY <2>6, <2>7, <3>2
    <3>4. inbound'[i].lease >= 1
      BY <2>6, <2>7, <3>2
    <3> QED BY <2>4, <2>8, <3>3, <3>4 DEF KeepsOn
  <2> QED BY <2>9, <2>10
<1>14. CASE Crash
  <2>1. task'[t].pc \notin BusyPcs
    BY <1>0, <1>14 DEF Crash, InitialTasks, Resting, BusyPcs
  <2> QED BY <1>2, <2>1
<1>15. CASE UNCHANGED vars
  BY <1>3, <1>15 DEF vars
<1> QED BY <1>5, <1>6, <1>7, <1>8, <1>9, <1>10, <1>11, <1>12, <1>13, <1>14, <1>15 DEF Next

\* A claim adds a worker, to a session in which nobody may settle any more.
LEMMA ClaimIsPaid ==
  ASSUME TypeOK, TypeOK', IdsInOrder, NothingOvertakes, AtWork, NEW t \in PumpTask, Claim(t),
         NEW s \in Sessions, StallInv(s)
  PROVE  StallInv(s)'
<1>0. /\ task \in [PumpTask -> TaskState] /\ inbound \in [Id -> Row] /\ faults \in Nat
      /\ faults' = faults /\ task[t].pc = "ready" /\ Lease \in Nat /\ Lease >= 1
  BY GatewayQueueAssumption DEF TypeOK, TaskState, Claim
<1>1. PICK i \in Id :
        /\ Claimable(SessionOf(t), i) /\ ClaimRow(i)
        /\ task' = [task EXCEPT ![t] = [pc |-> "claimed", id |-> i, attempt |-> 0,
                       beaten |-> TRUE, lost |-> FALSE, result |-> "none"]]
  BY DEF Claim
<1>2. /\ task'[t] = [pc |-> "claimed", id |-> i, attempt |-> 0,
                     beaten |-> TRUE, lost |-> FALSE, result |-> "none"]
      /\ \A u \in PumpTask \ {t} : task'[u] = task[u]
  BY <1>0, <1>1
<1>3. /\ inbound[i] \in Row
      /\ inbound'[i] = [inbound[i] EXCEPT !.status  = "processing",
                                          !.attempt = inbound[i].attempt + 1,
                                          !.lease   = Lease]
      /\ \A j \in Id \ {i} : inbound'[j] = inbound[j]
  BY <1>0, <1>1 DEF ClaimRow
<1>4. /\ inbound'[i].status = "processing" /\ inbound'[i].lease = Lease
      /\ inbound'[i].session = inbound[i].session
  BY <1>3 DEF Row
<1>5. \A u \in PumpTask : task[u].pc \in BusyPcs => task[u].id \in Id
  BY <1>0, Busy DEF BusyPcs
<1>6. t \notin Workers(s)
  BY <1>0 DEF Workers
<1>7. \A u \in PumpTask \ {t} : u \in Workers(s)' <=> u \in Workers(s)
  <2> SUFFICES ASSUME NEW u \in PumpTask \ {t} PROVE u \in Workers(s)' <=> u \in Workers(s)
    OBVIOUS
  <2>1. task'[u] = task[u]
    BY <1>2
  <2>2. task[u].pc \in BusyPcs => inbound'[task[u].id].session = inbound[task[u].id].session
    BY <1>3, <1>4, <1>5
  <2> QED BY <2>1, <2>2 DEF Workers, BusyPcs
<1>8. Workers(s) \subseteq PumpTask /\ Workers(s)' \subseteq PumpTask
  BY DEF Workers
<1>9. CASE inbound[i].session # s
  <2>1. t \notin Workers(s)'
    BY <1>2, <1>4, <1>9 DEF Workers
  <2>2. Workers(s)' \subseteq Workers(s)
    BY <1>7, <1>8, <2>1
  <2>3. ASSUME NEW u \in Workers(s), Keeps(u) PROVE KeepsOn(u)
    <3>1. /\ u \in PumpTask /\ u # t /\ task[u].pc \in BusyPcs
          /\ inbound[task[u].id].session = s
      BY <1>0 DEF Workers, BusyPcs
    <3>2. task[u].id \in Id \ {i}
      BY <1>5, <1>9, <3>1
    <3>3. task'[u] = task[u] /\ inbound'[task[u].id] = inbound[task[u].id]
      BY <1>2, <1>3, <3>1, <3>2
    <3> QED BY <1>0, <2>3, <3>1, <3>2, <3>3, SameKeeps
  <2> QED BY <1>0, <2>2, <2>3, StallKept
<1>10. CASE inbound[i].session = s
  <2>1. Workers(s)' = Workers(s) \cup {t}
    <3>1. t \in Workers(s)'
      BY <1>2, <1>4, <1>10 DEF Workers
    <3> QED BY <1>7, <1>8, <3>1
  <2>2. ASSUME NEW u \in Workers(s), Keeps(u) PROVE FALSE
    <3> DEFINE r == task[u].id
    <3>1. /\ r \in Id /\ inbound[r].session = s /\ inbound[r].status = "processing"
          /\ inbound[r].lease >= 1 /\ inbound[r].lease \in Nat
      <4>1. r \in Id
        BY <1>5 DEF Workers, BusyPcs
      <4> QED BY <1>0, <2>2, <4>1 DEF Workers, Keeps, Guards, Row
    <3>2. HeadOf(s, i) /\ (inbound[i].status = "pending" \/ inbound[i].lease = 0)
      BY <1>1, <1>10 DEF Claimable, HeadOf
    <3>3. r # i
      BY <3>1, <3>2
    <3>4. ~(r < i)
      BY <3>1, <3>2 DEF HeadOf, Open
    <3>5. ~(i < r)
      BY <1>10, <3>1, <3>2 DEF HeadOf, Open, NothingOvertakes, Terminal
    <3> QED BY <3>1, <3>3, <3>4, <3>5 DEF Id
  <2>3. Paid(s) /\ IsFiniteSet(Workers(s))
    BY <2>2 DEF StallInv
  <2>4. PICK n \in Nat : n = Cardinality(Workers(s))
    BY <2>3, FS_CardinalityType
  <2>5. IsFiniteSet(Workers(s)') /\ Cardinality(Workers(s)') = n + 1
    BY <1>6, <2>1, <2>3, <2>4, FS_AddElement
  <2>6. Cost(n) \in Nat /\ faults >= Cost(n)
    BY <2>3, <2>4, Costs DEF Paid
  <2>7. Keeps(t)' /\ task'[t].id = i
    BY <1>0, <1>2, <1>4 DEF Keeps, Guards
  <2>8. PartPaid(s, inbound[task[t].id].lease)'
    <3>1. (n + 1) - 1 = n
      OBVIOUS
    <3>2. faults' >= Cost(n) /\ faults' + Lease >= Cost(n) + Lease - 1
      BY <1>0, <2>6
    <3> QED BY <1>4, <2>5, <2>7, <3>1, <3>2 DEF PartPaid
  <2>9. t \in Workers(s)'
    BY <2>1
  <2> QED BY <2>5, <2>7, <2>8, <2>9 DEF StallInv
<1> QED BY <1>9, <1>10

LEMMA FaultsGrow ==
  ASSUME TypeOK, [Next]_vars PROVE faults' >= faults
<1>1. faults \in Nat
  BY DEF TypeOK
<1>2. CASE Recv
  BY <1>1, <1>2 DEF Recv, Fault
<1>3. ASSUME NEW t \in PumpTask, Claim(t) \/ ReadBack(t) \/ Heartbeat(t) \/ Return(t) \/ Settle(t)
      PROVE  faults' >= faults
  BY <1>1, <1>3 DEF Claim, ReadBack, Heartbeat, Return, Settle
<1>4. ASSUME NEW t \in PumpTask, ReadBackError(t) \/ ClaimNothing(t) \/ SettleError(t)
      PROVE  faults' >= faults
  <2>1. Fault \/ faults' = faults
    BY <1>4, Zenon DEF ReadBackError, ClaimNothing, SettleError
  <2> QED BY <1>1, <2>1 DEF Fault
<1>5. CASE Tick \/ Crash
  <2>1. Fault \/ faults' = faults
    BY <1>5, Zenon DEF Tick, Crash
  <2> QED BY <1>1, <2>1 DEF Fault
<1>6. ASSUME faults' = faults PROVE faults' >= faults
  BY <1>1, <1>6
<1> QED BY <1>2, <1>3, <1>4, <1>5, <1>6 DEF Next, StrayHeartbeat, vars

LEMMA StallStep ==
  ASSUME QueueInv, AtWork, [Next]_vars, NEW s \in Sessions, StallInv(s)
  PROVE  StallInv(s)'
<1>0. /\ TypeOK /\ TypeOK' /\ IdsInOrder /\ NothingOvertakes /\ faults' >= faults
      /\ task \in [PumpTask -> TaskState]
  BY TypeStep, FaultsGrow DEF QueueInv, TypeOK, TaskState
<1>1. CASE \E t \in PumpTask : Claim(t)
  BY <1>0, <1>1, ClaimIsPaid
<1>2. CASE ~ \E t \in PumpTask : Claim(t)
  <2>1. Workers(s)' \subseteq Workers(s)
    <3> SUFFICES ASSUME NEW t \in PumpTask, t \in Workers(s)' PROVE t \in Workers(s)
      BY DEF Workers
    <3>1. task'[t].pc \in BusyPcs /\ inbound'[task'[t].id].session = s
      BY DEF Workers, BusyPcs
    <3>2. task[t].pc \in BusyPcs /\ task'[t].id = task[t].id
      BY <1>0, <1>2, <3>1, BusyStay
    <3>3. task[t].id \in Id /\ inbound[task[t].id].status # "absent"
      BY <1>0, <3>2, Busy DEF AtWork, BusyPcs
    <3>4. inbound[task[t].id].session = s
      BY <1>0, <3>1, <3>2, <3>3, RowsStay
    <3> QED BY <3>2, <3>4 DEF Workers, BusyPcs
  <2>2. CASE 1 < Lease
    <3>1. ASSUME NEW t \in Workers(s), Keeps(t), Workers(s)' = Workers(s)
          PROVE  KeepsOn(t) \/ Expires(t)
      <4>1. ~Claim(t)
        BY <1>2 DEF Workers
      <4> QED BY <1>0, <2>2, <3>1, <4>1, KeeperGoesOn
    <3> QED BY <1>0, <2>1, <3>1, StallKept
  <2>3. CASE ~(1 < Lease)
    <3>1. IsFiniteSet(Workers(s)')
      BY <2>1, FS_Subset DEF StallInv
    <3>2. PICK n \in Nat : n = Cardinality(Workers(s)')
      BY <3>1, FS_CardinalityType
    <3>3. Lease - 1 = 0 /\ faults' \in Nat
      BY <1>0, <2>3, GatewayQueueAssumption DEF TypeOK
    <3>4. Cost(n) = 0
      BY <3>3 DEF Cost
    <3>5. Paid(s)'
      BY <3>2, <3>3, <3>4 DEF Paid
    <3> QED BY <3>1, <3>5 DEF StallInv
  <2> QED BY <2>2, <2>3
<1> QED BY <1>1, <1>2

\* Every worker of a session beyond the first has cost a whole lease without a
\* renewal: the claim statement leaves a row alone until its lease has run out.
THEOREM ConcurrencyIsPaid == Spec => []ConcurrencyNeedsStalls
<1> DEFINE Inv == AtWork /\ \A s \in Sessions : StallInv(s)
<1>1. Init => Inv
  <2> SUFFICES ASSUME Init PROVE Inv
    OBVIOUS
  <2>1. \A t \in PumpTask : task[t].pc \in {"ready", "off"}
    BY DEF Init, InitialTasks, Resting
  <2>2. AtWork /\ \A s \in Sessions : Workers(s) = {}
    BY <2>1 DEF AtWork, Workers, BusyPcs
  <2>3. \A s \in Sessions : IsFiniteSet(Workers(s)) /\ Cardinality(Workers(s)) = 0
    BY <2>2, FS_EmptySet
  <2>4. Cost(0) = 0
    BY GatewayQueueAssumption DEF Cost
  <2>5. faults = 0
    BY DEF Init
  <2> QED BY <2>2, <2>3, <2>4, <2>5 DEF StallInv, Paid
<1>2. QueueInv /\ Inv /\ [Next]_vars => Inv'
  <2> SUFFICES ASSUME QueueInv, Inv, [Next]_vars PROVE Inv'
    OBVIOUS
  <2>1. AtWork'
    BY AtWorkStep DEF QueueInv
  <2>2. \A s \in Sessions : StallInv(s)'
    BY StallStep
  <2> QED BY <2>1, <2>2
<1>3. QueueInv /\ Inv => ConcurrencyNeedsStalls
  <2> SUFFICES ASSUME QueueInv, Inv, NEW s \in Sessions, Workers(s) # {}
               PROVE  faults >= Cost(Cardinality(Workers(s)) - 1)
    BY DEF ConcurrencyNeedsStalls, Cost
  <2>0. StallInv(s) /\ faults \in Nat
    BY DEF QueueInv, TypeOK
  <2>1. PICK n \in Nat : n = Cardinality(Workers(s))
    BY <2>0, FS_CardinalityType DEF StallInv
  <2>2. n - 1 \in Nat /\ n - 1 <= n
    BY <2>0, <2>1, FS_EmptySet DEF StallInv
  <2>3. Cost(n - 1) <= Cost(n) /\ Cost(n) \in Nat /\ Cost(n - 1) \in Nat
    BY <2>2, Costs
  <2> QED BY <2>0, <2>1, <2>3 DEF StallInv, Paid, PartPaid
<1> QED
  BY <1>1, <1>2, <1>3, QueueInvInit, QueueInvStep, PTL DEF Spec
=============================================================================
