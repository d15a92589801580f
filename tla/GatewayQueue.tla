---------------------------- MODULE GatewayQueue ----------------------------
(***************************************************************************)
(* The gateway's reliable queue: the SQLite tables gateway__inbound and    *)
(* gateway__outbox (hub/util/gateway/state.go), the gateway.recv and       *)
(* gateway.pump functions (functions.go) and the job completer that drives *)
(* one message through them (internal/reliable/job_completer.go).          *)
(*                                                                         *)
(* A pump task claims the head of its session's queue under a lease, works *)
(* on it while a heartbeat goroutine renews the lease, and settles the row *)
(* (done, failed, or pending again) in one fenced statement or             *)
(* transaction.  Each SQL statement or transaction is one action; what a   *)
(* task does between two of them is a state of its own.                    *)
(*                                                                         *)
(* Time is counted in heartbeat periods (30 s).  lease and due are the     *)
(* whole periods left until lease_until and next_attempt_at; 0 stands for  *)
(* a time that is past or NULL.                                            *)
(***************************************************************************)
EXTENDS Integers, Sequences, FiniteSets

CONSTANTS
  Sessions,        \* gateway sessions
  PumpedSessions,  \* those a registered pump polls every second (only "default" in the code)
  MaxInbound,      \* bound: how many messages gateway.recv accepts
  MaxAttempts,     \* inboundMaxAttempts
  Lease,           \* inboundLeaseDuration, in heartbeat periods
  Backoff,         \* the longest retry delay, in heartbeat periods
  MaxFaults        \* bound: crashes, failed database calls and stalled periods

ASSUME GatewayQueueAssumption ==
  /\ PumpedSessions \subseteq Sessions
  /\ MaxInbound \in Nat
  /\ MaxAttempts \in Nat \ {0}
  /\ Lease \in Nat \ {0}
  /\ Backoff \in Nat
  /\ MaxFaults \in Nat

Id == 1..MaxInbound

\* The pump tasks: the one a registered pump runs again and again, and the
\* one that the recv call of message i spawns.
LoopPump(s) == <<"loop", s>>
RecvPump(i) == <<"recv", i>>
PumpTask == {LoopPump(s) : s \in PumpedSessions} \cup {RecvPump(i) : i \in Id}

VARIABLES
  lastId,   \* highest id of gateway__inbound
  inbound,  \* gateway__inbound: the row of every id
  outbox,   \* gateway__outbox, in id order; attempt is a history field
  task,     \* the state of every pump task
  stray,    \* heartbeats in flight when their handler returned: <<id, attempt>>
  faults    \* faults so far

vars == <<lastId, inbound, outbox, task, stray, faults>>

\* An id that is not used yet.
AbsentRow ==
  [session |-> "none", status |-> "absent", attempt |-> 0, due |-> 0, lease |-> 0]

\* off: not running.  ready: about to claim.  claimed: row id is claimed but not
\* read back.  handling: inside Handle.  settling: Handle has returned result.
Resting(pc) ==
  [pc |-> pc, id |-> 0, attempt |-> 0, beaten |-> FALSE, lost |-> FALSE, result |-> "none"]

InitialTasks ==
  [t \in PumpTask |-> Resting(IF t[1] = "loop" THEN "ready" ELSE "off")]

Init ==
  /\ lastId = 0
  /\ inbound = [i \in Id |-> AbsentRow]
  /\ outbox = <<>>
  /\ task = InitialTasks
  /\ stray = {}
  /\ faults = 0

-----------------------------------------------------------------------------
(* The queue as the SQL statements see it *)

Open(i)     == inbound[i].status \in {"pending", "processing"}
Terminal(i) == inbound[i].status \in {"done", "failed"}

SessionOf(t) == IF t[1] = "loop" THEN t[2] ELSE inbound[t[2]].session

\* Faulty HeadOf: a row in backoff does not block the rows behind it.
HeadOf_DueOnly(s, i) ==
  /\ inbound[i].session = s
  /\ Open(i)
  /\ \A j \in Id : j < i /\ inbound[j].session = s => ~Open(j) \/ inbound[j].due > 0

\* Faulty HeadOf: any open row of the session.
HeadOf_AnyOpen(s, i) == inbound[i].session = s /\ Open(i)

\* ORDER BY id LIMIT 1 over the open rows of a session.
HeadOf(s, i) ==
  /\ inbound[i].session = s
  /\ Open(i)
  /\ \A j \in Id : j < i /\ inbound[j].session = s => ~Open(j)

\* Faulty Claimable: a processing row is never claimed again.
Claimable_NoReclaim(s, i) ==
  HeadOf(s, i) /\ inbound[i].status = "pending" /\ inbound[i].due = 0

\* Faulty Claimable: a lease is taken over one period too early.
Claimable_Early(s, i) ==
  /\ HeadOf(s, i)
  /\ \/ inbound[i].status = "pending" /\ inbound[i].due = 0
     \/ inbound[i].status = "processing" /\ inbound[i].lease <= 1

\* Only the head may be claimed: when it is due, or when its lease ran out.
Claimable(s, i) ==
  /\ HeadOf(s, i)
  /\ \/ inbound[i].status = "pending" /\ inbound[i].due = 0
     \/ inbound[i].status = "processing" /\ inbound[i].lease = 0

ClaimRow(i) ==
  inbound' = [inbound EXCEPT ![i] = [@ EXCEPT !.status  = "processing",
                                              !.attempt = inbound[i].attempt + 1,
                                              !.lease   = Lease]]

\* Faulty Holds: the attempt is not compared.
Holds_AnyAttempt(i, a) == inbound[i].status = "processing"

\* Faulty Holds: the status is not compared.
Holds_AnyStatus(i, a) == inbound[i].attempt = a

\* The fence of every later statement: still processing, same attempt.
Holds(i, a) == inbound[i].status = "processing" /\ inbound[i].attempt = a

Renewed(i) == [inbound EXCEPT ![i] = [@ EXCEPT !.lease = Lease]]

Reply(i, a, kind) ==
  [to |-> i, session |-> inbound[i].session, kind |-> kind, attempt |-> a]

\* A task that ends: the registered pump comes back, a spawned one does not.
End(t) == task' = [task EXCEPT ![t] = Resting(IF t[1] = "loop" THEN "ready" ELSE "off")]

Fault == /\ faults < MaxFaults
         /\ faults' = faults + 1

-----------------------------------------------------------------------------
(* gateway.recv *)

\* insertInbound, then Spawn of a pump for the session; the spawn may be
\* refused, and then the row waits for another pump.
Recv ==
  /\ lastId < MaxInbound
  /\ lastId' = lastId + 1
  /\ \E s \in Sessions :
       inbound' = [inbound EXCEPT ![lastId + 1] =
                     [session |-> s, status |-> "pending", attempt |-> 0, due |-> 0, lease |-> 0]]
  /\ \E pc \in {"ready", "off"} :
       /\ task' = [task EXCEPT ![RecvPump(lastId + 1)] = Resting(pc)]
       /\ IF pc = "off" THEN Fault ELSE UNCHANGED faults
  /\ UNCHANGED <<outbox, stray>>

-----------------------------------------------------------------------------
(* gateway.pump: one turn of CompleteOne *)

\* claimDueInboundID: the row gets a new attempt and a lease, the caller its id.
Claim(t) ==
  /\ task[t].pc = "ready"
  /\ \E i \in Id :
       /\ Claimable(SessionOf(t), i)
       /\ ClaimRow(i)
       /\ task' = [task EXCEPT ![t] =
                     [pc |-> "claimed", id |-> i, attempt |-> 0,
                      beaten |-> TRUE, lost |-> FALSE, result |-> "none"]]
  /\ UNCHANGED <<lastId, outbox, stray, faults>>

\* inboundByID, a statement of its own: the attempt is the one the row has now,
\* which is a later one if another pump took the row over in between.
ReadBack(t) ==
  /\ task[t].pc = "claimed"
  /\ task' = [task EXCEPT ![t] =
                [@ EXCEPT !.pc = "handling", !.attempt = inbound[task[t].id].attempt]]
  /\ UNCHANGED <<lastId, inbound, outbox, stray, faults>>

\* Reading the row back fails: nobody works on it until its lease runs out.
ReadBackError(t) ==
  /\ task[t].pc = "claimed"
  /\ Fault
  /\ End(t)
  /\ UNCHANGED <<lastId, inbound, outbox, stray>>

\* Nothing to claim, or the claim fails: a spawned pump is done.
ClaimNothing(t) ==
  /\ task[t].pc = "ready"
  /\ IF \E i \in Id : Claimable(SessionOf(t), i) THEN Fault ELSE UNCHANGED faults
  /\ End(t)
  /\ UNCHANGED <<lastId, inbound, outbox, stray>>

\* One tick of the heartbeat goroutine of Handle.
Heartbeat(t) ==
  /\ task[t].pc = "handling"
  /\ ~task[t].beaten /\ ~task[t].lost
  /\ IF Holds(task[t].id, task[t].attempt)
       THEN /\ inbound' = Renewed(task[t].id)
            /\ task' = [task EXCEPT ![t] = [@ EXCEPT !.beaten = TRUE]]
       ELSE /\ task' = [task EXCEPT ![t] = [@ EXCEPT !.lost = TRUE]]
            /\ UNCHANGED inbound
  /\ UNCHANGED <<lastId, outbox, stray, faults>>

\* processInboundMessage returns; a lost lease overrides its outcome.  A
\* renewal that has started meanwhile is not waited for.
Return(t) ==
  /\ task[t].pc = "handling"
  /\ \E r \in {"ok", "retryable", "permanent"} :
       task' = [task EXCEPT ![t] =
                  [@ EXCEPT !.pc = "settling", !.beaten = FALSE, !.lost = FALSE,
                            !.result = IF task[t].lost THEN "leaseLost" ELSE r]]
  /\ \/ UNCHANGED stray
     \/ /\ ~task[t].beaten /\ ~task[t].lost
        /\ stray' = stray \cup {<<task[t].id, task[t].attempt>>}
  /\ UNCHANGED <<lastId, inbound, outbox, faults>>

StrayHeartbeat(h) ==
  /\ h \in stray
  /\ stray' = stray \ {h}
  /\ inbound' = IF Holds(h[1], h[2]) THEN Renewed(h[1]) ELSE inbound
  /\ UNCHANGED <<lastId, outbox, task, faults>>

\* Faulty Finish: the reply is sent although the row was not updated.
Finish_Unfenced(i, a, status, kind) ==
  /\ inbound' = IF Holds(i, a)
                  THEN [inbound EXCEPT ![i] = [@ EXCEPT !.status = status, !.lease = 0]]
                  ELSE inbound
  /\ outbox' = Append(outbox, Reply(i, a, kind))

\* completeInboundSuccess and completeInboundFailure: row and reply together.
Finish(i, a, status, kind) ==
  IF Holds(i, a)
    THEN /\ inbound' = [inbound EXCEPT ![i] = [@ EXCEPT !.status = status, !.lease = 0]]
         /\ outbox' = Append(outbox, Reply(i, a, kind))
    ELSE UNCHANGED <<inbound, outbox>>

Complete(t) ==
  /\ task[t].result = "ok"
  /\ Finish(task[t].id, task[t].attempt, "done", "answer")

\* Faulty Retries: no limit.
Retries_Unlimited(t) == task[t].result = "retryable"

Retries(t) == task[t].result = "retryable" /\ task[t].attempt < MaxAttempts

\* markInboundRetry; the delay is shorter than Backoff periods.
Retry(t) ==
  /\ Retries(t)
  /\ \E d \in 0..Backoff :
       inbound' = IF Holds(task[t].id, task[t].attempt)
                    THEN [inbound EXCEPT ![task[t].id] =
                            [@ EXCEPT !.status = "pending", !.due = d, !.lease = 0]]
                    ELSE inbound
  /\ UNCHANGED outbox

Fail(t) ==
  /\ task[t].result \in {"retryable", "permanent"} /\ ~Retries(t)
  /\ Finish(task[t].id, task[t].attempt, "failed", "failure")

\* Fail does nothing when the cause is errInboundLeaseLost.
GiveUp(t) == task[t].result = "leaseLost" /\ UNCHANGED <<inbound, outbox>>

Settle(t) ==
  /\ task[t].pc = "settling"
  /\ Complete(t) \/ Retry(t) \/ Fail(t) \/ GiveUp(t)
  /\ End(t)
  /\ UNCHANGED <<lastId, stray, faults>>

\* The settling statement fails (busy, closed, context canceled) and CompleteOne
\* returns its error: the row stays processing until its lease runs out.
SettleError(t) ==
  /\ task[t].pc = "settling" /\ task[t].result # "leaseLost"
  /\ Fault
  /\ End(t)
  /\ UNCHANGED <<lastId, inbound, outbox, stray>>

-----------------------------------------------------------------------------
(* Time and crashes *)

Minus1(n) == IF n = 0 THEN 0 ELSE n - 1

\* A period in which a live task did not read back, renew, or settle.
Late(t) == \/ task[t].pc \in {"claimed", "handling"} /\ ~task[t].beaten /\ ~task[t].lost
           \/ task[t].pc = "settling"

Tick ==
  /\ inbound' = [i \in Id |-> [inbound[i] EXCEPT !.lease = Minus1(@), !.due = Minus1(@)]]
  /\ task' = [t \in PumpTask |-> [task[t] EXCEPT !.beaten = FALSE]]
  /\ IF \E t \in PumpTask : Late(t) THEN Fault ELSE UNCHANGED faults
  /\ UNCHANGED <<lastId, outbox, stray>>

\* The process dies and comes back: the tables survive, the tasks do not, and
\* gateway.__init__ registers the pump again.
Crash ==
  /\ Fault
  /\ task' = InitialTasks
  /\ stray' = {}
  /\ UNCHANGED <<lastId, inbound, outbox>>

Next ==
  \/ Recv
  \/ \E t \in PumpTask : \/ Claim(t) \/ ReadBack(t) \/ ReadBackError(t) \/ ClaimNothing(t)
                         \/ Heartbeat(t) \/ Return(t)
                         \/ Settle(t) \/ SettleError(t)
  \/ \E h \in stray : StrayHeartbeat(h)
  \/ Tick
  \/ Crash

Spec == Init /\ [][Next]_vars

\* The scheduler runs every task, and time passes.  A handler owes no Return: the
\* chat may wait for a task without a timeout, and then ignores its context.
Fairness ==
  /\ \A t \in PumpTask : /\ WF_vars(Claim(t))
                         /\ WF_vars(ReadBack(t))
                         /\ WF_vars(Heartbeat(t))
                         /\ WF_vars(Settle(t))
  /\ WF_vars(Tick)

FairSpec == Spec /\ Fairness

-----------------------------------------------------------------------------
(* Properties *)

Status == {"absent", "pending", "processing", "done", "failed"}
Row == [session : Sessions \cup {"none"}, status : Status, attempt : Nat, due : Nat, lease : Nat]
Results == {"none", "ok", "retryable", "permanent", "leaseLost"}
IdleTask == [pc : {"off", "ready"}, id : {0}, attempt : {0},
             beaten : BOOLEAN, lost : BOOLEAN, result : {"none"}]
BusyTask == [pc : {"claimed", "handling", "settling"}, id : Id, attempt : Nat,
             beaten : BOOLEAN, lost : BOOLEAN, result : Results]
ReplyRow == [to : Id, session : Sessions \cup {"none"}, kind : {"answer", "failure"}, attempt : Nat]

\* Every variable keeps its type.
TypeOK ==
  /\ lastId \in 0..MaxInbound
  /\ inbound \in [Id -> Row]
  /\ outbox \in Seq(ReplyRow)
  /\ task \in [PumpTask -> IdleTask \cup BusyTask]
  /\ stray \subseteq (Id \X Nat)
  /\ faults \in 0..MaxFaults

\* A message has exactly one reply once its row is done or failed, of the
\* matching kind, and none before: completeInboundSuccess and
\* completeInboundFailure write both or nothing, and no stale task adds a second.
ReplyIffTerminal ==
  /\ \A i \in Id : Terminal(i) <=> \E n \in DOMAIN outbox : outbox[n].to = i
  /\ \A n \in DOMAIN outbox :
       inbound[outbox[n].to].status = IF outbox[n].kind = "answer" THEN "done" ELSE "failed"
  /\ \A m, n \in DOMAIN outbox : outbox[m].to = outbox[n].to => m = n

\* The reply comes from the attempt that claimed the row last: an answer that an
\* earlier attempt computed after losing its lease never reaches the outbox.
ReplyFromLastAttempt ==
  \A n \in DOMAIN outbox : outbox[n].attempt = inbound[outbox[n].to].attempt

\* The replies of a session leave in the order its messages came in, through
\* retries, backoff and reclaims (claimDueInboundID only takes the head).
RepliesInOrder ==
  \A m, n \in DOMAIN outbox :
    m < n /\ outbox[m].session = outbox[n].session => outbox[m].to < outbox[n].to

\* Ids are handed out in order, and an accepted row belongs to a session.
IdsInOrder ==
  \A i \in Id : /\ inbound[i].status = "absent" <=> i > lastId
                /\ i <= lastId => inbound[i].session \in Sessions

\* Nothing overtakes the head: when a row has been claimed or answered, every
\* earlier row of its session is answered.
NothingOvertakes ==
  \A i, j \in Id :
    /\ j < i
    /\ inbound[j].session = inbound[i].session
    /\ inbound[i].status \in {"processing", "done", "failed"}
    => Terminal(j)

RepliesOwnSession ==
  \A n \in DOMAIN outbox : outbox[n].session = inbound[outbox[n].to].session

\* The inductive invariant behind the promises about replies.
QueueInv ==
  /\ TypeOK
  /\ IdsInOrder
  /\ NothingOvertakes
  /\ RepliesOwnSession
  /\ ReplyIffTerminal
  /\ ReplyFromLastAttempt
  /\ RepliesInOrder

\* Tasks at work on a session, whether or not they still hold its head.
Workers(s) == {t \in PumpTask : /\ task[t].pc \in {"claimed", "handling", "settling"}
                                /\ inbound[task[t].id].session = s}

\* Two handlers work on one session at the same time only after a whole lease
\* went by without a renewal: each worker beyond the first costs Lease - 1
\* stalled periods.
ConcurrencyNeedsStalls ==
  \A s \in Sessions :
    Workers(s) # {} => faults >= (Cardinality(Workers(s)) - 1) * (Lease - 1)

\* A message is tried more than MaxAttempts times only because of faults: the
\* claim statement has no limit of its own, so each crash or lost lease may add one.
AttemptsBoundedByFaults == \A i \in Id : inbound[i].attempt <= MaxAttempts + faults

\* A lease may grow by a claim, or for the attempt that holds the row: the task
\* that renews, or its stray heartbeat, carries the row's attempt.
MayRenew(i) ==
  \/ inbound'[i].attempt = inbound[i].attempt + 1
  \/ \E t \in PumpTask : /\ task[t].pc = "handling"
                         /\ task[t].id = i /\ task[t].attempt = inbound[i].attempt
  \/ <<i, inbound[i].attempt>> \in stray

RowFenced(i) ==
  /\ Terminal(i) => inbound'[i] = [inbound[i] EXCEPT !.due = inbound'[i].due]
  /\ inbound'[i].lease > inbound[i].lease => inbound'[i].status = "processing" /\ MayRenew(i)

FencedStep == \A i \in Id : RowFenced(i)

\* Rows are fenced.  Once answered, a row is never reopened, retried or claimed
\* again, and a lease only grows by a claim of that row or for the attempt that
\* holds it: a late heartbeat of an earlier attempt neither revives its row nor
\* extends its successor's lease.
RowsFenced == [][FencedStep]_vars

\* Message i waits for a handler of its session: of the attempt that holds the
\* head, whose heartbeat keeps other pumps away, or of the registered pump, which
\* makes one run at a time.
Blocks(t, i) ==
  /\ task[t].pc = "handling" /\ inbound[task[t].id].session = inbound[i].session
  /\ Holds(task[t].id, task[t].attempt) \/ t = LoopPump(inbound[i].session)

\* None of these handlers hangs.
Unblocked(i) == \A t \in PumpTask : []<>~Blocks(t, i)

\* Every message of a session with a registered pump is answered in the end, unless
\* its session is blocked for good: crashes, failed statements and stalls, and
\* handlers that hang after they lost the row, delay the reply but never lose it.
EveryMessageAnswered ==
  \A i \in Id :
    Unblocked(i) => (Open(i) /\ inbound[i].session \in PumpedSessions ~> Terminal(i))

\* gateway.recv queues a message "for ordered processing" in any session; that
\* every one is processed whose session is not blocked for good.
EverySessionAnswered == \A i \in Id : Unblocked(i) => (Open(i) ~> Terminal(i))

-----------------------------------------------------------------------------
(* Refinement *)

\* What a client sees of a reply, and the messages it still waits for.
Sent(r) == [to |-> r.to, session |-> r.session, kind |-> r.kind]
SentReplies == [n \in DOMAIN outbox |-> Sent(outbox[n])]
Waiting == {[id |-> i, session |-> inbound[i].session] : i \in {j \in Id : Open(j)}}

Replies == INSTANCE FifoReplies WITH
  accepted <- lastId,
  waiting  <- Waiting,
  replies  <- SentReplies

\* The queue, with its leases, retries and crashes, implements FifoReplies.
ImplementsFifoReplies == Replies!Spec
=============================================================================
