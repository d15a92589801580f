---------------------------- MODULE GatewayChat ----------------------------
(***************************************************************************)
(* Chat messages of one gateway session: the inbound queue and the         *)
(* conversation database together.  An attempt claims a message under the  *)
(* inbound lease (2 minutes, renewed by heartbeats of the pump's task),    *)
(* leases the session's ref (30 seconds, renewed by the executor), lets an *)
(* executor run, and settles the message.  The two leases live in two      *)
(* databases and end independently of each other; the statements on the    *)
(* queue run under the task's context, those on the conversation do not.   *)
(*                                                                         *)
(* GatewayQueue has the queue and Executor the run in full.  Here a run    *)
(* appends the user's message and then ends, with a reply or without.      *)
(***************************************************************************)
EXTENDS Integers, Sequences, FiniteSets

CONSTANTS
  Refs, Runners, NoRunner, Lease, MaxLen, MaxNodes,  \* see ConversationRef; a runner is an attempt
  MaxMsg,       \* messages of the session, in the order of their ids
  InboundLease, \* inboundLeaseDuration, in the same clock periods as Lease
  MaxAttempts   \* inboundMaxAttempts

ASSUME GatewayChatAssumption ==
  /\ NoRunner \notin Runners
  /\ Lease \in Nat \ {0}
  /\ InboundLease \in Nat /\ InboundLease > Lease
  /\ MaxLen \in Nat /\ MaxNodes \in Nat
  /\ MaxMsg \in Nat \ {0}
  /\ MaxAttempts \in Nat \ {0}

VARIABLES
  node, ref, run, writer, lapsed,  \* see ConversationRef
  row,      \* gateway__inbound: slash command or not, status, attempt that claimed it,
            \* number of attempts, periods left of the claim
  reply,    \* gateway__outbox: the reply to every message and its attempt
  att,      \* the attempts
  stalled,  \* history: attempts whose inbound lease came down to a conversation lease
  lost,     \* history: attempts that died or whose settlement failed
  loose,    \* history: attempts that were done with their message before their ref was released
  refused   \* history: whose lease an attempt ran into

refVars == <<node, ref, run, writer, lapsed>>
vars == <<node, ref, run, writer, lapsed, row, reply, att, stalled, lost, loose, refused>>

Messages == 1..MaxMsg
Entry == [role : {"user", "assistant"}, msg : Messages]

Ref == INSTANCE ConversationRef WITH Msgs <- Entry

\* What does not matter any more is forgotten.
Gone == [pc |-> "gone", msg |-> 1, canceled |-> FALSE, out |-> "none"]

NoReply == [kind |-> "none", by |-> NoRunner]

Init ==
  /\ Ref!Init
  /\ row \in [Messages -> {[slash |-> b, status |-> "pending", by |-> NoRunner, n |-> 0, left |-> 0] : b \in BOOLEAN}]
  /\ reply = [m \in Messages |-> NoReply]
  /\ att = [a \in Runners |-> [pc |-> "new", msg |-> 1, canceled |-> FALSE, out |-> "none"]]
  /\ stalled = {} /\ lost = {} /\ loose = {}
  /\ refused = [a \in Runners |-> NoRunner]

-----------------------------------------------------------------------------
(* The queue *)

\* Faulty Due: a message that is being handled may be claimed again.
Due_Any(m) == row[m].status \in {"pending", "processing"}

\* claimDueInboundID: pending (its backoff is over), or its lease ran out.
Due(m) == row[m].status = "pending" \/ (row[m].status = "processing" /\ row[m].left = 0)

\* Faulty First: any message that is due.
First_Any(m) == row[m].status \in {"pending", "processing"}

\* The oldest message of the session that is not settled.
First(m) ==
  /\ row[m].status \in {"pending", "processing"}
  /\ \A i \in 1..m - 1 : row[i].status \notin {"pending", "processing"}

Claim(a, m) ==
  /\ att[a].pc = "new"
  /\ First(m) /\ Due(m)
  /\ row' = [row EXCEPT ![m] = [@ EXCEPT !.status = "processing", !.by = a, !.n = row[m].n + 1, !.left = InboundLease]]
  /\ att' = [att EXCEPT ![a] = [@ EXCEPT !.pc = "claimed", !.msg = m]]
  /\ UNCHANGED <<refVars, reply, stalled, lost, loose, refused>>

\* The row still carries the attempt.
Mine(a) == row[att[a].msg].status = "processing" /\ row[att[a].msg].by = a

\* A heartbeat; none gets through once the task is canceled.
Beat(a) ==
  /\ att[a].pc \in {"claimed", "asking"} /\ ~att[a].canceled
  /\ Mine(a)
  /\ row' = [row EXCEPT ![att[a].msg] = [@ EXCEPT !.left = InboundLease]]
  /\ UNCHANGED <<refVars, reply, att, stalled, lost, loose, refused>>

\* isRetryableInboundError and MaxAttempts.
Retries(a) == att[a].out = "retryable" /\ row[att[a].msg].n < MaxAttempts

\* The attempt is over; finish may still have the ref to release.
Leave(a) ==
  /\ att' = [att EXCEPT ![a] = Gone]
  /\ loose' = IF ref[run[a].name].by = a THEN loose \cup {a} ELSE loose

\* The statement fails: its context is canceled, or the database is in trouble.
Unsettled(a) ==
  /\ att[a].pc = "ran"
  /\ Leave(a)
  /\ lost' = lost \cup {a}
  /\ UNCHANGED <<refVars, row, reply, stalled, refused>>

\* The settlement of a message: a reply, a retry, or a report of the failure.
Outcome(a) ==
  IF att[a].out \in {"answer", "silent"} THEN "done"
  ELSE IF Retries(a) THEN "pending" ELSE "failed"

\* Faulty SettledRow: the reply is stored, the message is left as it is.
SettledRow_Reply(a) ==
  [row EXCEPT ![att[a].msg] = [@ EXCEPT !.status = IF Outcome(a) = "done" THEN "processing" ELSE Outcome(a)]]

SettledRow(a) ==
  [row EXCEPT ![att[a].msg] = [@ EXCEPT !.status = Outcome(a), !.by = NoRunner, !.left = 0]]

\* Faulty Settle: the statement does not depend on the task's context.
Settle_AnyContext(a) ==
  /\ att[a].pc = "ran"
  /\ Leave(a)
  /\ IF Mine(a)
     THEN /\ row' = SettledRow(a)
          /\ reply' = IF Outcome(a) = "pending" THEN reply
                      ELSE [reply EXCEPT ![att[a].msg] = [kind |-> att[a].out, by |-> a]]
     ELSE UNCHANGED <<row, reply>>
  /\ UNCHANGED <<refVars, stalled, lost, refused>>

\* Complete, Retry and Fail, fenced by the attempt that the row carries.
Settle(a) ==
  /\ att[a].pc = "ran" /\ ~att[a].canceled
  /\ Leave(a)
  /\ IF Mine(a)
     THEN /\ row' = SettledRow(a)
          /\ reply' = IF Outcome(a) = "pending" THEN reply
                      ELSE [reply EXCEPT ![att[a].msg] = [kind |-> att[a].out, by |-> a]]
     ELSE UNCHANGED <<row, reply>>
  /\ UNCHANGED <<refVars, stalled, lost, refused>>

-----------------------------------------------------------------------------
(* The attempt *)

End(a, out) == att' = [att EXCEPT ![a] = [@ EXCEPT !.pc = "ran", !.out = out]]

UnchangedQueue == UNCHANGED <<row, reply, stalled, lost, loose>>

\* renderSlashResponse: no conversation is involved.
SlashReply(a) ==
  /\ att[a].pc = "claimed" /\ row[att[a].msg].slash
  /\ End(a, "answer")
  /\ UnchangedQueue /\ UNCHANGED <<refVars, refused>>

\* LeaseRef finds the ref leased by another runner: no error to retry.
Refuse(a) ==
  /\ att[a].pc = "claimed" /\ ~row[att[a].msg].slash /\ run[a].pc = "new"
  /\ ref[run[a].name].exists /\ ~Ref!Available(a, run[a].name)
  /\ refused' = [refused EXCEPT ![a] = ref[run[a].name].by]
  /\ End(a, "fatal")
  /\ UnchangedQueue /\ UNCHANGED refVars

LeaseRef(a) ==
  /\ att[a].pc = "claimed" /\ ~row[att[a].msg].slash
  /\ Ref!Acquire(a) \/ Ref!Open(a)
  /\ UnchangedQueue /\ UNCHANGED <<att, refused>>

\* Executor.Run appends the user's message, also when an earlier attempt did.
Say(a) ==
  /\ att[a].pc = "claimed" /\ run[a].pc = "open"
  /\ Ref!AppendMessage(a, [role |-> "user", msg |-> att[a].msg])
  /\ att' = [att EXCEPT ![a] = [@ EXCEPT !.pc = "asking"]]
  /\ UnchangedQueue /\ UNCHANGED refused

\* The run is completed.
Answer(a) ==
  /\ att[a].pc = "asking"
  /\ Ref!AppendMessage(a, [role |-> "assistant", msg |-> att[a].msg])
  /\ End(a, "answer")
  /\ UnchangedQueue /\ UNCHANGED refused

\* The run is interrupted, because the task was canceled: no error, no text,
\* and so the reply "(no response)".
Silence(a) ==
  /\ att[a].pc = "asking" /\ att[a].canceled
  /\ End(a, "silent")
  /\ UnchangedQueue /\ UNCHANGED <<refVars, refused>>

\* Anything else ends in an error: the model, the deadline of the chat, a ref
\* that another attempt has moved or leased, the configuration.
Error(a, out) ==
  /\ att[a].pc \in {"claimed", "asking"} /\ out \in {"retryable", "fatal"}
  /\ End(a, out)
  /\ UnchangedQueue /\ UNCHANGED <<refVars, refused>>

\* Executor.finish releases the ref; Wait may return before.  A release that fails
\* is one that never comes: the chat does not close the ref again.
Finish(a) ==
  /\ att[a].pc \in {"ran", "gone"}
  /\ Ref!Close(a)
  /\ UNCHANGED <<row, reply, att, stalled, lost, loose, refused>>

\* The message was appended: Executor.Run has started renewLeaseLoop.
Spoke(a) == \E k \in DOMAIN writer[run[a].name] : writer[run[a].name][k] = a

\* renewLeaseLoop: finish ends it before it releases the ref, which may be after
\* Wait has returned, and after the attempt is over.
Renew(a) ==
  /\ Spoke(a)
  /\ Ref!Renew(a)
  /\ UNCHANGED <<row, reply, att, stalled, lost, loose, refused>>

\* The pump's task is canceled.
Cancel(a) ==
  /\ att[a].pc \in {"claimed", "asking", "ran"} /\ ~att[a].canceled
  /\ att' = [att EXCEPT ![a] = [@ EXCEPT !.canceled = TRUE]]
  /\ UNCHANGED <<refVars, row, reply, stalled, lost, loose, refused>>

\* The process dies; all its attempts do, one after the other.
Die(a) ==
  /\ att[a].pc \in {"claimed", "asking", "ran"}
  /\ att' = [att EXCEPT ![a] = Gone]
  /\ lost' = lost \cup {a}
  /\ IF run[a].pc \in {"leased", "open"} THEN Ref!Abandon(a) ELSE UNCHANGED refVars
  /\ UNCHANGED <<row, reply, stalled, loose, refused>>

Tick ==
  /\ Ref!Tick
  /\ row' = [m \in Messages |-> [row[m] EXCEPT !.left = IF row[m].left = 0 THEN 0 ELSE row[m].left - 1]]
  /\ stalled' = stalled \cup {a \in Runners :
                   att[a].pc \in {"claimed", "asking", "ran"} /\ Mine(a) /\ row[att[a].msg].left <= Lease + 1}
  /\ UNCHANGED <<reply, att, lost, loose, refused>>

Next ==
  \/ \E a \in Runners :
       \/ \E m \in Messages : Claim(a, m)
       \/ Beat(a) \/ Unsettled(a) \/ Settle(a)
       \/ SlashReply(a) \/ Refuse(a) \/ LeaseRef(a) \/ Say(a) \/ Answer(a) \/ Silence(a)
       \/ \E out \in {"retryable", "fatal"} : Error(a, out)
       \/ Finish(a) \/ Renew(a) \/ Cancel(a) \/ Die(a)
  \/ \E n \in Refs : Ref!CreateRef(n) /\ UNCHANGED <<row, reply, att, stalled, lost, loose, refused>>
  \/ Tick

Spec == Init /\ [][Next]_vars

-----------------------------------------------------------------------------
(* Properties *)

Row == [slash : BOOLEAN, status : {"pending", "processing", "done", "failed"}, by : Runners \cup {NoRunner}, n : Nat, left : Nat]
Attempt == [pc : {"new", "claimed", "asking", "ran", "gone"}, msg : Messages, canceled : BOOLEAN,
            out : {"none", "answer", "silent", "retryable", "fatal"}]

\* Every variable keeps its type.
TypeOK ==
  /\ Ref!TypeOK
  /\ row \in [Messages -> Row]
  /\ reply \in [Messages -> [kind : {"none", "answer", "silent", "retryable", "fatal"}, by : Runners \cup {NoRunner}]]
  /\ att \in [Runners -> Attempt]
  /\ stalled \subseteq Runners /\ lost \subseteq Runners /\ loose \subseteq Runners
  /\ refused \in [Runners -> Runners \cup {NoRunner}]

\* An attempt that keeps its own inbound lease meets another one's conversation
\* lease only if that one had lost touch with the queue, or was done with its
\* message before its ref was released: settled, or given up because the
\* settlement failed, while finish had the release and the end of the renewals
\* still to do.
\* A crash alone never does it: the dead attempt's ref is free again before
\* its message can be claimed.
RefusedNeedsStall ==
  \A a \in Runners : refused[a] # NoRunner => a \in stalled \/ refused[a] \in stalled \cup loose

\* The conversation has the messages in the order of their ids, except for what
\* an attempt wrote that had lost touch with the queue.
OrderNeedsStall ==
  \A n \in Refs : \A i, j \in DOMAIN ref[n].hash :
    i < j /\ ref[n].hash[i].msg > ref[n].hash[j].msg => writer[n][j] \in stalled

\* With the types.
ChatInv == TypeOK /\ OrderNeedsStall

\* A reply is what a run left in the conversation after the message it answers.
\* The "(no response)" of an interrupted run is never sent: the cancellation
\* that interrupts the run also stops the settlement.
RepliesFromConversation ==
  \A m \in Messages :
    LET b == reply[m].by IN
    /\ reply[m].kind # "silent"
    /\ reply[m].kind = "answer" /\ ~row[m].slash =>
         \E k \in DOMAIN ref[run[b].name].hash :
           /\ k > 1 /\ writer[run[b].name][k] = b /\ writer[run[b].name][k - 1] = b
           /\ ref[run[b].name].hash[k] = [role |-> "assistant", msg |-> m]
           /\ ref[run[b].name].hash[k - 1] = [role |-> "user", msg |-> m]

\* A message is answered a second time in the conversation only after an answer
\* that could not be settled, or by an attempt that had lost touch with the
\* queue: only one of the two is the reply.
SecondAnswerNeedsLoss ==
  \A n \in Refs : \A i, j \in DOMAIN ref[n].hash :
    i < j /\ ref[n].hash[i] = ref[n].hash[j] /\ ref[n].hash[i].role = "assistant" =>
      writer[n][i] \in stalled \cup lost \/ writer[n][j] \in stalled
=============================================================================
