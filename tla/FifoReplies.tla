----------------------------- MODULE FifoReplies -----------------------------
(***************************************************************************)
(* What the gateway promises its clients, whatever pumps, leases, retries  *)
(* and crashes do underneath: every accepted message is answered at most   *)
(* once, by an answer or by a failure notice, and the answers of a session *)
(* come in the order in which its messages were accepted.                  *)
(* GatewayQueue implements this specification.                             *)
(***************************************************************************)
EXTENDS Integers, Sequences

CONSTANTS Sessions,    \* gateway sessions
          MaxInbound   \* bound: how many messages are ever accepted

Messages == [id : 1..MaxInbound, session : Sessions]

VARIABLES accepted,   \* how many messages were accepted so far; the last id
          waiting,    \* messages that have no answer yet
          replies     \* the answers, in the order they were sent

vars == <<accepted, waiting, replies>>

Init == /\ accepted = 0
        /\ waiting = {}
        /\ replies = <<>>

Accept(s) ==
  /\ accepted < MaxInbound
  /\ accepted' = accepted + 1
  /\ waiting' = waiting \cup {[id |-> accepted + 1, session |-> s]}
  /\ UNCHANGED replies

\* The oldest waiting message of its session is answered.
Reply(m, kind) ==
  /\ m \in waiting
  /\ \A n \in waiting : n.session = m.session => m.id <= n.id
  /\ waiting' = waiting \ {m}
  /\ replies' = Append(replies, [to |-> m.id, session |-> m.session, kind |-> kind])
  /\ UNCHANGED accepted

Next == \/ \E s \in Sessions : Accept(s)
        \/ \E m \in waiting, kind \in {"answer", "failure"} : Reply(m, kind)

Spec == Init /\ [][Next]_vars
=============================================================================
