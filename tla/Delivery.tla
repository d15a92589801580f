------------------------------ MODULE Delivery ------------------------------
(***************************************************************************)
(* The Slack bridge (internal/slack) between Slack, which sends an event   *)
(* again until it is acknowledged, and the local gateway client            *)
(* (internal/gatewayclient).  A terminal (cmd/zoa/tui.go) in another       *)
(* process shares the queue, the outbox and the pumps; the bridge passes   *)
(* over its replies.                                                       *)
(*                                                                         *)
(* The gateway in between is its specification, FifoReplies: one session,  *)
(* one reply per accepted message, in the order of acceptance.  Whether a  *)
(* reply is an answer or a failure notice makes no difference here.        *)
(***************************************************************************)
EXTENDS Integers, Sequences, FiniteSets, FiniteSetsExt

CONSTANTS
  Events,       \* direct messages written in Slack
  Channels,     \* their channels
  Dead,         \* channels to which every post fails
  NoEvent, Session,
  Limit,        \* OutboxLimit
  MaxInbound,   \* bound: accepted messages
  MaxLives,     \* bound: starts of the bridge
  MaxUnsure     \* bound: posts whose answer is lost

ASSUME DeliveryAssumption ==
  /\ NoEvent \notin Events
  /\ "tui" \notin Channels /\ Dead \subseteq Channels
  /\ Limit \in Nat \ {0} /\ MaxLives \in Nat /\ MaxUnsure \in Nat /\ MaxInbound \in Nat

VARIABLES
  accepted, waiting, replies,  \* the gateway, see FifoReplies
  origin,   \* of every accepted message: its channel, event, and the life of the bridge
  slack,    \* events: written and acknowledged as Slack sees it, and their channel
  bridge,   \* the Slack process: pc, life, bound channel, seen events; history: the expired ones
  sock,     \* its socket loop, and the event it handles
  poll,     \* its outbox loop: where it is, lastID, end of the batch, id at its start
  posted,   \* ids posted to Slack, in order
  unsure,   \* history: ids whose post went through without an answer
  failed    \* history: events that were refused, or in whose handling something failed

gateway == <<accepted, waiting, replies>>
bridgeVars == <<bridge, sock, poll>>
vars == <<accepted, waiting, replies, origin, slack, bridge, sock, poll, posted, unsure, failed>>

Gateway == INSTANCE FifoReplies WITH Sessions <- {Session}

Off == [pc |-> "off", last |-> 0, upto |-> 0, start |-> 0]
Closed == [pc |-> "down", ev |-> NoEvent]

Reading == [pc |-> "read", ev |-> NoEvent]

Init ==
  /\ Gateway!Init
  /\ origin = <<>>
  /\ slack \in [Events -> {[pc |-> "unwritten", chan |-> c] : c \in Channels}]
  /\ bridge = [pc |-> "off", life |-> 0, bound |-> {}, seen |-> {}, expired |-> {}]
  /\ sock = Closed /\ poll = Off /\ posted = <<>>
  /\ unsure = {} /\ failed = {}

-----------------------------------------------------------------------------
(* The processes *)

\* NewLocalGatewayClient: from here on the pumps of the process are at work.
Boot ==
  /\ bridge.pc = "off" /\ bridge.life < MaxLives
  /\ bridge' = [pc |-> "built", life |-> bridge.life + 1, bound |-> {}, seen |-> {}, expired |-> bridge.expired]
  /\ UNCHANGED <<gateway, origin, slack, sock, poll, posted, unsure, failed>>

\* Faulty RunService: from the first reply.
RunService_FromZero ==
  /\ bridge.pc = "built"
  /\ bridge' = [bridge EXCEPT !.pc = "up"]
  /\ poll' = [pc |-> "idle", last |-> 0, upto |-> 0, start |-> 0]
  /\ UNCHANGED <<gateway, origin, slack, sock, posted, unsure, failed>>

\* Service.Run starts behind the replies that are there (OutboxMaxID).
RunService ==
  /\ bridge.pc = "built"
  /\ bridge' = [bridge EXCEPT !.pc = "up"]
  /\ poll' = [pc |-> "idle", last |-> Len(replies), upto |-> Len(replies), start |-> Len(replies)]
  /\ UNCHANGED <<gateway, origin, slack, sock, posted, unsure, failed>>

\* The process ends, at any moment.
Stop ==
  /\ bridge.pc # "off"
  /\ bridge' = [bridge EXCEPT !.pc = "off", !.bound = {}, !.seen = {}]
  /\ sock' = Closed /\ poll' = Off
  /\ failed' = failed \cup ({sock.ev} \ {NoEvent})
  /\ UNCHANGED <<gateway, origin, slack, posted, unsure>>

\* Whoever runs, its pumps answer the messages of both.
Answer ==
  /\ \E m \in waiting : Gateway!Reply(m, "answer")
  /\ UNCHANGED <<origin, slack, bridgeVars, posted, unsure, failed>>

\* Enqueue: gateway.recv stores the message with its channel.
Enqueue(chan, ev) ==
  /\ Gateway!Accept(Session)
  /\ origin' = Append(origin, [chan |-> chan, ev |-> ev, life |-> bridge.life])

\* A line typed in the terminal.
TuiSay ==
  /\ Enqueue("tui", NoEvent)
  /\ UNCHANGED <<slack, bridgeVars, posted, unsure, failed>>

-----------------------------------------------------------------------------
(* From Slack to the gateway: the socket loop *)

Write(e) ==
  /\ slack[e].pc = "unwritten"
  /\ slack' = [slack EXCEPT ![e] = [@ EXCEPT !.pc = "sent"]]
  /\ UNCHANGED <<gateway, origin, bridgeVars, posted, unsure, failed>>

\* RunSocketMode connects, also after a pause.
Connect ==
  /\ bridge.pc = "up" /\ sock.pc = "down"
  /\ sock' = Reading
  /\ UNCHANGED <<gateway, origin, slack, bridge, poll, posted, unsure, failed>>

Disconnect ==
  /\ sock.pc = "read"
  /\ sock' = Closed
  /\ UNCHANGED <<gateway, origin, slack, bridge, poll, posted, unsure, failed>>

\* ackEnvelope comes first.  What was written may not arrive; when the write
\* fails the connection ends, whether it arrived or not.
Receive(e, arrives, fails) ==
  /\ sock.pc = "read" /\ slack[e].pc = "sent"
  /\ sock' = IF fails THEN Closed ELSE [pc |-> "handle", ev |-> e]
  /\ slack' = IF arrives THEN [slack EXCEPT ![e] = [@ EXCEPT !.pc = "acked"]] ELSE slack
  /\ failed' = IF arrives /\ fails THEN failed \cup {e} ELSE failed
  /\ UNCHANGED <<gateway, origin, bridge, poll, posted, unsure>>

Known == sock.ev \in bridge.seen

Bound == IF bridge.bound = {} THEN {slack[sock.ev].chan} ELSE bridge.bound

\* isDuplicate: an event is handled once, whatever became of it.
Duplicate ==
  /\ sock.pc = "handle" /\ Known
  /\ sock' = Reading
  /\ UNCHANGED <<gateway, origin, slack, bridge, poll, posted, unsure, failed>>

\* isDuplicate remembers an event for a day; if it comes later, it is new.
Expire ==
  /\ sock.pc = "handle" /\ Known
  /\ bridge' = [bridge EXCEPT !.seen = bridge.seen \ {sock.ev}, !.expired = bridge.expired \cup {sock.ev}]
  /\ UNCHANGED <<gateway, origin, slack, sock, poll, posted, unsure, failed>>

\* Faulty Remember: only the channel is bound.
Remember_Nothing == bridge' = [bridge EXCEPT !.bound = Bound]

\* isDuplicate remembers the event; the first channel is bound.
Remember == bridge' = [bridge EXCEPT !.seen = bridge.seen \cup {sock.ev}, !.bound = Bound]

\* handleDMEvent: gateway.recv stores the message.
Handle ==
  /\ sock.pc = "handle" /\ ~Known
  /\ slack[sock.ev].chan \in Bound
  /\ Remember
  /\ Enqueue(slack[sock.ev].chan, sock.ev)
  /\ sock' = Reading
  /\ UNCHANGED <<slack, poll, posted, unsure, failed>>

\* bindChannel refuses the channel, or Enqueue fails: nobody tries again.
HandleFails ==
  /\ sock.pc = "handle" /\ ~Known
  /\ Remember
  /\ sock' = Reading
  /\ failed' = failed \cup {sock.ev}
  /\ UNCHANGED <<gateway, origin, slack, poll, posted, unsure>>

-----------------------------------------------------------------------------
(* From the gateway to Slack: the outbox loop, and to the terminal *)

ChanOf(id) == origin[replies[id].to].chan

\* resolveSlackOutboxChannel: other transports are passed over.
ForSlack(id) == ChanOf(id) \in Channels

\* gateway.outbox_since: at most Limit rows after the last one.
Upto(last) == Min({last + Limit, Len(replies)})

Poll ==
  /\ poll.pc = "idle" /\ poll.last < Len(replies)
  /\ poll' = [poll EXCEPT !.pc = "post", !.upto = Upto(poll.last)]
  /\ UNCHANGED <<gateway, origin, slack, bridge, sock, posted, unsure, failed>>

Current == poll.last + 1

\* The row is dealt with; after the last one of the batch comes the next poll.
Advanced == [poll EXCEPT !.last = Current, !.pc = IF Current = poll.upto THEN "idle" ELSE "post"]

Skip ==
  /\ poll.pc = "post" /\ ~ForSlack(Current)
  /\ poll' = Advanced
  /\ UNCHANGED <<gateway, origin, slack, bridge, sock, posted, unsure, failed>>

\* sendWithRetry: at once, or after the pause that Slack asks for.
Post ==
  /\ poll.pc = "post" /\ ForSlack(Current) /\ ChanOf(Current) \notin Dead
  /\ posted' = Append(posted, Current)
  /\ poll' = Advanced
  /\ UNCHANGED <<gateway, origin, slack, bridge, sock, unsure, failed>>

\* The message is posted but the answer is lost: an error for the bridge.
PostUnsure ==
  /\ poll.pc = "post" /\ ForSlack(Current) /\ ChanOf(Current) \notin Dead
  /\ Cardinality(unsure) < MaxUnsure
  /\ posted' = Append(posted, Current)
  /\ unsure' = unsure \cup {Len(posted) + 1}
  /\ poll' = [poll EXCEPT !.pc = "idle"]
  /\ UNCHANGED <<gateway, origin, slack, bridge, sock, failed>>

\* Faulty PostFails: the row counts as dealt with.
PostFails_Advance ==
  /\ poll.pc = "post" /\ ForSlack(Current)
  /\ poll' = Advanced
  /\ UNCHANGED <<gateway, origin, slack, bridge, sock, posted, unsure, failed>>

\* Faulty PostFails: the loop ends.
PostFails_End ==
  /\ poll.pc = "post" /\ ForSlack(Current)
  /\ poll' = [poll EXCEPT !.pc = "off"]
  /\ UNCHANGED <<gateway, origin, slack, bridge, sock, posted, unsure, failed>>

\* The batch is given up; the next poll begins with the same row.
PostFails ==
  /\ poll.pc = "post" /\ ForSlack(Current)
  /\ poll' = [poll EXCEPT !.pc = "idle"]
  /\ UNCHANGED <<gateway, origin, slack, bridge, sock, posted, unsure, failed>>

-----------------------------------------------------------------------------

Next ==
  \/ Boot \/ RunService \/ Stop \/ Answer \/ TuiSay
  \/ \E e \in Events : Write(e) \/ \E arrives, fails \in BOOLEAN : Receive(e, arrives, fails)
  \/ Connect \/ Disconnect \/ Duplicate \/ Expire \/ Handle \/ HandleFails
  \/ Poll \/ Skip \/ Post \/ PostUnsure \/ PostFails

Spec == Init /\ [][Next]_vars

\* The outbox loop goes on, and Slack accepts a post that is tried over and over.
Fairness ==
  /\ WF_vars(Poll \/ Skip \/ Post \/ PostFails)
  /\ SF_vars(Post)

FairSpec == Spec /\ Fairness

-----------------------------------------------------------------------------
(* Properties *)

\* Every variable keeps its type.
TypeOK ==
  /\ accepted = Len(origin) /\ Len(origin) <= MaxInbound
  /\ origin \in Seq([chan : Channels \cup {"tui"}, ev : Events \cup {NoEvent}, life : Nat])
  /\ slack \in [Events -> [pc : {"unwritten", "sent", "acked"}, chan : Channels]]
  /\ bridge \in [pc : {"off", "built", "up"}, life : Nat, bound : SUBSET Channels, seen : SUBSET Events,
                expired : SUBSET Events]
  /\ sock \in [pc : {"down", "read", "handle"}, ev : Events \cup {NoEvent}]
  /\ poll \in [pc : {"off", "idle", "post"}, last : Nat, upto : Nat, start : Nat]
  /\ posted \in Seq(1..Len(replies))
  /\ unsure \subseteq DOMAIN posted /\ failed \subseteq Events

\* The bridge loses no reply in its life: from the one it started with, it has
\* posted what it has passed.
RepliesKept ==
  \A id \in poll.start + 1..poll.last : ForSlack(id) => \E k \in DOMAIN posted : posted[k] = id

\* With the types.
DeliveryInv == TypeOK /\ RepliesKept

\* Replies reach Slack in the order in which the messages were accepted, over
\* all the lives of the bridge, and again only after a lost answer.
PostsInOrder ==
  \A i, j \in DOMAIN posted : i < j =>
    /\ replies[posted[i]].to <= replies[posted[j]].to
    /\ posted[i] = posted[j] => i \in unsure

\* An event is accepted once in the life of a bridge, unless Slack still sends
\* it after a day, and once more in a later life only if its acknowledgement did
\* not arrive.  An event that was acknowledged is accepted, unless it was refused
\* or something failed.
EventsOnce ==
  /\ \A i, j \in DOMAIN origin :
       i < j /\ origin[i].ev = origin[j].ev /\ origin[i].ev # NoEvent =>
         origin[i].life < origin[j].life \/ origin[i].ev \in bridge.expired
  /\ \A e \in Events :
       slack[e].pc = "acked" /\ sock.ev # e =>
         \/ \E i \in DOMAIN origin : origin[i].ev = e
         \/ e \in failed

\* Reply id was stored while the bridge runs, has yet to be posted, and does not
\* wait behind one for a channel that takes no posts.
Held(id) ==
  /\ bridge.pc = "up" /\ id \in poll.start + 1..Len(replies) /\ poll.last < id
  /\ \A k \in poll.last + 1..id : ChanOf(k) \notin Dead

\* A reply that is stored while the bridge runs is not held back for ever: it is
\* posted, or the process ends.  Only a channel that takes no posts holds it up.
RepliesPosted == \A id \in 1..MaxInbound : []<>~Held(id)
=============================================================================
