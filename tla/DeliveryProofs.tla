--------------------------- MODULE DeliveryProofs ---------------------------
(***************************************************************************)
(* Proofs about Delivery for any events, channels, batch size and number   *)
(* of accepted messages, lives of the bridge and lost answers.             *)
(***************************************************************************)
EXTENDS Delivery, TLAPS

-----------------------------------------------------------------------------
(* The inductive invariant *)

Answers == [to : 1..MaxInbound, session : {Session}, kind : {"answer", "failure"}]

\* The gateway's promise: replies come in the order of the messages, and what
\* waits is younger than what was answered.
GatewayOrdered ==
  /\ accepted \in 0..MaxInbound
  /\ waiting \subseteq [id : 1..accepted, session : {Session}]
  /\ replies \in Seq(Answers)
  /\ \A i \in 1..Len(replies) : replies[i].to <= accepted
  /\ \A i, j \in 1..Len(replies) : i < j => replies[i].to < replies[j].to
  /\ \A i \in 1..Len(replies), m \in waiting : replies[i].to < m.id

\* The loops run while the bridge is up, and a batch is made of stored replies.
LoopsUp ==
  /\ sock.pc = "handle" <=> sock.ev # NoEvent
  /\ sock.pc # "down" => bridge.pc = "up"
  /\ poll.pc # "off" <=> bridge.pc = "up"
  /\ poll.last <= Len(replies)
  /\ poll.pc = "post" => poll.last < poll.upto /\ poll.upto <= Len(replies)
  /\ poll.pc = "off" => poll.last = 0

\* Replies are posted in their order, twice only if the first answer was lost;
\* what was posted has been passed, or is the one whose answer was lost.
PostedInOrder ==
  /\ \A i, j \in 1..Len(posted) :
       i < j => posted[i] <= posted[j] /\ (posted[i] = posted[j] => i \in unsure)
  /\ poll.pc # "off" =>
       \A k \in 1..Len(posted) :
         posted[k] <= poll.last \/ (posted[k] = poll.last + 1 /\ k \in unsure)

\* The bridge remembers what it handled in its life, or did so for a day, and it
\* handled what it remembers.
SeenKnown ==
  /\ \A i \in 1..Len(origin) :
       /\ origin[i].life <= bridge.life
       /\ origin[i].ev # NoEvent /\ origin[i].life = bridge.life /\ bridge.pc # "off" =>
            origin[i].ev \in bridge.seen \cup bridge.expired
  /\ \A e \in bridge.seen : e \in failed \/ \E i \in 1..Len(origin) : origin[i].ev = e

OutboxInv == TypeOK /\ GatewayOrdered /\ LoopsUp

-----------------------------------------------------------------------------
(* Sequences and records *)

\* What Append does.
LEMMA Appended ==
  ASSUME NEW T, NEW s \in Seq(T), NEW x \in T
  PROVE  /\ Append(s, x) \in Seq(T) /\ Len(s) \in Nat
         /\ Len(Append(s, x)) = Len(s) + 1
         /\ \A k \in 1..Len(s) : Append(s, x)[k] = s[k]
         /\ Append(s, x)[Len(s) + 1] = x
  OBVIOUS

LEMMA SeqGrows ==
  ASSUME NEW S, NEW T, S \subseteq T, NEW s \in Seq(S)
  PROVE  s \in Seq(T)
<1>1. /\ Len(s) \in Nat /\ s = [k \in 1..Len(s) |-> s[k]]
      /\ \A k \in 1..Len(s) : s[k] \in T
  OBVIOUS
<1> DEFINE n == Len(s)
<1> HIDE DEF n
<1>2. [k \in 1..n |-> s[k]] \in Seq(T)
  BY <1>1 DEF n
<1> QED BY <1>1, <1>2 DEF n

\* A batch ends behind its beginning, and with a stored reply.
LEMMA UptoFacts ==
  ASSUME NEW last \in Nat, Len(replies) \in Nat, last < Len(replies)
  PROVE  Upto(last) \in Nat /\ last < Upto(last) /\ Upto(last) <= Len(replies)
<1> DEFINE a == last + Limit
           b == Len(replies)
<1>1. a \in Nat /\ b \in Nat /\ last < a /\ last < b
  BY DeliveryAssumption
<1>2. \E x \in {a, b} : \A y \in {a, b} : x <= y
  <2> HIDE DEF a, b
  <2> QED BY <1>1
<1>3. Min({a, b}) \in {a, b} /\ \A y \in {a, b} : Min({a, b}) <= y
  <2> HIDE DEF a, b
  <2> QED BY <1>2 DEF Min
<1>4. Upto(last) = Min({a, b})
  BY DEF Upto
<1> QED BY <1>1, <1>3, <1>4

OriginRow == [chan : Channels \cup {"tui"}, ev : Events \cup {NoEvent}, life : Nat]
SlackRow == [pc : {"unwritten", "sent", "acked"}, chan : Channels]
Bridge == [pc : {"off", "built", "up"}, life : Nat, bound : SUBSET Channels, seen : SUBSET Events,
           expired : SUBSET Events]
Sock == [pc : {"down", "read", "handle"}, ev : Events \cup {NoEvent}]
PollRow == [pc : {"off", "idle", "post"}, last : Nat, upto : Nat, start : Nat]

LEMMA Types ==
  ASSUME TypeOK
  PROVE  /\ accepted = Len(origin) /\ Len(origin) <= MaxInbound /\ origin \in Seq(OriginRow)
         /\ slack \in [Events -> SlackRow] /\ bridge \in Bridge /\ sock \in Sock
         /\ poll \in PollRow /\ posted \in Seq(1..Len(replies))
         /\ unsure \subseteq 1..Len(posted) /\ failed \subseteq Events
  BY DEF TypeOK, OriginRow, SlackRow, Bridge, Sock, PollRow

\* The gateway takes a message.
LEMMA Accepts ==
  ASSUME OutboxInv, NEW chan \in Channels \cup {"tui"}, NEW ev \in Events \cup {NoEvent},
         Enqueue(chan, ev)
  PROVE  /\ origin' \in Seq(OriginRow) /\ Len(origin) \in Nat /\ Len(origin') = Len(origin) + 1
         /\ accepted' = Len(origin') /\ Len(origin') <= MaxInbound
         /\ \A i \in 1..Len(origin) : origin'[i] = origin[i]
         /\ origin'[Len(origin) + 1] = [chan |-> chan, ev |-> ev, life |-> bridge.life]
         /\ replies' = replies /\ GatewayOrdered'
<1>0. origin \in Seq(OriginRow) /\ accepted = Len(origin) /\ bridge \in Bridge
  BY Types DEF OutboxInv
<1> DEFINE x == [chan |-> chan, ev |-> ev, life |-> bridge.life]
<1>1. x \in OriginRow
  BY <1>0 DEF OriginRow, Bridge
<1>2. origin' = Append(origin, x)
  BY DEF Enqueue
<1>3. /\ accepted < MaxInbound /\ accepted' = accepted + 1
      /\ waiting' = waiting \cup {[id |-> accepted + 1, session |-> Session]}
      /\ replies' = replies
  BY DEF Enqueue, Gateway!Accept
<1>4. /\ origin' \in Seq(OriginRow) /\ Len(origin) \in Nat /\ Len(origin') = Len(origin) + 1
      /\ \A i \in 1..Len(origin) : origin'[i] = origin[i]
      /\ origin'[Len(origin) + 1] = x
  <2> HIDE DEF x
  <2> QED BY <1>0, <1>1, <1>2, Appended
<1>5. GatewayOrdered'
  <2>0. /\ accepted \in 0..MaxInbound
        /\ waiting \subseteq [id : 1..accepted, session : {Session}]
        /\ replies \in Seq(Answers)
        /\ \A i \in 1..Len(replies) : replies[i].to <= accepted
        /\ \A i, j \in 1..Len(replies) : i < j => replies[i].to < replies[j].to
        /\ \A i \in 1..Len(replies), m \in waiting : replies[i].to < m.id
    BY DEF OutboxInv, GatewayOrdered
  <2>1. accepted' \in 0..MaxInbound
    BY <2>0, <1>3, DeliveryAssumption
  <2>2. waiting' \subseteq [id : 1..accepted', session : {Session}]
    BY <2>0, <1>3
  <2>3. \A i \in 1..Len(replies) : replies[i].to \in 1..MaxInbound
    <3>1. \A i \in 1..Len(replies) : replies[i] \in Answers
      BY <2>0
    <3> QED BY <3>1 DEF Answers
  <2>4. \A i \in 1..Len(replies) : replies[i].to <= accepted' /\ replies[i].to < accepted + 1
    BY <2>0, <2>3, <1>3
  <2>5. \A i \in 1..Len(replies), m \in waiting' : replies[i].to < m.id
    BY <2>0, <2>4, <1>3
  <2> QED BY <2>0, <2>1, <2>2, <2>4, <2>5, <1>3 DEF GatewayOrdered
<1> QED BY <1>0, <1>3, <1>4, <1>5, DeliveryAssumption

\* The gateway answers the oldest message that waits.
LEMMA Replies ==
  ASSUME OutboxInv, NEW m \in waiting, Gateway!Reply(m, "answer")
  PROVE  /\ accepted' = accepted /\ GatewayOrdered'
         /\ Len(replies) \in Nat /\ Len(replies') = Len(replies) + 1
         /\ \A i \in 1..Len(replies) : replies'[i] = replies[i]
<1>0. /\ accepted \in 0..MaxInbound
      /\ waiting \subseteq [id : 1..accepted, session : {Session}]
      /\ replies \in Seq(Answers)
      /\ \A i \in 1..Len(replies) : replies[i].to <= accepted
      /\ \A i, j \in 1..Len(replies) : i < j => replies[i].to < replies[j].to
      /\ \A i \in 1..Len(replies), n \in waiting : replies[i].to < n.id
  BY DEF OutboxInv, GatewayOrdered
<1> DEFINE x == [to |-> m.id, session |-> m.session, kind |-> "answer"]
<1>1. /\ \A n \in waiting : n.session = m.session => m.id <= n.id
      /\ waiting' = waiting \ {m} /\ replies' = Append(replies, x) /\ accepted' = accepted
  BY DEF Gateway!Reply
<1>2. m.id \in 1..accepted /\ m.session = Session /\ m = [id |-> m.id, session |-> m.session]
  BY <1>0
<1>3. x \in Answers /\ x.to = m.id
  <2>1. m.id \in 1..MaxInbound
    BY <1>0, <1>2, DeliveryAssumption
  <2> QED BY <1>2, <2>1 DEF Answers
<1>4. /\ replies' \in Seq(Answers) /\ Len(replies) \in Nat /\ Len(replies') = Len(replies) + 1
      /\ \A i \in 1..Len(replies) : replies'[i] = replies[i]
      /\ replies'[Len(replies) + 1] = x
  <2> HIDE DEF x
  <2> QED BY <1>0, <1>1, <1>3, Appended
<1> HIDE DEF x
<1>5. \A i \in 1..Len(replies') : i \in 1..Len(replies) \/ i = Len(replies) + 1
  BY <1>4
<1>6. \A i \in 1..Len(replies') : replies'[i].to <= accepted'
  BY <1>0, <1>1, <1>2, <1>3, <1>4, <1>5
<1>7. ASSUME NEW i \in 1..Len(replies'), NEW j \in 1..Len(replies'), i < j
      PROVE  replies'[i].to < replies'[j].to
  <2>1. i \in 1..Len(replies)
    BY <1>4, <1>7
  <2> QED BY <1>0, <1>3, <1>4, <1>5, <1>7, <2>1
<1>8. ASSUME NEW i \in 1..Len(replies'), NEW n \in waiting'
      PROVE  replies'[i].to < n.id
  <2>1. n \in waiting /\ n # m
    BY <1>1
  <2>2. n.id \in 1..accepted /\ n.session = Session /\ n = [id |-> n.id, session |-> n.session]
    BY <1>0, <2>1
  <2>3. m.id < n.id
    BY <1>1, <1>2, <2>1, <2>2
  <2> QED BY <1>0, <1>3, <1>4, <1>5, <2>1, <2>3
<1>9. waiting' \subseteq [id : 1..accepted', session : {Session}]
  BY <1>0, <1>1
<1> QED BY <1>0, <1>1, <1>4, <1>6, <1>7, <1>8, <1>9 DEF GatewayOrdered

-----------------------------------------------------------------------------
(* Types, the gateway and the loops *)

LEMMA OutboxInit == Init => OutboxInv
<1> SUFFICES ASSUME Init PROVE OutboxInv
  OBVIOUS
<1>1. /\ accepted = 0 /\ waiting = {} /\ replies = <<>> /\ origin = <<>> /\ posted = <<>>
      /\ slack \in [Events -> {[pc |-> "unwritten", chan |-> c] : c \in Channels}]
      /\ bridge = [pc |-> "off", life |-> 0, bound |-> {}, seen |-> {}, expired |-> {}]
      /\ sock = Closed /\ poll = Off /\ unsure = {} /\ failed = {}
  BY DEF Init, Gateway!Init
<1>2. TypeOK
  BY <1>1, DeliveryAssumption DEF TypeOK, Closed, Off
<1>3. GatewayOrdered
  BY <1>1, DeliveryAssumption DEF GatewayOrdered
<1>4. LoopsUp
  BY <1>1 DEF LoopsUp, Closed, Off
<1> QED BY <1>2, <1>3, <1>4 DEF OutboxInv

LEMMA GatewayKept == OutboxInv /\ UNCHANGED gateway => GatewayOrdered'
  BY DEF OutboxInv, GatewayOrdered, gateway

LEMMA OutboxStep == OutboxInv /\ [Next]_vars => OutboxInv'
<1> SUFFICES ASSUME OutboxInv, [Next]_vars PROVE OutboxInv'
  OBVIOUS
<1>0. /\ accepted = Len(origin) /\ Len(origin) <= MaxInbound /\ origin \in Seq(OriginRow)
      /\ slack \in [Events -> SlackRow] /\ bridge \in Bridge /\ sock \in Sock
      /\ poll \in PollRow /\ posted \in Seq(1..Len(replies))
      /\ unsure \subseteq 1..Len(posted) /\ failed \subseteq Events
      /\ replies \in Seq(Answers) /\ LoopsUp
  BY Types DEF OutboxInv, GatewayOrdered
<1>a. Len(replies) \in Nat /\ Len(posted) \in Nat /\ DOMAIN posted = 1..Len(posted)
  BY <1>0
\* What has to be shown of a step that leaves the gateway alone.
<1>b. ASSUME UNCHANGED <<gateway, origin>>, slack' \in [Events -> SlackRow], bridge' \in Bridge,
             sock' \in Sock, poll' \in PollRow, posted' \in Seq(1..Len(replies)),
             unsure' \subseteq 1..Len(posted'), failed' \subseteq Events, LoopsUp'
      PROVE  OutboxInv'
  <2>1. DOMAIN posted' = 1..Len(posted')
    BY <1>b
  <2>2. TypeOK'
    BY <1>0, <1>b, <2>1
       DEF gateway, TypeOK, OriginRow, SlackRow, Bridge, Sock, PollRow
  <2> QED BY <1>b, <2>2, GatewayKept DEF OutboxInv
\* ... or leaves everything to the loops.
<1>c. ASSUME UNCHANGED <<gateway, origin, slack, bridge, sock, posted, unsure, failed>>,
             poll' \in PollRow, poll'.pc = "off" <=> poll.pc = "off",
             poll'.last <= Len(replies),
             poll'.pc = "post" => poll'.last < poll'.upto /\ poll'.upto <= Len(replies),
             poll'.pc # "off"
      PROVE  OutboxInv'
  <2>1. LoopsUp'
    BY <1>0, <1>c DEF LoopsUp, gateway
  <2> QED BY <1>0, <1>b, <1>c, <2>1
<1>d. ASSUME UNCHANGED <<gateway, origin, poll, posted, unsure>>,
             slack' \in [Events -> SlackRow], bridge' \in Bridge, sock' \in Sock,
             failed' \subseteq Events, bridge'.pc = bridge.pc,
             sock'.pc = "handle" <=> sock'.ev # NoEvent, sock'.pc # "down" => bridge.pc = "up"
      PROVE  OutboxInv'
  <2>1. LoopsUp'
    BY <1>0, <1>d DEF LoopsUp, gateway
  <2> QED BY <1>0, <1>b, <1>d, <2>1
<1>e. Closed \in Sock /\ Reading \in Sock /\ Off \in PollRow
  BY DEF Closed, Reading, Off, Sock, PollRow
<1>1. CASE Boot
  <2>1. bridge' \in Bridge /\ bridge'.pc = "built"
    BY <1>0, <1>1 DEF Boot, Bridge
  <2>2. LoopsUp'
    BY <1>0, <1>1, <2>1 DEF Boot, LoopsUp, gateway
  <2> QED BY <1>0, <1>1, <1>b, <2>1, <2>2 DEF Boot
<1>2. CASE RunService
  <2>1. bridge' \in Bridge /\ bridge'.pc = "up"
    BY <1>0, <1>2 DEF RunService, Bridge
  <2>2. /\ poll' \in PollRow /\ poll'.pc = "idle" /\ poll'.last = Len(replies)
    BY <1>a, <1>2 DEF RunService, PollRow
  <2>3. LoopsUp'
    BY <1>0, <1>a, <1>2, <2>1, <2>2 DEF RunService, LoopsUp, gateway
  <2> QED BY <1>0, <1>2, <1>b, <2>1, <2>2, <2>3 DEF RunService
<1>3. CASE Stop
  <2>1. bridge' \in Bridge /\ bridge'.pc = "off"
    BY <1>0, <1>3 DEF Stop, Bridge
  <2>2. failed' \subseteq Events
    BY <1>0, <1>3 DEF Stop, Sock
  <2>3. LoopsUp'
    BY <1>a, <1>3, <2>1 DEF Stop, LoopsUp, gateway, Closed, Off
  <2> QED BY <1>0, <1>3, <1>b, <1>e, <2>1, <2>2, <2>3 DEF Stop
<1>4. CASE Answer
  <2>1. PICK m \in waiting : Gateway!Reply(m, "answer")
    BY <1>4 DEF Answer
  <2>2. /\ accepted' = accepted /\ GatewayOrdered' /\ Len(replies') = Len(replies) + 1
    BY <2>1, Replies
  <2>3. UNCHANGED <<origin, slack, bridge, sock, poll, posted, unsure, failed>>
    BY <1>4 DEF Answer, bridgeVars
  <2>4. posted \in Seq(1..Len(replies'))
    <3>1. 1..Len(replies) \subseteq 1..Len(replies')
      BY <1>a, <2>2
    <3> QED BY <1>0, <3>1, SeqGrows
  <2>5. LoopsUp'
    <3>1. poll.last \in Nat /\ poll.upto \in Nat
      BY <1>0 DEF PollRow
    <3> QED BY <1>0, <1>a, <2>2, <2>3, <3>1 DEF LoopsUp
  <2>6. TypeOK'
    BY <1>0, <1>a, <2>2, <2>3, <2>4
       DEF TypeOK, OriginRow, SlackRow, Bridge, Sock, PollRow
  <2> QED BY <2>2, <2>5, <2>6 DEF OutboxInv
\* The gateway takes a message, and the socket loop reads on.
<1>f. ASSUME NEW chan \in Channels \cup {"tui"}, NEW ev \in Events \cup {NoEvent},
             Enqueue(chan, ev), UNCHANGED <<slack, poll, posted, unsure, failed>>,
             bridge' \in Bridge, bridge'.pc = bridge.pc, sock' \in Sock,
             sock'.pc = "handle" <=> sock'.ev # NoEvent, sock'.pc # "down" => bridge.pc = "up"
      PROVE  OutboxInv'
  <2>1. /\ origin' \in Seq(OriginRow) /\ accepted' = Len(origin') /\ Len(origin') <= MaxInbound
        /\ replies' = replies /\ GatewayOrdered'
    BY <1>f, Accepts
  <2>2. LoopsUp'
    BY <1>0, <1>f, <2>1 DEF LoopsUp
  <2>3. TypeOK'
    BY <1>0, <1>a, <1>f, <2>1
       DEF TypeOK, OriginRow, SlackRow, Bridge, Sock, PollRow
  <2> QED BY <2>1, <2>2, <2>3 DEF OutboxInv
<1>5. CASE TuiSay
  BY <1>0, <1>5, <1>f DEF TuiSay, bridgeVars, LoopsUp
<1>6. ASSUME NEW e \in Events, Write(e) PROVE OutboxInv'
  <2>1. slack' \in [Events -> SlackRow]
    BY <1>0, <1>6 DEF Write, SlackRow
  <2> QED BY <1>0, <1>6, <1>d, <2>1 DEF Write, bridgeVars, LoopsUp
<1>7. CASE Connect
  BY <1>0, <1>7, <1>d, <1>e DEF Connect, Reading
<1>8. CASE Disconnect
  BY <1>0, <1>8, <1>d, <1>e DEF Disconnect, Closed
<1>9. ASSUME NEW e \in Events, NEW arrives \in BOOLEAN, NEW fails \in BOOLEAN,
             Receive(e, arrives, fails)
      PROVE  OutboxInv'
  <2>1. slack' \in [Events -> SlackRow]
    BY <1>0, <1>9 DEF Receive, SlackRow
  <2>2. /\ sock' \in Sock /\ (sock'.pc = "handle" <=> sock'.ev # NoEvent)
        /\ bridge.pc = "up"
    BY <1>0, <1>9, DeliveryAssumption DEF Receive, Sock, Closed, LoopsUp
  <2>3. failed' \subseteq Events
    BY <1>0, <1>9 DEF Receive
  <2> QED BY <1>0, <1>9, <1>d, <2>1, <2>2, <2>3 DEF Receive
<1>10. CASE Duplicate
  BY <1>0, <1>10, <1>d, <1>e DEF Duplicate, Reading, LoopsUp
<1>19. CASE Expire
  <2>1. sock.ev \in Events /\ bridge.pc = "up"
    BY <1>0, <1>19 DEF Expire, LoopsUp, Sock
  <2>2. bridge' \in Bridge /\ bridge'.pc = bridge.pc
    BY <1>0, <1>19, <2>1 DEF Expire, Bridge
  <2> QED BY <1>0, <1>19, <1>d, <2>1, <2>2 DEF Expire, LoopsUp
<1>g. ASSUME sock.pc = "handle", Remember
      PROVE  /\ sock.ev \in Events /\ slack[sock.ev].chan \in Channels
             /\ bridge' \in Bridge /\ bridge'.pc = bridge.pc /\ bridge.pc = "up"
  <2>1. sock.ev \in Events
    BY <1>0, <1>g DEF LoopsUp, Sock
  <2>2. slack[sock.ev].chan \in Channels
    BY <1>0, <2>1 DEF SlackRow
  <2>3. Bound \subseteq Channels
    BY <1>0, <2>2 DEF Bound, Bridge
  <2> QED BY <1>0, <1>g, <2>1, <2>2, <2>3 DEF Remember, Bridge, LoopsUp
<1>11. CASE Handle
  BY <1>e, <1>f, <1>g, <1>11 DEF Handle, Reading
<1>12. CASE HandleFails
  BY <1>0, <1>d, <1>e, <1>g, <1>12 DEF HandleFails, Reading
<1>13. CASE Poll
  <2>1. poll.last \in Nat /\ poll.last < Len(replies)
    BY <1>0, <1>13 DEF Poll, PollRow
  <2>2. Upto(poll.last) \in Nat /\ poll.last < Upto(poll.last) /\ Upto(poll.last) <= Len(replies)
    BY <1>a, <2>1, UptoFacts
  <2>3. /\ poll' \in PollRow /\ poll'.pc = "post" /\ poll'.last = poll.last
        /\ poll'.upto = Upto(poll.last)
    BY <1>0, <1>13, <2>2 DEF Poll, PollRow
  <2> QED BY <1>0, <1>13, <1>c, <2>1, <2>2, <2>3 DEF Poll
<1>h. ASSUME poll.pc = "post"
      PROVE  /\ Advanced \in PollRow /\ Advanced.last = Current /\ Current <= Len(replies)
             /\ Advanced.pc \in {"idle", "post"} /\ Current \in 1..Len(replies)
             /\ Advanced.pc = "post" => Advanced.last < Advanced.upto
             /\ Advanced.upto <= Len(replies)
  <2>1. poll.last \in Nat /\ poll.upto \in Nat /\ poll.last < poll.upto /\ poll.upto <= Len(replies)
    BY <1>0, <1>h DEF LoopsUp, PollRow
  <2>2. Current \in Nat /\ Current <= poll.upto /\ Current >= 1
    BY <2>1 DEF Current
  <2>3. /\ Advanced \in PollRow /\ Advanced.last = Current /\ Advanced.upto = poll.upto
        /\ Advanced.pc = IF Current = poll.upto THEN "idle" ELSE "post"
    BY <1>0, <2>1, <2>2 DEF Advanced, PollRow
  <2> QED BY <1>a, <2>1, <2>2, <2>3
<1>14. CASE Skip
  BY <1>0, <1>c, <1>h, <1>14 DEF Skip
<1>i. ASSUME poll.pc = "post", posted' = Append(posted, Current)
      PROVE  posted' \in Seq(1..Len(replies)) /\ Len(posted') = Len(posted) + 1
  BY <1>0, <1>h, <1>i, Appended
<1>15. CASE Post
  <2>1. poll.pc = "post" /\ posted' = Append(posted, Current) /\ poll' = Advanced
    BY <1>15 DEF Post
  <2>2. posted' \in Seq(1..Len(replies)) /\ unsure \subseteq 1..Len(posted')
    BY <1>0, <1>a, <1>i, <2>1
  <2>3. LoopsUp'
    BY <1>0, <1>15, <1>h, <2>1 DEF Post, LoopsUp, gateway
  <2> QED BY <1>0, <1>15, <1>b, <1>h, <2>1, <2>2, <2>3 DEF Post
<1>16. CASE PostUnsure
  <2>1. /\ poll.pc = "post" /\ posted' = Append(posted, Current)
        /\ poll' = [poll EXCEPT !.pc = "idle"] /\ unsure' = unsure \cup {Len(posted) + 1}
    BY <1>16 DEF PostUnsure
  <2>2. posted' \in Seq(1..Len(replies)) /\ unsure' \subseteq 1..Len(posted')
    BY <1>0, <1>a, <1>i, <2>1
  <2>3. poll' \in PollRow /\ poll'.pc = "idle" /\ poll'.last = poll.last
    BY <1>0, <2>1 DEF PollRow
  <2>4. LoopsUp'
    BY <1>0, <1>16, <2>1, <2>3 DEF PostUnsure, LoopsUp, gateway
  <2> QED BY <1>0, <1>16, <1>b, <2>1, <2>2, <2>3, <2>4 DEF PostUnsure
<1>17. CASE PostFails
  <2>1. poll' \in PollRow /\ poll'.pc = "idle" /\ poll'.last = poll.last
    BY <1>0, <1>17 DEF PostFails, PollRow
  <2> QED BY <1>0, <1>17, <1>c, <2>1 DEF PostFails, LoopsUp
<1>18. CASE UNCHANGED vars
  BY <1>0, <1>18, <1>d DEF vars, gateway, LoopsUp
<1> QED
  BY <1>1, <1>2, <1>3, <1>4, <1>5, <1>6, <1>7, <1>8, <1>9, <1>10, <1>11, <1>12, <1>13, <1>14,
     <1>15, <1>16, <1>17, <1>18, <1>19 DEF Next

-----------------------------------------------------------------------------
(* The order of the posts *)

PostsInv == PostedInOrder /\ RepliesKept

LEMMA PostsInit == Init => PostsInv
  BY DEF Init, Off, PostsInv, PostedInOrder, RepliesKept

\* For whom a stored reply is stays.
LEMMA ForSlackKept ==
  ASSUME OutboxInv, [Next]_vars, NEW id \in 1..Len(replies)
  PROVE  ForSlack(id)' <=> ForSlack(id)
<1>0. /\ accepted = Len(origin) /\ replies \in Seq(Answers) /\ origin \in Seq(OriginRow)
      /\ \A i \in 1..Len(replies) : replies[i].to <= accepted
  BY Types DEF OutboxInv, GatewayOrdered
<1>1. replies[id].to \in 1..Len(origin)
  <2>1. replies[id] \in Answers
    BY <1>0
  <2> QED BY <1>0, <2>1, DeliveryAssumption DEF Answers
<1>2. CASE UNCHANGED <<replies, origin>>
  BY <1>2 DEF ForSlack, ChanOf
<1>3. CASE Answer
  <2>1. PICK m \in waiting : Gateway!Reply(m, "answer")
    BY <1>3 DEF Answer
  <2> QED BY <1>1, <1>3, <2>1, Replies DEF Answer, ForSlack, ChanOf
<1>4. ASSUME NEW chan \in Channels \cup {"tui"}, NEW ev \in Events \cup {NoEvent},
             Enqueue(chan, ev)
      PROVE  ForSlack(id)' <=> ForSlack(id)
  BY <1>1, <1>4, Accepts DEF ForSlack, ChanOf
<1>5. CASE TuiSay
  BY <1>4, <1>5 DEF TuiSay
<1>6. CASE Handle
  <2>1. sock.ev \in Events /\ slack[sock.ev].chan \in Channels
    BY <1>6, Types DEF Handle, OutboxInv, LoopsUp, Sock, SlackRow
  <2> QED BY <1>4, <1>6, <2>1 DEF Handle
<1> QED
  BY <1>2, <1>3, <1>5, <1>6
     DEF Next, Boot, RunService, Stop, Write, Connect, Disconnect, Receive, Duplicate, Expire, HandleFails,
         Poll, Skip, Post, PostUnsure, PostFails, gateway, vars

\* A step that posts nothing and passes nothing.
LEMMA PostsKept ==
  ASSUME OutboxInv, PostsInv, [Next]_vars, UNCHANGED <<posted, unsure>>,
         poll'.last = poll.last, poll'.start = poll.start, poll'.pc # "off" => poll.pc # "off"
  PROVE  PostsInv'
<1>1. PostedInOrder'
  BY DEF PostsInv, PostedInOrder
<1>2. poll.last \in Nat /\ poll.start \in Nat /\ poll.last <= Len(replies) /\ Len(replies) \in Nat
  BY Types DEF OutboxInv, LoopsUp, PollRow, GatewayOrdered
<1>3. RepliesKept'
  <2> SUFFICES ASSUME NEW id \in poll.start + 1..poll.last, ForSlack(id)'
               PROVE  \E k \in DOMAIN posted : posted[k] = id
    BY DEF RepliesKept
  <2>1. id \in 1..Len(replies)
    BY <1>2
  <2> QED BY <2>1, ForSlackKept DEF PostsInv, RepliesKept
<1> QED BY <1>1, <1>3 DEF PostsInv

LEMMA PostsStep == OutboxInv /\ PostsInv /\ [Next]_vars => PostsInv'
<1> SUFFICES ASSUME OutboxInv, PostsInv, [Next]_vars PROVE PostsInv'
  OBVIOUS
<1>0. /\ poll \in PollRow /\ posted \in Seq(1..Len(replies)) /\ unsure \subseteq 1..Len(posted)
      /\ Len(replies) \in Nat /\ poll.last <= Len(replies)
      /\ PostedInOrder /\ RepliesKept /\ LoopsUp
  BY Types DEF OutboxInv, GatewayOrdered, LoopsUp, PostsInv
<1>1. poll.last \in Nat /\ poll.start \in Nat /\ poll.upto \in Nat /\ Len(posted) \in Nat
  BY <1>0 DEF PollRow
<1>2. CASE RunService
  <2>1. /\ poll'.pc = "idle" /\ poll'.last = Len(replies) /\ poll'.start = Len(replies)
        /\ UNCHANGED <<posted, unsure>>
    BY <1>2 DEF RunService
  <2>2. \A k \in 1..Len(posted) : posted[k] <= Len(replies)
    BY <1>0
  <2>3. PostedInOrder'
    BY <1>0, <2>1, <2>2 DEF PostedInOrder
  <2>4. RepliesKept'
    BY <1>0, <2>1 DEF RepliesKept
  <2> QED BY <2>3, <2>4 DEF PostsInv
<1>3. CASE Stop
  <2>1. /\ poll'.pc = "off" /\ poll'.last = 0 /\ poll'.start = 0
        /\ UNCHANGED <<posted, unsure>>
    BY <1>3 DEF Stop, Off
  <2> QED BY <1>0, <2>1 DEF PostedInOrder, RepliesKept, PostsInv
\* The reply that comes next: what was posted comes before it, or is itself
\* and its answer was lost.
<1>4. ASSUME poll.pc = "post"
      PROVE  /\ Current \in 1..Len(replies) /\ Current = poll.last + 1
             /\ Advanced.pc # "off" /\ Advanced.last = Current /\ Advanced.start = poll.start
             /\ \A k \in 1..Len(posted) : posted[k] <= Current /\ (posted[k] = Current => k \in unsure)
  <2>1. Current = poll.last + 1 /\ Current \in 1..Len(replies)
    BY <1>0, <1>1, <1>4 DEF Current, LoopsUp
  <2>2. Advanced.pc # "off" /\ Advanced.last = Current /\ Advanced.start = poll.start
    BY <1>0 DEF Advanced, PollRow
  <2>3. \A k \in 1..Len(posted) : posted[k] \in Nat
    BY <1>0
  <2> QED BY <1>0, <1>1, <1>4, <2>1, <2>2, <2>3 DEF PostedInOrder
\* The posts and what the bridge has passed after the row is dealt with.
<1>5. CASE Skip
  <2>1. poll.pc = "post" /\ poll' = Advanced /\ ~ForSlack(Current) /\ UNCHANGED <<posted, unsure>>
    BY <1>5 DEF Skip
  <2>2. PostedInOrder'
    BY <1>0, <1>4, <2>1 DEF PostedInOrder
  <2>3. RepliesKept'
    <3> SUFFICES ASSUME NEW id \in poll'.start + 1..poll'.last, ForSlack(id)'
                 PROVE  \E k \in DOMAIN posted : posted[k] = id
      BY <2>1 DEF RepliesKept
    <3>1. id \in 1..Len(replies) /\ id # Current
      BY <1>0, <1>1, <1>4, <2>1, ForSlackKept
    <3>2. id \in poll.start + 1..poll.last
      <4>1. id \in poll.start + 1..poll.last + 1 /\ id # poll.last + 1
        BY <1>4, <2>1, <3>1
      <4> QED BY <1>1, <4>1
    <3> QED BY <1>0, <3>1, <3>2, ForSlackKept DEF RepliesKept
  <2> QED BY <2>2, <2>3 DEF PostsInv
\* The reply is posted after the others.
<1>6. ASSUME poll.pc = "post", posted' = Append(posted, Current)
      PROVE  /\ Len(posted') = Len(posted) + 1 /\ posted'[Len(posted) + 1] = Current
             /\ \A k \in 1..Len(posted) : posted'[k] = posted[k]
             /\ \A i, j \in 1..Len(posted') :
                  i < j => posted'[i] <= posted'[j] /\ (posted'[i] = posted'[j] => i \in unsure)
  <2>1. /\ Len(posted') = Len(posted) + 1 /\ posted'[Len(posted) + 1] = Current
        /\ \A k \in 1..Len(posted) : posted'[k] = posted[k]
    BY <1>0, <1>4, <1>6, Appended
  <2>2. ASSUME NEW i \in 1..Len(posted'), NEW j \in 1..Len(posted'), i < j
        PROVE  posted'[i] <= posted'[j] /\ (posted'[i] = posted'[j] => i \in unsure)
    <3>1. i \in 1..Len(posted)
      BY <1>1, <2>1, <2>2
    <3>2. CASE j = Len(posted) + 1
      BY <1>4, <1>6, <2>1, <3>1, <3>2
    <3>3. CASE j # Len(posted) + 1
      <4>1. j \in 1..Len(posted)
        BY <1>1, <2>1, <3>3
      <4> QED BY <1>0, <2>1, <2>2, <3>1, <4>1 DEF PostedInOrder
    <3> QED BY <3>2, <3>3
  <2> QED BY <2>1, <2>2
<1>7. CASE Post
  <2>1. /\ poll.pc = "post" /\ posted' = Append(posted, Current) /\ poll' = Advanced
        /\ unsure' = unsure
    BY <1>7 DEF Post
  <2>2. PostedInOrder'
    <3>1. \A k \in 1..Len(posted') : posted'[k] <= Current
      BY <1>1, <1>4, <1>6, <2>1
    <3> QED BY <1>4, <1>6, <2>1, <3>1 DEF PostedInOrder
  <2>3. RepliesKept'
    <3> SUFFICES ASSUME NEW id \in poll'.start + 1..poll'.last, ForSlack(id)'
                 PROVE  \E k \in DOMAIN posted' : posted'[k] = id
      BY DEF RepliesKept
    <3>0. DOMAIN posted = 1..Len(posted) /\ DOMAIN posted' = 1..Len(posted')
      BY <1>0, <1>4, <2>1, Appended
    <3>1. CASE id = Current
      BY <1>1, <1>6, <2>1, <3>0, <3>1
    <3>2. CASE id # Current
      <4>0. id \in poll.start + 1..poll.last + 1 /\ id # poll.last + 1
        BY <1>4, <2>1, <3>2
      <4>a. id \in poll.start + 1..poll.last
        BY <1>1, <4>0
      <4>1. id \in 1..Len(replies) /\ id \in poll.start + 1..poll.last
        BY <1>0, <1>1, <4>a
      <4>2. \E k \in DOMAIN posted : posted[k] = id
        BY <1>0, <4>1, ForSlackKept DEF RepliesKept
      <4> QED BY <1>1, <1>6, <2>1, <3>0, <4>2
    <3> QED BY <3>1, <3>2
  <2> QED BY <2>2, <2>3 DEF PostsInv
<1>8. CASE PostUnsure
  <2>1. /\ poll.pc = "post" /\ posted' = Append(posted, Current)
        /\ poll' = [poll EXCEPT !.pc = "idle"] /\ unsure' = unsure \cup {Len(posted) + 1}
    BY <1>8 DEF PostUnsure
  <2>2. poll'.pc = "idle" /\ poll'.last = poll.last /\ poll'.start = poll.start
    BY <1>0, <2>1 DEF PollRow
  <2>3. PostedInOrder'
    <3>1. ASSUME NEW k \in 1..Len(posted')
          PROVE  posted'[k] <= poll.last \/ (posted'[k] = poll.last + 1 /\ k \in unsure')
      <4>1. CASE k = Len(posted) + 1
        BY <1>4, <1>6, <2>1, <4>1
      <4>2. CASE k # Len(posted) + 1
        <5>1. k \in 1..Len(posted)
          BY <1>1, <1>6, <2>1, <4>2
        <5> QED BY <1>0, <1>6, <2>1, <5>1 DEF PostedInOrder
      <4> QED BY <4>1, <4>2
    <3> QED BY <1>6, <2>1, <2>2, <3>1 DEF PostedInOrder
  <2>4. RepliesKept'
    <3> SUFFICES ASSUME NEW id \in poll.start + 1..poll.last, ForSlack(id)'
                 PROVE  \E k \in DOMAIN posted' : posted'[k] = id
      BY <2>2 DEF RepliesKept
    <3>1. DOMAIN posted = 1..Len(posted) /\ DOMAIN posted' = 1..Len(posted')
      BY <1>0, <1>4, <2>1, Appended
    <3>2. id \in 1..Len(replies)
      BY <1>0, <1>1
    <3>3. \E k \in DOMAIN posted : posted[k] = id
      BY <1>0, <3>2, ForSlackKept DEF RepliesKept
    <3> QED BY <1>1, <1>6, <2>1, <3>1, <3>3
  <2> QED BY <2>3, <2>4 DEF PostsInv
<1>9. CASE Poll \/ PostFails
  <2>1. poll'.last = poll.last /\ poll'.start = poll.start /\ poll.pc # "off"
    BY <1>0, <1>9 DEF Poll, PostFails, PollRow
  <2> QED BY <1>9, <2>1, PostsKept DEF Poll, PostFails
<1>10. CASE UNCHANGED <<posted, unsure, poll>>
  BY <1>10, PostsKept
<1> QED
  BY <1>2, <1>3, <1>5, <1>7, <1>8, <1>9, <1>10
     DEF Next, Boot, Answer, TuiSay, Write, Connect, Disconnect, Receive, Duplicate, Expire, Handle,
         HandleFails, bridgeVars, vars

\* Every variable keeps its type, and the bridge loses no reply in its life:
\* from the one it started behind, it has posted what it has passed.
THEOREM NoReplyLost == Spec => []DeliveryInv
<1>1. Init => OutboxInv /\ PostsInv
  BY OutboxInit, PostsInit
<1>2. OutboxInv /\ PostsInv /\ [Next]_vars => (OutboxInv /\ PostsInv)'
  BY OutboxStep, PostsStep
<1>3. OutboxInv /\ PostsInv => DeliveryInv
  BY DEF OutboxInv, PostsInv, DeliveryInv
<1> QED BY <1>1, <1>2, <1>3, PTL DEF Spec

\* Replies reach Slack in the order in which the messages were accepted, over
\* all the lives of the bridge, and again only after a lost answer: OutboxMaxID
\* starts every life behind what an earlier one can have posted.
THEOREM PostOrder == Spec => []PostsInOrder
<1>1. Init => OutboxInv /\ PostsInv
  BY OutboxInit, PostsInit
<1>2. OutboxInv /\ PostsInv /\ [Next]_vars => (OutboxInv /\ PostsInv)'
  BY OutboxStep, PostsStep
<1>3. OutboxInv /\ PostsInv => PostsInOrder
  <2> SUFFICES ASSUME OutboxInv, PostsInv, NEW i \in DOMAIN posted, NEW j \in DOMAIN posted, i < j
               PROVE  /\ replies[posted[i]].to <= replies[posted[j]].to
                      /\ posted[i] = posted[j] => i \in unsure
    BY DEF PostsInOrder
  <2>1. posted \in Seq(1..Len(replies)) /\ replies \in Seq(Answers)
    BY Types DEF OutboxInv, GatewayOrdered
  <2>2. /\ i \in 1..Len(posted) /\ j \in 1..Len(posted)
        /\ posted[i] \in 1..Len(replies) /\ posted[j] \in 1..Len(replies)
    BY <2>1
  <2>3. posted[i] <= posted[j] /\ (posted[i] = posted[j] => i \in unsure)
    BY <2>2 DEF PostsInv, PostedInOrder
  <2>4. replies[posted[i]] \in Answers /\ replies[posted[j]] \in Answers
    BY <2>1, <2>2
  <2>5. replies[posted[i]].to \in Nat /\ replies[posted[j]].to \in Nat
    BY <2>4, DeliveryAssumption DEF Answers
  <2>6. posted[i] < posted[j] => replies[posted[i]].to < replies[posted[j]].to
    BY <2>2 DEF OutboxInv, GatewayOrdered
  <2>7. CASE posted[i] = posted[j]
    BY <2>3, <2>5, <2>7
  <2>8. CASE posted[i] # posted[j]
    <3>1. posted[i] < posted[j]
      BY <2>2, <2>3, <2>8
    <3> QED BY <2>5, <2>6, <2>8, <3>1
  <2> QED BY <2>7, <2>8
<1> QED BY <1>1, <1>2, <1>3, PTL DEF Spec

-----------------------------------------------------------------------------
(* The events *)

EventsInv == SeenKnown /\ EventsOnce

LEMMA EventsInit == Init => EventsInv
<1> SUFFICES ASSUME Init PROVE EventsInv
  OBVIOUS
<1>1. \A e \in Events : slack[e].pc = "unwritten"
  BY DEF Init
<1> QED BY <1>1 DEF Init, EventsInv, SeenKnown, EventsOnce

\* A step that accepts nothing: events may be acknowledged, remembered or given
\* up, and the bridge may change.
LEMMA EventsKept ==
  ASSUME OutboxInv, EventsInv, UNCHANGED origin, failed \subseteq failed',
         bridge'.life >= bridge.life,
         bridge'.pc # "off" =>
           \/ bridge'.life > bridge.life
           \/ /\ bridge'.life = bridge.life /\ bridge.pc # "off"
              /\ bridge.seen \subseteq bridge'.seen \cup bridge'.expired,
         bridge.expired \subseteq bridge'.expired,
         bridge'.life \in Nat,
         \A e \in bridge'.seen : e \in bridge.seen \/ e \in failed',
         \A e \in Events : slack'[e].pc = "acked" /\ sock'.ev # e =>
           \/ slack[e].pc = "acked" /\ sock.ev # e
           \/ e \in failed' \cup bridge.seen
  PROVE  EventsInv'
<1>0. /\ bridge \in Bridge /\ origin \in Seq(OriginRow) /\ SeenKnown /\ EventsOnce
      /\ DOMAIN origin = 1..Len(origin)
  BY Types DEF OutboxInv, EventsInv
<1>1. \A i \in 1..Len(origin) : origin[i].life \in Nat
  <2>1. \A i \in 1..Len(origin) : origin[i] \in OriginRow
    BY <1>0
  <2> QED BY <2>1 DEF OriginRow
<1>2. bridge.life \in Nat
  BY <1>0 DEF Bridge
<1>3. SeenKnown'
  <2>1. ASSUME NEW i \in 1..Len(origin)
        PROVE  /\ origin[i].life <= bridge'.life
               /\ origin[i].ev # NoEvent /\ origin[i].life = bridge'.life /\ bridge'.pc # "off" =>
                    origin[i].ev \in bridge'.seen \cup bridge'.expired
    BY <1>0, <1>1, <1>2 DEF SeenKnown
  <2>2. ASSUME NEW e \in bridge'.seen
        PROVE  e \in failed' \/ \E i \in 1..Len(origin) : origin[i].ev = e
    BY <1>0 DEF SeenKnown
  <2> QED BY <2>1, <2>2 DEF SeenKnown
<1>4. EventsOnce'
  <2>1. ASSUME NEW e \in Events, slack'[e].pc = "acked", sock'.ev # e
        PROVE  e \in failed' \/ \E i \in DOMAIN origin : origin[i].ev = e
    BY <1>0, <2>1 DEF SeenKnown, EventsOnce
  <2>2. ASSUME NEW i \in DOMAIN origin, NEW j \in DOMAIN origin,
               i < j, origin[i].ev = origin[j].ev, origin[i].ev # NoEvent
        PROVE  origin[i].life < origin[j].life \/ origin[i].ev \in bridge'.expired
    BY <1>0, <2>2 DEF EventsOnce
  <2> QED BY <2>1, <2>2 DEF EventsOnce
<1> QED BY <1>3, <1>4 DEF EventsInv

\* An event that is new to this life of the bridge is accepted.
LEMMA EventsAccept ==
  ASSUME OutboxInv, EventsInv, NEW chan \in Channels \cup {"tui"}, NEW ev \in Events \cup {NoEvent},
         Enqueue(chan, ev), UNCHANGED <<slack, failed>>,
         ev # NoEvent => ev \notin bridge.seen /\ bridge.pc = "up" /\ ev \in bridge'.seen,
         bridge'.life = bridge.life, bridge'.pc = bridge.pc, bridge'.expired = bridge.expired,
         bridge.seen \subseteq bridge'.seen, \A e \in bridge'.seen : e \in bridge.seen \/ e = ev,
         \A e \in Events : sock.ev = e => sock'.ev = e \/ e = ev
  PROVE  EventsInv'
<1>0. /\ bridge \in Bridge /\ origin \in Seq(OriginRow) /\ SeenKnown /\ EventsOnce
      /\ DOMAIN origin = 1..Len(origin)
  BY Types DEF OutboxInv, EventsInv
<1>1. /\ origin' \in Seq(OriginRow) /\ Len(origin) \in Nat /\ Len(origin') = Len(origin) + 1
      /\ \A i \in 1..Len(origin) : origin'[i] = origin[i]
      /\ origin'[Len(origin) + 1] = [chan |-> chan, ev |-> ev, life |-> bridge.life]
  BY Accepts
<1>2. origin'[Len(origin) + 1].ev = ev /\ origin'[Len(origin) + 1].life = bridge.life
  BY <1>1
<1>3. bridge.life \in Nat /\ DOMAIN origin' = 1..Len(origin')
  BY <1>0, <1>1 DEF Bridge
<1>4. \A i \in 1..Len(origin') : i \in 1..Len(origin) \/ i = Len(origin) + 1
  BY <1>1
<1>5. SeenKnown'
  <2>1. ASSUME NEW i \in 1..Len(origin')
        PROVE  /\ origin'[i].life <= bridge'.life
               /\ origin'[i].ev # NoEvent /\ origin'[i].life = bridge'.life /\ bridge'.pc # "off" =>
                    origin'[i].ev \in bridge'.seen \cup bridge'.expired
    BY <1>0, <1>1, <1>2, <1>3, <1>4 DEF SeenKnown
  <2>2. ASSUME NEW e \in bridge'.seen
        PROVE  e \in failed \/ \E i \in 1..Len(origin') : origin'[i].ev = e
    <3>1. CASE e = ev
      BY <1>1, <1>2, <3>1
    <3>2. CASE e \in bridge.seen
      BY <1>0, <1>1, <3>2 DEF SeenKnown
    <3> QED BY <3>1, <3>2
  <2> QED BY <2>1, <2>2 DEF SeenKnown
<1>6. EventsOnce'
  <2>1. ASSUME NEW i \in DOMAIN origin', NEW j \in DOMAIN origin',
               i < j, origin'[i].ev = origin'[j].ev, origin'[i].ev # NoEvent
        PROVE  origin'[i].life < origin'[j].life \/ origin'[i].ev \in bridge'.expired
    <3>1. i \in 1..Len(origin)
      BY <1>1, <1>3, <2>1
    <3>2. CASE j = Len(origin) + 1
      <4>1. origin[i].ev = ev /\ origin[i].life <= bridge.life
        BY <1>0, <1>1, <1>2, <2>1, <3>1, <3>2 DEF SeenKnown
      <4>2. origin[i].life # bridge.life \/ ev \in bridge.expired
        BY <1>0, <1>1, <2>1, <3>1, <4>1 DEF SeenKnown
      <4>3. origin[i].life \in Nat
        <5>1. origin[i] \in OriginRow
          BY <1>0, <3>1
        <5> QED BY <5>1 DEF OriginRow
      <4> QED BY <1>1, <1>2, <1>3, <3>1, <3>2, <4>1, <4>2, <4>3
    <3>3. CASE j # Len(origin) + 1
      <4>1. j \in 1..Len(origin)
        BY <1>3, <1>4, <3>3
      <4> QED BY <1>0, <1>1, <2>1, <3>1, <4>1 DEF EventsOnce
    <3> QED BY <3>2, <3>3
  <2>2. ASSUME NEW e \in Events, slack[e].pc = "acked", sock'.ev # e
        PROVE  e \in failed \/ \E i \in DOMAIN origin' : origin'[i].ev = e
    <3>1. CASE e = ev
      BY <1>1, <1>2, <1>3, <3>1
    <3>2. CASE e # ev
      <4>1. e \in failed \/ \E i \in DOMAIN origin : origin[i].ev = e
        BY <1>0, <2>2, <3>2 DEF EventsOnce
      <4> QED BY <1>0, <1>1, <1>3, <4>1
    <3> QED BY <3>1, <3>2
  <2> QED BY <2>1, <2>2 DEF EventsOnce
<1> QED BY <1>5, <1>6 DEF EventsInv

LEMMA EventsStep == OutboxInv /\ EventsInv /\ [Next]_vars => EventsInv'
<1> SUFFICES ASSUME OutboxInv, EventsInv, [Next]_vars PROVE EventsInv'
  OBVIOUS
<1>0. /\ slack \in [Events -> SlackRow] /\ bridge \in Bridge /\ sock \in Sock /\ LoopsUp
      /\ failed \subseteq Events /\ bridge.life \in Nat /\ NoEvent \notin Events
  BY Types, DeliveryAssumption DEF OutboxInv, Bridge
<1>1. CASE Boot
  <2>1. bridge'.life = bridge.life + 1 /\ bridge'.seen = {} /\ bridge'.expired = bridge.expired
    BY <1>0, <1>1 DEF Boot, Bridge
  <2> QED BY <1>0, <1>1, <2>1, EventsKept DEF Boot
<1>2. CASE Stop
  <2>1. /\ bridge'.pc = "off" /\ bridge'.life = bridge.life /\ bridge'.seen = {}
        /\ bridge'.expired = bridge.expired
        /\ UNCHANGED <<origin, slack>> /\ failed' = failed \cup ({sock.ev} \ {NoEvent})
    BY <1>0, <1>2 DEF Stop, Bridge
  <2> QED BY <1>0, <2>1, EventsKept
<1>3. CASE TuiSay
  <2>1. UNCHANGED <<slack, bridge, sock, failed>> /\ Enqueue("tui", NoEvent)
    BY <1>3 DEF TuiSay, bridgeVars
  <2> QED BY <2>1, EventsAccept
\* The bridge stays, and nothing is accepted.
<1>4. ASSUME UNCHANGED <<origin, bridge>>, failed \subseteq failed',
             \A e \in Events : slack'[e].pc = "acked" /\ sock'.ev # e =>
               \/ slack[e].pc = "acked" /\ sock.ev # e
               \/ e \in failed' \cup bridge.seen
      PROVE  EventsInv'
  BY <1>0, <1>4, EventsKept
<1>5. ASSUME NEW e \in Events, Write(e) PROVE EventsInv'
  <2>1. \A d \in Events : slack'[d].pc = "acked" => slack[d].pc = "acked"
    BY <1>0, <1>5 DEF Write, SlackRow
  <2> QED BY <1>4, <1>5, <2>1 DEF Write, bridgeVars
<1>6. CASE Connect \/ Disconnect
  <2>1. sock.ev = NoEvent
    BY <1>0, <1>6 DEF Connect, Disconnect, LoopsUp
  <2> QED BY <1>0, <1>4, <1>6, <2>1 DEF Connect, Disconnect
<1>7. ASSUME NEW e \in Events, NEW arrives \in BOOLEAN, NEW fails \in BOOLEAN,
             Receive(e, arrives, fails)
      PROVE  EventsInv'
  <2>1. sock.ev = NoEvent
    BY <1>0, <1>7 DEF Receive, LoopsUp
  <2>2. \A d \in Events : d # e => slack'[d] = slack[d]
    BY <1>0, <1>7 DEF Receive
  <2>3. slack'[e].pc = "acked" => arrives
    BY <1>0, <1>7 DEF Receive
  <2>4. sock'.ev # e => fails
    BY <1>7 DEF Receive
  <2>5. arrives /\ fails => e \in failed'
    BY <1>7 DEF Receive
  <2>6. UNCHANGED <<origin, bridge>> /\ failed \subseteq failed'
    BY <1>7 DEF Receive
  <2> QED BY <1>0, <1>4, <2>1, <2>2, <2>3, <2>4, <2>5, <2>6
<1>8. CASE Duplicate
  BY <1>4, <1>8 DEF Duplicate, Known
<1>9. ASSUME sock.pc = "handle", Remember
      PROVE  /\ sock.ev \in Events /\ slack[sock.ev].chan \in Channels /\ bridge.pc = "up"
             /\ bridge'.pc = bridge.pc /\ bridge'.life = bridge.life
             /\ bridge'.seen = bridge.seen \cup {sock.ev} /\ bridge'.expired = bridge.expired
  BY <1>0, <1>9 DEF Remember, Bridge, LoopsUp, Sock, SlackRow
<1>10. CASE Handle
  BY <1>0, <1>9, <1>10, EventsAccept DEF Handle, Known
<1>11. CASE HandleFails
  BY <1>0, <1>9, <1>11, EventsKept DEF HandleFails
<1>12. CASE RunService
  <2>1. /\ bridge'.pc = "up" /\ bridge'.life = bridge.life /\ bridge'.seen = bridge.seen
        /\ bridge'.expired = bridge.expired /\ bridge.pc = "built" /\ UNCHANGED <<origin, slack, sock, failed>>
    BY <1>0, <1>12 DEF RunService, Bridge
  <2> QED BY <1>0, <2>1, EventsKept
<1>13. CASE UNCHANGED <<origin, slack, bridge, sock, failed>>
  BY <1>4, <1>13
<1>14. CASE Expire
  <2>1. /\ bridge'.pc = bridge.pc /\ bridge'.life = bridge.life /\ bridge'.seen = bridge.seen \ {sock.ev}
        /\ bridge'.expired = bridge.expired \cup {sock.ev} /\ bridge.pc = "up"
        /\ UNCHANGED <<origin, slack, sock, failed>>
    BY <1>0, <1>14 DEF Expire, Bridge, LoopsUp
  <2> QED BY <1>0, <2>1, EventsKept
<1> QED
  BY <1>1, <1>2, <1>3, <1>5, <1>6, <1>7, <1>8, <1>10, <1>11, <1>12, <1>13, <1>14
     DEF Next, Answer, Poll, Skip, Post, PostUnsure, PostFails, bridgeVars, vars

\* An event is accepted once in the life of a bridge, unless Slack still sends it
\* after a day, and one that Slack takes for delivered was accepted, unless it was
\* refused or something failed.
THEOREM OnceAccepted == Spec => []EventsOnce
<1>1. Init => OutboxInv /\ EventsInv
  BY OutboxInit, EventsInit
<1>2. OutboxInv /\ EventsInv /\ [Next]_vars => (OutboxInv /\ EventsInv)'
  BY OutboxStep, EventsStep
<1>3. EventsInv => EventsOnce
  BY DEF EventsInv
<1> QED BY <1>1, <1>2, <1>3, PTL DEF Spec
=============================================================================
