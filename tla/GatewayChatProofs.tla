-------------------------- MODULE GatewayChatProofs --------------------------
(***************************************************************************)
(* Proofs about GatewayChat for any messages, attempts, leases and limits, *)
(* as long as an inbound lease outlives a conversation lease.  What the    *)
(* refs promise is taken from ConversationRefProofs.                       *)
(***************************************************************************)
EXTENDS GatewayChat, TLAPS

RefProofs == INSTANCE ConversationRefProofs WITH Msgs <- Entry

-----------------------------------------------------------------------------
(* The inductive invariant *)

Working(a) == att[a].pc \in {"claimed", "asking", "ran"}
Open(m) == row[m].status \in {"pending", "processing"}

\* A ref's lease is of an attempt that works on it, and no longer than Lease.
Leased ==
  \A n \in Refs :
    /\ ref[n].left <= Lease
    /\ ref[n].by # NoRunner => run[ref[n].by].name = n /\ att[ref[n].by].pc # "new"

\* The session got to a message: those before it are settled.
Reached(m) == \A i \in 1..m - 1 : ~Open(i)

InOrder ==
  /\ \A m \in Messages : row[m].status = "processing" => Reached(m)
  /\ \A a \in Runners : Working(a) => Reached(att[a].msg)
  /\ \A n \in Refs : \A k \in DOMAIN ref[n].hash : Reached(ref[n].hash[k].msg)

\* An attempt in touch with the queue has its row, for more than a
\* conversation lease.
InTouch ==
  \A a \in Runners : Working(a) /\ a \notin stalled => Mine(a) /\ row[att[a].msg].left > Lease

\* An attempt that is over and still holds its ref left it behind, unless its
\* process died; then nothing renews the lease.
Behind ==
  \A a \in Runners :
    att[a].pc = "gone" /\ run[a].pc = "open" /\ ref[run[a].name].by = a => a \in loose

\* The row of any other attempt that is over outlives the lease it left on a ref.
Remains ==
  \A n \in Refs :
    LET b == ref[n].by IN
    b # NoRunner /\ att[b].pc = "gone" /\ b \notin stalled \cup loose /\ ref[n].left > 0 =>
      \E m \in Messages : row[m].status = "processing" /\ row[m].by = b /\ row[m].left > ref[n].left

\* An answer in the conversation is about to be settled, or was, unless its
\* attempt lost touch with the queue or was lost.
Answered(n, k) ==
  LET b == writer[n][k]
      m == ref[n].hash[k].msg IN
  ref[n].hash[k].role = "assistant" =>
    /\ att[b].pc \in {"ran", "gone"}
    /\ b \notin stalled \cup lost =>
         \/ att[b].pc = "ran" /\ att[b].msg = m /\ att[b].out = "answer"
         \/ row[m].status = "done"

Answers == \A n \in Refs : \A k \in DOMAIN ref[n].hash : Answered(n, k)

\* The k-th entry is a's answer to m, right after m itself.
Wrote(a, m, k) ==
  LET n == run[a].name IN
  /\ k \in DOMAIN ref[n].hash /\ k > 1 /\ writer[n][k] = a /\ writer[n][k - 1] = a
  /\ ref[n].hash[k] = [role |-> "assistant", msg |-> m]
  /\ ref[n].hash[k - 1] = [role |-> "user", msg |-> m]

\* What an attempt has got done.
Progress(a) ==
  LET n == run[a].name
      L == Len(run[a].hash) IN
  /\ att[a].out = "silent" => att[a].canceled
  /\ att[a].out # "none" => att[a].pc = "ran"
  /\ att[a].pc = "asking" =>
       /\ run[a].pc \in {"open", "closed"}
       /\ L \in DOMAIN ref[n].hash /\ writer[n][L] = a
       /\ ref[n].hash[L] = [role |-> "user", msg |-> att[a].msg]
  /\ att[a].pc = "ran" /\ att[a].out = "answer" /\ ~row[att[a].msg].slash =>
       \E k \in Nat : Wrote(a, att[a].msg, k)

Base == TypeOK /\ Ref!RefInv

TalkInv == Answers /\ \A a \in Runners : Progress(a)

-----------------------------------------------------------------------------
(* The refs *)

\* The invariant of the refs is the one proved in ConversationRefProofs.
LEMMA SameInv == Ref!RefInv <=> RefProofs!RefInv
  BY DEF Ref!RefInv, RefProofs!RefInv, Ref!TypeOK, RefProofs!TypeOK,
         Ref!HoldersLeased, RefProofs!HoldersLeased,
         Ref!HolderIsCurrent, RefProofs!HolderIsCurrent, Ref!WritersKnown, RefProofs!WritersKnown,
         Ref!TurnsContiguous, RefProofs!TurnsContiguous, Ref!Holds, RefProofs!Holds,
         Ref!Available, RefProofs!Available, Ref!Chain, RefProofs!Chain,
         Ref!RefRow, RefProofs!RefRow, Ref!LeasedRef, RefProofs!LeasedRef

LEMMA SameInvNext == Ref!RefInv' <=> RefProofs!RefInv'
  BY DEF Ref!RefInv, RefProofs!RefInv, Ref!TypeOK, RefProofs!TypeOK,
         Ref!HoldersLeased, RefProofs!HoldersLeased,
         Ref!HolderIsCurrent, RefProofs!HolderIsCurrent, Ref!WritersKnown, RefProofs!WritersKnown,
         Ref!TurnsContiguous, RefProofs!TurnsContiguous, Ref!Holds, RefProofs!Holds,
         Ref!Available, RefProofs!Available, Ref!Chain, RefProofs!Chain,
         Ref!RefRow, RefProofs!RefRow, Ref!LeasedRef, RefProofs!LeasedRef

\* The runner's operations other than an append.
LeaseStep ==
  \/ \E n \in Refs : Ref!CreateRef(n)
  \/ \E r \in Runners : Ref!Acquire(r) \/ Ref!Open(r) \/ Ref!Close(r) \/ Ref!Abandon(r) \/ Ref!Renew(r)
  \/ Ref!Tick

AppendStep == \E r \in Runners : \E m \in Entry : Ref!AppendMessage(r, m)

LEMMA SameAppend ==
  ASSUME NEW r \in Runners, NEW m \in Entry
  PROVE  Ref!AppendMessage(r, m) <=> RefProofs!AppendMessage(r, m)
  BY DEF Ref!AppendMessage, RefProofs!AppendMessage, Ref!MayAdvance, RefProofs!MayAdvance,
         Ref!Available, RefProofs!Available

LEMMA SameLease == LeaseStep => RefProofs!Next
<1>1. ASSUME NEW n \in Refs, Ref!CreateRef(n) PROVE RefProofs!Next
  BY <1>1 DEF Ref!CreateRef, RefProofs!CreateRef, RefProofs!Next
<1>2. ASSUME NEW r \in Runners, Ref!Acquire(r) PROVE RefProofs!Next
  <2>1. RefProofs!Acquire(r)
    BY <1>2 DEF Ref!Acquire, RefProofs!Acquire, Ref!Available, RefProofs!Available
  <2> QED BY <2>1 DEF RefProofs!Next
<1>3. ASSUME NEW r \in Runners, Ref!Open(r) PROVE RefProofs!Next
  <2>1. RefProofs!Open(r)
    BY <1>3 DEF Ref!Open, RefProofs!Open
  <2> QED BY <2>1 DEF RefProofs!Next
<1>4. ASSUME NEW r \in Runners, Ref!Close(r) PROVE RefProofs!Next
  <2>1. RefProofs!Close(r)
    BY <1>4 DEF Ref!Close, RefProofs!Close, Ref!Released, RefProofs!Released
  <2> QED BY <2>1 DEF RefProofs!Next
<1>5. ASSUME NEW r \in Runners, Ref!Abandon(r) PROVE RefProofs!Next
  <2>1. RefProofs!Abandon(r)
    BY <1>5 DEF Ref!Abandon, RefProofs!Abandon
  <2> QED BY <2>1 DEF RefProofs!Next
<1>6. ASSUME NEW r \in Runners, Ref!Renew(r) PROVE RefProofs!Next
  <2>1. RefProofs!Renew(r)
    BY <1>6 DEF Ref!Renew, RefProofs!Renew
  <2> QED BY <2>1 DEF RefProofs!Next
<1>7. ASSUME Ref!Tick PROVE RefProofs!Next
  BY <1>7 DEF Ref!Tick, RefProofs!Tick, RefProofs!Next
<1> QED BY <1>1, <1>2, <1>3, <1>4, <1>5, <1>6, <1>7 DEF LeaseStep

LEMMA RefAssumption == RefProofs!ConversationRefAssumption
  BY GatewayChatAssumption DEF RefProofs!ConversationRefAssumption

LEMMA SameStep ==
  ASSUME LeaseStep \/ AppendStep \/ UNCHANGED refVars
  PROVE  [RefProofs!Next]_(RefProofs!vars)
<1>1. CASE LeaseStep
  BY <1>1, SameLease
<1>2. CASE AppendStep
  BY <1>2, SameAppend DEF AppendStep, RefProofs!Next
<1>3. CASE UNCHANGED refVars
  BY <1>3 DEF refVars, RefProofs!vars
<1> QED BY <1>1, <1>2, <1>3

\* Every step of the refs that an attempt may cause keeps their invariant.
LEMMA RefKept ==
  ASSUME Ref!RefInv, LeaseStep \/ AppendStep \/ UNCHANGED refVars
  PROVE  Ref!RefInv'
BY SameStep, SameInv, SameInvNext, RefAssumption, RefProofs!RefInvStep

\* The types that the proofs use.
LEMMA RefTypes ==
  ASSUME Ref!RefInv
  PROVE  /\ ref \in [Refs -> Ref!RefRow] /\ run \in [Runners -> Ref!LeasedRef]
         /\ writer \in [Refs -> Seq(Runners)]
         /\ \A n \in Refs : ref[n].hash \in Seq(Entry)
         /\ \A r \in Runners : run[r].name \in Refs /\ run[r].hash \in Seq(Entry)
         /\ Ref!WritersKnown
  BY DEF Ref!RefInv, Ref!TypeOK, Ref!LeasedRef, Ref!RefRow, Ref!Chain

\* What an operation on leases leaves alone.
Still ==
  /\ writer' = writer
  /\ \A n \in Refs : ref'[n].hash = ref[n].hash
  /\ \A q \in Runners :
       /\ run'[q].name = run[q].name
       /\ run'[q].hash = run[q].hash \/ (run[q].pc = "leased" /\ run'[q].hash = ref[run[q].name].hash)
       /\ run[q].pc \in {"open", "closed"} => run'[q].pc \in {"open", "closed"}
       /\ run[q].pc = "closed" => run'[q].pc = "closed"

LEMMA LeaseStill ==
  ASSUME Ref!RefInv, LeaseStep \/ UNCHANGED refVars
  PROVE  Still
<1>0. /\ ref \in [Refs -> Ref!RefRow] /\ run \in [Runners -> Ref!LeasedRef]
      /\ \A r \in Runners : run[r].name \in Refs
  BY RefTypes
<1>1. ASSUME NEW n \in Refs, Ref!CreateRef(n) PROVE Still
  BY <1>0, <1>1 DEF Still, Ref!CreateRef, Ref!RefRow
<1>2. ASSUME NEW r \in Runners, Ref!Acquire(r) PROVE Still
  BY <1>0, <1>2 DEF Still, Ref!Acquire, Ref!RefRow, Ref!LeasedRef
<1>3. ASSUME NEW r \in Runners, Ref!Open(r) PROVE Still
  BY <1>0, <1>3 DEF Still, Ref!Open, Ref!RefRow, Ref!LeasedRef
<1>4. ASSUME NEW r \in Runners, Ref!Close(r) PROVE Still
  BY <1>0, <1>4 DEF Still, Ref!Close, Ref!Released, Ref!RefRow, Ref!LeasedRef
<1>5. ASSUME NEW r \in Runners, Ref!Abandon(r) PROVE Still
  BY <1>0, <1>5 DEF Still, Ref!Abandon, Ref!RefRow, Ref!LeasedRef
<1>6. ASSUME NEW r \in Runners, Ref!Renew(r) PROVE Still
  BY <1>0, <1>6 DEF Still, Ref!Renew, Ref!RefRow, Ref!LeasedRef
<1>7. ASSUME Ref!Tick PROVE Still
  BY <1>0, <1>7 DEF Still, Ref!Tick, Ref!RefRow, Ref!LeasedRef
<1>8. ASSUME UNCHANGED refVars PROVE Still
  BY <1>8 DEF Still, refVars
<1> QED BY <1>1, <1>2, <1>3, <1>4, <1>5, <1>6, <1>7, <1>8 DEF LeaseStep

LEMMA RefInit == Ref!Init => Ref!RefInv
<1>1. Ref!Init => RefProofs!Init
  BY DEF Ref!Init, RefProofs!Init, Ref!Unused, RefProofs!Unused, Ref!NoRef, RefProofs!NoRef
<1> QED BY <1>1, SameInv, RefAssumption, RefProofs!RefInvInit

\* What an append does.
LEMMA AppendMoves ==
  ASSUME Ref!RefInv, NEW r \in Runners, NEW m \in Entry, Ref!AppendMessage(r, m)
  PROVE  /\ run[r].pc = "open" /\ ref[run[r].name].hash = run[r].hash
         /\ Len(run[r].hash) = Len(writer[run[r].name])
         /\ writer' = [writer EXCEPT ![run[r].name] = Append(writer[run[r].name], r)]
         /\ ref'[run[r].name].hash = Append(run[r].hash, m)
         /\ \A p \in Refs : p # run[r].name => ref'[p].hash = ref[p].hash
         /\ run'[r].hash = Append(run[r].hash, m)
         /\ run'[r].pc = "open" /\ run'[r].name = run[r].name
         /\ \A q \in Runners : q # r => run'[q] = run[q]
         /\ Ref!Available(r, run[r].name)
<1>1. RefProofs!AppendMessage(r, m) /\ RefProofs!TypeOK /\ RefProofs!WritersKnown
  BY SameAppend, SameInv DEF RefProofs!RefInv
<1>2. run[r].pc = "open" /\ Ref!Available(r, run[r].name)
  BY DEF Ref!AppendMessage, Ref!MayAdvance
<1> QED BY <1>1, <1>2, RefAssumption, RefProofs!AppendFacts

-----------------------------------------------------------------------------
(* Types *)

Rows == [Messages -> Row]
Replies == [Messages -> [kind : {"none", "answer", "silent", "retryable", "fatal"}, by : Runners \cup {NoRunner}]]
Attempts == [Runners -> Attempt]

LEMMA Types ==
  ASSUME TypeOK
  PROVE  /\ row \in [Messages -> Row] /\ att \in [Runners -> Attempt]
         /\ \A a \in Runners : att[a] \in Attempt /\ att[a].msg \in Messages
         /\ \A m \in Messages : row[m] \in Row /\ row[m].left \in Nat /\ row[m].n \in Nat
  BY DEF TypeOK, Attempt, Row

LEMMA GoneType == Gone \in Attempt /\ Gone.pc = "gone" /\ Gone.out = "none"
  BY GatewayChatAssumption DEF Gone, Attempt, Messages

\* What End does to an attempt.
LEMMA EndMoves ==
  ASSUME TypeOK, NEW a \in Runners, NEW out \in {"answer", "silent", "retryable", "fatal"}, End(a, out)
  PROVE  /\ att' \in [Runners -> Attempt]
         /\ att'[a].pc = "ran" /\ att'[a].out = out /\ att'[a].msg = att[a].msg
         /\ att'[a].canceled = att[a].canceled
         /\ \A c \in Runners : c # a => att'[c] = att[c]
<1>1. att[a] \in Attempt /\ att \in [Runners -> Attempt]
  BY Types
<1>2. [att[a] EXCEPT !.pc = "ran", !.out = out] \in Attempt
  BY <1>1 DEF Attempt
<1> QED BY <1>1, <1>2 DEF End, Attempt

LEMMA TypeInit == Init => TypeOK
<1> SUFFICES ASSUME Init PROVE TypeOK
  OBVIOUS
<1>1. Ref!Init
  BY DEF Init
<1>2. Ref!TypeOK
  BY <1>1, RefInit DEF Ref!RefInv
<1>3. 1 \in Messages
  BY GatewayChatAssumption DEF Messages
<1>4. row \in [Messages -> Row]
  <2>1. \A b \in BOOLEAN : [slash |-> b, status |-> "pending", by |-> NoRunner, n |-> 0, left |-> 0] \in Row
    BY DEF Row
  <2> QED BY <2>1 DEF Init
<1>5. att \in [Runners -> Attempt]
  BY <1>3 DEF Init, Attempt
<1> QED BY <1>2, <1>4, <1>5 DEF Init, TypeOK, NoReply

\* The types of the queue after a step.
LEMMA QueueTypes ==
  ASSUME TypeOK, [Next]_vars
  PROVE  row' \in Rows /\ att' \in Attempts /\ reply' \in Replies
<1> DEFINE Goal == row' \in Rows /\ att' \in Attempts /\ reply' \in Replies
<1>0. /\ row \in Rows /\ att \in Attempts /\ reply \in Replies
      /\ \A a \in Runners : att[a] \in Attempt /\ att[a].msg \in Messages
      /\ \A m \in Messages : row[m] \in Row /\ row[m].left \in Nat /\ row[m].n \in Nat
  BY Types DEF Rows, Attempts, Replies, TypeOK
<1>1. ASSUME NEW a \in Runners, NEW m \in Messages, Claim(a, m) PROVE Goal
  <2>1. [row[m] EXCEPT !.status = "processing", !.by = a, !.n = row[m].n + 1, !.left = InboundLease] \in Row
    <3>1. row[m] \in Row /\ row[m].n + 1 \in Nat /\ InboundLease \in Nat
      BY <1>0, GatewayChatAssumption
    <3> QED BY <3>1 DEF Row
  <2>2. [att[a] EXCEPT !.pc = "claimed", !.msg = m] \in Attempt
    BY <1>0 DEF Attempt
  <2> QED BY <1>0, <1>1, <2>1, <2>2 DEF Claim, Rows, Attempts
<1>2. ASSUME NEW a \in Runners, Beat(a) PROVE Goal
  <2>1. [row[att[a].msg] EXCEPT !.left = InboundLease] \in Row
    BY <1>0, GatewayChatAssumption DEF Row
  <2> QED BY <1>0, <1>2, <2>1 DEF Beat, Rows
<1>3. ASSUME NEW a \in Runners, Unsettled(a) \/ Die(a) PROVE Goal
  BY <1>0, <1>3, GoneType DEF Unsettled, Leave, Die, Attempts
<1>4. ASSUME NEW a \in Runners, Settle(a) PROVE Goal
  <2>1. [row[att[a].msg] EXCEPT !.status = Outcome(a), !.by = NoRunner, !.left = 0] \in Row
    <3>1. row[att[a].msg] \in Row /\ Outcome(a) \in {"pending", "done", "failed"}
      BY <1>0 DEF Outcome
    <3> QED BY <3>1 DEF Row
  <2>2. SettledRow(a) \in Rows
    BY <1>0, <2>1 DEF SettledRow, Rows
  <2>3. [reply EXCEPT ![att[a].msg] = [kind |-> att[a].out, by |-> a]] \in Replies
    <3>1. att[a].out \in {"none", "answer", "silent", "retryable", "fatal"}
      BY <1>0 DEF Attempt
    <3> QED BY <1>0, <3>1 DEF Replies
  <2> QED BY <1>0, <1>4, <2>2, <2>3, GoneType DEF Settle, Leave, Attempts
<1>5. ASSUME NEW a \in Runners, NEW out \in {"answer", "silent", "retryable", "fatal"}, End(a, out),
             row' = row, reply' = reply
      PROVE  Goal
  BY <1>0, <1>5, EndMoves DEF Attempts
<1>6. ASSUME NEW a \in Runners,
             SlashReply(a) \/ Refuse(a) \/ Answer(a) \/ Silence(a) \/ Error(a, "retryable") \/ Error(a, "fatal")
      PROVE  Goal
  BY <1>5, <1>6 DEF SlashReply, Refuse, Answer, Silence, Error, UnchangedQueue
<1>7. ASSUME NEW a \in Runners, Say(a) PROVE Goal
  <2>1. [att[a] EXCEPT !.pc = "asking"] \in Attempt
    BY <1>0 DEF Attempt
  <2> QED BY <1>0, <1>7, <2>1 DEF Say, UnchangedQueue, Attempts
<1>8. ASSUME NEW a \in Runners, Cancel(a) PROVE Goal
  <2>1. [att[a] EXCEPT !.canceled = TRUE] \in Attempt
    BY <1>0 DEF Attempt
  <2> QED BY <1>0, <1>8, <2>1 DEF Cancel, Attempts
<1>9. ASSUME NEW a \in Runners, LeaseRef(a) \/ Finish(a) \/ Renew(a) PROVE Goal
  BY <1>0, <1>9 DEF LeaseRef, Finish, Renew, UnchangedQueue
<1>10. ASSUME Tick PROVE Goal
  <2>1. \A m \in Messages : [row[m] EXCEPT !.left = IF row[m].left = 0 THEN 0 ELSE row[m].left - 1] \in Row
    BY <1>0 DEF Row
  <2> QED BY <1>0, <1>10, <2>1 DEF Tick, Rows
<1>11. ASSUME UNCHANGED vars PROVE Goal
  BY <1>0, <1>11 DEF vars
<1>12. ASSUME \E n \in Refs : Ref!CreateRef(n) /\ UNCHANGED <<row, reply, att, stalled, lost, loose, refused>>
       PROVE  Goal
  BY <1>0, <1>12
<1> QED BY <1>1, <1>2, <1>3, <1>4, <1>6, <1>7, <1>8, <1>9, <1>10, <1>11, <1>12 DEF Next

-----------------------------------------------------------------------------
(* Steps *)

LEMMA EntryType == \A m \in Messages : [role |-> "user", msg |-> m] \in Entry /\ [role |-> "assistant", msg |-> m] \in Entry
  BY DEF Entry

\* What a step does to the refs.
LEMMA StepOfRefs ==
  ASSUME TypeOK, [Next]_vars
  PROVE  LeaseStep \/ UNCHANGED refVars \/ \E a \in Runners : Say(a) \/ Answer(a)
<1>2. ASSUME NEW a \in Runners,
             LeaseRef(a) \/ Finish(a) \/ Renew(a) \/ Die(a) \/ SlashReply(a) \/ Refuse(a) \/ Silence(a)
               \/ Beat(a) \/ Unsettled(a) \/ Settle(a) \/ Cancel(a)
      PROVE  LeaseStep \/ UNCHANGED refVars
  BY <1>2 DEF LeaseRef, Finish, Renew, Die, SlashReply, Refuse, Silence, Beat, Unsettled, Settle, Cancel, LeaseStep
<1>3. ASSUME NEW a \in Runners, NEW m \in Messages, Claim(a, m) PROVE UNCHANGED refVars
  BY <1>3 DEF Claim
<1>4. ASSUME NEW a \in Runners, NEW out, Error(a, out) PROVE UNCHANGED refVars
  BY <1>4 DEF Error
<1>5. ASSUME (\E n \in Refs : Ref!CreateRef(n)) \/ Ref!Tick PROVE LeaseStep
  BY <1>5 DEF LeaseStep
<1>6. ASSUME UNCHANGED vars PROVE UNCHANGED refVars
  BY <1>6 DEF vars, refVars
<1> QED BY <1>2, <1>3, <1>4, <1>5, <1>6 DEF Next, Tick

LEMMA SaysAppend ==
  ASSUME TypeOK, NEW a \in Runners, Say(a) \/ Answer(a)
  PROVE  AppendStep
<1>1. [role |-> "user", msg |-> att[a].msg] \in Entry /\ [role |-> "assistant", msg |-> att[a].msg] \in Entry
  BY Types, EntryType
<1>2. CASE Say(a)
  BY <1>1, <1>2 DEF Say, AppendStep
<1>3. CASE Answer(a)
  BY <1>1, <1>3 DEF Answer, AppendStep
<1> QED BY <1>2, <1>3

LEMMA BaseStep ==
  ASSUME Base, [Next]_vars
  PROVE  Base'
<1>1. Ref!RefInv'
  BY StepOfRefs, SaysAppend, RefKept DEF Base
<1>2. row' \in Rows /\ att' \in Attempts /\ reply' \in Replies
  BY QueueTypes DEF Base
<1>3. /\ \A n \in Refs : ref[n].by \in Runners \cup {NoRunner}
      /\ \A a \in Runners : run[a].name \in Refs
  BY RefTypes DEF Base, Ref!RefRow
<1>4. /\ stalled' \subseteq Runners /\ lost' \subseteq Runners /\ loose' \subseteq Runners
      /\ refused' \in [Runners -> Runners \cup {NoRunner}]
  <2>0. /\ stalled \subseteq Runners /\ lost \subseteq Runners /\ loose \subseteq Runners
        /\ refused \in [Runners -> Runners \cup {NoRunner}]
    BY DEF Base, TypeOK
  <2>1. ASSUME NEW a \in Runners, Refuse(a)
        PROVE  UNCHANGED <<stalled, lost, loose>> /\ refused' \in [Runners -> Runners \cup {NoRunner}]
    BY <1>3, <2>0, <2>1 DEF Refuse, UnchangedQueue
  <2>2. ASSUME NEW a \in Runners,
               LeaseRef(a) \/ Finish(a) \/ Renew(a) \/ SlashReply(a) \/ Silence(a)
                 \/ Beat(a) \/ Cancel(a) \/ Say(a) \/ Answer(a)
        PROVE  UNCHANGED <<stalled, lost, loose, refused>>
    BY <2>2 DEF LeaseRef, Finish, Renew, SlashReply, Silence, Beat, Cancel, Say, Answer, UnchangedQueue
  <2>3. ASSUME NEW a \in Runners, Unsettled(a) \/ Die(a)
        PROVE  UNCHANGED <<stalled, refused>> /\ lost' \subseteq Runners /\ loose' \subseteq Runners
    BY <2>0, <2>3 DEF Unsettled, Leave, Die
  <2>4. ASSUME NEW a \in Runners, Settle(a)
        PROVE  UNCHANGED <<stalled, lost, refused>> /\ loose' \subseteq Runners
    BY <2>0, <2>4 DEF Settle, Leave
  <2>5. ASSUME NEW a \in Runners, NEW m \in Messages, Claim(a, m)
        PROVE  UNCHANGED <<stalled, lost, loose, refused>>
    BY <2>5 DEF Claim
  <2>6. ASSUME NEW a \in Runners, NEW out, Error(a, out)
        PROVE  UNCHANGED <<stalled, lost, loose, refused>>
    BY <2>6 DEF Error, UnchangedQueue
  <2>7. ASSUME Tick PROVE stalled' \subseteq Runners /\ UNCHANGED <<lost, loose, refused>>
    BY <2>0, <2>7 DEF Tick
  <2> QED BY <2>0, <2>1, <2>2, <2>3, <2>4, <2>5, <2>6, <2>7 DEF Next, vars
<1> QED BY <1>1, <1>2, <1>4 DEF Base, TypeOK, Ref!RefInv, Rows, Attempts, Replies

\* A step after which the queue is as before, and nobody begins anything.
Quiet ==
  /\ row' = row /\ stalled' = stalled /\ loose \subseteq loose' /\ lost \subseteq lost'
  /\ \A c \in Runners :
       /\ Working(c)' => Working(c) /\ att'[c].msg = att[c].msg
       /\ att[c].pc # "new" => att'[c].pc # "new"
       /\ att'[c].pc = "gone" => att[c].pc = "gone" \/ (Working(c) /\ c \in lost')

\* Leases are given to attempts that work or that left their ref behind, and not
\* made longer otherwise.
Held ==
  \A n \in Refs :
    \/ ref'[n].by = ref[n].by /\ ref'[n].left = ref[n].left
    \/ ref'[n].by = NoRunner /\ ref'[n].left = 0
    \/ /\ ref'[n].left = Lease
       /\ \E c \in Runners :
            /\ ref'[n].by = c /\ run[c].name = n
            /\ Working(c)' \/ (c \in loose /\ att'[c].pc = "gone")

\* What is said is about the message of an attempt that works on it.
Said ==
  /\ \A a \in Runners : run'[a].name = run[a].name
  /\ \A n \in Refs : \A k \in DOMAIN ref'[n].hash :
       \/ k \in DOMAIN ref[n].hash /\ ref'[n].hash[k] = ref[n].hash[k]
       \/ \E c \in Runners : Working(c) /\ ref'[n].hash[k].msg = att[c].msg

LEMMA StillSaid ==
  ASSUME Still
  PROVE  Said
  BY DEF Still, Said

LEMMA AppendSaid ==
  ASSUME Base, NEW a \in Runners, NEW m \in Entry, Ref!AppendMessage(a, m),
         Working(a), m.msg = att[a].msg
  PROVE  Said
<1> DEFINE R == run[a].name
           c == run[a].hash
<1>1. /\ c \in Seq(Entry) /\ ref[R].hash = c /\ ref'[R].hash = Append(c, m)
      /\ \A p \in Refs : p # R => ref'[p].hash = ref[p].hash
      /\ \A q \in Runners : run'[q].name = run[q].name
  <2>1. /\ run[a].hash \in Seq(Entry) /\ Ref!RefInv
    BY RefTypes DEF Base
  <2>2. /\ ref[R].hash = c /\ ref'[R].hash = Append(c, m)
        /\ \A p \in Refs : p # R => ref'[p].hash = ref[p].hash
        /\ run'[a].name = R /\ \A q \in Runners : q # a => run'[q] = run[q]
    BY <2>1, AppendMoves
  <2> QED BY <2>1, <2>2
<1>2. /\ DOMAIN c = 1..Len(c) /\ DOMAIN Append(c, m) = 1..Len(c) + 1 /\ Len(c) \in Nat
      /\ \A k \in 1..Len(c) : Append(c, m)[k] = c[k]
      /\ Append(c, m)[Len(c) + 1] = m
  BY <1>1
<1>3. ASSUME NEW n \in Refs, NEW k \in DOMAIN ref'[n].hash
      PROVE  \/ k \in DOMAIN ref[n].hash /\ ref'[n].hash[k] = ref[n].hash[k]
             \/ \E q \in Runners : Working(q) /\ ref'[n].hash[k].msg = att[q].msg
  <2>1. CASE n = R
    <3>1. k \in 1..Len(c) \/ k = Len(c) + 1
      BY <1>1, <1>2, <1>3, <2>1
    <3>2. CASE k \in 1..Len(c)
      BY <1>1, <1>2, <2>1, <3>2
    <3>3. CASE k = Len(c) + 1
      BY <1>1, <1>2, <2>1, <3>3
    <3> QED BY <3>1, <3>2, <3>3
  <2>2. CASE n # R
    BY <1>1, <1>3, <2>2
  <2> QED BY <2>1, <2>2
<1> HIDE DEF R, c
<1> QED BY <1>1, <1>3 DEF Said

LEMMA EndQuiet ==
  ASSUME Base, NEW a \in Runners, NEW out \in {"answer", "silent", "retryable", "fatal"}, End(a, out),
         UnchangedQueue, att[a].pc \in {"claimed", "asking"}
  PROVE  Quiet
<1>1. /\ att'[a].pc = "ran" /\ att'[a].msg = att[a].msg
      /\ \A c \in Runners : c # a => att'[c] = att[c]
  BY EndMoves DEF Base
<1> QED BY <1>1 DEF Quiet, UnchangedQueue, Working

\* The steps that leave the queue alone.
Talk(a) ==
  \/ SlashReply(a) \/ Refuse(a) \/ Say(a) \/ Answer(a) \/ Silence(a)
  \/ Error(a, "retryable") \/ Error(a, "fatal")
  \/ LeaseRef(a) \/ Finish(a) \/ Renew(a) \/ Cancel(a) \/ Unsettled(a) \/ Die(a)

Create == \E n \in Refs : Ref!CreateRef(n) /\ UNCHANGED <<row, reply, att, stalled, lost, loose, refused>>

LEMMA TalkQuiet ==
  ASSUME Base, NEW a \in Runners, Talk(a)
  PROVE  Quiet
<1>0. att[a] \in Attempt /\ att \in [Runners -> Attempt]
  BY Types DEF Base
<1>1. ASSUME SlashReply(a) \/ Refuse(a) \/ Answer(a) \/ Silence(a) \/ Error(a, "retryable") \/ Error(a, "fatal")
      PROVE  Quiet
  BY <1>1, EndQuiet DEF SlashReply, Refuse, Answer, Silence, Error
<1>2. ASSUME Say(a) PROVE Quiet
  BY <1>0, <1>2 DEF Say, UnchangedQueue, Quiet, Working, Attempt
<1>3. ASSUME LeaseRef(a) \/ Finish(a) \/ Renew(a) PROVE Quiet
  BY <1>3 DEF LeaseRef, Finish, Renew, UnchangedQueue, Quiet, Working
<1>4. ASSUME Cancel(a) PROVE Quiet
  BY <1>0, <1>4 DEF Cancel, Quiet, Working, Attempt
<1>5. ASSUME Unsettled(a) \/ Die(a) PROVE Quiet
  BY <1>0, <1>5, GoneType DEF Unsettled, Leave, Die, Quiet, Working
<1> QED BY <1>1, <1>2, <1>3, <1>4, <1>5 DEF Talk

LEMMA TalkSaid ==
  ASSUME Base, NEW a \in Runners, Talk(a)
  PROVE  Said
<1>1. att[a].msg \in Messages
  BY Types DEF Base
<1>2. CASE Say(a)
  <2>1. [role |-> "user", msg |-> att[a].msg] \in Entry
    BY <1>1, EntryType
  <2> QED BY <1>2, <2>1, AppendSaid DEF Say, Working
<1>3. CASE Answer(a)
  <2>1. [role |-> "assistant", msg |-> att[a].msg] \in Entry
    BY <1>1, EntryType
  <2> QED BY <1>3, <2>1, AppendSaid DEF Answer, Working
<1>4. CASE ~Say(a) /\ ~Answer(a)
  <2>1. LeaseStep \/ UNCHANGED refVars
    BY <1>4 DEF Talk, LeaseRef, Finish, Renew, Die, SlashReply, Refuse, Silence, Unsettled, Cancel, Error, LeaseStep
  <2> QED BY <2>1, LeaseStill, StillSaid DEF Base
<1> QED BY <1>2, <1>3, <1>4

LEMMA TalkHeld ==
  ASSUME Base, Leased, Behind, NEW a \in Runners, Talk(a)
  PROVE  Held
<1>0. /\ ref \in [Refs -> Ref!RefRow] /\ \A r \in Runners : run[r].name \in Refs
      /\ att \in [Runners -> Attempt]
  BY RefTypes, Types DEF Base
<1>1. ASSUME ref' = ref PROVE Held
  BY <1>1 DEF Held
<1>2. ASSUME NEW m, Ref!AppendMessage(a, m) PROVE Held
  BY <1>0, <1>2 DEF Ref!AppendMessage, Ref!RefRow, Held
<1>3. CASE Say(a) \/ Answer(a)
  BY <1>2, <1>3 DEF Say, Answer
<1>4. CASE LeaseRef(a)
  <2>1. Working(a)'
    BY <1>4 DEF LeaseRef, Working
  <2>2. CASE Ref!Acquire(a)
    BY <1>0, <2>1, <2>2 DEF Ref!Acquire, Ref!RefRow, Held
  <2>3. CASE Ref!Open(a)
    BY <1>1, <2>3 DEF Ref!Open
  <2> QED BY <1>4, <2>2, <2>3 DEF LeaseRef
<1>5. CASE Finish(a)
  BY <1>0, <1>5 DEF Finish, Ref!Close, Ref!Released, Ref!RefRow, Held
<1>6. CASE Renew(a)
  <2>1. /\ run[a].pc = "open" /\ ref[run[a].name].by = a /\ att' = att /\ a # NoRunner
        /\ ref' = [ref EXCEPT ![run[a].name] = [@ EXCEPT !.left = Lease]]
    BY <1>6, GatewayChatAssumption DEF Renew, Ref!Renew
  <2>2. att[a].pc # "new" /\ att[a] \in Attempt
    BY <1>0, <2>1 DEF Leased
  <2>3. Working(a)' \/ (a \in loose /\ att'[a].pc = "gone")
    BY <2>1, <2>2 DEF Working, Attempt, Behind
  <2>4. /\ ref'[run[a].name].left = Lease /\ ref'[run[a].name].by = a
        /\ \A n \in Refs : n # run[a].name => ref'[n] = ref[n]
    BY <1>0, <2>1 DEF Ref!RefRow
  <2> QED BY <2>3, <2>4 DEF Held
<1>7. CASE Die(a)
  BY <1>1, <1>7 DEF Die, Ref!Abandon, refVars
<1>8. CASE SlashReply(a) \/ Refuse(a) \/ Silence(a) \/ Error(a, "retryable") \/ Error(a, "fatal") \/ Unsettled(a) \/ Cancel(a)
  BY <1>1, <1>8 DEF SlashReply, Refuse, Silence, Error, Unsettled, Cancel, refVars
<1> QED BY <1>3, <1>4, <1>5, <1>6, <1>7, <1>8 DEF Talk

\* Nobody who is over gets hold of an open ref.
LEMMA BehindKept ==
  ASSUME Base, Behind, loose \subseteq loose',
         \A c \in Runners :
           att'[c].pc = "gone" /\ run'[c].pc = "open" /\ ref'[run'[c].name].by = c =>
             \/ c \in loose'
             \/ att[c].pc = "gone" /\ run[c].pc = "open" /\ ref[run[c].name].by = c
  PROVE  Behind'
BY DEF Behind

LEMMA TalkBehind ==
  ASSUME Base, Behind, NEW a \in Runners, Talk(a)
  PROVE  Behind'
<1> DEFINE Kept(c) ==
      att'[c].pc = "gone" /\ run'[c].pc = "open" /\ ref'[run'[c].name].by = c =>
        \/ c \in loose'
        \/ att[c].pc = "gone" /\ run[c].pc = "open" /\ ref[run[c].name].by = c
<1>0. /\ ref \in [Refs -> Ref!RefRow] /\ run \in [Runners -> Ref!LeasedRef]
      /\ \A r \in Runners : run[r].name \in Refs
      /\ att \in [Runners -> Attempt] /\ \A r \in Runners : att[r] \in Attempt
  BY RefTypes, Types DEF Base
<1>1. loose \subseteq loose'
  BY TalkQuiet DEF Quiet
<1>2. ASSUME NEW m, Ref!AppendMessage(a, m)
      PROVE  \A c \in Runners : run'[c].pc = run[c].pc /\ run'[c].name = run[c].name
                                /\ ref'[run[c].name].by = ref[run[c].name].by
  <2>1. \A n \in Refs : ref'[n].by = ref[n].by
    BY <1>0, <1>2 DEF Ref!AppendMessage, Ref!RefRow
  <2>2. \A c \in Runners : run'[c].pc = run[c].pc /\ run'[c].name = run[c].name
    BY <1>0, <1>2 DEF Ref!AppendMessage, Ref!LeasedRef
  <2> QED BY <1>0, <2>1, <2>2
<1>3. CASE Say(a)
  <2>1. \A c \in Runners : att'[c].pc = "gone" => att[c].pc = "gone"
    BY <1>0, <1>3 DEF Say, Attempt
  <2>2. \A c \in Runners : Kept(c)
    BY <1>2, <1>3, <2>1 DEF Say
  <2> QED BY <1>1, <2>2, BehindKept
<1>4. CASE SlashReply(a) \/ Refuse(a) \/ Answer(a) \/ Silence(a) \/ Error(a, "retryable") \/ Error(a, "fatal")
  <2>1. \A c \in Runners : att'[c].pc = "gone" => att[c].pc = "gone"
    BY <1>4, EndMoves DEF Base, SlashReply, Refuse, Answer, Silence, Error
  <2>2. CASE Answer(a)
    <3>1. \A c \in Runners : Kept(c)
      BY <1>2, <2>1, <2>2 DEF Answer
    <3> QED BY <1>1, <3>1, BehindKept
  <2>3. CASE ~Answer(a)
    <3>1. UNCHANGED refVars
      BY <1>4, <2>3 DEF SlashReply, Refuse, Silence, Error
    <3>2. \A c \in Runners : Kept(c)
      BY <2>1, <3>1 DEF refVars
    <3> QED BY <1>1, <3>2, BehindKept
  <2> QED BY <2>2, <2>3
<1>5. CASE LeaseRef(a)
  <2>1. att' = att /\ att[a].pc # "gone"
    BY <1>5 DEF LeaseRef
  <2>2. CASE Ref!Acquire(a)
    <3>1. \A c \in Runners : c # a => run'[c] = run[c]
      BY <1>0, <2>2 DEF Ref!Acquire
    <3>2. \A n \in Refs : ref'[n].by = ref[n].by \/ ref'[n].by = a
      BY <1>0, <2>2 DEF Ref!Acquire, Ref!RefRow
    <3>3. \A c \in Runners : Kept(c)
      BY <1>0, <2>1, <3>1, <3>2
    <3> QED BY <1>1, <3>3, BehindKept
  <2>3. CASE Ref!Open(a)
    <3>1. ref' = ref /\ \A c \in Runners : c # a => run'[c] = run[c]
      BY <1>0, <2>3 DEF Ref!Open
    <3>2. \A c \in Runners : Kept(c)
      BY <2>1, <3>1
    <3> QED BY <1>1, <3>2, BehindKept
  <2> QED BY <1>5, <2>2, <2>3 DEF LeaseRef
<1>6. CASE Finish(a)
  <2>1. att' = att /\ Ref!Close(a)
    BY <1>6 DEF Finish
  <2>2. run'[a].pc = "closed" /\ \A c \in Runners : c # a => run'[c] = run[c]
    BY <1>0, <2>1 DEF Ref!Close, Ref!LeasedRef
  <2>3. \A n \in Refs : ref'[n].by = ref[n].by \/ ref'[n].by = NoRunner
    BY <1>0, <2>1 DEF Ref!Close, Ref!Released, Ref!RefRow
  <2>4. \A c \in Runners : Kept(c)
    BY <1>0, <2>1, <2>2, <2>3, GatewayChatAssumption
  <2> QED BY <1>1, <2>4, BehindKept
<1>7. CASE Renew(a)
  <2>1. att' = att /\ run' = run
    BY <1>7 DEF Renew, Ref!Renew
  <2>2. \A n \in Refs : ref'[n].by = ref[n].by
    BY <1>0, <1>7 DEF Renew, Ref!Renew, Ref!RefRow
  <2>3. \A c \in Runners : Kept(c)
    BY <1>0, <2>1, <2>2
  <2> QED BY <1>1, <2>3, BehindKept
<1>8. CASE Cancel(a)
  <2>1. \A c \in Runners : att'[c].pc = att[c].pc
    BY <1>0, <1>8 DEF Cancel, Attempt
  <2>2. \A c \in Runners : Kept(c)
    BY <1>8, <2>1 DEF Cancel, refVars
  <2> QED BY <1>1, <2>2, BehindKept
<1>9. CASE Unsettled(a)
  <2>1. /\ ref' = ref /\ run' = run
        /\ ref[run[a].name].by = a => a \in loose'
        /\ \A c \in Runners : c # a => att'[c] = att[c]
    BY <1>0, <1>9 DEF Unsettled, Leave, refVars
  <2>2. \A c \in Runners : Kept(c)
    BY <2>1
  <2> QED BY <1>1, <2>2, BehindKept
<1>10. CASE Die(a)
  <2>1. \A c \in Runners : c # a => att'[c] = att[c] /\ run'[c] = run[c]
    BY <1>0, <1>10 DEF Die, Ref!Abandon, refVars
  <2>2. run'[a].pc # "open" /\ ref' = ref
    BY <1>0, <1>10 DEF Die, Ref!Abandon, refVars, Ref!LeasedRef
  <2>3. \A c \in Runners : Kept(c)
    BY <2>1, <2>2
  <2> QED BY <1>1, <2>3, BehindKept
<1> QED BY <1>3, <1>4, <1>5, <1>6, <1>7, <1>8, <1>9, <1>10 DEF Talk

LEMMA CreateFacts ==
  ASSUME Base, Create
  PROVE  Quiet /\ Held /\ Said /\ (Behind => Behind')
<1>1. Still
  BY LeaseStill DEF Base, Create, LeaseStep
<1>2. Quiet
  BY DEF Create, Quiet, Working
<1>3. Held
  BY RefTypes DEF Base, Create, Ref!CreateRef, Ref!RefRow, Held
<1>4. Behind => Behind'
  <2>1. /\ att' = att /\ run' = run /\ loose' = loose
        /\ \A n \in Refs : ref'[n].by = ref[n].by
    BY RefTypes DEF Base, Create, Ref!CreateRef, Ref!RefRow
  <2> QED BY <2>1, RefTypes DEF Base, Behind
<1> QED BY <1>1, <1>2, <1>3, <1>4, StillSaid

-----------------------------------------------------------------------------
(* In touch with the queue *)

Touch == Leased /\ InOrder /\ InTouch /\ Behind /\ Remains

LEMMA Facts ==
  ASSUME Base
  PROVE  /\ row \in [Messages -> Row] /\ att \in [Runners -> Attempt]
         /\ \A a \in Runners : att[a] \in Attempt /\ att[a].msg \in Messages /\ run[a].name \in Refs
         /\ \A m \in Messages : row[m] \in Row /\ row[m].left \in Nat /\ row[m].n \in Nat
         /\ \A n \in Refs : ref[n].by \in Runners \cup {NoRunner} /\ ref[n].left \in Nat
         /\ \A n \in Refs : ref[n].hash \in Seq(Entry) /\ \A k \in DOMAIN ref[n].hash : ref[n].hash[k].msg \in Messages
         /\ NoRunner \notin Runners /\ Lease \in Nat \ {0} /\ InboundLease \in Nat /\ InboundLease > Lease
         /\ MaxMsg \in Nat /\ \A m \in Messages : m \in Nat
<1>1. \A n \in Refs : ref[n].by \in Runners \cup {NoRunner} /\ ref[n].left \in Nat
  BY RefTypes DEF Base, Ref!RefRow
<1>2. \A n \in Refs : ref[n].hash \in Seq(Entry)
  BY RefTypes DEF Base
<1>3. ASSUME NEW n \in Refs, NEW k \in DOMAIN ref[n].hash PROVE ref[n].hash[k].msg \in Messages
  <2>1. ref[n].hash[k] \in Entry
    BY <1>2, <1>3
  <2> QED BY <2>1 DEF Entry
<1> QED BY <1>1, <1>2, <1>3, RefTypes, Types, GatewayChatAssumption DEF Base, Messages

LEMMA TouchQuiet ==
  ASSUME Base, Touch, Base', Quiet, Held, Said, Behind'
  PROVE  Touch'
<1>0. /\ \A a \in Runners : att[a].msg \in Messages /\ run'[a].name = run[a].name
      /\ \A m \in Messages : row[m].left \in Nat
      /\ \A n \in Refs : ref[n].by \in Runners \cup {NoRunner} /\ ref[n].left \in Nat
      /\ NoRunner \notin Runners /\ Lease \in Nat
      /\ row' = row
  BY Facts DEF Said, Quiet
<1>1. Leased'
  <2> SUFFICES ASSUME NEW n \in Refs
               PROVE  /\ ref'[n].left <= Lease
                      /\ ref'[n].by # NoRunner => run'[ref'[n].by].name = n /\ att'[ref'[n].by].pc # "new"
    BY DEF Leased
  <2>1. CASE ref'[n].by = ref[n].by /\ ref'[n].left = ref[n].left
    BY <1>0, <2>1 DEF Touch, Leased, Quiet
  <2>2. CASE ref'[n].by = NoRunner /\ ref'[n].left = 0
    BY <1>0, <2>2
  <2>3. ASSUME ref'[n].left = Lease, NEW c \in Runners, ref'[n].by = c, run[c].name = n,
               Working(c)' \/ att'[c].pc = "gone"
        PROVE  ref'[n].left <= Lease /\ run'[ref'[n].by].name = n /\ att'[ref'[n].by].pc # "new"
    BY <1>0, <2>3 DEF Working
  <2> QED BY <2>1, <2>2, <2>3 DEF Held
<1>2. \A m : Reached(m) => Reached(m)'
  BY <1>0 DEF Reached, Open
<1>3. InOrder'
  <2>1. ASSUME NEW m \in Messages, row'[m].status = "processing" PROVE Reached(m)'
    BY <1>0, <1>2, <2>1 DEF Touch, InOrder
  <2>2. ASSUME NEW a \in Runners, Working(a)' PROVE (\A i \in 1..att'[a].msg - 1 : ~Open(i)')
    <3>1. Working(a) /\ att'[a].msg = att[a].msg
      BY <2>2 DEF Quiet
    <3> QED BY <3>1, <1>0 DEF Touch, InOrder, Reached, Open
  <2>3. ASSUME NEW n \in Refs, NEW k \in DOMAIN ref'[n].hash
        PROVE  \A i \in 1..ref'[n].hash[k].msg - 1 : ~Open(i)'
    BY <1>0, <2>3 DEF Said, Touch, InOrder, Reached, Open
  <2> QED BY <2>1, <2>2, <2>3 DEF InOrder, Reached
<1>4. InTouch'
  BY <1>0 DEF Touch, InTouch, Quiet, Mine
<1>5. Remains'
  <2> SUFFICES ASSUME NEW n \in Refs, NEW b, b = ref'[n].by, b # NoRunner, att'[b].pc = "gone",
                      b \notin stalled \cup loose', ref'[n].left > 0
               PROVE  \E m \in Messages :
                        row[m].status = "processing" /\ row[m].by = b /\ row[m].left > ref'[n].left
    BY <1>0 DEF Remains, Quiet
  <2>1. CASE ref'[n].by = ref[n].by /\ ref'[n].left = ref[n].left
    <3>1. b \in Runners
      BY <1>0, <2>1
    <3>2. CASE att[b].pc = "gone"
      BY <2>1, <3>2 DEF Touch, Remains, Quiet
    <3>3. CASE att[b].pc # "gone"
      <4>1. Working(b)
        BY <3>1, <3>3 DEF Quiet
      <4>2. Mine(b) /\ row[att[b].msg].left > Lease /\ att[b].msg \in Messages
        BY <1>0, <3>1, <4>1 DEF Touch, InTouch
      <4>3. ref[n].left <= Lease
        BY DEF Touch, Leased
      <4>4. row[att[b].msg].left > ref'[n].left
        BY <1>0, <2>1, <4>2, <4>3
      <4> QED BY <4>2, <4>4 DEF Mine
    <3> QED BY <3>2, <3>3
  <2>2. CASE ref'[n].by = NoRunner
    BY <2>2
  <2>3. ASSUME NEW c \in Runners, ref'[n].by = c, Working(c)' \/ c \in loose PROVE FALSE
    BY <2>3 DEF Working, Quiet
  <2> QED BY <2>1, <2>2, <2>3 DEF Held
<1> QED BY <1>1, <1>3, <1>4, <1>5 DEF Touch

\* What is settled stays settled, so what was reached stays reached.
LEMMA InOrderKept ==
  ASSUME Base, InOrder, ref' = ref,
         \A m \in Messages : ~Open(m) => ~Open(m)',
         \A m \in Messages : row'[m].status = "processing" => row[m].status = "processing" \/ Reached(m),
         \A a \in Runners : Working(a)' => Reached(att'[a].msg) /\ att'[a].msg \in Messages
  PROVE  InOrder'
<1>1. \A m \in Messages : \A i \in 1..m - 1 : i \in Messages
  BY GatewayChatAssumption DEF Messages
<1>2. \A m \in Messages : Reached(m) => \A i \in 1..m - 1 : ~Open(i)'
  BY <1>1 DEF Reached
<1>3. \A n \in Refs : \A k \in DOMAIN ref[n].hash : ref[n].hash[k].msg \in Messages
  BY Facts
<1>4. ASSUME NEW m \in Messages, row'[m].status = "processing" PROVE \A i \in 1..m - 1 : ~Open(i)'
  BY <1>2, <1>4 DEF InOrder
<1>5. ASSUME NEW a \in Runners, Working(a)' PROVE \A i \in 1..att'[a].msg - 1 : ~Open(i)'
  BY <1>2, <1>5
<1>6. ASSUME NEW n \in Refs, NEW k \in DOMAIN ref'[n].hash
      PROVE  \A i \in 1..ref'[n].hash[k].msg - 1 : ~Open(i)'
  BY <1>2, <1>3, <1>6 DEF InOrder
<1> QED BY <1>4, <1>5, <1>6 DEF InOrder, Reached

LEMMA TouchClaim ==
  ASSUME Base, Touch, NEW a \in Runners, NEW m \in Messages, Claim(a, m)
  PROVE  Touch'
<1>0. /\ row \in [Messages -> Row] /\ att \in [Runners -> Attempt] /\ row[m] \in Row /\ att[a] \in Attempt
      /\ \A c \in Runners : att[c].msg \in Messages
      /\ \A i \in Messages : row[i].left \in Nat
      /\ \A n \in Refs : ref[n].by \in Runners \cup {NoRunner} /\ ref[n].left \in Nat
      /\ NoRunner \notin Runners /\ Lease \in Nat \ {0} /\ InboundLease \in Nat /\ InboundLease > Lease
  BY Facts
<1>1. /\ att[a].pc = "new" /\ First(m) /\ Due(m)
      /\ ref' = ref /\ run' = run /\ stalled' = stalled /\ loose' = loose
  BY DEF Claim, refVars
<1>2. /\ row'[m].status = "processing" /\ row'[m].by = a /\ row'[m].left = InboundLease
      /\ \A i \in Messages : i # m => row'[i] = row[i]
  BY <1>0 DEF Claim, Row
<1>3. /\ att'[a].pc = "claimed" /\ att'[a].msg = m
      /\ \A c \in Runners : c # a => att'[c] = att[c]
  BY <1>0 DEF Claim, Attempt
<1>4. Leased'
  <2>1. \A c \in Runners : att[c].pc # "new" => att'[c].pc # "new"
    BY <1>3
  <2> QED BY <1>0, <1>1, <2>1 DEF Touch, Leased
<1>5. Reached(m)
  BY <1>1 DEF First, Reached, Open
<1>6. InOrder'
  <2>1. \A i \in Messages : ~Open(i) => ~Open(i)'
    BY <1>1, <1>2 DEF Open, First
  <2>2. \A i \in Messages : row'[i].status = "processing" => row[i].status = "processing" \/ Reached(i)
    BY <1>2, <1>5
  <2>3. ASSUME NEW c \in Runners, Working(c)' PROVE Reached(att'[c].msg) /\ att'[c].msg \in Messages
    BY <1>0, <1>3, <1>5, <2>3 DEF Working, Touch, InOrder
  <2> QED BY <1>1, <2>1, <2>2, <2>3, InOrderKept DEF Touch
<1>7. InTouch'
  <2> SUFFICES ASSUME NEW c \in Runners, Working(c)', c \notin stalled
               PROVE  Mine(c)' /\ row'[att'[c].msg].left > Lease
    BY <1>1 DEF InTouch
  <2>1. CASE c = a
    BY <1>0, <1>2, <1>3, <2>1 DEF Mine
  <2>2. CASE c # a
    <3>1. att'[c] = att[c] /\ Working(c)
      BY <1>3, <2>2 DEF Working
    <3>2. Mine(c) /\ row[att[c].msg].left > Lease /\ att[c].msg \in Messages
      BY <1>0, <3>1 DEF Touch, InTouch
    <3>3. att[c].msg # m
      BY <1>0, <1>1, <3>2 DEF Mine, Due
    <3> QED BY <1>2, <3>1, <3>2, <3>3 DEF Mine
  <2> QED BY <2>1, <2>2
<1>8. Remains'
  <2> SUFFICES ASSUME NEW n \in Refs, NEW b, b = ref[n].by, b # NoRunner, att'[b].pc = "gone",
                      b \notin stalled \cup loose, ref[n].left > 0
               PROVE  \E i \in Messages :
                        row'[i].status = "processing" /\ row'[i].by = b /\ row'[i].left > ref[n].left
    BY <1>1 DEF Remains
  <2>1. att[b].pc = "gone"
    BY <1>0, <1>3
  <2>2. PICK i \in Messages : row[i].status = "processing" /\ row[i].by = b /\ row[i].left > ref[n].left
    BY <2>1 DEF Touch, Remains
  <2>3. i # m
    BY <1>0, <1>1, <2>2 DEF Due
  <2> QED BY <1>2, <2>2, <2>3
<1>9. Behind'
  <2>1. \A c \in Runners : att'[c].pc = "gone" => att[c].pc = "gone"
    BY <1>3
  <2> QED BY <1>1, <2>1 DEF Touch, Behind
<1> QED BY <1>4, <1>6, <1>7, <1>8, <1>9 DEF Touch

LEMMA TouchBeat ==
  ASSUME Base, Touch, NEW a \in Runners, Beat(a)
  PROVE  Touch'
<1> DEFINE m == att[a].msg
<1>0. /\ row \in [Messages -> Row] /\ m \in Messages /\ row[m] \in Row
      /\ \A c \in Runners : att[c].msg \in Messages
      /\ Lease \in Nat \ {0} /\ InboundLease \in Nat /\ InboundLease > Lease
  BY Facts
<1>1. /\ Mine(a) /\ att[a].pc \in {"claimed", "asking"} /\ att' = att
      /\ ref' = ref /\ run' = run /\ stalled' = stalled /\ loose' = loose
  BY DEF Beat, refVars
<1>2. /\ row'[m].status = row[m].status /\ row'[m].by = row[m].by /\ row'[m].left = InboundLease
      /\ \A i \in Messages : i # m => row'[i] = row[i]
  BY <1>0 DEF Beat, Row
<1>3. row[m].by = a
  BY <1>1 DEF Mine
<1> HIDE DEF m
<1>4. Leased'
  BY <1>1 DEF Touch, Leased
<1>5. InOrder'
  <2>1. \A i \in Messages : row'[i].status = row[i].status
    BY <1>2
  <2>2. \A c \in Runners : Working(c)' => Reached(att'[c].msg) /\ att'[c].msg \in Messages
    BY <1>0, <1>1 DEF Working, Touch, InOrder
  <2> QED BY <1>1, <2>1, <2>2, InOrderKept DEF Touch, Open
<1>6. InTouch'
  <2> SUFFICES ASSUME NEW c \in Runners, Working(c), c \notin stalled
               PROVE  Mine(c)' /\ row'[att[c].msg].left > Lease
    BY <1>1 DEF InTouch, Working
  <2>1. Mine(c) /\ row[att[c].msg].left > Lease /\ att[c].msg \in Messages
    BY <1>0 DEF Touch, InTouch
  <2> QED BY <1>0, <1>1, <1>2, <2>1 DEF Mine
<1>7. Remains'
  <2> SUFFICES ASSUME NEW n \in Refs, NEW b, b = ref[n].by, b # NoRunner, att[b].pc = "gone",
                      b \notin stalled \cup loose, ref[n].left > 0
               PROVE  \E i \in Messages :
                        row'[i].status = "processing" /\ row'[i].by = b /\ row'[i].left > ref[n].left
    BY <1>1 DEF Remains
  <2>1. PICK i \in Messages : row[i].status = "processing" /\ row[i].by = b /\ row[i].left > ref[n].left
    BY DEF Touch, Remains
  <2>2. i # m
    BY <1>1, <1>3, <2>1
  <2> QED BY <1>2, <2>1, <2>2
<1>8. Behind'
  BY <1>1 DEF Touch, Behind
<1> QED BY <1>4, <1>5, <1>6, <1>7, <1>8 DEF Touch

\* What a settlement does.
LEMMA SettleMoves ==
  ASSUME Base, NEW a \in Runners, Settle(a)
  PROVE  /\ ref' = ref /\ run' = run /\ writer' = writer /\ stalled' = stalled /\ lost' = lost /\ loose \subseteq loose'
         /\ ref[run[a].name].by = a => a \in loose'
         /\ att[a].pc = "ran" /\ ~att[a].canceled /\ att'[a] = Gone
         /\ \A c \in Runners : c # a => att'[c] = att[c]
         /\ \A i \in Messages : i # att[a].msg \/ ~Mine(a) => row'[i] = row[i] /\ reply'[i] = reply[i]
         /\ Mine(a) => /\ row'[att[a].msg].status = Outcome(a)
                       /\ row'[att[a].msg].slash = row[att[a].msg].slash
                       /\ reply'[att[a].msg] = reply[att[a].msg]
                            \/ reply'[att[a].msg] = [kind |-> att[a].out, by |-> a]
<1>0. /\ row \in [Messages -> Row] /\ att[a].msg \in Messages /\ row[att[a].msg] \in Row
      /\ att \in [Runners -> Attempt]
      /\ reply \in [Messages -> [kind : {"none", "answer", "silent", "retryable", "fatal"}, by : Runners \cup {NoRunner}]]
  BY Facts DEF Base, TypeOK
<1>1. CASE Mine(a)
  <2>1. row' = SettledRow(a)
    BY <1>1 DEF Settle, Leave
  <2>2. /\ row'[att[a].msg].status = Outcome(a) /\ row'[att[a].msg].slash = row[att[a].msg].slash
        /\ \A i \in Messages : i # att[a].msg => row'[i] = row[i]
    BY <1>0, <2>1 DEF SettledRow, Row
  <2>3. reply' = reply \/ reply' = [reply EXCEPT ![att[a].msg] = [kind |-> att[a].out, by |-> a]]
    BY <1>1 DEF Settle, Leave
  <2> QED BY <1>0, <1>1, <2>2, <2>3 DEF Settle, Leave, refVars
<1>2. CASE ~Mine(a)
  BY <1>0, <1>2 DEF Settle, Leave, refVars
<1> QED BY <1>1, <1>2

LEMMA TouchSettle ==
  ASSUME Base, Touch, NEW a \in Runners, Settle(a)
  PROVE  Touch'
<1>0. /\ \A c \in Runners : att[c].msg \in Messages
      /\ \A n \in Refs : ref[n].by \in Runners \cup {NoRunner}
      /\ NoRunner \notin Runners
  BY Facts
<1>1. /\ ref' = ref /\ run' = run /\ stalled' = stalled /\ loose \subseteq loose'
      /\ ref[run[a].name].by = a => a \in loose'
      /\ att'[a].pc = "gone" /\ \A c \in Runners : c # a => att'[c] = att[c]
      /\ \A i \in Messages : i # att[a].msg \/ ~Mine(a) => row'[i] = row[i]
      /\ Mine(a) => row'[att[a].msg].status \in {"done", "pending", "failed"}
  BY SettleMoves, GoneType DEF Outcome
<1>2. Leased'
  <2>1. \A c \in Runners : att[c].pc # "new" => att'[c].pc # "new"
    BY <1>1
  <2> QED BY <1>0, <1>1, <2>1 DEF Touch, Leased
<1>3. InOrder'
  <2>1. \A i \in Messages : ~Open(i) => ~Open(i)'
    BY <1>1 DEF Open, Mine
  <2>2. \A i \in Messages : row'[i].status = "processing" => row[i].status = "processing"
    BY <1>1
  <2>3. ASSUME NEW c \in Runners, Working(c)' PROVE Reached(att'[c].msg) /\ att'[c].msg \in Messages
    BY <1>0, <1>1, <2>3 DEF Working, Touch, InOrder
  <2> QED BY <1>1, <2>1, <2>2, <2>3, InOrderKept DEF Touch
<1>4. InTouch'
  <2> SUFFICES ASSUME NEW c \in Runners, Working(c)', c \notin stalled
               PROVE  Mine(c)' /\ row'[att'[c].msg].left > Lease
    BY <1>1 DEF InTouch
  <2>1. c # a /\ att'[c] = att[c] /\ Working(c)
    BY <1>1 DEF Working
  <2>2. Mine(c) /\ row[att[c].msg].left > Lease /\ att[c].msg \in Messages
    BY <1>0, <2>1 DEF Touch, InTouch
  <2>3. row'[att[c].msg] = row[att[c].msg]
    BY <1>1, <2>1, <2>2 DEF Mine
  <2> QED BY <2>1, <2>2, <2>3 DEF Mine
<1>5. Remains'
  <2> SUFFICES ASSUME NEW n \in Refs, NEW b, b = ref[n].by, b # NoRunner, att'[b].pc = "gone",
                      b \notin stalled \cup loose', ref[n].left > 0
               PROVE  \E i \in Messages :
                        row'[i].status = "processing" /\ row'[i].by = b /\ row'[i].left > ref[n].left
    BY <1>1 DEF Remains
  <2>1. b # a
    BY <1>0, <1>1 DEF Touch, Leased
  <2>2. att[b].pc = "gone" /\ b \notin stalled \cup loose
    BY <1>0, <1>1, <2>1
  <2>3. PICK i \in Messages : row[i].status = "processing" /\ row[i].by = b /\ row[i].left > ref[n].left
    BY <2>2 DEF Touch, Remains
  <2>4. row'[i] = row[i]
    BY <1>1, <2>1, <2>3 DEF Mine
  <2> QED BY <2>3, <2>4
<1>6. Behind'
  BY <1>1 DEF Touch, Behind
<1> QED BY <1>2, <1>3, <1>4, <1>5, <1>6 DEF Touch

LEMMA TickMoves ==
  ASSUME Base, Tick
  PROVE  /\ run' = run /\ att' = att /\ writer' = writer /\ loose' = loose /\ lost' = lost /\ reply' = reply
         /\ \A n \in Refs : /\ ref'[n].by = ref[n].by /\ ref'[n].hash = ref[n].hash
                            /\ ref'[n].left = IF ref[n].left = 0 THEN 0 ELSE ref[n].left - 1
         /\ \A i \in Messages :
              /\ row'[i].status = row[i].status /\ row'[i].by = row[i].by /\ row'[i].slash = row[i].slash
              /\ row'[i].left = IF row[i].left = 0 THEN 0 ELSE row[i].left - 1
         /\ stalled \subseteq stalled'
         /\ \A a \in Runners : Working(a) /\ Mine(a) /\ row[att[a].msg].left <= Lease + 1 => a \in stalled'
<1>0. /\ \A n \in Refs : ref[n] \in Ref!RefRow /\ ref[n].left \in Nat
      /\ \A i \in Messages : row[i] \in Row
  BY Facts, RefTypes DEF Base
<1>1. /\ run' = run /\ att' = att /\ writer' = writer /\ loose' = loose /\ lost' = lost /\ reply' = reply
      /\ ref' = [n \in Refs |-> [ref[n] EXCEPT !.left = IF ref[n].left = 0 THEN 0 ELSE ref[n].left - 1]]
      /\ row' = [m \in Messages |-> [row[m] EXCEPT !.left = IF row[m].left = 0 THEN 0 ELSE row[m].left - 1]]
  BY DEF Tick, Ref!Tick
<1>2. \A n \in Refs : /\ ref'[n].by = ref[n].by /\ ref'[n].hash = ref[n].hash
                      /\ ref'[n].left = IF ref[n].left = 0 THEN 0 ELSE ref[n].left - 1
  BY <1>0, <1>1 DEF Ref!RefRow
<1>3. \A i \in Messages :
        /\ row'[i].status = row[i].status /\ row'[i].by = row[i].by /\ row'[i].slash = row[i].slash
        /\ row'[i].left = IF row[i].left = 0 THEN 0 ELSE row[i].left - 1
  BY <1>0, <1>1 DEF Row
<1>4. /\ stalled \subseteq stalled'
      /\ \A a \in Runners : Working(a) /\ Mine(a) /\ row[att[a].msg].left <= Lease + 1 => a \in stalled'
  BY DEF Tick, Working
<1> QED BY <1>1, <1>2, <1>3, <1>4

LEMMA TouchTick ==
  ASSUME Base, Touch, Tick
  PROVE  Touch'
<1>0. /\ \A c \in Runners : att[c].msg \in Messages
      /\ \A i \in Messages : row[i].left \in Nat /\ i \in Nat
      /\ \A n \in Refs : ref[n].left \in Nat
      /\ Lease \in Nat
  BY Facts
<1>1. /\ run' = run /\ att' = att /\ loose' = loose /\ stalled \subseteq stalled'
      /\ \A n \in Refs : /\ ref'[n].by = ref[n].by /\ ref'[n].hash = ref[n].hash
                         /\ ref'[n].left = IF ref[n].left = 0 THEN 0 ELSE ref[n].left - 1
      /\ \A i \in Messages :
           /\ row'[i].status = row[i].status /\ row'[i].by = row[i].by
           /\ row'[i].left = IF row[i].left = 0 THEN 0 ELSE row[i].left - 1
      /\ \A a \in Runners : Working(a) /\ Mine(a) /\ row[att[a].msg].left <= Lease + 1 => a \in stalled'
  BY TickMoves
<1>2. Leased'
  BY <1>0, <1>1 DEF Touch, Leased
<1>3. InOrder'
  <2>1. \A i \in Messages : Open(i)' <=> Open(i)
    BY <1>1 DEF Open
  <2>2. \A m \in Messages : \A i \in 1..m - 1 : i \in Messages
    BY GatewayChatAssumption DEF Messages
  <2>3. \A m \in Messages : Reached(m) => \A i \in 1..m - 1 : ~Open(i)'
    BY <2>1, <2>2 DEF Reached
  <2>4. \A n \in Refs : \A k \in DOMAIN ref[n].hash : ref[n].hash[k].msg \in Messages
    BY Facts
  <2>5. ASSUME NEW m \in Messages, row'[m].status = "processing" PROVE \A i \in 1..m - 1 : ~Open(i)'
    BY <1>1, <2>3, <2>5 DEF Touch, InOrder
  <2>6. ASSUME NEW a \in Runners, Working(a)' PROVE \A i \in 1..att'[a].msg - 1 : ~Open(i)'
    BY <1>0, <1>1, <2>3, <2>6 DEF Touch, InOrder, Working
  <2>7. ASSUME NEW n \in Refs, NEW k \in DOMAIN ref'[n].hash
        PROVE  \A i \in 1..ref'[n].hash[k].msg - 1 : ~Open(i)'
    BY <1>1, <2>3, <2>4, <2>7 DEF Touch, InOrder
  <2> QED BY <2>5, <2>6, <2>7 DEF InOrder, Reached
<1>4. InTouch'
  <2> SUFFICES ASSUME NEW c \in Runners, Working(c), c \notin stalled'
               PROVE  Mine(c)' /\ row'[att[c].msg].left > Lease
    BY <1>1 DEF InTouch, Working
  <2>1. Mine(c) /\ row[att[c].msg].left > Lease /\ att[c].msg \in Messages
    BY <1>0, <1>1 DEF Touch, InTouch
  <2>2. row[att[c].msg].left > Lease + 1
    BY <1>0, <1>1, <2>1
  <2> QED BY <1>0, <1>1, <2>1, <2>2 DEF Mine
<1>5. Remains'
  <2> SUFFICES ASSUME NEW n \in Refs, NEW b, b = ref[n].by, b # NoRunner, att[b].pc = "gone",
                      b \notin stalled' \cup loose, ref'[n].left > 0
               PROVE  \E i \in Messages :
                        row'[i].status = "processing" /\ row'[i].by = b /\ row'[i].left > ref'[n].left
    BY <1>1 DEF Remains
  <2>1. ref[n].left > 0 /\ ref'[n].left = ref[n].left - 1
    BY <1>0, <1>1
  <2>2. PICK i \in Messages : row[i].status = "processing" /\ row[i].by = b /\ row[i].left > ref[n].left
    BY <1>1, <2>1 DEF Touch, Remains
  <2>3. row'[i].left > ref'[n].left
    BY <1>0, <1>1, <2>1, <2>2
  <2> QED BY <1>1, <2>2, <2>3
<1>6. Behind'
  BY <1>1, RefTypes DEF Base, Touch, Behind
<1> QED BY <1>2, <1>3, <1>4, <1>5, <1>6 DEF Touch

\* The steps, grouped by what they do to the queue.
LEMMA StepCases ==
  ASSUME [Next]_vars
  PROVE  \/ \E a \in Runners : \E m \in Messages : Claim(a, m)
         \/ \E a \in Runners : Beat(a) \/ Settle(a) \/ Talk(a)
         \/ Create \/ Tick \/ UNCHANGED vars
  BY DEF Next, Talk, Create

LEMMA TouchStep ==
  ASSUME Base, Touch, [Next]_vars
  PROVE  Touch'
<1>1. Base'
  BY BaseStep
<1>2. ASSUME NEW a \in Runners, Talk(a) PROVE Touch'
  BY <1>1, <1>2, TalkQuiet, TalkHeld, TalkSaid, TalkBehind, TouchQuiet DEF Touch
<1>3. ASSUME Create PROVE Touch'
  BY <1>1, <1>3, CreateFacts, TouchQuiet DEF Touch
<1>4. ASSUME UNCHANGED vars PROVE Touch'
  BY <1>4 DEF vars, Touch, Leased, InOrder, InTouch, Behind, Remains, Mine, Working, Reached, Open
<1> QED BY <1>2, <1>3, <1>4, StepCases, TouchClaim, TouchBeat, TouchSettle, TouchTick

LEMMA TouchInit ==
  ASSUME Init
  PROVE  Base /\ Touch
<1>1. Base
  BY RefInit, TypeInit DEF Init, Base
<1>2. /\ \A n \in Refs : ref[n].by = NoRunner /\ ref[n].left = 0 /\ ref[n].hash = <<>>
      /\ \A m \in Messages : row[m].status = "pending"
      /\ \A a \in Runners : att[a].pc = "new"
  BY DEF Init, Ref!Init, Ref!NoRef
<1>3. Leased
  BY <1>2, GatewayChatAssumption DEF Leased
<1>4. InOrder
  BY <1>2 DEF InOrder, Working
<1>5. InTouch /\ Behind /\ Remains
  BY <1>2 DEF InTouch, Behind, Remains, Working
<1> QED BY <1>1, <1>3, <1>4, <1>5 DEF Touch

\* One message of the session is being handled at a time ...
LEMMA OneRow ==
  ASSUME Base, InOrder, NEW i \in Messages, NEW j \in Messages,
         row[i].status = "processing", row[j].status = "processing"
  PROVE  i = j
<1>1. i \in Nat /\ j \in Nat /\ i >= 1 /\ j >= 1
  BY Facts DEF Messages
<1>2. Reached(i) /\ Reached(j) /\ Open(i) /\ Open(j)
  BY DEF InOrder, Open
<1> QED BY <1>1, <1>2 DEF Reached

\* ... and by one attempt, as long as attempts are in touch with the queue.
LEMMA OneInTouch ==
  ASSUME Base, Touch, NEW a \in Runners, NEW b \in Runners,
         Working(a), Working(b), a \notin stalled, b \notin stalled
  PROVE  a = b
<1>1. Mine(a) /\ Mine(b) /\ att[a].msg \in Messages /\ att[b].msg \in Messages
  BY Facts DEF Touch, InTouch
<1> QED BY <1>1, OneRow DEF Mine, Touch

-----------------------------------------------------------------------------
(* Refusals *)

LEMMA RefusedStep ==
  ASSUME Base, Touch, RefusedNeedsStall, [Next]_vars
  PROVE  RefusedNeedsStall'
<1>0. /\ refused \in [Runners -> Runners \cup {NoRunner}]
      /\ NoRunner \notin Runners
  BY Facts DEF Base, TypeOK
<1>1. stalled \subseteq stalled' /\ loose \subseteq loose'
  <2>1. ASSUME NEW a \in Runners, Talk(a) PROVE stalled' = stalled /\ loose \subseteq loose'
    BY <2>1, TalkQuiet DEF Quiet
  <2>2. ASSUME NEW a \in Runners, NEW m \in Messages, Claim(a, m) PROVE stalled' = stalled /\ loose' = loose
    BY <2>2 DEF Claim
  <2> QED BY <2>1, <2>2, StepCases, SettleMoves, TickMoves DEF Beat, Create, vars
<1>2. ASSUME refused' = refused PROVE RefusedNeedsStall'
  BY <1>1, <1>2 DEF RefusedNeedsStall
<1>3. ASSUME NEW a \in Runners, Refuse(a) PROVE RefusedNeedsStall'
  <2> DEFINE n == run[a].name
             b == ref[n].by
  <2>1. n \in Refs /\ b \in Runners \cup {NoRunner} /\ ref[n].left \in Nat /\ att[a].msg \in Messages
    BY Facts
  <2>2. /\ b # NoRunner /\ b # a /\ ref[n].left > 0 /\ Working(a)
        /\ refused' = [refused EXCEPT ![a] = b]
    BY <1>3, <2>1 DEF Refuse, Ref!Available, Working
  <2>3. a \in stalled \/ b \in stalled \cup loose
    <3> SUFFICES ASSUME a \notin stalled, b \notin stalled, b \notin loose PROVE FALSE
      OBVIOUS
    <3>1. Mine(a)
      BY <2>2 DEF Touch, InTouch
    <3>2. att[b].pc # "new" /\ b \in Runners /\ att[b] \in Attempt
      BY <2>1, <2>2, Facts DEF Touch, Leased
    <3>3. CASE Working(b)
      BY <2>2, <3>2, <3>3, OneInTouch
    <3>4. CASE att[b].pc = "gone"
      <4>1. PICK m \in Messages : row[m].status = "processing" /\ row[m].by = b
        BY <2>1, <2>2, <3>4 DEF Touch, Remains
      <4>2. m = att[a].msg
        BY <2>1, <3>1, <4>1, OneRow DEF Mine, Touch
      <4> QED BY <2>2, <3>1, <4>1, <4>2 DEF Mine
    <3> QED BY <3>2, <3>3, <3>4 DEF Working, Attempt
  <2> HIDE DEF n, b
  <2> QED BY <1>0, <1>1, <2>2, <2>3 DEF RefusedNeedsStall
<1>4. ASSUME NEW a \in Runners, Talk(a), ~Refuse(a) PROVE refused' = refused
  BY <1>4 DEF Talk, SlashReply, Say, Answer, Silence, Error, LeaseRef, Finish, Renew, Cancel, Unsettled, Die, UnchangedQueue
<1>5. ASSUME NEW a \in Runners, Beat(a) \/ Settle(a) PROVE refused' = refused
  BY <1>5 DEF Beat, Settle
<1>6. ASSUME NEW a \in Runners, NEW m \in Messages, Claim(a, m) PROVE refused' = refused
  BY <1>6 DEF Claim
<1>7. ASSUME Create \/ Tick \/ UNCHANGED vars PROVE refused' = refused
  BY <1>7 DEF Create, Tick, vars
<1> QED BY <1>2, <1>3, <1>4, <1>5, <1>6, <1>7, StepCases

-----------------------------------------------------------------------------
(* The conversation grows *)

\* What is in the conversation stays there.
Grown ==
  \A n \in Refs : \A k \in DOMAIN ref[n].hash :
    k \in DOMAIN ref'[n].hash /\ ref'[n].hash[k] = ref[n].hash[k] /\ writer'[n][k] = writer[n][k]

\* The entry that a appends is the last one, right after its own head.
Entered(a, n, k) ==
  /\ n = run[a].name /\ k = Len(run[a].hash) + 1
  /\ ref[n].hash = run[a].hash
  /\ writer'[n][k] = a /\ run'[a].hash = ref'[n].hash /\ Len(run'[a].hash) = k
  /\ \/ Say(a) /\ ref'[n].hash[k] = [role |-> "user", msg |-> att[a].msg]
     \/ Answer(a) /\ ref'[n].hash[k] = [role |-> "assistant", msg |-> att[a].msg]

LEMMA AppendGrows ==
  ASSUME Base, NEW a \in Runners, NEW m \in Entry, Ref!AppendMessage(a, m)
  PROVE  LET n == run[a].name
             k == Len(run[a].hash) + 1 IN
         /\ Grown
         /\ n \in Refs /\ ref[n].hash = run[a].hash
         /\ DOMAIN ref'[n].hash = 1..k
         /\ ref'[n].hash[k] = m /\ writer'[n][k] = a
         /\ run'[a].hash = ref'[n].hash /\ Len(run'[a].hash) = k
         /\ \A p \in Refs : p # n => ref'[p].hash = ref[p].hash
         /\ run'[a].pc = "open" /\ run'[a].name = n
         /\ \A q \in Runners : q # a => run'[q] = run[q]
<1> DEFINE R == run[a].name
           c == run[a].hash
           w == writer[R]
<1>1. /\ R \in Refs /\ c \in Seq(Entry) /\ w \in Seq(Runners) /\ writer \in [Refs -> Seq(Runners)]
      /\ \A n \in Refs : ref[n].hash \in Seq(Entry)
      /\ Ref!RefInv
  BY RefTypes DEF Base
<1>2. /\ ref[R].hash = c /\ Len(c) = Len(w)
      /\ writer' = [writer EXCEPT ![R] = Append(w, a)]
      /\ ref'[R].hash = Append(c, m)
      /\ \A p \in Refs : p # R => ref'[p].hash = ref[p].hash
      /\ run'[a].hash = Append(c, m)
      /\ run'[a].pc = "open" /\ run'[a].name = R
      /\ \A q \in Runners : q # a => run'[q] = run[q]
  BY <1>1, AppendMoves
<1>3. /\ DOMAIN c = 1..Len(c) /\ DOMAIN Append(c, m) = 1..Len(c) + 1 /\ Len(c) \in Nat
      /\ \A k \in 1..Len(c) : Append(c, m)[k] = c[k]
      /\ Append(c, m)[Len(c) + 1] = m /\ Len(Append(c, m)) = Len(c) + 1
  BY <1>1
<1>4. /\ \A k \in 1..Len(w) : Append(w, a)[k] = w[k]
      /\ Append(w, a)[Len(w) + 1] = a
  BY <1>1
<1>5. writer'[R] = Append(w, a) /\ \A p \in Refs : p # R => writer'[p] = writer[p]
  BY <1>1, <1>2
<1>6. ASSUME NEW n \in Refs, NEW k \in DOMAIN ref[n].hash
      PROVE  k \in DOMAIN ref'[n].hash /\ ref'[n].hash[k] = ref[n].hash[k] /\ writer'[n][k] = writer[n][k]
  <2>1. CASE n = R
    <3>0. k \in DOMAIN c
      BY <1>2, <1>6, <2>1
    <3>1. k \in 1..Len(c) /\ k \in 1..Len(w) /\ k \in 1..Len(c) + 1
      <4>1. k \in 1..Len(c) /\ Len(w) = Len(c) /\ Len(c) \in Nat
        BY <1>2, <1>3, <3>0
      <4> QED BY <4>1
    <3>2. Append(c, m)[k] = c[k] /\ Append(w, a)[k] = w[k] /\ k \in DOMAIN Append(c, m)
      BY <1>3, <1>4, <3>1
    <3>3. ref'[R].hash[k] = ref[R].hash[k] /\ k \in DOMAIN ref'[R].hash
      BY <1>2, <3>2
    <3>4. writer'[R][k] = writer[R][k]
      BY <1>5, <3>2
    <3> QED BY <2>1, <3>3, <3>4
  <2>2. CASE n # R
    BY <1>2, <1>5, <1>6, <2>2
  <2> QED BY <2>1, <2>2
<1>7. writer'[R][Len(c) + 1] = a
  BY <1>2, <1>4, <1>5
<1> QED BY <1>1, <1>2, <1>3, <1>6, <1>7 DEF Grown

\* Every step keeps what was said; a new entry is a message or its answer.
LEMMA Growth ==
  ASSUME Base, [Next]_vars
  PROVE  /\ Grown
         /\ \A n \in Refs : \A k \in DOMAIN ref'[n].hash :
              k \in DOMAIN ref[n].hash \/ \E a \in Runners : Entered(a, n, k)
<1>1. CASE LeaseStep \/ UNCHANGED refVars
  BY <1>1, LeaseStill DEF Base, Still, Grown
<1>2. ASSUME NEW a \in Runners, NEW m \in Entry, Ref!AppendMessage(a, m),
             \/ Say(a) /\ m = [role |-> "user", msg |-> att[a].msg]
             \/ Answer(a) /\ m = [role |-> "assistant", msg |-> att[a].msg]
      PROVE  /\ Grown
             /\ \A n \in Refs : \A k \in DOMAIN ref'[n].hash :
                  k \in DOMAIN ref[n].hash \/ \E b \in Runners : Entered(b, n, k)
  <2>1. /\ Grown
        /\ run[a].name \in Refs /\ ref[run[a].name].hash = run[a].hash
        /\ DOMAIN ref'[run[a].name].hash = 1..Len(run[a].hash) + 1
        /\ ref'[run[a].name].hash[Len(run[a].hash) + 1] = m /\ writer'[run[a].name][Len(run[a].hash) + 1] = a
        /\ run'[a].hash = ref'[run[a].name].hash /\ Len(run'[a].hash) = Len(run[a].hash) + 1
        /\ \A p \in Refs : p # run[a].name => ref'[p].hash = ref[p].hash
    BY <1>2, AppendGrows
  <2>2. DOMAIN run[a].hash = 1..Len(run[a].hash) /\ Len(run[a].hash) \in Nat
    BY RefTypes DEF Base
  <2>3. ASSUME NEW n \in Refs, NEW k \in DOMAIN ref'[n].hash, k \notin DOMAIN ref[n].hash
        PROVE  Entered(a, n, k)
    <3>1. n = run[a].name
      BY <2>1, <2>3
    <3>2. k = Len(run[a].hash) + 1
      BY <2>1, <2>2, <2>3, <3>1
    <3> QED BY <1>2, <2>1, <3>1, <3>2 DEF Entered
  <2> QED BY <2>1, <2>3
<1>3. ASSUME NEW a \in Runners, Say(a) \/ Answer(a)
      PROVE  /\ Grown
             /\ \A n \in Refs : \A k \in DOMAIN ref'[n].hash :
                  k \in DOMAIN ref[n].hash \/ \E b \in Runners : Entered(b, n, k)
  <2>1. [role |-> "user", msg |-> att[a].msg] \in Entry /\ [role |-> "assistant", msg |-> att[a].msg] \in Entry
    BY Facts, EntryType
  <2> QED BY <1>2, <1>3, <2>1 DEF Say, Answer
<1> QED BY <1>1, <1>3, StepOfRefs DEF Base

\* What happens to an attempt, to a message and to the history.
LEMMA StepFacts ==
  ASSUME Base, [Next]_vars
  PROVE  /\ stalled \subseteq stalled' /\ lost \subseteq lost'
         /\ \A a \in Runners :
              /\ run'[a].name = run[a].name
              /\ att[a].pc \in {"ran", "gone"} => att'[a].pc \in {"ran", "gone"}
              /\ att[a].pc = "ran" =>
                   \/ att'[a].pc = "ran" /\ att'[a].msg = att[a].msg /\ att'[a].out = att[a].out
                   \/ a \in lost' \/ Settle(a)
         /\ \A m \in Messages :
              /\ row'[m].slash = row[m].slash
              /\ row[m].status = "done" => row'[m].status = "done"
<1> DEFINE Goal ==
         /\ stalled \subseteq stalled' /\ lost \subseteq lost'
         /\ \A a \in Runners :
              /\ att[a].pc \in {"ran", "gone"} => att'[a].pc \in {"ran", "gone"}
              /\ att[a].pc = "ran" =>
                   \/ att'[a].pc = "ran" /\ att'[a].msg = att[a].msg /\ att'[a].out = att[a].out
                   \/ a \in lost' \/ Settle(a)
         /\ \A m \in Messages :
              /\ row'[m].slash = row[m].slash
              /\ row[m].status = "done" => row'[m].status = "done"
<1>0. /\ row \in [Messages -> Row] /\ att \in [Runners -> Attempt]
      /\ \A c \in Runners : att[c] \in Attempt /\ att[c].msg \in Messages
      /\ \A m \in Messages : row[m] \in Row
  BY Facts
<1>1. ASSUME NEW a \in Runners, NEW m \in Messages, Claim(a, m) PROVE Goal
  BY <1>0, <1>1 DEF Claim, Due, Row, Attempt
<1>2. ASSUME NEW a \in Runners, Beat(a) PROVE Goal
  <2>1. att' = att /\ stalled' = stalled /\ lost' = lost
    BY <1>2 DEF Beat
  <2>2. \A m \in Messages : row'[m].slash = row[m].slash /\ row'[m].status = row[m].status
    BY <1>0, <1>2 DEF Beat, Row
  <2> QED BY <2>1, <2>2
<1>3. ASSUME NEW a \in Runners, Settle(a) PROVE Goal
  <2>1. /\ stalled' = stalled /\ lost' = lost /\ att[a].pc = "ran" /\ att'[a].pc = "gone"
        /\ \A c \in Runners : c # a => att'[c] = att[c]
        /\ \A m \in Messages : m # att[a].msg \/ ~Mine(a) => row'[m] = row[m]
        /\ Mine(a) => row'[att[a].msg].slash = row[att[a].msg].slash
    BY <1>3, SettleMoves, GoneType
  <2>2. Mine(a) => row[att[a].msg].status = "processing"
    BY DEF Mine
  <2> QED BY <1>3, <2>1, <2>2
<1>4. ASSUME NEW a \in Runners, Talk(a) PROVE Goal
  <2>1. row' = row /\ stalled' = stalled /\ lost \subseteq lost'
    BY <1>4, TalkQuiet DEF Quiet
  <2>2. CASE Unsettled(a) \/ Die(a)
    BY <1>0, <2>1, <2>2, GoneType DEF Unsettled, Leave, Die
  <2>3. CASE Cancel(a)
    BY <1>0, <2>1, <2>3 DEF Cancel, Attempt
  <2>4. CASE Say(a)
    BY <1>0, <2>1, <2>4 DEF Say, Attempt
  <2>5. CASE LeaseRef(a) \/ Finish(a) \/ Renew(a)
    BY <2>1, <2>5 DEF LeaseRef, Finish, Renew
  <2>6. CASE SlashReply(a) \/ Refuse(a) \/ Answer(a) \/ Silence(a) \/ Error(a, "retryable") \/ Error(a, "fatal")
    <3>1. att[a].pc \in {"claimed", "asking"} /\ att'[a].pc = "ran" /\ \A c \in Runners : c # a => att'[c] = att[c]
      BY <2>6, EndMoves DEF Base, SlashReply, Refuse, Answer, Silence, Error
    <3> QED BY <2>1, <3>1
  <2> QED BY <1>4, <2>2, <2>3, <2>4, <2>5, <2>6 DEF Talk
<1>5. ASSUME Create \/ UNCHANGED vars PROVE Goal
  BY <1>5 DEF Create, vars
<1>6. ASSUME Tick PROVE Goal
  BY <1>6, TickMoves
<1>7. \A a \in Runners : run'[a].name = run[a].name
  <2>1. ASSUME NEW a \in Runners, Talk(a) PROVE \A c \in Runners : run'[c].name = run[c].name
    BY <2>1, TalkSaid DEF Said
  <2>2. Create => \A c \in Runners : run'[c].name = run[c].name
    BY CreateFacts DEF Said
  <2>3. ASSUME NEW a \in Runners, NEW m \in Messages, Claim(a, m) PROVE run' = run
    BY <2>3 DEF Claim, refVars
  <2> QED BY <2>1, <2>2, <2>3, StepCases, SettleMoves, TickMoves DEF Beat, vars, refVars
<1> QED BY <1>1, <1>2, <1>3, <1>4, <1>5, <1>6, <1>7, StepCases

\* An attempt appends while it works, at the end of what it knows.
LEMMA SpeakerFacts ==
  ASSUME Base, NEW a \in Runners, Say(a) \/ Answer(a)
  PROVE  /\ Working(a)
         /\ Say(a) => att[a].pc = "claimed" /\ att'[a].pc = "asking" /\ att'[a].msg = att[a].msg /\ att'[a].out = att[a].out
         /\ Answer(a) => att[a].pc = "asking" /\ att'[a].pc = "ran" /\ att'[a].msg = att[a].msg /\ att'[a].out = "answer"
         /\ \A c \in Runners : c # a => att'[c] = att[c]
         /\ row' = row /\ stalled' = stalled /\ lost' = lost
<1>0. att \in [Runners -> Attempt] /\ att[a] \in Attempt
  BY Facts
<1>1. ASSUME Say(a)
      PROVE  /\ att[a].pc = "claimed" /\ att'[a].pc = "asking" /\ att'[a].msg = att[a].msg /\ att'[a].out = att[a].out
             /\ \A c \in Runners : c # a => att'[c] = att[c]
             /\ row' = row /\ stalled' = stalled /\ lost' = lost
  <2>1. att' = [att EXCEPT ![a] = [@ EXCEPT !.pc = "asking"]] /\ att[a].pc = "claimed"
    BY <1>1 DEF Say
  <2> QED BY <1>0, <1>1, <2>1 DEF Say, UnchangedQueue, Attempt
<1>2. ASSUME Answer(a)
      PROVE  /\ att[a].pc = "asking" /\ att'[a].pc = "ran" /\ att'[a].msg = att[a].msg /\ att'[a].out = "answer"
             /\ \A c \in Runners : c # a => att'[c] = att[c]
             /\ row' = row /\ stalled' = stalled /\ lost' = lost
  BY <1>2, EndMoves DEF Base, Answer, UnchangedQueue
<1> QED BY <1>1, <1>2 DEF Working

-----------------------------------------------------------------------------
(* The order of the conversation *)

LEMMA OrderStep ==
  ASSUME Base, Touch, OrderNeedsStall, [Next]_vars
  PROVE  OrderNeedsStall'
<1> SUFFICES ASSUME NEW n \in Refs, NEW i \in DOMAIN ref'[n].hash, NEW j \in DOMAIN ref'[n].hash,
                    i < j, ref'[n].hash[i].msg > ref'[n].hash[j].msg, writer'[n][j] \notin stalled'
             PROVE  FALSE
  BY DEF OrderNeedsStall
<1>1. /\ Grown /\ stalled \subseteq stalled'
      /\ \A k \in DOMAIN ref'[n].hash : k \in DOMAIN ref[n].hash \/ \E a \in Runners : Entered(a, n, k)
  BY Growth, StepFacts
<1>2. ref[n].hash \in Seq(Entry) /\ \A k \in DOMAIN ref[n].hash : ref[n].hash[k].msg \in Messages
  BY Facts
<1>3. DOMAIN ref[n].hash = 1..Len(ref[n].hash) /\ Len(ref[n].hash) \in Nat
  BY <1>2
<1>4. CASE j \in DOMAIN ref[n].hash
  <2>1. i \in DOMAIN ref[n].hash
    <3>1. \/ i \in DOMAIN ref[n].hash
          \/ i = Len(ref[n].hash) + 1
      BY <1>1 DEF Entered
    <3> QED BY <1>3, <1>4, <3>1
  <2> QED BY <1>1, <1>4, <2>1 DEF Grown, OrderNeedsStall
<1>5. ASSUME NEW a \in Runners, Entered(a, n, j) PROVE FALSE
  <2>1. j = Len(ref[n].hash) + 1 /\ writer'[n][j] = a /\ ref'[n].hash[j].msg = att[a].msg /\ (Say(a) \/ Answer(a))
    BY <1>5 DEF Entered
  <2>2. i \in DOMAIN ref[n].hash
    <3>1. i \in DOMAIN ref[n].hash \/ i = Len(ref[n].hash) + 1
      BY <1>1 DEF Entered
    <3> QED BY <2>1, <3>1
  <2>3. ref'[n].hash[i] = ref[n].hash[i]
    BY <1>1, <2>2 DEF Grown
  <2>4. Working(a) /\ stalled' = stalled
    BY <2>1, SpeakerFacts
  <2>5. row[att[a].msg].status = "processing" /\ att[a].msg \in Messages
    BY <2>1, <2>4, Facts DEF Touch, InTouch, Mine
  <2>6. ~Open(att[a].msg)
    <3>1. Reached(ref[n].hash[i].msg)
      BY <2>2 DEF Touch, InOrder
    <3>2. ref[n].hash[i].msg > att[a].msg /\ ref[n].hash[i].msg \in Messages
      BY <1>2, <2>1, <2>2, <2>3
    <3>3. att[a].msg \in 1..ref[n].hash[i].msg - 1
      BY <2>5, <3>2, GatewayChatAssumption DEF Messages
    <3> QED BY <3>1, <3>3 DEF Reached
  <2> QED BY <2>5, <2>6 DEF Open
<1> QED BY <1>1, <1>4, <1>5

-----------------------------------------------------------------------------
(* Answers *)

LEMMA AnswersStep ==
  ASSUME Base, Touch, Answers, [Next]_vars
  PROVE  Answers'
<1> SUFFICES ASSUME NEW n \in Refs, NEW k \in DOMAIN ref'[n].hash, NEW b, b = writer'[n][k],
                    ref'[n].hash[k].role = "assistant"
             PROVE  /\ att'[b].pc \in {"ran", "gone"}
                    /\ b \notin stalled' \cup lost' =>
                         \/ att'[b].pc = "ran" /\ att'[b].msg = ref'[n].hash[k].msg /\ att'[b].out = "answer"
                         \/ row'[ref'[n].hash[k].msg].status = "done"
  BY DEF Answers, Answered
<1>1. /\ Grown
      /\ k \in DOMAIN ref[n].hash \/ \E a \in Runners : Entered(a, n, k)
  BY Growth
<1>2. ASSUME NEW a \in Runners, Entered(a, n, k)
      PROVE  att'[b].pc = "ran" /\ att'[b].msg = ref'[n].hash[k].msg /\ att'[b].out = "answer"
  <2>1. b = a /\ Answer(a) /\ ref'[n].hash[k].msg = att[a].msg
    BY <1>2 DEF Entered
  <2> QED BY <2>1, SpeakerFacts
<1>3. CASE k \in DOMAIN ref[n].hash
  <2> DEFINE m == ref[n].hash[k].msg
  <2>1. ref'[n].hash[k] = ref[n].hash[k] /\ writer[n][k] = b
    BY <1>1, <1>3 DEF Grown
  <2>2. m \in Messages
    BY <1>3, Facts
  <2>3. b \in Runners
    <3>1. Ref!WritersKnown /\ ref[n].hash \in Seq(Entry) /\ writer[n] \in Seq(Runners)
      BY RefTypes DEF Base
    <3>2. Len(writer[n]) = Len(ref[n].hash)
      BY <3>1 DEF Ref!WritersKnown
    <3>3. DOMAIN writer[n] = DOMAIN ref[n].hash
      BY <3>1, <3>2
    <3> QED BY <1>3, <2>1, <3>1, <3>3
  <2>4. /\ att[b].pc \in {"ran", "gone"}
        /\ b \notin stalled \cup lost =>
             \/ att[b].pc = "ran" /\ att[b].msg = m /\ att[b].out = "answer"
             \/ row[m].status = "done"
    BY <1>3, <2>1 DEF Answers, Answered
  <2>5. /\ stalled \subseteq stalled' /\ lost \subseteq lost'
        /\ att'[b].pc \in {"ran", "gone"}
        /\ att[b].pc = "ran" =>
             \/ att'[b].pc = "ran" /\ att'[b].msg = att[b].msg /\ att'[b].out = att[b].out
             \/ b \in lost' \/ Settle(b)
        /\ row[m].status = "done" => row'[m].status = "done"
    BY <2>2, <2>3, <2>4, StepFacts
  <2>6. ASSUME att[b].pc = "ran", att[b].msg = m, att[b].out = "answer", b \notin stalled, Settle(b)
        PROVE  row'[m].status = "done"
    <3>1. Mine(b)
      BY <2>3, <2>6 DEF Touch, InTouch, Working
    <3>2. row'[m].status = Outcome(b)
      BY <2>3, <2>6, <3>1, SettleMoves
    <3> QED BY <2>6, <3>2 DEF Outcome
  <2> HIDE DEF m
  <2>7. ref'[n].hash[k].msg = m
    BY <2>1 DEF m
  <2> QED BY <2>4, <2>5, <2>6, <2>7
<1> QED BY <1>1, <1>2, <1>3

LEMMA SecondAnswerStep ==
  ASSUME Base, Touch, Answers, SecondAnswerNeedsLoss, [Next]_vars
  PROVE  SecondAnswerNeedsLoss'
<1> SUFFICES ASSUME NEW n \in Refs, NEW i \in DOMAIN ref'[n].hash, NEW j \in DOMAIN ref'[n].hash,
                    i < j, ref'[n].hash[i] = ref'[n].hash[j], ref'[n].hash[i].role = "assistant",
                    writer'[n][i] \notin stalled' \cup lost', writer'[n][j] \notin stalled'
             PROVE  FALSE
  BY DEF SecondAnswerNeedsLoss
<1>1. /\ Grown /\ stalled \subseteq stalled' /\ lost \subseteq lost'
      /\ \A k \in DOMAIN ref'[n].hash : k \in DOMAIN ref[n].hash \/ \E a \in Runners : Entered(a, n, k)
  BY Growth, StepFacts
<1>2. ref[n].hash \in Seq(Entry) /\ writer[n] \in Seq(Runners) /\ Len(writer[n]) = Len(ref[n].hash)
  BY RefTypes DEF Base, Ref!WritersKnown
<1>3. DOMAIN ref[n].hash = 1..Len(ref[n].hash) /\ Len(ref[n].hash) \in Nat /\ DOMAIN writer[n] = DOMAIN ref[n].hash
  BY <1>2
<1>4. \A k \in DOMAIN ref'[n].hash : k \in DOMAIN ref[n].hash \/ k = Len(ref[n].hash) + 1
  BY <1>1 DEF Entered
<1>5. CASE j \in DOMAIN ref[n].hash
  <2>1. i \in DOMAIN ref[n].hash
    BY <1>3, <1>4, <1>5
  <2> QED BY <1>1, <1>5, <2>1 DEF Grown, SecondAnswerNeedsLoss
<1>6. ASSUME NEW a \in Runners, Entered(a, n, j) PROVE FALSE
  <2>1. j = Len(ref[n].hash) + 1 /\ writer'[n][j] = a /\ Answer(a) /\ ref'[n].hash[j].msg = att[a].msg
    BY <1>6 DEF Entered
  <2>2. i \in DOMAIN ref[n].hash
    BY <1>4, <2>1
  <2>3. ref[n].hash[i] = ref'[n].hash[j] /\ writer'[n][i] = writer[n][i]
    BY <1>1, <2>2 DEF Grown
  <2> DEFINE b == writer[n][i]
  <2>4. b \in Runners
    BY <1>2, <1>3, <2>2
  <2>5. b \notin stalled /\ b \notin lost /\ a \notin stalled
    BY <1>1, <2>1, <2>3
  <2>6. att[b].pc = "ran" \/ row[att[a].msg].status = "done"
    <3>1. Answered(n, i)
      BY <2>2 DEF Answers
    <3>2. ref[n].hash[i].role = "assistant" /\ ref[n].hash[i].msg = att[a].msg
      BY <2>1, <2>3
    <3>3. b \notin stalled \cup lost
      BY <2>5
    <3> QED BY <3>1, <3>2, <3>3, Zenon DEF Answered
  <2>7. att[a].pc = "asking" /\ Working(a)
    BY <2>1, SpeakerFacts
  <2>8. Mine(a)
    BY <2>5, <2>7 DEF Touch, InTouch
  <2>9. CASE att[b].pc = "ran"
    <3>1. Working(b)
      BY <2>9 DEF Working
    <3> HIDE DEF b
    <3> QED BY <2>4, <2>5, <2>7, <2>9, <3>1, OneInTouch
  <2>10. CASE row[att[a].msg].status = "done"
    BY <2>8, <2>10 DEF Mine
  <2> QED BY <2>6, <2>9, <2>10
<1> QED BY <1>1, <1>5, <1>6

-----------------------------------------------------------------------------
(* What an attempt has got done *)

\* What an attempt wrote stays in the conversation.
LEMMA WroteStays ==
  ASSUME Base, [Next]_vars, NEW a \in Runners, NEW m \in Messages, NEW k \in Nat, Wrote(a, m, k)
  PROVE  Wrote(a, m, k)'
<1> DEFINE n == run[a].name
<1>1. Grown /\ run'[a].name = n
  BY Growth, StepFacts
<1>2. n \in Refs /\ ref[n].hash \in Seq(Entry)
  BY Facts
<1>3. /\ k \in DOMAIN ref[n].hash /\ k > 1 /\ writer[n][k] = a /\ writer[n][k - 1] = a
      /\ ref[n].hash[k] = [role |-> "assistant", msg |-> m]
      /\ ref[n].hash[k - 1] = [role |-> "user", msg |-> m]
  BY DEF Wrote
<1>4. k - 1 \in DOMAIN ref[n].hash
  BY <1>2, <1>3
<1> HIDE DEF n
<1>5. /\ k \in DOMAIN ref'[n].hash /\ writer'[n][k] = writer[n][k]
      /\ ref'[n].hash[k] = ref[n].hash[k]
  BY <1>1, <1>2, <1>3 DEF Grown
<1>6. writer'[n][k - 1] = writer[n][k - 1] /\ ref'[n].hash[k - 1] = ref[n].hash[k - 1]
  BY <1>1, <1>2, <1>4 DEF Grown
<1>7. /\ k \in DOMAIN ref'[n].hash /\ k > 1 /\ writer'[n][k] = a /\ writer'[n][k - 1] = a
      /\ ref'[n].hash[k] = [role |-> "assistant", msg |-> m]
      /\ ref'[n].hash[k - 1] = [role |-> "user", msg |-> m]
  BY <1>3, <1>5, <1>6
<1> QED BY <1>1, <1>7 DEF Wrote

\* What an attempt knows only changes when it speaks.
LEMMA KnownStays ==
  ASSUME Base, [Next]_vars, NEW a \in Runners, run[a].pc \in {"open", "closed"}, ~Say(a), ~Answer(a)
  PROVE  run'[a].hash = run[a].hash /\ run'[a].pc \in {"open", "closed"}
<1>1. CASE LeaseStep \/ UNCHANGED refVars
  BY <1>1, LeaseStill DEF Base, Still
<1>2. ASSUME NEW b \in Runners, Say(b) \/ Answer(b) PROVE run'[a] = run[a]
  <2>1. b # a
    BY <1>2
  <2>2. [role |-> "user", msg |-> att[b].msg] \in Entry /\ [role |-> "assistant", msg |-> att[b].msg] \in Entry
    BY Facts, EntryType
  <2>3. \E m \in Entry : Ref!AppendMessage(b, m)
    BY <1>2, <2>2 DEF Say, Answer
  <2> QED BY <2>1, <2>3, AppendGrows
<1> QED BY <1>1, <1>2, StepOfRefs DEF Base

\* How an attempt changes.
LEMMA AttemptSteps ==
  ASSUME Base, [Next]_vars, NEW a \in Runners
  PROVE  \/ att'[a] = att[a]
         \/ att'[a] = Gone
         \/ att[a].pc = "new" /\ att'[a].pc = "claimed" /\ att'[a].out = att[a].out
         \/ /\ att'[a].pc = att[a].pc /\ att'[a].msg = att[a].msg /\ att'[a].out = att[a].out
            /\ att'[a].canceled
         \/ Say(a)
         \/ /\ att[a].pc \in {"claimed", "asking"} /\ att'[a].pc = "ran"
            /\ att'[a].msg = att[a].msg /\ att'[a].canceled = att[a].canceled
            /\ \/ Answer(a) /\ att'[a].out = "answer"
               \/ row[att[a].msg].slash /\ att'[a].out = "answer"
               \/ att[a].canceled /\ att'[a].out = "silent"
               \/ att'[a].out \in {"retryable", "fatal"}
<1> DEFINE Goal ==
         \/ att'[a] = att[a]
         \/ att'[a] = Gone
         \/ att[a].pc = "new" /\ att'[a].pc = "claimed" /\ att'[a].out = att[a].out
         \/ /\ att'[a].pc = att[a].pc /\ att'[a].msg = att[a].msg /\ att'[a].out = att[a].out
            /\ att'[a].canceled
         \/ Say(a)
         \/ /\ att[a].pc \in {"claimed", "asking"} /\ att'[a].pc = "ran"
            /\ att'[a].msg = att[a].msg /\ att'[a].canceled = att[a].canceled
            /\ \/ Answer(a) /\ att'[a].out = "answer"
               \/ row[att[a].msg].slash /\ att'[a].out = "answer"
               \/ att[a].canceled /\ att'[a].out = "silent"
               \/ att'[a].out \in {"retryable", "fatal"}
<1>0. att \in [Runners -> Attempt] /\ att[a] \in Attempt
  BY Facts
<1>1. ASSUME NEW c \in Runners, NEW m \in Messages, Claim(c, m) PROVE Goal
  BY <1>0, <1>1 DEF Claim, Attempt
<1>2. ASSUME NEW c \in Runners, Beat(c) \/ Create \/ Tick \/ UNCHANGED vars PROVE Goal
  BY <1>2 DEF Beat, Create, Tick, vars
<1>3. ASSUME NEW c \in Runners, Settle(c) PROVE Goal
  BY <1>3, SettleMoves
<1>4. ASSUME NEW c \in Runners, Talk(c), c # a PROVE att'[a] = att[a]
  <2>1. CASE Say(c) \/ Unsettled(c) \/ Die(c) \/ Cancel(c)
    BY <1>0, <1>4, <2>1 DEF Say, Unsettled, Leave, Die, Cancel
  <2>2. CASE LeaseRef(c) \/ Finish(c) \/ Renew(c)
    BY <2>2 DEF LeaseRef, Finish, Renew
  <2>3. CASE SlashReply(c) \/ Refuse(c) \/ Answer(c) \/ Silence(c) \/ Error(c, "retryable") \/ Error(c, "fatal")
    BY <1>0, <1>4, <2>3 DEF SlashReply, Refuse, Answer, Silence, Error, End
  <2> QED BY <1>4, <2>1, <2>2, <2>3 DEF Talk
<1>5. ASSUME Talk(a) PROVE Goal
  <2>1. CASE Say(a)
    BY <2>1
  <2>2. CASE Unsettled(a) \/ Die(a)
    BY <1>0, <2>2 DEF Unsettled, Leave, Die
  <2>3. CASE Cancel(a)
    BY <1>0, <2>3 DEF Cancel, Attempt
  <2>4. CASE LeaseRef(a) \/ Finish(a) \/ Renew(a)
    BY <2>4 DEF LeaseRef, Finish, Renew
  <2>5. CASE SlashReply(a)
    BY <2>5, EndMoves DEF Base, SlashReply
  <2>6. CASE Answer(a)
    BY <2>6, EndMoves DEF Base, Answer
  <2>7. CASE Silence(a)
    BY <2>7, EndMoves DEF Base, Silence
  <2>8. CASE Refuse(a) \/ Error(a, "retryable") \/ Error(a, "fatal")
    BY <2>8, EndMoves DEF Base, Refuse, Error
  <2> QED BY <1>5, <2>1, <2>2, <2>3, <2>4, <2>5, <2>6, <2>7, <2>8 DEF Talk
<1> QED BY <1>1, <1>2, <1>3, <1>4, <1>5, StepCases

LEMMA ProgressStep ==
  ASSUME Base, [Next]_vars, NEW a \in Runners, Progress(a)
  PROVE  Progress(a)'
<1> DEFINE n == run[a].name
           L == Len(run[a].hash)
<1>0. /\ n \in Refs /\ run'[a].name = n /\ att[a].msg \in Messages /\ att[a] \in Attempt
      /\ run[a].hash \in Seq(Entry) /\ ref[n].hash \in Seq(Entry)
      /\ Grown /\ \A m \in Messages : row'[m].slash = row[m].slash
  BY Facts, RefTypes, StepFacts, Growth DEF Base
<1>1. /\ att'[a].out = "silent" => att'[a].canceled
      /\ att'[a].out # "none" => att'[a].pc = "ran"
  BY AttemptSteps, SpeakerFacts, GoneType DEF Progress
<1>2. ASSUME att'[a].pc = "asking"
      PROVE  /\ run'[a].pc \in {"open", "closed"}
             /\ Len(run'[a].hash) \in DOMAIN ref'[n].hash /\ writer'[n][Len(run'[a].hash)] = a
             /\ ref'[n].hash[Len(run'[a].hash)] = [role |-> "user", msg |-> att'[a].msg]
  <2>1. CASE Say(a)
    <3>1. [role |-> "user", msg |-> att[a].msg] \in Entry
      BY <1>0, EntryType
    <3>2. Ref!AppendMessage(a, [role |-> "user", msg |-> att[a].msg]) /\ att'[a].msg = att[a].msg
      BY <2>1, SpeakerFacts DEF Say
    <3>3. /\ DOMAIN ref'[n].hash = 1..L + 1
          /\ ref'[n].hash[L + 1] = [role |-> "user", msg |-> att[a].msg] /\ writer'[n][L + 1] = a
          /\ Len(run'[a].hash) = L + 1 /\ run'[a].pc = "open"
      BY <3>1, <3>2, AppendGrows
    <3>4. L + 1 \in 1..L + 1
      BY <1>0
    <3> QED BY <3>2, <3>3, <3>4
  <2>2. CASE ~Say(a)
    <3>1. att[a].pc = "asking" /\ att'[a].msg = att[a].msg /\ ~Answer(a)
      BY <1>2, <2>2, AttemptSteps, SpeakerFacts, GoneType
    <3>2. /\ run[a].pc \in {"open", "closed"}
          /\ L \in DOMAIN ref[n].hash /\ writer[n][L] = a
          /\ ref[n].hash[L] = [role |-> "user", msg |-> att[a].msg]
      BY <3>1 DEF Progress
    <3>3. run'[a].hash = run[a].hash /\ run'[a].pc \in {"open", "closed"}
      BY <2>2, <3>1, <3>2, KnownStays
    <3> QED BY <1>0, <3>1, <3>2, <3>3 DEF Grown
  <2> QED BY <2>1, <2>2
<1>3. ASSUME att'[a].pc = "ran", att'[a].out = "answer", ~row'[att'[a].msg].slash
      PROVE  \E k \in Nat :
               /\ k \in DOMAIN ref'[n].hash /\ k > 1 /\ writer'[n][k] = a /\ writer'[n][k - 1] = a
               /\ ref'[n].hash[k] = [role |-> "assistant", msg |-> att'[a].msg]
               /\ ref'[n].hash[k - 1] = [role |-> "user", msg |-> att'[a].msg]
  <2>1. CASE Answer(a)
    <3>1. [role |-> "assistant", msg |-> att[a].msg] \in Entry
      BY <1>0, EntryType
    <3>2. Ref!AppendMessage(a, [role |-> "assistant", msg |-> att[a].msg]) /\ att'[a].msg = att[a].msg /\ att[a].pc = "asking"
      BY <2>1, SpeakerFacts DEF Answer
    <3>3. /\ DOMAIN ref'[n].hash = 1..L + 1
          /\ ref'[n].hash[L + 1] = [role |-> "assistant", msg |-> att[a].msg] /\ writer'[n][L + 1] = a
      BY <3>1, <3>2, AppendGrows
    <3>4. /\ L \in DOMAIN ref[n].hash /\ writer[n][L] = a
          /\ ref[n].hash[L] = [role |-> "user", msg |-> att[a].msg]
      BY <3>2 DEF Progress
    <3>5. writer'[n][L] = a /\ ref'[n].hash[L] = [role |-> "user", msg |-> att[a].msg]
      BY <1>0, <3>4 DEF Grown
    <3>6. L + 1 \in 1..L + 1 /\ L + 1 > 1 /\ (L + 1) - 1 = L /\ L + 1 \in Nat
      BY <1>0, <3>4
    <3>7. L + 1 \in DOMAIN ref'[n].hash /\ writer'[n][(L + 1) - 1] = a
          /\ ref'[n].hash[(L + 1) - 1] = [role |-> "user", msg |-> att'[a].msg]
          /\ ref'[n].hash[L + 1] = [role |-> "assistant", msg |-> att'[a].msg]
      BY <3>2, <3>3, <3>5, <3>6
    <3> HIDE DEF n, L
    <3> QED BY <3>3, <3>6, <3>7
  <2>2. CASE ~Answer(a)
    <3>1. /\ att'[a].msg = att[a].msg
          /\ att[a].pc = "ran" /\ att[a].out = "answer"
      BY <1>0, <1>3, <2>2, AttemptSteps, SpeakerFacts, GoneType
    <3>2. ~row[att[a].msg].slash
      BY <1>0, <1>3, <3>1
    <3>3. PICK m \in Messages : m = att[a].msg
      BY <1>0
    <3>4. PICK k \in Nat : Wrote(a, m, k)
      BY <3>1, <3>2, <3>3 DEF Progress
    <3>5. Wrote(a, m, k)'
      BY <3>4, WroteStays, Zenon
    <3>6. m = att'[a].msg
      BY <3>1, <3>3
    <3> HIDE DEF L
    <3> QED BY <1>0, <3>5, <3>6 DEF Wrote
  <2> QED BY <2>1, <2>2
<1>4. run'[a].name = n
  BY <1>0
<1> HIDE DEF n, L
<1> QED BY <1>1, <1>2, <1>3, <1>4 DEF Progress, Wrote

\* A reply is some attempt's, which wrote it.
ReplyMeant(m) ==
  /\ reply[m].kind # "silent"
  /\ reply[m].kind = "answer" /\ ~row[m].slash =>
       reply[m].by \in Runners /\ \E k \in Nat : Wrote(reply[m].by, m, k)

LEMMA ReplyStep ==
  ASSUME Base, Touch, \A a \in Runners : Progress(a), [Next]_vars, NEW m \in Messages, ReplyMeant(m)
  PROVE  ReplyMeant(m)'
<1>0. /\ row'[m].slash = row[m].slash
      /\ \A a \in Runners : att[a].msg \in Messages
      /\ reply \in [Messages -> [kind : {"none", "answer", "silent", "retryable", "fatal"}, by : Runners \cup {NoRunner}]]
  BY Facts, StepFacts DEF Base, TypeOK
<1>1. ASSUME reply'[m] = reply[m]
      PROVE  ReplyMeant(m)'
  <2> SUFFICES ASSUME reply[m].kind = "answer", ~row[m].slash, NEW b \in Runners, b = reply[m].by
               PROVE  \E k \in Nat : Wrote(b, m, k)'
    BY <1>0, <1>1 DEF ReplyMeant
  <2>1. PICK k \in Nat : Wrote(b, m, k)
    BY DEF ReplyMeant
  <2>2. Wrote(b, m, k)'
    BY <2>1, WroteStays, Zenon
  <2> QED BY <2>2
<1>2. ASSUME NEW a \in Runners, Settle(a), reply'[m] # reply[m]
      PROVE  ReplyMeant(m)'
  <2>1. /\ m = att[a].msg /\ reply'[m] = [kind |-> att[a].out, by |-> a]
        /\ att[a].pc = "ran" /\ ~att[a].canceled
    BY <1>0, <1>2, SettleMoves
  <2>2. att[a].out # "silent"
    BY <2>1 DEF Progress
  <2>3. ASSUME att[a].out = "answer", ~row[m].slash PROVE \E k \in Nat : Wrote(a, m, k)'
    <3>1. PICK k \in Nat : Wrote(a, m, k)
      BY <2>1, <2>3 DEF Progress
    <3>2. Wrote(a, m, k)'
      BY <3>1, WroteStays, Zenon
    <3> QED BY <3>2
  <2>4. reply'[m].kind = att[a].out /\ reply'[m].by = a
    BY <2>1
  <2> QED BY <1>0, <2>2, <2>3, <2>4 DEF ReplyMeant
<1>3. ASSUME NEW a \in Runners, Talk(a) PROVE reply' = reply
  BY <1>3 DEF Talk, SlashReply, Refuse, Say, Answer, Silence, Error, LeaseRef, Finish, Renew, Cancel,
              Unsettled, Die, UnchangedQueue
<1>4. ASSUME NEW a \in Runners, NEW i \in Messages, Claim(a, i) PROVE reply' = reply
  BY <1>4 DEF Claim
<1>5. ASSUME NEW a \in Runners, Beat(a) PROVE reply' = reply
  BY <1>5 DEF Beat
<1>6. ASSUME Create \/ Tick \/ UNCHANGED vars PROVE reply' = reply
  BY <1>6 DEF Create, Tick, vars
<1>7. reply' = reply \/ \E a \in Runners : Settle(a)
  BY <1>3, <1>4, <1>5, <1>6, StepCases
<1> QED BY <1>1, <1>2, <1>7

-----------------------------------------------------------------------------
(* Theorems *)

ChatInductive ==
  /\ Base /\ Touch /\ TalkInv
  /\ RefusedNeedsStall /\ OrderNeedsStall /\ SecondAnswerNeedsLoss
  /\ \A m \in Messages : ReplyMeant(m)

LEMMA ChatInit == Init => ChatInductive
<1> SUFFICES ASSUME Init PROVE ChatInductive
  OBVIOUS
<1>1. /\ \A n \in Refs : ref[n].hash = <<>>
      /\ \A a \in Runners : att[a].pc = "new" /\ att[a].out = "none" /\ refused[a] = NoRunner
      /\ \A m \in Messages : reply[m].kind = "none"
  BY DEF Init, Ref!Init, Ref!NoRef, NoReply
<1>2. \A n \in Refs : DOMAIN ref[n].hash = {}
  BY <1>1
<1>3. TalkInv
  <2>1. Answers
    BY <1>2 DEF Answers
  <2>2. \A a \in Runners : Progress(a)
    BY <1>1 DEF Progress
  <2> QED BY <2>1, <2>2 DEF TalkInv
<1>4. OrderNeedsStall /\ SecondAnswerNeedsLoss
  BY <1>2 DEF OrderNeedsStall, SecondAnswerNeedsLoss
<1>5. RefusedNeedsStall /\ \A m \in Messages : ReplyMeant(m)
  BY <1>1 DEF RefusedNeedsStall, ReplyMeant
<1> QED BY <1>3, <1>4, <1>5, TouchInit DEF ChatInductive

LEMMA ChatStep == ChatInductive /\ [Next]_vars => ChatInductive'
<1> SUFFICES ASSUME ChatInductive, [Next]_vars PROVE ChatInductive'
  OBVIOUS
<1>1. Base' /\ Touch'
  BY BaseStep, TouchStep DEF ChatInductive
<1>2. TalkInv'
  <2>1. Answers'
    BY AnswersStep DEF ChatInductive, TalkInv
  <2>2. \A a \in Runners : Progress(a)'
    BY ProgressStep DEF ChatInductive, TalkInv
  <2> QED BY <2>1, <2>2 DEF TalkInv
<1>3. RefusedNeedsStall' /\ OrderNeedsStall' /\ SecondAnswerNeedsLoss'
  BY RefusedStep, OrderStep, SecondAnswerStep DEF ChatInductive, TalkInv
<1>4. \A m \in Messages : ReplyMeant(m)'
  BY ReplyStep DEF ChatInductive, TalkInv
<1> QED BY <1>1, <1>2, <1>3, <1>4 DEF ChatInductive

\* The invariant of a session: types, the refs' invariant, the order of the
\* messages, the two leases of an attempt and what every attempt has written.
THEOREM Invariance == Spec => []ChatInductive
  BY ChatInit, ChatStep, PTL DEF Spec

\* The variables keep their types, and the conversation has the messages in the
\* order of their ids except where an attempt wrote that had lost touch with
\* the queue.
THEOREM ConversationInOrder == Spec => []ChatInv
<1>1. ChatInductive => ChatInv
  BY DEF ChatInductive, Base, ChatInv
<1> QED BY <1>1, Invariance, PTL

\* An attempt in touch with the queue is refused the ref only because of an
\* attempt that had lost touch, or had settled before it released the ref:
\* after a crash the conversation lease is over when the message is due again.
THEOREM RefusalsExplained == Spec => []RefusedNeedsStall
<1>1. ChatInductive => RefusedNeedsStall
  BY DEF ChatInductive
<1> QED BY <1>1, Invariance, PTL

\* A reply is what its attempt wrote in the conversation right after the
\* message, and an interrupted run never replies.
THEOREM RepliesAreWritten == Spec => []RepliesFromConversation
<1>1. ChatInductive => RepliesFromConversation
  <2> SUFFICES ASSUME ChatInductive, NEW m \in Messages
               PROVE  /\ reply[m].kind # "silent"
                      /\ reply[m].kind = "answer" /\ ~row[m].slash =>
                           \E k \in DOMAIN ref[run[reply[m].by].name].hash :
                             /\ k > 1 /\ writer[run[reply[m].by].name][k] = reply[m].by
                             /\ writer[run[reply[m].by].name][k - 1] = reply[m].by
                             /\ ref[run[reply[m].by].name].hash[k] = [role |-> "assistant", msg |-> m]
                             /\ ref[run[reply[m].by].name].hash[k - 1] = [role |-> "user", msg |-> m]
    BY DEF RepliesFromConversation
  <2> QED BY DEF ChatInductive, ReplyMeant, Wrote
<1> QED BY <1>1, Invariance, PTL

\* A second answer to a message follows one that could not be settled, or comes
\* from an attempt that had lost touch with the queue.
THEOREM SecondAnswersExplained == Spec => []SecondAnswerNeedsLoss
<1>1. ChatInductive => SecondAnswerNeedsLoss
  BY DEF ChatInductive
<1> QED BY <1>1, Invariance, PTL

\* The session's refs and leases behave as ConversationRef specifies them.
THEOREM UsesRefs == Spec => Ref!Spec
<1>1. Init => Ref!Init
  BY DEF Init
<1>2. ChatInductive /\ [Next]_vars => [Ref!Next]_(Ref!vars)
  <2> SUFFICES ASSUME ChatInductive, [Next]_vars PROVE [Ref!Next]_(Ref!vars)
    OBVIOUS
  <2>1. TypeOK
    BY DEF ChatInductive, Base
  <2>2. LeaseStep => Ref!Next
    BY DEF LeaseStep, Ref!Next
  <2>3. AppendStep => Ref!Next
    BY DEF AppendStep, Ref!Next
  <2> QED BY <2>1, <2>2, <2>3, StepOfRefs, SaysAppend DEF refVars, Ref!vars
<1> QED BY <1>1, <1>2, Invariance, PTL DEF Spec, Ref!Spec

\* Attempts at the messages of a session implement append-only conversations in
\* which the messages of one attempt stay together: deaths, expired claims and
\* retries never leave two attempts mixed, nor is anything of an earlier lost.
THEOREM ImplementsLog == Spec => RefProofs!ImplementsConversationLog
<1>1. Init => RefProofs!Init
  BY DEF Init, Ref!Init, RefProofs!Init, Ref!NoRef, RefProofs!NoRef, Ref!Unused, RefProofs!Unused
<1>2. ChatInductive /\ [Next]_vars => [RefProofs!Next]_(RefProofs!vars)
  <2> SUFFICES ASSUME ChatInductive, [Next]_vars PROVE [RefProofs!Next]_(RefProofs!vars)
    OBVIOUS
  <2>1. TypeOK
    BY DEF ChatInductive, Base
  <2> QED BY <2>1, StepOfRefs, SaysAppend, SameStep
<1>3. Spec => RefProofs!Spec
  BY <1>1, <1>2, Invariance, PTL DEF Spec, RefProofs!Spec
<1>4. RefProofs!Spec => RefProofs!ImplementsConversationLog
  BY RefAssumption, RefProofs!Refinement DEF RefProofs!ConversationRefAssumption
<1> QED BY <1>3, <1>4, PTL
=============================================================================
