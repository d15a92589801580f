--------------------------- MODULE ExecutorProofs ---------------------------
(***************************************************************************)
(* Proofs about Executor for any refs, runs, leases, limits on turns and   *)
(* numbers of tool calls.  What the refs promise is taken from             *)
(* ConversationRefProofs.                                                  *)
(***************************************************************************)
EXTENDS Executor, FiniteSetTheorems, TLAPS

RefProofs == INSTANCE ConversationRefProofs WITH Msgs <- Message

-----------------------------------------------------------------------------
(* The inductive invariant *)

\* The completions that the run of r appended.
Completed(r) == {k \in Own(r) : Chain(r)[k].role = "assistant"}

\* A cached chain is the beginning of the ref's, and holds all of one's own.
Cached ==
  /\ \A r \in Runners : \A k \in DOMAIN Chain(r) : Chain(r)[k] = ref[run[r].name].hash[k]
  /\ \A r \in Runners : \A k \in Own(r) : k <= Len(Chain(r))

\* A run has a lease, its loop an open one, and a result when it has ended.
Ran(r) ==
  /\ ex[r].pc # "built" => run[r].pc \in {"open", "closed"}
  /\ InLoop(r) => run[r].pc = "open"
  /\ ex[r].pc = "dead" => run[r].pc = "closed"
  /\ ex[r].pc \in {"close", "signal", "done"} => ex[r].status # "none"
  /\ ex[r].status # "none" => ex[r].pc \in {"close", "signal", "done", "dead"}

\* The turn counts the completions.
Counted(r) ==
  LET made == Cardinality(Completed(r)) IN
  /\ ex[r].pc \in {"built", "prompt", "user"} => ex[r].turn = 0 /\ made = 0
  /\ ex[r].pc \in {"top", "asking"} => made = ex[r].turn - 1 /\ made <= MaxTurns[r]
  /\ ex[r].pc \in {"asking", "tool", "results"} => ex[r].turn \in 1..MaxTurns[r]
  /\ ex[r].pc \in {"tool", "results"} => made = ex[r].turn
  /\ ex[r].status # "none" => made = ex[r].turns /\ made <= MaxTurns[r]

\* A completed run ends with its own last completion, which calls no tool.
Concluded(r) ==
  ex[r].status = "completed" =>
    Len(Chain(r)) \in Own(r) /\ Chain(r)[Len(Chain(r))] = Assistant(0)

\* LoopInPlace, for one run.
InPlace(r) ==
  LET last == Chain(r)[Len(Chain(r))] IN
  /\ InLoop(r) => Len(Chain(r)) \in Own(r)
  /\ ex[r].pc \in {"top", "asking"} => last.role \in {"user", "tool"}
  /\ ex[r].pc \in {"tool", "results"} => last.role = "assistant" /\ last.n > 0
  /\ ex[r].pc = "tool" => ex[r].call \in 1..last.n

Local(r) == Ran(r) /\ Counted(r) /\ Concluded(r) /\ InPlace(r)

AtTools(r) == ex[r].pc \in {"tool", "results"}
CutOff(r) == ex[r].status \in {"interrupted", "errored"} \/ ex[r].pc = "dead"

\* In the chain of a ref, calls are followed by their results unless the run
\* that made them was cut off or is at work on them, and results follow calls.
CallsMet(n, k) ==
  LET m == ref[n].hash[k]
      q == writer[n][k] IN
  m.role = "assistant" /\ m.n > 0 =>
    \/ k + 1 \in DOMAIN ref[n].hash /\ ref[n].hash[k + 1] = Results(m.n)
    \/ CutOff(q)
    \/ AtTools(q) /\ k = Len(Chain(q))

ResultsMeet(n, k) ==
  LET m == ref[n].hash[k] IN
  m.role = "tool" => k > 1 /\ ref[n].hash[k - 1] = Assistant(m.n)

Paired == \A n \in Refs : \A k \in DOMAIN ref[n].hash : CallsMet(n, k) /\ ResultsMeet(n, k)

LoopInv ==
  /\ TypeOK
  /\ Ref!RefInv
  /\ Cached
  /\ \A r \in Runners : Local(r)
  /\ Paired

-----------------------------------------------------------------------------
(* The refs *)

\* The invariant of the refs is the one proved in ConversationRefProofs.
LEMMA SameInv == Ref!RefInv <=> RefProofs!RefInv
  BY DEF Ref!RefInv, RefProofs!RefInv, Ref!TypeOK, RefProofs!TypeOK,
         Ref!HoldersLeased, RefProofs!HoldersLeased,
         Ref!HolderIsCurrent, RefProofs!HolderIsCurrent, Ref!WritersKnown, RefProofs!WritersKnown,
         Ref!TurnsContiguous, RefProofs!TurnsContiguous, Ref!Holds, RefProofs!Holds,
         Ref!Available, RefProofs!Available, Ref!Chain, RefProofs!Chain,
         Ref!RefRow, RefProofs!RefRow, Ref!LeasedRef, RefProofs!LeasedRef

LEMMA SameInvNext == Ref!RefInv' <=> RefProofs!RefInv'
  BY DEF Ref!RefInv, RefProofs!RefInv, Ref!TypeOK, RefProofs!TypeOK,
         Ref!HoldersLeased, RefProofs!HoldersLeased,
         Ref!HolderIsCurrent, RefProofs!HolderIsCurrent, Ref!WritersKnown, RefProofs!WritersKnown,
         Ref!TurnsContiguous, RefProofs!TurnsContiguous, Ref!Holds, RefProofs!Holds,
         Ref!Available, RefProofs!Available, Ref!Chain, RefProofs!Chain,
         Ref!RefRow, RefProofs!RefRow, Ref!LeasedRef, RefProofs!LeasedRef

\* The runner's operations other than an append.
LeaseStep ==
  \/ \E n \in Refs : Ref!CreateRef(n)
  \/ \E r \in Runners : Ref!Acquire(r) \/ Ref!Open(r) \/ Ref!Close(r) \/ Ref!Abandon(r) \/ Ref!Renew(r)
  \/ Ref!Tick

AppendStep == \E r \in Runners : \E m \in Message : Ref!AppendMessage(r, m)

LEMMA SameAppend ==
  ASSUME NEW r \in Runners, NEW m \in Message
  PROVE  Ref!AppendMessage(r, m) <=> RefProofs!AppendMessage(r, m)
  BY DEF Ref!AppendMessage, RefProofs!AppendMessage, Ref!MayAdvance, RefProofs!MayAdvance,
         Ref!Available, RefProofs!Available

LEMMA SameLease == LeaseStep => RefProofs!Next
<1>1. ASSUME NEW n \in Refs, Ref!CreateRef(n) PROVE RefProofs!Next
  BY <1>1 DEF Ref!CreateRef, RefProofs!CreateRef, RefProofs!Next
<1>2. ASSUME NEW r \in Runners, Ref!Acquire(r) PROVE RefProofs!Next
  <2>1. RefProofs!Acquire(r)
    BY <1>2 DEF Ref!Acquire, RefProofs!Acquire, Ref!Available, RefProofs!Available
  <2> QED BY <2>1 DEF RefProofs!Next
<1>3. ASSUME NEW r \in Runners, Ref!Open(r) PROVE RefProofs!Next
  <2>1. RefProofs!Open(r)
    BY <1>3 DEF Ref!Open, RefProofs!Open
  <2> QED BY <2>1 DEF RefProofs!Next
<1>4. ASSUME NEW r \in Runners, Ref!Close(r) PROVE RefProofs!Next
  <2>1. RefProofs!Close(r)
    BY <1>4 DEF Ref!Close, RefProofs!Close, Ref!Released, RefProofs!Released
  <2> QED BY <2>1 DEF RefProofs!Next
<1>5. ASSUME NEW r \in Runners, Ref!Abandon(r) PROVE RefProofs!Next
  <2>1. RefProofs!Abandon(r)
    BY <1>5 DEF Ref!Abandon, RefProofs!Abandon
  <2> QED BY <2>1 DEF RefProofs!Next
<1>6. ASSUME NEW r \in Runners, Ref!Renew(r) PROVE RefProofs!Next
  <2>1. RefProofs!Renew(r)
    BY <1>6 DEF Ref!Renew, RefProofs!Renew
  <2> QED BY <2>1 DEF RefProofs!Next
<1>7. ASSUME Ref!Tick PROVE RefProofs!Next
  BY <1>7 DEF Ref!Tick, RefProofs!Tick, RefProofs!Next
<1> QED BY <1>1, <1>2, <1>3, <1>4, <1>5, <1>6, <1>7 DEF LeaseStep

LEMMA RefAssumption == RefProofs!ConversationRefAssumption
  BY ExecutorAssumption DEF RefProofs!ConversationRefAssumption

LEMMA SameStep ==
  ASSUME LeaseStep \/ AppendStep \/ UNCHANGED refVars
  PROVE  [RefProofs!Next]_(RefProofs!vars)
<1>1. CASE LeaseStep
  BY <1>1, SameLease
<1>2. CASE AppendStep
  BY <1>2, SameAppend DEF AppendStep, RefProofs!Next
<1>3. CASE UNCHANGED refVars
  BY <1>3 DEF refVars, RefProofs!vars
<1> QED BY <1>1, <1>2, <1>3

\* Every step of the refs that an executor may cause keeps their invariant.
LEMMA RefKept ==
  ASSUME Ref!RefInv, LeaseStep \/ AppendStep \/ UNCHANGED refVars
  PROVE  Ref!RefInv'
BY SameStep, SameInv, SameInvNext, RefAssumption, RefProofs!RefInvStep

\* The types that the proofs use.
LEMMA RefTypes ==
  ASSUME Ref!RefInv
  PROVE  /\ ref \in [Refs -> Ref!RefRow] /\ run \in [Runners -> Ref!LeasedRef]
         /\ writer \in [Refs -> Seq(Runners)]
         /\ \A n \in Refs : ref[n].hash \in Seq(Message)
         /\ \A r \in Runners : run[r].name \in Refs /\ run[r].hash \in Seq(Message)
         /\ Ref!WritersKnown
  BY DEF Ref!RefInv, Ref!TypeOK, Ref!LeasedRef, Ref!RefRow, Ref!Chain

\* What an operation on leases leaves alone.
Still ==
  /\ writer' = writer
  /\ \A n \in Refs : ref'[n].hash = ref[n].hash
  /\ \A q \in Runners :
       /\ run'[q].name = run[q].name
       /\ run'[q].hash = run[q].hash \/ (run[q].pc = "leased" /\ run'[q].hash = ref[run[q].name].hash)
       /\ run[q].pc \in {"open", "closed"} => run'[q].pc \in {"open", "closed"}
       /\ run[q].pc = "closed" => run'[q].pc = "closed"

LEMMA LeaseStill ==
  ASSUME Ref!RefInv, LeaseStep \/ UNCHANGED refVars
  PROVE  Still
<1>0. /\ ref \in [Refs -> Ref!RefRow] /\ run \in [Runners -> Ref!LeasedRef]
      /\ \A r \in Runners : run[r].name \in Refs
  BY RefTypes
<1>1. ASSUME NEW n \in Refs, Ref!CreateRef(n) PROVE Still
  BY <1>0, <1>1 DEF Still, Ref!CreateRef, Ref!RefRow
<1>2. ASSUME NEW r \in Runners, Ref!Acquire(r) PROVE Still
  BY <1>0, <1>2 DEF Still, Ref!Acquire, Ref!RefRow, Ref!LeasedRef
<1>3. ASSUME NEW r \in Runners, Ref!Open(r) PROVE Still
  BY <1>0, <1>3 DEF Still, Ref!Open, Ref!RefRow, Ref!LeasedRef
<1>4. ASSUME NEW r \in Runners, Ref!Close(r) PROVE Still
  BY <1>0, <1>4 DEF Still, Ref!Close, Ref!Released, Ref!RefRow, Ref!LeasedRef
<1>5. ASSUME NEW r \in Runners, Ref!Abandon(r) PROVE Still
  BY <1>0, <1>5 DEF Still, Ref!Abandon, Ref!RefRow, Ref!LeasedRef
<1>6. ASSUME NEW r \in Runners, Ref!Renew(r) PROVE Still
  BY <1>0, <1>6 DEF Still, Ref!Renew, Ref!RefRow, Ref!LeasedRef
<1>7. ASSUME Ref!Tick PROVE Still
  BY <1>0, <1>7 DEF Still, Ref!Tick, Ref!RefRow, Ref!LeasedRef
<1>8. ASSUME UNCHANGED refVars PROVE Still
  BY <1>8 DEF Still, refVars
<1> QED BY <1>1, <1>2, <1>3, <1>4, <1>5, <1>6, <1>7, <1>8 DEF LeaseStep

\* What an append does.
LEMMA AppendMoves ==
  ASSUME Ref!RefInv, NEW r \in Runners, NEW m \in Message, Ref!AppendMessage(r, m)
  PROVE  /\ run[r].pc = "open" /\ ref[run[r].name].hash = run[r].hash
         /\ Len(run[r].hash) = Len(writer[run[r].name])
         /\ writer' = [writer EXCEPT ![run[r].name] = Append(writer[run[r].name], r)]
         /\ ref'[run[r].name].hash = Append(run[r].hash, m)
         /\ \A p \in Refs : p # run[r].name => ref'[p].hash = ref[p].hash
         /\ run'[r].hash = Append(run[r].hash, m)
         /\ run'[r].pc = "open" /\ run'[r].name = run[r].name
         /\ \A q \in Runners : q # r => run'[q] = run[q]
         /\ Ref!Available(r, run[r].name)
<1>1. RefProofs!AppendMessage(r, m) /\ RefProofs!TypeOK /\ RefProofs!WritersKnown
  BY SameAppend, SameInv DEF RefProofs!RefInv
<1>2. run[r].pc = "open" /\ Ref!Available(r, run[r].name)
  BY DEF Ref!AppendMessage, Ref!MayAdvance
<1> QED BY <1>1, <1>2, RefAssumption, RefProofs!AppendFacts

-----------------------------------------------------------------------------
(* Steps that append nothing *)

LEMMA StillKeeps ==
  ASSUME LoopInv, Still, NEW q \in Runners
  PROVE  /\ Own(q)' = Own(q) /\ Completed(q)' = Completed(q)
         /\ run[q].pc \in {"open", "closed"} => Chain(q)' = Chain(q)
<1>1. /\ run[q].name \in Refs /\ Ref!WritersKnown
      /\ run'[q].name = run[q].name /\ writer' = writer
  BY RefTypes DEF LoopInv, Still
<1>2. Own(q)' = Own(q)
  BY <1>1 DEF Own
<1>3. run[q].pc \in {"open", "closed"} => Chain(q)' = Chain(q)
  BY DEF Chain, Still
<1>4. run[q].pc \notin {"open", "closed"} => Own(q) = {}
  BY <1>1 DEF Own, Ref!WritersKnown
<1> QED BY <1>2, <1>3, <1>4 DEF Completed

LEMMA StillCached ==
  ASSUME LoopInv, Still
  PROVE  Cached'
<1>1. \A q \in Runners : run[q].name \in Refs /\ Chain(q) \in Seq(Message)
  BY RefTypes DEF LoopInv, Chain
<1>2. ASSUME NEW q \in Runners, NEW k \in DOMAIN Chain(q)'
      PROVE  Chain(q)'[k] = ref'[run'[q].name].hash[k]
  BY <1>1, <1>2 DEF LoopInv, Cached, Chain, Still
<1>3. ASSUME NEW q \in Runners, NEW k \in Own(q)'
      PROVE  k <= Len(Chain(q)')
  <2>1. k \in Own(q) /\ Ref!WritersKnown /\ run[q].name \in Refs
    BY <1>1, <1>3, StillKeeps, RefTypes DEF LoopInv
  <2>2. run[q].pc \in {"open", "closed"}
    BY <2>1 DEF Own, Ref!WritersKnown
  <2> QED BY <2>1, <2>2, StillKeeps DEF LoopInv, Cached
<1> QED BY <1>2, <1>3 DEF Cached, Chain, Own

\* A run that does nothing stays in its place.
LEMMA LocalStill ==
  ASSUME LoopInv, Still, NEW q \in Runners, ex'[q] = ex[q], InLoop(q) => run'[q].pc = "open"
  PROVE  Local(q)'
<1>1. /\ Own(q)' = Own(q) /\ Completed(q)' = Completed(q)
      /\ ex[q].pc # "built" => Chain(q)' = Chain(q)
      /\ ex[q].pc # "built" => run'[q].pc \in {"open", "closed"}
      /\ ex[q].pc = "dead" => run'[q].pc = "closed"
      /\ Local(q)
  BY StillKeeps DEF LoopInv, Local, Ran, Still
<1>2. Ran(q)' /\ Counted(q)'
  BY <1>1 DEF Local, Ran, Counted, InLoop
<1>3. Concluded(q)' /\ InPlace(q)'
  BY <1>1 DEF Local, Ran, Concluded, InPlace, InLoop
<1> QED BY <1>2, <1>3 DEF Local

LEMMA PairedStill ==
  ASSUME LoopInv, Still,
         \A q \in Runners : CutOff(q) => CutOff(q)',
         \A q \in Runners : AtTools(q) => AtTools(q)' \/ CutOff(q)'
  PROVE  Paired'
<1> SUFFICES ASSUME NEW n \in Refs, NEW k \in DOMAIN ref'[n].hash
             PROVE  CallsMet(n, k)' /\ ResultsMeet(n, k)'
  BY DEF Paired
<1>1. /\ ref'[n].hash = ref[n].hash /\ writer' = writer
      /\ ref[n].hash \in Seq(Message) /\ writer[n] \in Seq(Runners)
      /\ Len(writer[n]) = Len(ref[n].hash)
  BY RefTypes DEF LoopInv, Still, Ref!WritersKnown
<1>2. k \in DOMAIN ref[n].hash /\ CallsMet(n, k) /\ ResultsMeet(n, k)
  BY <1>1 DEF LoopInv, Paired
<1>3. PICK q \in Runners : q = writer[n][k]
  BY <1>1, <1>2
<1>4. AtTools(q) => Chain(q)' = Chain(q)
  BY StillKeeps DEF LoopInv, Local, Ran, AtTools
<1>5. CallsMet(n, k)'
  BY <1>1, <1>2, <1>3, <1>4 DEF CallsMet
<1>6. ResultsMeet(n, k)'
  BY <1>1, <1>2 DEF ResultsMeet
<1> QED BY <1>5, <1>6

LEMMA LoopStill ==
  ASSUME LoopInv, TypeOK', Ref!RefInv', Still,
         \A q \in Runners : Local(q)',
         \A q \in Runners : CutOff(q) => CutOff(q)',
         \A q \in Runners : AtTools(q) => AtTools(q)' \/ CutOff(q)'
  PROVE  LoopInv'
  BY StillCached, PairedStill DEF LoopInv

-----------------------------------------------------------------------------
(* Appends *)

LEMMA CompletedFinite ==
  ASSUME LoopInv, NEW q \in Runners
  PROVE  /\ IsFiniteSet(Completed(q)) /\ Cardinality(Completed(q)) \in Nat
         /\ \A k \in Own(q) : k \in Nat /\ k <= Len(Chain(q))
         /\ Len(Chain(q)) \in Nat
<1>1. /\ writer[run[q].name] \in Seq(Runners) /\ Chain(q) \in Seq(Message)
  BY RefTypes DEF LoopInv, Chain
<1>2. \A k \in Own(q) : k \in 1..Len(Chain(q))
  BY <1>1 DEF LoopInv, Cached, Own
<1>3. Completed(q) \subseteq 1..Len(Chain(q))
  BY <1>2 DEF Completed
<1>4. IsFiniteSet(1..Len(Chain(q)))
  BY <1>1, FS_Interval
<1>5. IsFiniteSet(Completed(q))
  BY <1>3, <1>4, FS_Subset
<1> QED BY <1>1, <1>2, <1>5, FS_CardinalityType

\* The message becomes the run's own; other runs keep what is theirs.
LEMMA AppendOwn ==
  ASSUME LoopInv, NEW r \in Runners, NEW m \in Message, Ref!AppendMessage(r, m)
  PROVE  /\ Own(r)' = Own(r) \cup {Len(Chain(r)) + 1}
         /\ Chain(r)' = Append(Chain(r), m)
         /\ Len(Chain(r)') = Len(Chain(r)) + 1 /\ Chain(r)'[Len(Chain(r)) + 1] = m
         /\ run'[r].pc = "open"
         /\ \A q \in Runners : q # r =>
              /\ Own(q)' = Own(q) /\ Completed(q)' = Completed(q) /\ Chain(q)' = Chain(q)
              /\ run'[q] = run[q]
<1> DEFINE n == run[r].name
           w == writer[n]
           L == Len(Chain(r))
<1>0. /\ Chain(r) \in Seq(Message) /\ w \in Seq(Runners) /\ n \in Refs /\ writer \in [Refs -> Seq(Runners)]
      /\ \A q \in Runners : run[q].name \in Refs
  BY RefTypes DEF LoopInv, Chain
<1>1. /\ L = Len(w) /\ writer' = [writer EXCEPT ![n] = Append(w, r)]
      /\ Chain(r)' = Append(Chain(r), m) /\ run'[r].pc = "open" /\ run'[r].name = n
      /\ \A q \in Runners : q # r => run'[q] = run[q]
  BY AppendMoves DEF LoopInv, Chain
<1>2. /\ Append(w, r) \in Seq(Runners) /\ Len(Append(w, r)) = L + 1 /\ L \in Nat
      /\ \A k \in 1..L : Append(w, r)[k] = w[k]
      /\ Append(w, r)[L + 1] = r
      /\ DOMAIN w = 1..L /\ DOMAIN Append(w, r) = 1..L + 1
  BY <1>0, <1>1
<1>3. writer'[n] = Append(w, r) /\ \A p \in Refs : p # n => writer'[p] = writer[p]
  BY <1>0, <1>1
<1>4. Own(r)' = Own(r) \cup {L + 1}
  <2>1. Own(r)' = {k \in 1..L + 1 : Append(w, r)[k] = r}
    BY <1>1, <1>2, <1>3 DEF Own
  <2>2. Own(r) = {k \in 1..L : w[k] = r}
    BY <1>2 DEF Own
  <2> HIDE DEF n, w, L
  <2> QED BY <2>1, <2>2, <1>2
<1>5. ASSUME NEW q \in Runners, q # r
      PROVE  /\ Own(q)' = Own(q) /\ Completed(q)' = Completed(q) /\ Chain(q)' = Chain(q)
             /\ run'[q] = run[q]
  <2>1. run'[q] = run[q] /\ Chain(q)' = Chain(q)
    BY <1>1, <1>5 DEF Chain
  <2>2. CASE run[q].name = n
    <3>1. Own(q)' = {k \in 1..L + 1 : Append(w, r)[k] = q}
      BY <2>1, <2>2, <1>2, <1>3 DEF Own
    <3>2. Own(q) = {k \in 1..L : w[k] = q}
      BY <1>2, <2>2 DEF Own
    <3>3. Own(q)' = Own(q)
      <4> HIDE DEF n, w, L
      <4> QED BY <3>1, <3>2, <1>2, <1>5
    <3> QED BY <2>1, <3>3 DEF Completed
  <2>3. CASE run[q].name # n
    <3>1. Own(q)' = Own(q)
      BY <1>0, <1>3, <2>1, <2>3 DEF Own
    <3> QED BY <2>1, <3>1 DEF Completed
  <2> QED BY <2>2, <2>3
<1>6. Len(Append(Chain(r), m)) = L + 1 /\ Append(Chain(r), m)[L + 1] = m
  BY <1>0
<1> QED BY <1>1, <1>4, <1>5, <1>6

LEMMA AppendCount ==
  ASSUME LoopInv, NEW r \in Runners, NEW m \in Message, Ref!AppendMessage(r, m)
  PROVE  Cardinality(Completed(r)') = Cardinality(Completed(r)) + (IF m.role = "assistant" THEN 1 ELSE 0)
<1> DEFINE L == Len(Chain(r))
<1>0. Chain(r) \in Seq(Message)
  BY RefTypes DEF LoopInv, Chain
<1>1. /\ Own(r)' = Own(r) \cup {L + 1} /\ Chain(r)' = Append(Chain(r), m)
  BY AppendOwn
<1>2. \A k \in Own(r) : k \in 1..L
  <2>1. writer[run[r].name] \in Seq(Runners)
    BY RefTypes DEF LoopInv
  <2> QED BY <2>1 DEF LoopInv, Cached, Own
<1>3. /\ \A k \in 1..L : Append(Chain(r), m)[k] = Chain(r)[k]
      /\ Append(Chain(r), m)[L + 1] = m
      /\ L \in Nat
  BY <1>0
<1>4. Completed(r)' = {k \in Own(r) \cup {L + 1} : Append(Chain(r), m)[k].role = "assistant"}
  BY <1>1 DEF Completed
<1>5. Completed(r)' = Completed(r) \cup (IF m.role = "assistant" THEN {L + 1} ELSE {})
  <2> HIDE DEF L
  <2> QED BY <1>2, <1>3, <1>4 DEF Completed
<1>6. L + 1 \notin Completed(r)
  BY <1>2, <1>3 DEF Completed
<1>7. IsFiniteSet(Completed(r)) /\ Cardinality(Completed(r)) \in Nat
  BY CompletedFinite
<1> HIDE DEF L
<1>8. CASE m.role = "assistant"
  BY <1>5, <1>6, <1>7, <1>8, FS_AddElement
<1>9. CASE m.role # "assistant"
  BY <1>5, <1>7, <1>9
<1> QED BY <1>8, <1>9

LEMMA AppendCached ==
  ASSUME LoopInv, NEW r \in Runners, NEW m \in Message, Ref!AppendMessage(r, m)
  PROVE  Cached'
<1> DEFINE L == Len(Chain(r))
<1>0. /\ \A q \in Runners : Chain(q) \in Seq(Message) /\ run[q].name \in Refs
      /\ \A p \in Refs : ref[p].hash \in Seq(Message)
  BY RefTypes DEF LoopInv, Chain
<1>1. /\ Own(r)' = Own(r) \cup {L + 1} /\ Chain(r)' = Append(Chain(r), m)
      /\ Len(Chain(r)') = L + 1
      /\ \A q \in Runners : q # r => Own(q)' = Own(q) /\ Chain(q)' = Chain(q) /\ run'[q] = run[q]
  BY AppendOwn
<1>2. /\ ref[run[r].name].hash = Chain(r)
      /\ ref'[run[r].name].hash = Append(Chain(r), m) /\ run'[r].name = run[r].name
      /\ \A p \in Refs : p # run[r].name => ref'[p].hash = ref[p].hash
  BY AppendMoves DEF LoopInv, Chain
<1>3. /\ \A k \in 1..L : Append(Chain(r), m)[k] = Chain(r)[k]
      /\ L \in Nat
  BY <1>0
<1>4. ASSUME NEW q \in Runners, NEW k \in DOMAIN Chain(q)'
      PROVE  Chain(q)'[k] = ref'[run'[q].name].hash[k]
  <2>1. CASE q = r
    BY <1>1, <1>2, <2>1
  <2>2. CASE q # r
    <3>1. /\ Chain(q)' = Chain(q) /\ run'[q].name = run[q].name /\ k \in DOMAIN Chain(q)
          /\ Chain(q)[k] = ref[run[q].name].hash[k]
      BY <1>1, <2>2, <1>4 DEF LoopInv, Cached
    <3>2. CASE run[q].name = run[r].name
      <4>1. Len(Chain(q)) <= Len(ref[run[q].name].hash)
        BY RefTypes DEF LoopInv, Ref!WritersKnown, Chain
      <4>2. k \in 1..L
        <5>1. Chain(q) \in Seq(Message) /\ k \in 1..Len(Chain(q))
          BY <1>0, <3>1
        <5> QED BY <5>1, <4>1, <1>2, <1>3, <3>2
      <4> QED BY <3>1, <3>2, <1>2, <1>3, <4>2
    <3>3. CASE run[q].name # run[r].name
      BY <3>1, <3>3, <1>0, <1>2
    <3> QED BY <3>2, <3>3
  <2> QED BY <2>1, <2>2
<1>5. ASSUME NEW q \in Runners, NEW k \in Own(q)'
      PROVE  k <= Len(Chain(q)')
  <2>1. \A j \in Own(q) : j \in Nat /\ j <= Len(Chain(q))
    BY CompletedFinite
  <2>2. CASE q = r
    BY <1>1, <1>3, <1>5, <2>1, <2>2
  <2>3. CASE q # r
    BY <1>1, <1>5, <2>1, <2>3
  <2> QED BY <2>2, <2>3
<1> QED BY <1>4, <1>5 DEF Cached, Chain, Own

LEMMA LocalOther ==
  ASSUME LoopInv, NEW r \in Runners, NEW m \in Message, Ref!AppendMessage(r, m),
         NEW q \in Runners, q # r, ex'[q] = ex[q]
  PROVE  Local(q)'
<1>1. /\ Own(q)' = Own(q) /\ Completed(q)' = Completed(q) /\ Chain(q)' = Chain(q)
      /\ run'[q] = run[q] /\ Local(q)
  BY AppendOwn DEF LoopInv
<1>2. Ran(q)' /\ Counted(q)'
  BY <1>1 DEF Local, Ran, Counted, InLoop
<1>3. Concluded(q)' /\ InPlace(q)'
  BY <1>1 DEF Local, Concluded, InPlace, InLoop
<1> QED BY <1>2, <1>3 DEF Local

\* An append keeps calls and results together if it reports the results of the
\* run's last calls, or makes calls whose tools run next.
LEMMA PairedAppend ==
  ASSUME LoopInv, NEW r \in Runners, NEW m \in Message, Ref!AppendMessage(r, m),
         \A q \in Runners : q # r => ex'[q] = ex[q],
         ~CutOff(r),
         AtTools(r) => m = Results(Calls(r)),
         m.role = "tool" => AtTools(r),
         m.role = "assistant" /\ m.n > 0 => CutOff(r)' \/ AtTools(r)'
  PROVE  Paired'
<1> DEFINE R == run[r].name
           L == Len(Chain(r))
<1> SUFFICES ASSUME NEW n \in Refs, NEW k \in DOMAIN ref'[n].hash
             PROVE  CallsMet(n, k)' /\ ResultsMeet(n, k)'
  BY DEF Paired
<1>0. /\ \A q \in Runners : Chain(q) \in Seq(Message) /\ run[q].name \in Refs
      /\ ref[n].hash \in Seq(Message) /\ writer[n] \in Seq(Runners)
      /\ Len(writer[n]) = Len(ref[n].hash)
      /\ writer \in [Refs -> Seq(Runners)]
  BY RefTypes DEF LoopInv, Chain, Ref!WritersKnown
<1>1. /\ Chain(r)' = Append(Chain(r), m) /\ Len(Chain(r)') = L + 1
      /\ \A q \in Runners : q # r => Chain(q)' = Chain(q)
  BY AppendOwn
<1>2. /\ ref[R].hash = Chain(r) /\ L = Len(writer[R]) /\ R \in Refs
      /\ ref'[R].hash = Append(Chain(r), m)
      /\ writer' = [writer EXCEPT ![R] = Append(writer[R], r)]
      /\ \A p \in Refs : p # R => ref'[p].hash = ref[p].hash
  BY AppendMoves, <1>0 DEF LoopInv, Chain
<1>3. ASSUME k \in DOMAIN ref[n].hash
      PROVE  /\ ref'[n].hash[k] = ref[n].hash[k] /\ writer'[n][k] = writer[n][k]
             /\ \A j \in DOMAIN ref[n].hash : j \in DOMAIN ref'[n].hash /\ ref'[n].hash[j] = ref[n].hash[j]
  <2>1. CASE n = R
    <3>1. /\ \A j \in 1..L : Append(Chain(r), m)[j] = Chain(r)[j] /\ j \in DOMAIN Append(Chain(r), m)
          /\ DOMAIN Chain(r) = 1..L
      BY <1>0
    <3>2. writer'[R] = Append(writer[R], r)
      BY <1>0, <1>2
    <3>3. writer'[R][k] = writer[R][k]
      <4>1. k \in 1..Len(writer[R]) /\ writer[R] \in Seq(Runners)
        BY <1>0, <1>2, <1>3, <2>1, <3>1
      <4> QED BY <3>2, <4>1
    <3> QED BY <1>2, <1>3, <2>1, <3>1, <3>3
  <2>2. CASE n # R
    BY <1>0, <1>2, <2>2
  <2> QED BY <2>1, <2>2
<1>4. ASSUME k \notin DOMAIN ref[n].hash
      PROVE  n = R /\ k = L + 1 /\ ref'[n].hash[k] = m /\ writer'[n][k] = r
  <2>1. n = R
    BY <1>2, <1>4
  <2>2. /\ DOMAIN Append(Chain(r), m) = 1..L + 1 /\ DOMAIN Chain(r) = 1..L /\ L \in Nat
        /\ Append(Chain(r), m)[L + 1] = m
    BY <1>0
  <2>3. k = L + 1
    <3>1. /\ DOMAIN ref[n].hash = DOMAIN Chain(r)
          /\ DOMAIN ref'[n].hash = DOMAIN Append(Chain(r), m)
      BY <1>2, <2>1
    <3>2. k \in 1..L + 1 /\ k \notin 1..L
      BY <1>4, <2>2, <3>1, Zenon
    <3>3. L \in Nat
      BY <2>2
    <3> HIDE DEF L
    <3> QED BY <3>2, <3>3
  <2>4. Append(writer[R], r)[L + 1] = r
    BY <1>0, <1>2, <2>1
  <2> QED BY <1>0, <1>2, <2>1, <2>2, <2>3, <2>4
<1>5. CallsMet(n, k)'
  <2>1. CASE k \in DOMAIN ref[n].hash
    <3>1. PICK q \in Runners : q = writer[n][k]
      BY <1>0, <2>1
    <3>2. CallsMet(n, k)
      BY <2>1 DEF LoopInv, Paired
    <3>3. q # r => (CutOff(q) => CutOff(q)') /\ (AtTools(q) => AtTools(q)') /\ Chain(q)' = Chain(q)
      BY <1>1 DEF CutOff, AtTools
    <3>4. ASSUME q = r, AtTools(r), k = L
          PROVE  k + 1 \in DOMAIN ref'[n].hash /\ ref'[n].hash[k + 1] = Results(ref[n].hash[k].n)
      <4>1. n = R
        <5>1. \A j \in DOMAIN writer[n] : run[writer[n][j]].name = n
          BY RefTypes DEF LoopInv, Ref!WritersKnown
        <5>2. k \in DOMAIN writer[n]
          BY <1>0, <2>1
        <5> QED BY <5>1, <5>2, <3>1, <3>4
      <4>2. ref[n].hash[k] = Chain(r)[L] /\ m = Results(Chain(r)[L].n)
        BY <1>2, <3>4, <4>1 DEF Calls
      <4>3. L + 1 \in DOMAIN Append(Chain(r), m) /\ Append(Chain(r), m)[L + 1] = m
        BY <1>0
      <4>4. ref'[n].hash = Append(Chain(r), m) /\ k = L
        BY <1>2, <3>4, <4>1
      <4> HIDE DEF R, L
      <4> QED BY <4>2, <4>3, <4>4
    <3>5. ASSUME ref[n].hash[k].role = "assistant", ref[n].hash[k].n > 0
          PROVE  \/ k + 1 \in DOMAIN ref'[n].hash /\ ref'[n].hash[k + 1] = Results(ref[n].hash[k].n)
                 \/ CutOff(q)'
                 \/ AtTools(q)' /\ k = Len(Chain(q)')
      <4>1. CASE k + 1 \in DOMAIN ref[n].hash /\ ref[n].hash[k + 1] = Results(ref[n].hash[k].n)
        BY <1>3, <2>1, <4>1
      <4>2. CASE CutOff(q)
        BY <3>3, <4>2
      <4>3. CASE AtTools(q) /\ k = Len(Chain(q))
        BY <3>3, <3>4, <4>3
      <4> QED BY <3>1, <3>2, <3>5, <4>1, <4>2, <4>3 DEF CallsMet
    <3> QED BY <1>3, <2>1, <3>1, <3>5 DEF CallsMet, AtTools, CutOff, Chain
  <2>2. CASE k \notin DOMAIN ref[n].hash
    BY <1>1, <1>4, <2>2 DEF CallsMet
  <2> QED BY <2>1, <2>2
<1>6. ResultsMeet(n, k)'
  <2>1. CASE k \in DOMAIN ref[n].hash
    <3>1. ResultsMeet(n, k) /\ k \in 1..Len(ref[n].hash) /\ Len(ref[n].hash) \in Nat
      BY <2>1, <1>0 DEF LoopInv, Paired
    <3>2. k > 1 => k - 1 \in DOMAIN ref[n].hash
      BY <3>1, <1>0
    <3> QED BY <1>3, <2>1, <3>1, <3>2 DEF ResultsMeet
  <2>2. CASE k \notin DOMAIN ref[n].hash
    <3>1. n = R /\ k = L + 1 /\ ref'[n].hash[k] = m
      BY <1>4, <2>2
    <3>2. ASSUME m.role = "tool"
          PROVE  k > 1 /\ ref'[n].hash[k - 1] = Assistant(m.n)
      <4>1. AtTools(r) /\ m = Results(Chain(r)[L].n) /\ Local(r)
        BY <3>2 DEF LoopInv, Calls
      <4>2. L \in Own(r) /\ Chain(r)[L].role = "assistant"
        BY <4>1 DEF Local, InPlace, InLoop, AtTools
      <4>3. L \in 1..Len(writer[R])
        BY <4>2, <1>0, <1>2, <3>1 DEF Own
      <4>4. Chain(r)[L] \in Message
        BY <4>3, <1>0, <1>2
      <4>5. Append(Chain(r), m)[L] = Chain(r)[L] /\ L \in Nat /\ L > 0
        BY <4>3, <1>0, <1>2
      <4>6. Chain(r)[L] = Assistant(m.n)
        BY <4>1, <4>2, <4>4 DEF Message, Assistant, Results
      <4> QED BY <3>1, <4>5, <4>6, <1>2
    <3> QED BY <3>1, <3>2 DEF ResultsMeet
  <2> QED BY <2>1, <2>2
<1> QED BY <1>5, <1>6

LEMMA LoopAppend ==
  ASSUME LoopInv, TypeOK', Ref!RefInv',
         NEW r \in Runners, NEW m \in Message, Ref!AppendMessage(r, m),
         \A q \in Runners : q # r => ex'[q] = ex[q],
         Local(r)',
         ~CutOff(r),
         AtTools(r) => m = Results(Calls(r)),
         m.role = "tool" => AtTools(r),
         m.role = "assistant" /\ m.n > 0 => CutOff(r)' \/ AtTools(r)'
  PROVE  LoopInv'
<1>1. \A q \in Runners : Local(q)'
  BY LocalOther
<1> QED BY <1>1, AppendCached, PairedAppend DEF LoopInv

-----------------------------------------------------------------------------
(* Steps of a run that leave the refs alone *)

\* An executor's state after Set.
LEMMA RowSet ==
  ASSUME LoopInv, NEW r \in Runners, NEW e \in ExRow, Set(r, e)
  PROVE  /\ ex'[r] = e /\ \A q \in Runners : q # r => ex'[q] = ex[q]
         /\ ex' \in [Runners -> ExRow] /\ ex[r] \in ExRow
  BY DEF LoopInv, TypeOK, Set

LEMMA TypeKept ==
  ASSUME Ref!RefInv', ex' \in [Runners -> ExRow]
  PROVE  TypeOK'
  BY DEF TypeOK, Ref!RefInv

\* A step of r that leaves the refs alone, and r in its place.
LEMMA RowStep ==
  ASSUME LoopInv, NEW r \in Runners, NEW e \in ExRow, Set(r, e), UNCHANGED refVars,
         Local(r)',
         CutOff(r) => CutOff(r)',
         AtTools(r) => AtTools(r)' \/ CutOff(r)'
  PROVE  LoopInv'
<1>1. Ref!RefInv' /\ Still
  BY RefKept, LeaseStill DEF LoopInv
<1>2. \A q \in Runners : q # r => ex'[q] = ex[q]
  BY RowSet
<1>3. TypeOK'
  BY <1>1, RowSet, TypeKept
<1>4. ASSUME NEW q \in Runners, q # r PROVE Local(q)'
  <2>1. InLoop(q) => run'[q].pc = "open"
    BY DEF LoopInv, Local, Ran, refVars
  <2> QED BY <1>1, <1>2, <1>4, <2>1, LocalStill
<1>5. \A q \in Runners : q # r => (CutOff(q) => CutOff(q)') /\ (AtTools(q) => AtTools(q)')
  BY <1>2 DEF CutOff, AtTools
<1> QED BY <1>1, <1>3, <1>4, <1>5, LoopStill

\* What r's place is made of when only its own state changes.
LEMMA RowPlace ==
  ASSUME LoopInv, NEW r \in Runners, UNCHANGED refVars
  PROVE  /\ run' = run /\ Own(r)' = Own(r) /\ Completed(r)' = Completed(r) /\ Chain(r)' = Chain(r)
         /\ Cardinality(Completed(r)) \in Nat /\ MaxTurns[r] \in Nat \ {0}
         /\ Local(r) /\ ex[r] \in ExRow
<1>1. run' = run /\ Own(r)' = Own(r) /\ Completed(r)' = Completed(r) /\ Chain(r)' = Chain(r)
  BY DEF refVars, Own, Completed, Chain
<1> QED BY <1>1, CompletedFinite, ExecutorAssumption DEF LoopInv, TypeOK

LEMMA EndedRow ==
  ASSUME NEW e \in ExRow, NEW s \in {"completed", "interrupted", "errored"}, NEW n \in Nat
  PROVE  /\ Ended(e, s, n) \in ExRow
         /\ Ended(e, s, n).pc = "close" /\ Ended(e, s, n).status = s /\ Ended(e, s, n).turns = n
  BY DEF Ended, ExRow, Pc

\* A run that ends without a last message.
LEMMA EndStep ==
  ASSUME LoopInv, NEW r \in Runners, NEW s \in {"interrupted", "errored"},
         NEW n \in Nat, n = Cardinality(Completed(r)), n <= MaxTurns[r],
         Set(r, Ended(ex[r], s, n)), ex[r].pc # "built", UNCHANGED refVars
  PROVE  LoopInv'
<1>1. /\ run' = run /\ Own(r)' = Own(r) /\ Completed(r)' = Completed(r) /\ Chain(r)' = Chain(r)
      /\ Local(r) /\ ex[r] \in ExRow
  BY RowPlace
<1> DEFINE e == Ended(ex[r], s, n)
<1>2a. /\ e \in ExRow /\ e.pc = "close" /\ e.status = s /\ e.turns = n
  <2>1. ex[r] \in ExRow /\ s \in {"completed", "interrupted", "errored"} /\ n \in Nat
    BY <1>1
  <2> QED BY <2>1, EndedRow
<1> HIDE DEF e
<1>2. e \in ExRow /\ ex'[r] = e /\ Set(r, e)
  <2>1. Set(r, e)
    BY DEF e
  <2> QED BY <1>2a, <2>1, RowSet
<1>3. ex'[r].pc = "close" /\ ex'[r].status = s /\ ex'[r].turns = n
  BY <1>2a, <1>2
<1>4. Ran(r)' /\ Counted(r)'
  BY <1>1, <1>3 DEF Local, Ran, Counted, InLoop
<1>5. Concluded(r)' /\ InPlace(r)'
  BY <1>3 DEF Concluded, InPlace, InLoop
<1>6. CutOff(r)'
  BY <1>3 DEF CutOff
<1> QED BY <1>2, <1>4, <1>5, <1>6, RowStep DEF Local

LEMMA CallsType ==
  ASSUME LoopInv, NEW r \in Runners, AtTools(r)
  PROVE  Calls(r) \in Nat /\ Chain(r)[Len(Chain(r))] = Assistant(Calls(r)) /\ Calls(r) > 0
<1>1. writer[run[r].name] \in Seq(Runners) /\ Chain(r) \in Seq(Message)
  BY RefTypes DEF LoopInv, Chain
<1>2. /\ Len(Chain(r)) \in Own(r) /\ Chain(r)[Len(Chain(r))].role = "assistant"
      /\ Chain(r)[Len(Chain(r))].n > 0
  BY DEF LoopInv, Local, InPlace, InLoop, AtTools
<1>3. Len(Chain(r)) \in 1..Len(Chain(r))
  BY <1>1, <1>2 DEF Own
<1>4. Chain(r)[Len(Chain(r))] \in Message
  BY <1>1, <1>3
<1> QED BY <1>2, <1>4 DEF Message, Calls, Assistant

\* A run that goes on at another point, or is told to stop.
LEMMA PlaceStep ==
  ASSUME LoopInv, NEW r \in Runners, NEW e \in ExRow, Set(r, e), UNCHANGED refVars,
         e.status = ex[r].status, e.turn = ex[r].turn, e.turns = ex[r].turns,
         \/ e.pc = ex[r].pc /\ e.call = ex[r].call
         \/ ex[r].pc = "built" /\ e.pc = "prompt" /\ run[r].pc \in {"open", "closed"}
         \/ ex[r].pc = "prompt" /\ e.pc = "user"
         \/ ex[r].pc = "top" /\ e.pc = "asking" /\ ex[r].turn <= MaxTurns[r]
         \/ ex[r].pc = "tool" /\ e.pc = "tool" /\ ex[r].call < Calls(r) /\ e.call = ex[r].call + 1
         \/ ex[r].pc = "tool" /\ e.pc = "results"
         \/ ex[r].pc = "close" /\ e.pc = "signal"
         \/ ex[r].pc = "signal" /\ e.pc = "done"
  PROVE  LoopInv'
<1>1. /\ run' = run /\ Own(r)' = Own(r) /\ Completed(r)' = Completed(r) /\ Chain(r)' = Chain(r)
      /\ Local(r) /\ ex[r] \in ExRow /\ ex'[r] = e
      /\ Cardinality(Completed(r)) \in Nat /\ MaxTurns[r] \in Nat \ {0}
  BY RowPlace, RowSet
<1>2. ex[r].turn \in Nat /\ ex[r].call \in Nat
  BY <1>1 DEF ExRow
<1>3. Ran(r)'
  BY <1>1 DEF Local, Ran, InLoop
<1>4. Counted(r)'
  BY <1>1, <1>2 DEF Local, Ran, Counted
<1>5. Concluded(r)'
  BY <1>1 DEF Local, Concluded
<1>6. InPlace(r)'
  <2>1. AtTools(r) => Calls(r) \in Nat
    BY CallsType
  <2> QED BY <1>1, <1>2, <2>1 DEF Local, InPlace, InLoop, AtTools, Calls
<1>7. (CutOff(r) => CutOff(r)') /\ (AtTools(r) => AtTools(r)')
  BY <1>1 DEF CutOff, AtTools, Local, Ran
<1> QED BY <1>3, <1>4, <1>5, <1>6, <1>7, RowStep DEF Local

LEMMA StartKeeps == ASSUME LoopInv, NEW r \in Runners, Start(r) PROVE LoopInv'
<1>1. ex[r] \in ExRow
  BY RowPlace DEF LoopInv, TypeOK
<1>2. [ex[r] EXCEPT !.pc = "prompt"] \in ExRow
  BY <1>1 DEF ExRow, Pc
<1> QED BY <1>1, <1>2, PlaceStep DEF Start, ExRow

LEMMA AskKeeps == ASSUME LoopInv, NEW r \in Runners, Ask(r) PROVE LoopInv'
<1>1. /\ ex[r] \in ExRow /\ Local(r) /\ MaxTurns[r] \in Nat \ {0}
      /\ Cardinality(Completed(r)) \in Nat
      /\ ex[r].pc = "top" /\ UNCHANGED refVars
  BY RowPlace DEF Ask
<1>2. /\ ex[r].turn \in Nat /\ Cardinality(Completed(r)) = ex[r].turn - 1
      /\ Cardinality(Completed(r)) <= MaxTurns[r]
  BY <1>1 DEF Local, Counted, ExRow
<1>3. CASE ex[r].turn > MaxTurns[r]
  <2>1. Set(r, Ended(ex[r], "errored", MaxTurns[r])) /\ MaxTurns[r] = Cardinality(Completed(r))
    BY <1>1, <1>2, <1>3 DEF Ask
  <2> QED BY <2>1, <1>1, EndStep
<1>4. CASE ex[r].turn <= MaxTurns[r] /\ ex[r].stop
  <2>1. Set(r, Ended(ex[r], "interrupted", ex[r].turn - 1)) /\ ex[r].turn - 1 \in Nat
    BY <1>1, <1>2, <1>4 DEF Ask
  <2>2. ex[r].turn - 1 <= MaxTurns[r]
    BY <1>1, <1>2
  <2> QED BY <2>1, <2>2, <1>1, <1>2, EndStep
<1>5. CASE ex[r].turn <= MaxTurns[r] /\ ~ex[r].stop
  <2>1. Set(r, [ex[r] EXCEPT !.pc = "asking"])
    BY <1>1, <1>2, <1>5 DEF Ask
  <2>2. [ex[r] EXCEPT !.pc = "asking"] \in ExRow
    BY <1>1 DEF ExRow, Pc
  <2> QED BY <2>1, <2>2, <1>1, <1>5, PlaceStep DEF ExRow
<1> QED BY <1>1, <1>2, <1>3, <1>4, <1>5

LEMMA AnswerErrorKeeps == ASSUME LoopInv, NEW r \in Runners, AnswerError(r) \/ AnswerLost(r) PROVE LoopInv'
<1>1. /\ ex[r] \in ExRow /\ Local(r) /\ MaxTurns[r] \in Nat \ {0}
      /\ Cardinality(Completed(r)) \in Nat
      /\ ex[r].pc = "asking" /\ UNCHANGED refVars
  BY RowPlace DEF AnswerError, AnswerLost
<1>2. /\ ex[r].turn - 1 \in Nat /\ Cardinality(Completed(r)) = ex[r].turn - 1
      /\ ex[r].turn - 1 <= MaxTurns[r]
  BY <1>1 DEF Local, Counted, ExRow
<1>3. PICK s \in {"interrupted", "errored"} : Set(r, Ended(ex[r], s, ex[r].turn - 1))
  BY DEF AnswerError, AnswerLost
<1> QED BY <1>1, <1>2, <1>3, EndStep

LEMMA ToolKeeps == ASSUME LoopInv, NEW r \in Runners, Tool(r) PROVE LoopInv'
<1>1. /\ ex[r] \in ExRow /\ Local(r) /\ ex[r].pc = "tool" /\ UNCHANGED refVars
  BY RowPlace DEF Tool
<1>2. ex[r].call \in 1..Calls(r) /\ ex[r].call \in Nat /\ Calls(r) \in Nat
  BY <1>1, CallsType DEF Local, InPlace, ExRow, Calls, AtTools
<1>3. CASE ex[r].stop \/ ex[r].call = Calls(r)
  <2> DEFINE e == [ex[r] EXCEPT !.pc = "results", !.call = 0]
  <2>1. Set(r, e)
    BY <1>3 DEF Tool
  <2>2. e \in ExRow /\ e.pc = "results" /\ e.status = ex[r].status /\ e.turn = ex[r].turn /\ e.turns = ex[r].turns
    BY <1>1 DEF ExRow, Pc
  <2> HIDE DEF e
  <2> QED BY <2>1, <2>2, <1>1, PlaceStep
<1>4. CASE ~(ex[r].stop \/ ex[r].call = Calls(r))
  <2> DEFINE e == [ex[r] EXCEPT !.call = ex[r].call + 1]
  <2>1. Set(r, e)
    BY <1>4 DEF Tool
  <2>2. /\ e \in ExRow /\ e.pc = "tool" /\ e.status = ex[r].status /\ e.turn = ex[r].turn /\ e.turns = ex[r].turns
        /\ e.call = ex[r].call + 1
    BY <1>1, <1>2 DEF ExRow, Pc
  <2>3. ex[r].call < Calls(r)
    <3> HIDE DEF e
    <3> QED BY <1>2, <1>4
  <2> HIDE DEF e
  <2> QED BY <2>1, <2>2, <2>3, <1>1, PlaceStep
<1> QED BY <1>3, <1>4

LEMMA AppendFailsKeeps == ASSUME LoopInv, NEW r \in Runners, AppendFails(r) PROVE LoopInv'
<1>1. /\ ex[r] \in ExRow /\ Local(r) /\ MaxTurns[r] \in Nat \ {0}
      /\ Cardinality(Completed(r)) \in Nat
      /\ ex[r].pc \in {"prompt", "user", "results"} /\ UNCHANGED refVars
      /\ Set(r, Ended(ex[r], "errored", ex[r].turn))
  BY RowPlace DEF AppendFails
<1>2. /\ ex[r].turn \in Nat /\ Cardinality(Completed(r)) = ex[r].turn
      /\ ex[r].turn <= MaxTurns[r]
  BY <1>1 DEF Local, Counted, ExRow
<1> QED BY <1>1, <1>2, EndStep

LEMMA SignalKeeps == ASSUME LoopInv, NEW r \in Runners, Signal(r) PROVE LoopInv'
<1>1. ex[r] \in ExRow
  BY DEF LoopInv, TypeOK
<1>2. [ex[r] EXCEPT !.pc = "done"] \in ExRow
  BY <1>1 DEF ExRow, Pc
<1> QED BY <1>1, <1>2, PlaceStep DEF Signal, ExRow

\* An interrupt, the end of the grace period, and the end of the context.
LEMMA FlagKeeps ==
  ASSUME LoopInv, NEW r \in Runners, UNCHANGED refVars,
         \/ Set(r, [ex[r] EXCEPT !.stop = TRUE])
         \/ \E how \in {"canceled", "expired"} : Set(r, [ex[r] EXCEPT !.ctx = how])
  PROVE  LoopInv'
<1>1. ex[r] \in ExRow
  BY DEF LoopInv, TypeOK
<1>2. CASE Set(r, [ex[r] EXCEPT !.stop = TRUE])
  <2>1. [ex[r] EXCEPT !.stop = TRUE] \in ExRow
    BY <1>1 DEF ExRow
  <2> QED BY <1>1, <1>2, <2>1, PlaceStep DEF ExRow
<1>3. ASSUME NEW how \in {"canceled", "expired"}, Set(r, [ex[r] EXCEPT !.ctx = how]) PROVE LoopInv'
  <2>1. [ex[r] EXCEPT !.ctx = how] \in ExRow
    BY <1>1 DEF ExRow
  <2> QED BY <1>1, <1>3, <2>1, PlaceStep DEF ExRow
<1> QED BY <1>2, <1>3

-----------------------------------------------------------------------------
(* Steps of the refs *)

\* A lease is taken, renewed, released or lost, and no executor takes a step.
LEMMA LeaseKeeps ==
  ASSUME LoopInv, LeaseStep, ex' = ex,
         \A q \in Runners : InLoop(q) => run'[q].pc = "open"
  PROVE  LoopInv'
<1>1. Ref!RefInv' /\ Still
  BY RefKept, LeaseStill DEF LoopInv
<1>2. TypeOK'
  BY <1>1, TypeKept DEF LoopInv, TypeOK
<1>3. \A q \in Runners : Local(q)'
  BY <1>1, LocalStill
<1> QED BY <1>1, <1>2, <1>3, LoopStill DEF CutOff, AtTools

\* Only Close and Abandon end an open lease.
LEMMA OpenStays ==
  ASSUME LoopInv, NEW q \in Runners, run[q].pc = "open",
         \/ \E n \in Refs : Ref!CreateRef(n)
         \/ \E r \in Runners : Ref!Acquire(r) \/ Ref!Open(r) \/ Ref!Renew(r)
         \/ \E r \in Runners : r # q /\ (Ref!Close(r) \/ Ref!Abandon(r))
         \/ Ref!Tick
  PROVE  run'[q].pc = "open"
<1>0. run \in [Runners -> Ref!LeasedRef]
  BY RefTypes DEF LoopInv
<1>1. ASSUME NEW n \in Refs, Ref!CreateRef(n) PROVE run'[q].pc = "open"
  BY <1>1 DEF Ref!CreateRef
<1>2a. ASSUME NEW r \in Runners, Ref!Acquire(r) PROVE run'[q].pc = "open"
  <2>1. run[r].pc = "new" /\ run' = [run EXCEPT ![r] = [run[r] EXCEPT !.pc = "leased"]]
    BY <1>2a, Zenon DEF Ref!Acquire
  <2> QED BY <1>0, <2>1
<1>2b. ASSUME NEW r \in Runners, Ref!Open(r) PROVE run'[q].pc = "open"
  <2>1. run[r].pc = "leased" /\ \E x : run' = [run EXCEPT ![r] = x]
    BY <1>2b, Zenon DEF Ref!Open
  <2> QED BY <1>0, <2>1
<1>3. ASSUME NEW r \in Runners, Ref!Renew(r) PROVE run'[q].pc = "open"
  BY <1>3 DEF Ref!Renew
<1>4. ASSUME NEW r \in Runners, r # q, Ref!Close(r) \/ Ref!Abandon(r) PROVE run'[q].pc = "open"
  BY <1>0, <1>4 DEF Ref!Close, Ref!Abandon
<1>5. ASSUME Ref!Tick PROVE run'[q].pc = "open"
  BY <1>5 DEF Ref!Tick
<1> QED BY <1>1, <1>2a, <1>2b, <1>3, <1>4, <1>5

\* The run of r gives up its lease while it closes, or dies.
LEMMA LeaveKeeps ==
  ASSUME LoopInv, NEW r \in Runners, Ref!Close(r) \/ Ref!Abandon(r),
         NEW e \in ExRow, Set(r, e), e.status = ex[r].status, e.turns = ex[r].turns,
         e.pc = "dead" \/ (e.pc = "signal" /\ ex[r].pc = "close")
  PROVE  LoopInv'
<1>1. /\ e.pc \in {"signal", "dead"} /\ (e.pc = "signal" => ex[r].pc = "close")
      /\ e.status = ex[r].status /\ e.turns = ex[r].turns
  OBVIOUS
<1>3. /\ ex'[r] = e /\ \A q \in Runners : q # r => ex'[q] = ex[q]
      /\ ex' \in [Runners -> ExRow]
  BY RowSet
<1>4. LeaseStep
  BY DEF LeaseStep
<1>5. Ref!RefInv' /\ Still
  BY <1>4, RefKept, LeaseStill DEF LoopInv
<1>6. run'[r].pc = "closed"
  BY RefTypes DEF LoopInv, Ref!Close, Ref!Abandon, Ref!LeasedRef
<1>7. ASSUME NEW q \in Runners, q # r PROVE Local(q)'
  <2>1. InLoop(q) => run'[q].pc = "open"
    BY <1>7, OpenStays DEF LoopInv, Local, Ran
  <2> QED BY <1>3, <1>5, <1>7, <2>1, LocalStill
<1>8. Local(r)'
  <2>1. /\ Own(r)' = Own(r) /\ Completed(r)' = Completed(r) /\ Local(r)
        /\ run[r].pc \in {"open", "closed"} => Chain(r)' = Chain(r)
    BY <1>5, StillKeeps DEF LoopInv
  <2>2. ex[r].status # "none" => run[r].pc \in {"open", "closed"}
    BY <2>1 DEF Local, Ran
  <2>3. Ran(r)' /\ Counted(r)'
    BY <1>1, <1>3, <1>6, <2>1 DEF Local, Ran, Counted, InLoop
  <2>4. Concluded(r)' /\ InPlace(r)'
    BY <1>1, <1>3, <2>1, <2>2 DEF Local, Concluded, InPlace, InLoop
  <2> QED BY <2>3, <2>4 DEF Local
<1>9. ASSUME NEW q \in Runners
      PROVE  (CutOff(q) => CutOff(q)') /\ (AtTools(q) => AtTools(q)' \/ CutOff(q)')
  <2>1. CASE q = r
    BY <1>1, <1>3, <2>1 DEF CutOff, AtTools
  <2>2. CASE q # r
    BY <1>3, <2>2 DEF CutOff, AtTools
  <2> QED BY <2>1, <2>2
<1>10. TypeOK'
  BY <1>3, <1>5, TypeKept
<1> QED BY <1>5, <1>7, <1>8, <1>9, <1>10, LoopStill

-----------------------------------------------------------------------------
(* Steps of a run that append *)

LEMMA Messages == /\ System \in Message /\ User \in Message
                  /\ \A n \in Nat : Assistant(n) \in Message /\ Results(n) \in Message
  BY DEF Message, System, User, Assistant, Results

\* A run that says something and goes on from there.
LEMMA SayStep ==
  ASSUME LoopInv, NEW r \in Runners, NEW m \in Message, Ref!AppendMessage(r, m),
         NEW e \in ExRow, Set(r, e),
         ex[r].status = "none", ex[r].pc # "dead",
         e.pc \notin {"built", "signal", "done", "dead"},
         e.pc = "close" <=> e.status # "none",
         LET made == Cardinality(Completed(r)) + (IF m.role = "assistant" THEN 1 ELSE 0) IN
           /\ e.pc \in {"built", "prompt", "user"} => e.turn = 0 /\ made = 0
           /\ e.pc \in {"top", "asking"} => made = e.turn - 1 /\ made <= MaxTurns[r]
           /\ e.pc \in {"asking", "tool", "results"} => e.turn \in 1..MaxTurns[r]
           /\ e.pc \in {"tool", "results"} => made = e.turn
           /\ e.status # "none" => made = e.turns /\ made <= MaxTurns[r],
         e.status = "completed" => m = Assistant(0),
         e.pc \in {"top", "asking"} => m.role \in {"user", "tool"},
         e.pc \in {"tool", "results"} => m.role = "assistant" /\ m.n > 0,
         e.pc = "tool" => e.call \in 1..m.n,
         AtTools(r) => m = Results(Calls(r)),
         m.role = "tool" => AtTools(r),
         m.role = "assistant" /\ m.n > 0 =>
           e.status \in {"interrupted", "errored"} \/ e.pc \in {"tool", "results"}
  PROVE  LoopInv'
<1>1. /\ ex'[r] = e /\ \A q \in Runners : q # r => ex'[q] = ex[q]
      /\ ex' \in [Runners -> ExRow]
  BY RowSet
<1>2. Ref!RefInv'
  BY RefKept DEF LoopInv, AppendStep
<1>3. TypeOK'
  BY <1>1, <1>2, TypeKept
<1>4. /\ Own(r)' = Own(r) \cup {Len(Chain(r)) + 1}
      /\ Len(Chain(r)') = Len(Chain(r)) + 1 /\ Chain(r)'[Len(Chain(r)) + 1] = m
      /\ run'[r].pc = "open"
  BY AppendOwn
<1>5. Cardinality(Completed(r)') = Cardinality(Completed(r)) + (IF m.role = "assistant" THEN 1 ELSE 0)
  BY AppendCount
<1>6. Ran(r)'
  BY <1>1, <1>4 DEF Ran, InLoop
<1>7. Counted(r)'
  BY <1>1, <1>5 DEF Counted
<1>8. Len(Chain(r)') \in Own(r)' /\ Chain(r)'[Len(Chain(r)')] = m
  BY <1>4
<1>9. Concluded(r)' /\ InPlace(r)'
  BY <1>1, <1>8 DEF Concluded, InPlace, InLoop
<1>10. Local(r)'
  BY <1>6, <1>7, <1>9 DEF Local
<1>11. ~CutOff(r)
  BY DEF CutOff
<1>12. m.role = "assistant" /\ m.n > 0 => CutOff(r)' \/ AtTools(r)'
  BY <1>1 DEF CutOff, AtTools
<1> QED BY <1>1, <1>2, <1>3, <1>10, <1>11, <1>12, LoopAppend

LEMMA PromptKeeps == ASSUME LoopInv, NEW r \in Runners, Prompt(r) PROVE LoopInv'
<1> DEFINE e == [ex[r] EXCEPT !.pc = "user"]
<1>1. ex[r] \in ExRow /\ Local(r) /\ ex[r].pc = "prompt" /\ Set(r, e)
  BY DEF Prompt, LoopInv, TypeOK
<1>2. /\ e \in ExRow /\ e.pc = "user" /\ e.status = ex[r].status /\ e.turn = ex[r].turn
      /\ e.turns = ex[r].turns
  BY <1>1 DEF ExRow, Pc
<1> HIDE DEF e
<1>3. CASE Ref!AppendMessage(r, System)
  <2>1. /\ System \in Message /\ System.role = "system" /\ ex[r].status = "none" /\ ~AtTools(r)
    BY <1>1, Messages DEF System, Local, Ran, AtTools
  <2>2. e.turn = 0 /\ Cardinality(Completed(r)) = 0
    BY <1>1, <1>2 DEF Local, Counted
  <2> QED BY <1>1, <1>2, <1>3, <2>1, <2>2, SayStep
<1>4. CASE UNCHANGED refVars
  BY <1>1, <1>2, <1>4, PlaceStep
<1> QED BY <1>3, <1>4 DEF Prompt

LEMMA SayKeeps == ASSUME LoopInv, NEW r \in Runners, Say(r) PROVE LoopInv'
<1> DEFINE e == [ex[r] EXCEPT !.pc = "top", !.turn = 1, !.beats = TRUE]
<1>1. /\ ex[r] \in ExRow /\ Local(r) /\ ex[r].pc = "user" /\ Set(r, e) /\ Ref!AppendMessage(r, User)
  BY DEF Say, LoopInv, TypeOK
<1>2. /\ e \in ExRow /\ e.pc = "top" /\ e.status = ex[r].status /\ e.turn = 1
  BY <1>1 DEF ExRow, Pc
<1> HIDE DEF e
<1>3. /\ User \in Message /\ User.role = "user" /\ ex[r].status = "none" /\ ~AtTools(r)
  BY <1>1, Messages DEF User, Local, Ran, AtTools
<1>4. Cardinality(Completed(r)) = 0 /\ MaxTurns[r] \in Nat
  BY <1>1, ExecutorAssumption DEF Local, Counted
<1> QED BY <1>1, <1>2, <1>3, <1>4, SayStep

LEMMA AnswerKeeps ==
  ASSUME LoopInv, NEW r \in Runners, NEW n \in Completions(r), Answer(r, n)
  PROVE  LoopInv'
<1> DEFINE m == Assistant(n)
<1>0. n \in Nat
  BY ExecutorAssumption DEF Completions
<1>1. /\ ex[r] \in ExRow /\ Local(r) /\ ex[r].pc = "asking" /\ Ref!AppendMessage(r, m)
      /\ m \in Message /\ m.role = "assistant" /\ m.n = n
  BY <1>0, Messages DEF Answer, LoopInv, TypeOK, Assistant
<1>2. /\ ex[r].status = "none" /\ ~AtTools(r)
      /\ ex[r].turn \in Nat /\ Cardinality(Completed(r)) + 1 = ex[r].turn
      /\ ex[r].turn \in 1..MaxTurns[r] /\ MaxTurns[r] \in Nat
      /\ Cardinality(Completed(r)) \in Nat
  BY <1>1, ExecutorAssumption, CompletedFinite DEF Local, Ran, Counted, AtTools, ExRow
<1>3. ASSUME NEW s \in {"completed", "interrupted"}, Set(r, Ended(ex[r], s, ex[r].turn)),
             s = "completed" => n = 0
      PROVE  LoopInv'
  <2> DEFINE e == Ended(ex[r], s, ex[r].turn)
  <2>1. /\ e \in ExRow /\ e.pc = "close" /\ e.status = s /\ e.turns = ex[r].turn
    <3>1. ex[r] \in ExRow /\ s \in {"completed", "interrupted", "errored"} /\ ex[r].turn \in Nat
      BY <1>1, <1>2
    <3> QED BY <3>1 DEF Ended, ExRow, Pc
  <2>2. Set(r, e)
    BY <1>3
  <2>3. s = "completed" => m = Assistant(0)
    BY <1>3
  <2>4. n > 0 => s = "interrupted"
    BY <1>3, <1>0
  <2> HIDE DEF e, m
  <2> QED BY <2>1, <2>2, <2>3, <2>4, <1>1, <1>2, SayStep
<1>4. ASSUME Set(r, [ex[r] EXCEPT !.pc = "tool", !.call = 1]), n # 0
      PROVE  LoopInv'
  <2> DEFINE e == [ex[r] EXCEPT !.pc = "tool", !.call = 1]
  <2>1. /\ e \in ExRow /\ e.pc = "tool" /\ e.status = ex[r].status /\ e.turn = ex[r].turn
        /\ e.call = 1
    BY <1>1 DEF ExRow, Pc
  <2>2. Set(r, e) /\ n > 0 /\ 1 \in 1..n
    BY <1>0, <1>4
  <2> HIDE DEF e, m
  <2> QED BY <2>1, <2>2, <1>1, <1>2, SayStep
<1>5. CASE ex[r].stop
  BY <1>3, <1>5 DEF Answer
<1>6. CASE ~ex[r].stop /\ n = 0
  BY <1>3, <1>6 DEF Answer
<1>7. CASE ~ex[r].stop /\ n # 0
  BY <1>4, <1>7 DEF Answer
<1> QED BY <1>5, <1>6, <1>7

LEMMA ReportKeeps == ASSUME LoopInv, NEW r \in Runners, Report(r) PROVE LoopInv'
<1> DEFINE m == Results(Calls(r))
<1>1. /\ ex[r] \in ExRow /\ Local(r) /\ ex[r].pc = "results" /\ Ref!AppendMessage(r, m) /\ AtTools(r)
  BY DEF Report, LoopInv, TypeOK, AtTools
<1>2. m \in Message /\ m.role = "tool"
  BY <1>1, CallsType, Messages DEF Results
<1>3. /\ ex[r].status = "none"
      /\ ex[r].turn \in Nat /\ Cardinality(Completed(r)) = ex[r].turn
      /\ ex[r].turn \in 1..MaxTurns[r] /\ MaxTurns[r] \in Nat
  BY <1>1, ExecutorAssumption DEF Local, Ran, Counted, ExRow
<1>4. CASE ex[r].stop
  <2> DEFINE e == Ended(ex[r], "interrupted", ex[r].turn)
  <2>1. /\ e \in ExRow /\ e.pc = "close" /\ e.status = "interrupted" /\ e.turns = ex[r].turn
    <3>1. ex[r] \in ExRow /\ ex[r].turn \in Nat
      BY <1>1, <1>3
    <3> QED BY <3>1 DEF Ended, ExRow, Pc
  <2>2. Set(r, e)
    BY <1>4 DEF Report
  <2> HIDE DEF e
  <2>3. m = Results(Calls(r))
    OBVIOUS
  <2> HIDE DEF m
  <2> QED BY <2>1, <2>2, <2>3, <1>1, <1>2, <1>3, SayStep
<1>5. CASE ~ex[r].stop
  <2> DEFINE e == [ex[r] EXCEPT !.pc = "top", !.turn = ex[r].turn + 1]
  <2>1. /\ e \in ExRow /\ e.pc = "top" /\ e.status = ex[r].status /\ e.turn = ex[r].turn + 1
    <3>1. ex[r] \in ExRow /\ ex[r].turn + 1 \in Nat
      BY <1>1, <1>3
    <3> QED BY <3>1 DEF ExRow, Pc
  <2>2. Set(r, e)
    BY <1>5 DEF Report
  <2> HIDE DEF e
  <2>3. m = Results(Calls(r))
    OBVIOUS
  <2> HIDE DEF m
  <2> QED BY <2>1, <2>2, <2>3, <1>1, <1>2, <1>3, SayStep
<1> QED BY <1>4, <1>5

-----------------------------------------------------------------------------
(* The invariant *)

\* A runner's lease is closed when its loop is not under way.
LEMMA CloseKeeps ==
  ASSUME LoopInv, NEW r \in Runners, ~InLoop(r), Ref!Close(r), ex' = ex
  PROVE  LoopInv'
<1>1. ASSUME NEW q \in Runners, InLoop(q) PROVE run'[q].pc = "open"
  BY <1>1, OpenStays DEF LoopInv, Local, Ran
<1> QED BY <1>1, LeaseKeeps DEF LeaseStep

\* The other operations on leases.
LEMMA OtherKeeps ==
  ASSUME LoopInv, ex' = ex,
         \/ \E n \in Refs : Ref!CreateRef(n)
         \/ \E r \in Runners : Ref!Acquire(r) \/ Ref!Open(r) \/ Ref!Renew(r)
         \/ Ref!Tick
  PROVE  LoopInv'
<1>1. ASSUME NEW q \in Runners, InLoop(q) PROVE run'[q].pc = "open"
  BY <1>1, OpenStays DEF LoopInv, Local, Ran
<1> QED BY <1>1, LeaseKeeps DEF LeaseStep

LEMMA LoopStep == LoopInv /\ [Next]_vars => LoopInv'
<1> SUFFICES ASSUME LoopInv, [Next]_vars PROVE LoopInv'
  OBVIOUS
<1>1. ASSUME NEW r \in Runners, Step(r) PROVE LoopInv'
  <2>1. CASE CloseRef(r)
    <3> DEFINE e == [ex[r] EXCEPT !.pc = "signal"]
    <3>1. /\ e \in ExRow /\ e.pc = "signal" /\ ex[r].pc = "close"
          /\ e.status = ex[r].status /\ e.turn = ex[r].turn /\ e.turns = ex[r].turns
      <4>1. ex[r] \in ExRow
        BY DEF LoopInv, TypeOK
      <4> QED BY <2>1, <4>1 DEF CloseRef, ExRow, Pc
    <3>2. Set(r, e)
      BY <2>1 DEF CloseRef
    <3> HIDE DEF e
    <3>3. CASE UNCHANGED refVars
      BY <3>1, <3>2, <3>3, PlaceStep
    <3>4. CASE Ref!Close(r)
      BY <3>1, <3>2, <3>4, LeaveKeeps
    <3> QED BY <2>1, <3>3, <3>4 DEF CloseRef
  <2> QED BY <1>1, <2>1, PromptKeeps, SayKeeps, AskKeeps, ReportKeeps, AppendFailsKeeps, SignalKeeps
      DEF Step
<1>2. ASSUME NEW r \in Runners, World(r) PROVE LoopInv'
  <2>1. CASE Stop(r)
    <3>1. CASE ex[r].pc = "built" /\ Ref!Close(r) /\ UNCHANGED ex
      BY <3>1, CloseKeeps DEF InLoop
    <3> QED BY <2>1, <3>1, FlagKeeps DEF Stop
  <2>2. CASE GraceOver(r)
    BY <2>2, FlagKeeps DEF GraceOver
  <2>3. CASE Release(r)
    BY <2>3, CloseKeeps DEF Release, InLoop
  <2>4. CASE Die(r)
    <3> DEFINE e == [ex[r] EXCEPT !.pc = "dead", !.beats = FALSE]
    <3>1. e \in ExRow /\ e.pc = "dead" /\ e.status = ex[r].status /\ e.turns = ex[r].turns
      <4>1. ex[r] \in ExRow
        BY DEF LoopInv, TypeOK
      <4> QED BY <4>1 DEF ExRow, Pc
    <3>2. Set(r, e) /\ Ref!Abandon(r)
      BY <2>4 DEF Die
    <3> HIDE DEF e
    <3> QED BY <3>1, <3>2, LeaveKeeps
  <2>8. CASE EndRenewals(r)
    <3> DEFINE e == [ex[r] EXCEPT !.beats = FALSE]
    <3>1. /\ e \in ExRow /\ e.pc = ex[r].pc /\ e.call = ex[r].call
          /\ e.status = ex[r].status /\ e.turn = ex[r].turn /\ e.turns = ex[r].turns
      <4>1. ex[r] \in ExRow
        BY DEF LoopInv, TypeOK
      <4> QED BY <4>1 DEF ExRow
    <3>2. Set(r, e) /\ UNCHANGED refVars
      BY <2>8 DEF EndRenewals
    <3> HIDE DEF e
    <3> QED BY <3>1, <3>2, PlaceStep
  <2>5. CASE RenewLease(r)
    BY <2>5, OtherKeeps DEF RenewLease
  <2>6. CASE EndContext(r, "canceled") \/ EndContext(r, "expired")
    BY <2>6, FlagKeeps DEF EndContext
  <2>7. CASE (Ref!Acquire(r) \/ Ref!Open(r)) /\ UNCHANGED ex
    BY <2>7, OtherKeeps
  <2> QED BY <1>2, <2>1, <2>2, <2>3, <2>4, <2>5, <2>6, <2>7, <2>8, StartKeeps DEF World
<1>3. ASSUME ((\E n \in Refs : Ref!CreateRef(n)) \/ Ref!Tick) /\ UNCHANGED ex PROVE LoopInv'
  BY <1>3, OtherKeeps
<1>4. CASE UNCHANGED vars
  <2>1. ex' = ex /\ UNCHANGED refVars
    BY <1>4 DEF vars, refVars
  <2>2. Ref!RefInv' /\ Still
    BY <2>1, RefKept, LeaseStill DEF LoopInv
  <2>3. TypeOK'
    BY <2>1, <2>2, TypeKept DEF LoopInv, TypeOK
  <2>4. \A q \in Runners : Local(q)'
    <3>1. ASSUME NEW q \in Runners PROVE InLoop(q) => run'[q].pc = "open"
      BY <2>1 DEF LoopInv, Local, Ran, refVars
    <3> QED BY <2>1, <2>2, <3>1, LocalStill
  <2> QED BY <2>1, <2>2, <2>3, <2>4, LoopStill DEF CutOff, AtTools
<1>5. ASSUME NEW r \in Runners, NEW n \in Completions(r), Answer(r, n) PROVE LoopInv'
  BY <1>5, AnswerKeeps
<1> QED BY <1>1, <1>2, <1>3, <1>4, <1>5, AnswerErrorKeeps, ToolKeeps DEF Next

LEMMA RefInit == Ref!Init => Ref!RefInv
<1>1. Ref!Init => RefProofs!Init
  BY DEF Ref!Init, RefProofs!Init, Ref!Unused, RefProofs!Unused, Ref!NoRef, RefProofs!NoRef
<1> QED BY <1>1, SameInv, RefAssumption, RefProofs!RefInvInit

LEMMA LoopInit == Init => LoopInv
<1> SUFFICES ASSUME Init PROVE LoopInv
  OBVIOUS
<1>1. Ref!RefInv
  BY RefInit DEF Init
<1>2. TypeOK
  <2>1. Built \in ExRow
    BY DEF Built, ExRow, Pc
  <2> QED BY <1>1, <2>1 DEF Init, TypeOK, Ref!RefInv
<1>3. /\ \A q \in Runners : Chain(q) = <<>> /\ run[q].name \in Refs /\ ex[q] = Built
      /\ \A p \in Refs : ref[p].hash = <<>> /\ writer[p] = <<>>
  <2>1. \A q \in Runners : run[q].name \in Refs
    BY <1>1, RefTypes
  <2> QED BY <2>1 DEF Init, Ref!Init, Ref!NoRef, Ref!Unused, Chain
<1>4. \A q \in Runners : Own(q) = {} /\ Completed(q) = {}
  BY <1>3 DEF Own, Completed
<1>5. Cached
  BY <1>3, <1>4 DEF Cached
<1>6. ASSUME NEW q \in Runners PROVE Local(q)
  <2>1. Cardinality(Completed(q)) = 0
    BY <1>4, FS_EmptySet
  <2>2. ex[q].pc = "built" /\ ex[q].status = "none" /\ ex[q].turn = 0
    BY <1>3 DEF Built
  <2> QED BY <2>1, <2>2 DEF Local, Ran, Counted, Concluded, InPlace, InLoop
<1>7. Paired
  BY <1>3 DEF Paired
<1> QED BY <1>1, <1>2, <1>5, <1>6, <1>7 DEF LoopInv

\* The runs of executors keep the invariant above.
THEOREM Invariance == Spec => []LoopInv
  BY LoopInit, LoopStep, PTL DEF Spec

\* An operation on leases that is not a renewal by q.
LeaseStepBut(q) ==
  \/ \E n \in Refs : Ref!CreateRef(n)
  \/ \E r \in Runners :
       Ref!Acquire(r) \/ Ref!Open(r) \/ Ref!Close(r) \/ Ref!Abandon(r) \/ (r # q /\ Ref!Renew(r))
  \/ Ref!Tick

\* What an executor's step does to the refs: only RenewLease renews.
LEMMA StepRenews ==
  ASSUME LoopInv, [Next]_vars, NEW q
  PROVE  LeaseStepBut(q) \/ AppendStep \/ UNCHANGED refVars \/ (q \in Runners /\ RenewLease(q))
<1> DEFINE Goal == LeaseStepBut(q) \/ AppendStep \/ UNCHANGED refVars \/ (q \in Runners /\ RenewLease(q))
<1>1. ASSUME NEW r \in Runners, Step(r) PROVE Goal
  <2>1. ASSUME Report(r) PROVE AppendStep
    <3>1. Calls(r) \in Nat
      BY <2>1, CallsType DEF Report, AtTools
    <3> QED BY <2>1, <3>1, Messages DEF Report, AppendStep
  <2>2. ASSUME Prompt(r) \/ Say(r) PROVE AppendStep \/ UNCHANGED refVars
    BY <2>2, Messages DEF Prompt, Say, AppendStep
  <2>3. ASSUME CloseRef(r) PROVE LeaseStepBut(q) \/ UNCHANGED refVars
    BY <2>3 DEF CloseRef, LeaseStepBut
  <2> QED BY <1>1, <2>1, <2>2, <2>3 DEF Step, Ask, AppendFails, Signal
<1>2. ASSUME NEW r \in Runners, World(r) PROVE Goal
  <2>1. CASE RenewLease(r)
    BY <2>1 DEF RenewLease, LeaseStepBut
  <2> QED BY <1>2, <2>1
      DEF World, Start, Stop, GraceOver, Release, Die, EndContext, EndRenewals, LeaseStepBut
<1>3. ASSUME NEW r \in Runners, NEW n \in Completions(r), Answer(r, n) PROVE AppendStep
  <2>1. n \in Nat
    BY ExecutorAssumption DEF Completions
  <2> QED BY <1>3, <2>1, Messages DEF Answer, AppendStep
<1>4. ASSUME NEW r \in Runners, AnswerError(r) \/ AnswerLost(r) \/ Tool(r) PROVE UNCHANGED refVars
  BY <1>4 DEF AnswerError, AnswerLost, Tool
<1>5. ASSUME (\E n \in Refs : Ref!CreateRef(n)) \/ Ref!Tick PROVE LeaseStepBut(q)
  BY <1>5 DEF LeaseStepBut
<1>6. ASSUME UNCHANGED vars PROVE UNCHANGED refVars
  BY <1>6 DEF vars, refVars
<1> QED BY <1>1, <1>2, <1>3, <1>4, <1>5, <1>6 DEF Next

LEMMA StepOfRefs ==
  ASSUME LoopInv, [Next]_vars
  PROVE  LeaseStep \/ AppendStep \/ UNCHANGED refVars
<1>1. LeaseStepBut(NoRunner) => LeaseStep
  BY DEF LeaseStepBut, LeaseStep
<1>2. NoRunner \in Runners /\ RenewLease(NoRunner) => LeaseStep
  BY DEF RenewLease, LeaseStep
<1> QED BY <1>1, <1>2, StepRenews

LEMMA RefOfSteps == LeaseStep \/ AppendStep => Ref!Next
  BY DEF LeaseStep, AppendStep, Ref!Next

\* Whatever executors do to a ref, leases and appends are used as
\* ConversationRef allows, so what is proved of it holds of their refs.
THEOREM UsesRefs == Spec => Ref!Spec
<1>1. Init => Ref!Init
  BY DEF Init
<1>2. LoopInv /\ [Next]_vars => [Ref!Next]_(Ref!vars)
  BY StepOfRefs, RefOfSteps DEF Ref!vars, refVars
<1> QED BY <1>1, <1>2, Invariance, PTL DEF Spec, Ref!Spec

\* Executors, whatever becomes of them, implement append-only conversations in
\* which the messages of one run are never interleaved with another's.
THEOREM ImplementsLog == Spec => RefProofs!ImplementsConversationLog
<1>1. Init => RefProofs!Init
  BY DEF Init, Ref!Init, RefProofs!Init, Ref!NoRef, RefProofs!NoRef, Ref!Unused, RefProofs!Unused
<1>2. LoopInv /\ [Next]_vars => [RefProofs!Next]_(RefProofs!vars)
  BY StepOfRefs, SameStep
<1>3. Spec => RefProofs!Spec
  BY <1>1, <1>2, Invariance, PTL DEF Spec, RefProofs!Spec
<1>4. RefProofs!Spec => RefProofs!ImplementsConversationLog
  BY RefAssumption, RefProofs!Refinement DEF RefProofs!ConversationRefAssumption
<1> QED BY <1>3, <1>4, PTL

\* Every step of a run's loop finds the conversation as it expects it: the model
\* is asked when it is its turn, the tools run for the run's own last calls.
THEOREM LoopKnowsItsPlace == Spec => []ExecInv
<1>1. LoopInv => ExecInv
  BY DEF LoopInv, ExecInv, LoopInPlace, Local, InPlace
<1> QED BY <1>1, Invariance, PTL

\* In a request to the model results follow the calls they answer, and only
\* calls of an earlier run that was cut short have none.
THEOREM PairsAreSent == Spec => []RequestsPaired
<1>1. ASSUME LoopInv, NEW r \in Runners, ex[r].pc = "asking", NEW k \in DOMAIN Chain(r),
             NEW q \in Runners, q = writer[run[r].name][k]
      PROVE  /\ Sent(Chain(r)[k]).uses # {} => Answered(Chain(r), k) \/ (q # r /\ CutShort(q))
             /\ Chain(r)[k].role = "tool" =>
                  \E j \in 1..k - 1 : k \in NextSent(Chain(r), j) /\ Answered(Chain(r), j)
  <2> DEFINE c == Chain(r)
             n == run[r].name
             L == Len(c)
  <2>1. /\ c \in Seq(Message) /\ L \in Nat /\ k \in 1..L /\ n \in Refs /\ ref[n].hash \in Seq(Message)
        /\ L <= Len(ref[n].hash) /\ Len(ref[n].hash) = Len(writer[n]) /\ writer[n] \in Seq(Runners)
    BY <1>1, RefTypes DEF LoopInv, Ref!WritersKnown, Chain
  <2>2. \A j \in 1..L : c[j] = ref[n].hash[j] /\ c[j] \in Message /\ j \in DOMAIN ref[n].hash
    <3>1. ASSUME NEW j \in 1..L
          PROVE  c[j] \in Message /\ j \in DOMAIN ref[n].hash /\ j \in DOMAIN c
      <4>1. /\ DOMAIN c = 1..L
            /\ DOMAIN ref[n].hash = 1..Len(ref[n].hash) /\ Len(ref[n].hash) \in Nat
        <5>1. \A s \in Seq(Message) : DOMAIN s = 1..Len(s) /\ Len(s) \in Nat
          OBVIOUS
        <5> QED BY <2>1, <5>1, Zenon
      <4>2. j \in 1..Len(ref[n].hash)
        BY <2>1, <4>1
      <4> HIDE DEF c, L, n
      <4> QED BY <2>1, <4>1, <4>2
    <3> QED BY <1>1, <3>1 DEF LoopInv, Cached
  <2>3. CallsMet(n, k) /\ ResultsMeet(n, k)
    BY <1>1, <2>1, <2>2 DEF LoopInv, Paired
  <2>4. /\ c[L].role \in {"user", "tool"} /\ ex[r].status = "none"
    BY <1>1 DEF LoopInv, Local, Ran, InPlace
  <2>5. ASSUME NEW j \in 1..L, j + 1 \in 1..L, c[j].role = "assistant", c[j + 1] = Results(c[j].n)
        PROVE  j + 1 \in NextSent(c, j) /\ Answered(c, j)
    <3>1. c[j + 1].role = "tool" /\ c[j + 1].n = c[j].n
      BY <2>5 DEF Results
    <3>2. j + 1 \in NextSent(c, j)
      BY <2>1, <2>5, <3>1 DEF NextSent
    <3>3. Sent(c[j + 1]).answers = Sent(c[j]).uses
      BY <2>5, <3>1 DEF Sent
    <3> QED BY <3>2, <3>3 DEF Answered
  <2>6. ASSUME Sent(c[k]).uses # {}
        PROVE  Answered(c, k) \/ (q # r /\ CutShort(q))
    <3>1. c[k].role = "assistant" /\ c[k].n > 0
      BY <2>1, <2>2, <2>6 DEF Sent, Message
    <3>2. k # L /\ k + 1 \in 1..L
      BY <2>1, <2>4, <3>1
    <3>3. CASE ref[n].hash[k + 1] = Results(c[k].n)
      BY <2>1, <2>2, <2>5, <3>1, <3>2, <3>3
    <3>4. CASE CutOff(q)
      BY <1>1, <2>4, <3>4 DEF CutOff, CutShort
    <3>5. CASE AtTools(q) /\ k = Len(Chain(q))
      <4>1. q # r
        BY <1>1, <3>5 DEF AtTools
      <4>2. run[q].pc = "open" /\ run[q].name = n
        <5>1. run[q].pc = "open" /\ k \in DOMAIN writer[n] /\ Ref!WritersKnown
          BY <1>1, <2>1, <3>5, RefTypes DEF LoopInv, Local, Ran, InLoop, AtTools
        <5> QED BY <1>1, <2>1, <5>1 DEF Ref!WritersKnown
      <4>3. q \in lapsed
        <5>1. SUFFICES ASSUME q \notin lapsed PROVE FALSE
          OBVIOUS
        <5>2. ref[n].hash = Chain(q)
          BY <1>1, <4>2, <5>1 DEF LoopInv, Ref!RefInv, Ref!HolderIsCurrent, Ref!Holds, Chain
        <5> QED BY <5>2, <2>1, <3>2, <3>5
      <4> QED BY <4>1, <4>3, <3>5 DEF CutShort, AtTools
    <3>6. c[k] = ref[n].hash[k]
      BY <2>1, <2>2
    <3>7. \/ ref[n].hash[k + 1] = Results(c[k].n)
          \/ CutOff(q)
          \/ AtTools(q) /\ k = Len(Chain(q))
      BY <1>1, <2>3, <3>1, <3>6 DEF CallsMet
    <3> QED BY <3>3, <3>4, <3>5, <3>7
  <2>7. ASSUME c[k].role = "tool"
        PROVE  \E j \in 1..k - 1 : k \in NextSent(c, j) /\ Answered(c, j)
    <3>1. k > 1 /\ ref[n].hash[k - 1] = Assistant(c[k].n)
      BY <2>1, <2>2, <2>3, <2>7 DEF ResultsMeet
    <3>2. /\ k - 1 \in 1..L /\ (k - 1) + 1 = k /\ k - 1 \in 1..k - 1
          /\ c[k - 1] = Assistant(c[k].n)
      <4>1. k \in Int /\ k <= L
        BY <2>1
      <4>2. k - 1 \in 1..L /\ (k - 1) + 1 = k /\ k - 1 \in 1..k - 1
        BY <2>1, <3>1, <4>1
      <4> QED BY <2>2, <3>1, <4>2
    <3>3. c[k] \in Message
      BY <2>1, <2>2
    <3>4. c[k - 1].role = "assistant" /\ c[k - 1].n = c[k].n /\ c[k] = Results(c[k].n)
      BY <2>7, <3>2, <3>3 DEF Message, Assistant, Results
    <3> QED BY <2>1, <2>5, <3>2, <3>4
  <2> QED BY <2>6, <2>7
<1>2. LoopInv => RequestsPaired
  <2>1. ASSUME LoopInv, NEW r \in Runners, NEW k \in DOMAIN Chain(r), ex[r].pc = "asking"
        PROVE  writer[run[r].name][k] \in Runners
    <3>1. /\ Chain(r) \in Seq(Message) /\ writer[run[r].name] \in Seq(Runners)
          /\ Len(Chain(r)) <= Len(writer[run[r].name])
      BY <2>1, RefTypes DEF LoopInv, Ref!WritersKnown, Chain
    <3> QED BY <3>1
  <2> QED BY <1>1, <2>1 DEF RequestsPaired
<1> QED BY <1>2, Invariance, PTL

\* The result that Wait returns agrees with the conversation.
THEOREM ResultIsTrue == Spec => []ResultAgrees
<1>1. LoopInv => ResultAgrees
  BY DEF LoopInv, ResultAgrees, Local, Counted, Concluded, Completed
<1> QED BY <1>1, Invariance, PTL

-----------------------------------------------------------------------------
(* After the end *)

\* A lease step extends a lease only for the runner that acquires or renews it.
LEMMA LeaseLeft ==
  ASSUME LoopInv, NEW q \in Runners, run[q].pc \in {"open", "closed"},
         ref[run[q].name].by = q,
         LeaseStepBut(q) \/ AppendStep \/ UNCHANGED refVars
  PROVE  ref'[run[q].name].by # q \/ ref'[run[q].name].left <= ref[run[q].name].left
<1> DEFINE Goal == ref'[run[q].name].by # q \/ ref'[run[q].name].left <= ref[run[q].name].left
<1>0. /\ ref \in [Refs -> Ref!RefRow] /\ run \in [Runners -> Ref!LeasedRef]
      /\ \A r \in Runners : run[r].name \in Refs
  BY RefTypes DEF LoopInv
<1>0a. ref[run[q].name].left \in Nat /\ q # NoRunner
  BY <1>0, ExecutorAssumption DEF Ref!RefRow
<1>1. ASSUME NEW n \in Refs, Ref!CreateRef(n) PROVE Goal
  BY <1>0, <1>0a, <1>1 DEF Ref!CreateRef, Ref!RefRow
<1>2. ASSUME NEW r \in Runners, Ref!Acquire(r) PROVE Goal
  <2>1. r # q
    BY <1>2 DEF Ref!Acquire
  <2> QED BY <1>0, <1>0a, <1>2, <2>1 DEF Ref!Acquire, Ref!RefRow
<1>3. ASSUME NEW r \in Runners, Ref!Open(r) \/ Ref!Abandon(r) PROVE Goal
  BY <1>0a, <1>3 DEF Ref!Open, Ref!Abandon
<1>4. ASSUME NEW r \in Runners, Ref!Close(r) PROVE Goal
  BY <1>0, <1>0a, <1>4 DEF Ref!Close, Ref!Released, Ref!RefRow
<1>5. ASSUME NEW r \in Runners, r # q, Ref!Renew(r) PROVE Goal
  <2>1. r # q /\ ref[run[r].name].by = r
    BY <1>5 DEF Ref!Renew
  <2> QED BY <1>0, <1>0a, <1>5, <2>1 DEF Ref!Renew, Ref!RefRow
<1>6. ASSUME Ref!Tick PROVE Goal
  BY <1>0, <1>0a, <1>6 DEF Ref!Tick, Ref!RefRow
<1>7. ASSUME NEW r \in Runners, NEW m \in Message, Ref!AppendMessage(r, m) PROVE Goal
  BY <1>0, <1>0a, <1>7 DEF Ref!AppendMessage, Ref!RefRow
<1>8. ASSUME UNCHANGED refVars PROVE Goal
  BY <1>0a, <1>8 DEF refVars
<1> QED BY <1>1, <1>2, <1>3, <1>4, <1>5, <1>6, <1>7, <1>8 DEF LeaseStepBut, AppendStep

\* Only a run whose loop has not ended appends and changes its result.
LEMMA EndedStays ==
  ASSUME LoopInv, [Next]_vars, NEW r \in Runners, ex[r].status # "none"
  PROVE  ex'[r].status = ex[r].status /\ Own(r)' = Own(r)
<1> DEFINE Goal == ex'[r].status = ex[r].status /\ Own(r)' = Own(r)
<1>0. ex[r].pc \in {"close", "signal", "done", "dead"} /\ ex \in [Runners -> ExRow] /\ ex[r] \in ExRow
  BY DEF LoopInv, Local, Ran, TypeOK
<1>1. ASSUME LeaseStep \/ UNCHANGED refVars, ex'[r].status = ex[r].status PROVE Goal
  BY <1>1, LeaseStill, StillKeeps DEF LoopInv
<1>2. ASSUME NEW q \in Runners, ex[q].pc \notin {"close", "signal", "done", "dead"}, NEW e, Set(q, e)
      PROVE  q # r /\ ex'[r] = ex[r]
  <2>1. q # r
    BY <1>0, <1>2
  <2> QED BY <1>2, <2>1, <1>0 DEF Set
<1>3. ASSUME NEW q \in Runners, ex[q].pc \notin {"close", "signal", "done", "dead"}, NEW e, Set(q, e),
             NEW m \in Message, Ref!AppendMessage(q, m)
      PROVE  Goal
  BY <1>2, <1>3, AppendOwn
<1>4. ASSUME NEW q \in Runners, Step(q) PROVE Goal
  <2>1. CASE Report(q)
    <3>1. Results(Calls(q)) \in Message
      BY <2>1, CallsType, Messages DEF Report, AtTools
    <3> QED BY <2>1, <3>1, <1>3 DEF Report
  <2>2. CASE Say(q)
    BY <2>2, <1>3, Messages DEF Say
  <2>3. CASE Prompt(q)
    <3>1. CASE Ref!AppendMessage(q, System)
      BY <2>3, <3>1, <1>3, Messages DEF Prompt
    <3>2. CASE UNCHANGED refVars
      BY <2>3, <3>2, <1>1, <1>2 DEF Prompt
    <3> QED BY <2>3, <3>1, <3>2 DEF Prompt
  <2>4. CASE Ask(q)
    BY <2>4, <1>1, <1>2 DEF Ask
  <2>5. CASE AppendFails(q)
    BY <2>5, <1>1, <1>2 DEF AppendFails
  <2>6. CASE CloseRef(q)
    <3>1. ex'[r].status = ex[r].status
      BY <2>6, <1>0 DEF CloseRef, Set, ExRow
    <3> QED BY <2>6, <3>1, <1>1 DEF CloseRef, LeaseStep
  <2>7. CASE Signal(q)
    <3>1. ex'[r].status = ex[r].status
      BY <2>7, <1>0 DEF Signal, Set, ExRow
    <3> QED BY <2>7, <3>1, <1>1 DEF Signal
  <2> QED BY <1>4, <2>1, <2>2, <2>3, <2>4, <2>5, <2>6, <2>7 DEF Step
<1>5. ASSUME NEW q \in Runners, World(q) PROVE Goal
  <2>1. LeaseStep \/ UNCHANGED refVars
    BY <1>5 DEF World, Start, Stop, GraceOver, Release, Die, RenewLease, EndRenewals, EndContext, LeaseStep
  <2>2. ex'[r].status = ex[r].status
    <3>1. CASE ex' = ex
      BY <3>1
    <3>2. CASE Start(q)
      BY <3>2, <1>2 DEF Start
    <3>3. CASE Stop(q)
      BY <3>1, <3>3, <1>2 DEF Stop, InLoop
    <3>4. CASE GraceOver(q)
      BY <3>4, <1>2 DEF GraceOver, InLoop
    <3>5. CASE EndContext(q, "canceled") \/ EndContext(q, "expired")
      BY <3>5, <1>2 DEF EndContext
    <3>6. CASE Die(q)
      BY <3>6, <1>0 DEF Die, Set, ExRow
    <3>7. CASE EndRenewals(q)
      BY <3>7, <1>0 DEF EndRenewals, Set, ExRow
    <3> QED BY <1>5, <3>1, <3>2, <3>3, <3>4, <3>5, <3>6, <3>7 DEF World, Release, RenewLease
  <2> QED BY <2>1, <2>2, <1>1
<1>6. ASSUME NEW q \in Runners, NEW n \in Completions(q), Answer(q, n) PROVE Goal
  <2>1. Assistant(n) \in Message
    BY ExecutorAssumption, Messages DEF Completions
  <2> QED BY <1>6, <2>1, <1>3 DEF Answer
<1>7. ASSUME NEW q \in Runners, AnswerError(q) \/ AnswerLost(q) \/ Tool(q) PROVE Goal
  BY <1>7, <1>1, <1>2 DEF AnswerError, AnswerLost, Tool
<1>8. ASSUME ((\E n \in Refs : Ref!CreateRef(n)) \/ Ref!Tick) /\ ex' = ex PROVE Goal
  BY <1>8, <1>1 DEF LeaseStep
<1>9. ASSUME UNCHANGED vars PROVE Goal
  BY <1>9, <1>1 DEF vars, refVars
<1> QED BY <1>4, <1>5, <1>6, <1>7, <1>8, <1>9 DEF Next

\* A run with a lease that has ended takes no other: its ref is not its own again.
LEMMA NoReturn ==
  ASSUME LoopInv, [Next]_vars, NEW r \in Runners, run[r].pc \in {"open", "closed"},
         ref[run[r].name].by # r
  PROVE  ref'[run[r].name].by # r
<1> DEFINE Goal == ref'[run[r].name].by # r
<1>0. /\ ref \in [Refs -> Ref!RefRow] /\ run \in [Runners -> Ref!LeasedRef]
      /\ \A q \in Runners : run[q].name \in Refs
      /\ r # NoRunner
  BY RefTypes, ExecutorAssumption DEF LoopInv
<1>1. ASSUME NEW n \in Refs, Ref!CreateRef(n) PROVE Goal
  BY <1>0, <1>1 DEF Ref!CreateRef, Ref!RefRow
<1>2. ASSUME NEW q \in Runners, Ref!Acquire(q) PROVE Goal
  <2>1. q # r
    BY <1>2 DEF Ref!Acquire
  <2> QED BY <1>0, <1>2, <2>1 DEF Ref!Acquire, Ref!RefRow
<1>3. ASSUME NEW q \in Runners, Ref!Open(q) \/ Ref!Abandon(q) PROVE Goal
  BY <1>3 DEF Ref!Open, Ref!Abandon
<1>4. ASSUME NEW q \in Runners, Ref!Close(q) PROVE Goal
  BY <1>0, <1>4 DEF Ref!Close, Ref!Released, Ref!RefRow
<1>5. ASSUME NEW q \in Runners, Ref!Renew(q) PROVE Goal
  BY <1>0, <1>5 DEF Ref!Renew, Ref!RefRow
<1>6. ASSUME Ref!Tick PROVE Goal
  BY <1>0, <1>6 DEF Ref!Tick, Ref!RefRow
<1>7. ASSUME NEW q \in Runners, NEW m \in Message, Ref!AppendMessage(q, m) PROVE Goal
  BY <1>0, <1>7 DEF Ref!AppendMessage, Ref!RefRow
<1>8. ASSUME UNCHANGED refVars PROVE Goal
  BY <1>8 DEF refVars
<1> QED BY <1>1, <1>2, <1>3, <1>4, <1>5, <1>6, <1>7, <1>8, StepOfRefs DEF LeaseStep, AppendStep

\* A run that is done or dead renews its lease only while its renewals go on.
LEMMA NoRenewal ==
  ASSUME LoopInv, [Next]_vars, NEW r \in Runners, ex[r].pc \in {"done", "dead"},
         ref[run[r].name].by = r
  PROVE  \/ ref'[run[r].name].by # r \/ ref'[run[r].name].left <= ref[run[r].name].left
         \/ run[r].pc = "open" /\ ex[r].beats
<1>1. run[r].pc \in {"open", "closed"}
  BY DEF LoopInv, Local, Ran
<1>2. RenewLease(r) => run[r].pc = "open" /\ ex[r].beats
  BY DEF RenewLease, Ref!Renew
<1> QED BY <1>1, <1>2, StepRenews, LeaseLeft

\* Renewals that have ended do not begin again.
LEMMA NoNewRenewals ==
  ASSUME LoopInv, [Next]_vars, NEW r \in Runners, ex[r].status # "none", ~ex[r].beats
  PROVE  ~ex'[r].beats
<1>0. ex[r].pc \in {"close", "signal", "done", "dead"} /\ ex \in [Runners -> ExRow] /\ ex[r] \in ExRow
  BY DEF LoopInv, Local, Ran, TypeOK
<1>1. ASSUME NEW q \in Runners, ex[q].pc \notin {"close", "signal", "done", "dead"}, NEW e, Set(q, e)
      PROVE  ~ex'[r].beats
  <2>1. q # r
    BY <1>0, <1>1
  <2> QED BY <1>1, <2>1, <1>0 DEF Set
<1>2. ASSUME NEW q \in Runners, Step(q) PROVE ~ex'[r].beats
  <2>1. CASE CloseRef(q)
    BY <2>1, <1>0 DEF CloseRef, Set, ExRow
  <2>2. CASE Signal(q)
    BY <2>2, <1>0 DEF Signal, Set, ExRow
  <2>3. CASE Prompt(q) \/ Say(q) \/ Ask(q)
    BY <2>3, <1>1 DEF Prompt, Say, Ask
  <2>4. CASE Report(q) \/ AppendFails(q)
    BY <2>4, <1>1 DEF Report, AppendFails
  <2> QED BY <1>2, <2>1, <2>2, <2>3, <2>4 DEF Step
<1>3. ASSUME NEW q \in Runners, World(q) PROVE ~ex'[r].beats
  <2>1. CASE ex' = ex
    BY <2>1
  <2>2. CASE Start(q) \/ GraceOver(q) \/ EndContext(q, "canceled") \/ EndContext(q, "expired")
    BY <2>2, <1>1 DEF Start, GraceOver, EndContext, InLoop
  <2>3. CASE Stop(q)
    BY <2>1, <2>3, <1>1 DEF Stop, InLoop
  <2>4. CASE Die(q)
    BY <2>4, <1>0 DEF Die, Set, ExRow
  <2>5. CASE EndRenewals(q)
    BY <2>5, <1>0 DEF EndRenewals, Set, ExRow
  <2> QED BY <1>3, <2>1, <2>2, <2>3, <2>4, <2>5 DEF World, Release, RenewLease
<1>4. ASSUME NEW q \in Runners, NEW n \in Completions(q), Answer(q, n) PROVE ~ex'[r].beats
  BY <1>4, <1>1 DEF Answer
<1>5. ASSUME NEW q \in Runners, AnswerError(q) \/ AnswerLost(q) \/ Tool(q) PROVE ~ex'[r].beats
  BY <1>5, <1>1 DEF AnswerError, AnswerLost, Tool
<1>6. ASSUME ex' = ex PROVE ~ex'[r].beats
  BY <1>6
<1> QED BY <1>2, <1>3, <1>4, <1>5, <1>6 DEF Next, vars

\* What was returned stays: once running is false a run changes neither its
\* result nor the conversation and takes no lease again, and after done it renews
\* none, but for a last tick when the release has failed.
THEOREM QuietAfterwards == Spec => FinishedIsQuiet
<1>1. ASSUME LoopInv, [Next]_vars PROVE QuietStep
  <2>1. ASSUME NEW r \in Runners, ex[r].status # "none" PROVE run[r].pc \in {"open", "closed"}
    BY <1>1, <2>1 DEF LoopInv, Local, Ran
  <2> QED BY <1>1, <2>1, EndedStays, NoReturn, NoRenewal, NoNewRenewals DEF QuietStep
<1>2. LoopInv /\ [Next]_vars => [QuietStep]_vars
  BY <1>1
<1> QED BY <1>2, Invariance, PTL DEF Spec, FinishedIsQuiet
=============================================================================
