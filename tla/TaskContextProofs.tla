-------------------------- MODULE TaskContextProofs --------------------------
(***************************************************************************)
(* Proofs about TaskContext for any number of operations and callers: what *)
(* a conversation begins with, what a request to the model holds, and who  *)
(* keeps whom from the conversation.  What the ref promises is taken from  *)
(* ConversationRefProofs.                                                  *)
(***************************************************************************)
EXTENDS TaskContext, TLAPS

RefProofs == INSTANCE ConversationRefProofs WITH Refs <- {Main}, Msgs <- Entry

-----------------------------------------------------------------------------
(* The inductive invariant *)

Chain == ref[Main].hash
Idle(r) == run[r].pc \in {"new", "closed"}

\* Which of its leases an operation has, at every place.
Place(o) ==
  LET s == run[Sys(o)].pc
      m == run[Own(o)].pc IN
  /\ op[o].pc \in {"new", "ensure", "create", "check"} => s = "new" /\ m = "new"
  /\ At(o, "system") => s \in {"new", "leased", "open"} /\ m = "new"
  /\ At(o, "prompted") => s = "open" /\ m = "new"
  /\ At(o, "ready") => Idle(Sys(o)) /\ m \in {"new", "leased", "open"}
  /\ op[o].pc \in {"asking", "tools"} => Idle(Sys(o)) /\ m = "open"
  /\ At(o, "ran") => Idle(Sys(o)) /\ m \in {"open", "closed"}
  /\ op[o].pc \in {"branch", "judging"} => Idle(Sys(o)) /\ m = "new"
  /\ At(o, "returned") => Idle(Sys(o)) /\ (Idle(Own(o)) \/ (m = "open" /\ o \in loose))
  /\ At(o, "dead") => Idle(Sys(o)) /\ Idle(Own(o))

\* What sort of operation gets where, and when it has an outcome.
Sort(o) ==
  /\ op[o].pc \in {"asking", "tools"} => op[o].kind = "exec"
  /\ At(o, "ran") => op[o].kind # "condition"
  /\ op[o].pc \in {"branch", "judging"} => op[o].kind = "condition"
  /\ run[Own(o)].pc # "new" => op[o].kind # "condition"
  /\ op[o].out # "none" => op[o].pc \in {"ran", "returned", "dead"}

\* A caller does one thing after the other.
Turns ==
  \A o \in Ops : ~At(o, "new") =>
    \A p \in 1..o - 1 : op[p].caller = op[o].caller => At(p, "returned")

\* The ref names who works on it, or whose lease was never released.
Named ==
  LET r == ref[Main].by IN r # NoRunner => run[r].pc \in {"leased", "open"} \/ r \in abandoned

\* Past the prompt there is one.
Begun(o) ==
  op[o].pc \in {"prompted", "ready", "asking", "tools", "ran", "branch", "judging"} => Chain # <<>>

\* c is the conversation as it was at some time.
Past(c) == \A k \in DOMAIN c : k \in DOMAIN Chain /\ c[k] = Chain[k]

Pasts ==
  /\ \A r \in Runners : Past(run[r].hash)
  /\ \A o \in Ops : Past(op[o].base)

\* Results follow the calls, or are still to come, or will never.
Follow(k) ==
  LET p == Chain[k].op IN
  \/ k + 1 \in DOMAIN Chain /\ Chain[k + 1] = Say(p, "results")
  \/ CutShort(p) \/ Own(p) \in lapsed
  \/ At(p, "tools") /\ k = Len(Chain)

Follows == \A k \in DOMAIN Chain : Chain[k].role = "calls" => Follow(k)

\* A run asks after its user's message or after results, a condition after
\* what it read.
LastIs(c, o, role) == Len(c) \in DOMAIN c /\ c[Len(c)] = Say(o, role)

Asks(o) ==
  /\ At(o, "asking") => LastIs(run[Own(o)].hash, o, "user") \/ LastIs(run[Own(o)].hash, o, "results")
  /\ op[o].pc \in {"branch", "judging"} =>
       LET c == op[o].base IN
       c # <<>> /\ c[Len(c)].role = "calls" =>
         LET p == c[Len(c)].op IN CutShort(p) \/ Own(p) \in lapsed \/ op[p].caller # op[o].caller

\* What p must have added to the conversation by now: its message, and its answer.
Spoken == {"user", "answer"}
Has(c, p, role) == \E k \in DOMAIN c : c[k] = Say(p, role)
Owes(p, role) ==
  /\ op[p].kind # "condition"
  /\ role = "user" => op[p].out \in {"ok", "empty"} \/ op[p].pc \in {"asking", "tools"}
  /\ role = "answer" => op[p].kind = "exec" /\ op[p].out = "ok"

\* c has all that the caller of o did before o.
Remembers(c, o) ==
  \A p \in 1..o - 1 : \A role \in Spoken :
    op[p].caller = op[o].caller /\ Owes(p, role) => Has(c, p, role)

Memory ==
  /\ \A o \in Ops : \A role \in Spoken : Owes(o, role) => Has(Chain, o, role)
  /\ \A o \in Ops : run[Own(o)].pc = "open" => Remembers(run[Own(o)].hash, o)
  /\ \A o \in Ops : op[o].pc \in {"branch", "judging"} => Remembers(op[o].base, o)

Base == TypeOK /\ Ref!RefInv

Frame ==
  /\ \A o \in Ops : Place(o) /\ Sort(o)
  /\ Turns /\ Named /\ Pasts

Said ==
  /\ OnePrompt /\ \A o \in Ops : Begun(o)
  /\ Follows /\ \A o \in Ops : Asks(o)
  /\ Memory

-----------------------------------------------------------------------------
(* Names *)

LEMMA Names ==
  /\ \A o \in Ops : Sys(o) \in Runners /\ Own(o) \in Runners /\ Sys(o)[1] = o /\ Own(o)[1] = o
  /\ \A o, p \in Ops : Sys(o) # Own(p)
  /\ \A o, p \in Ops : (Sys(o) = Sys(p) => o = p) /\ (Own(o) = Own(p) => o = p)
  /\ \A r \in Runners : \E o \in Ops : r = Sys(o) \/ r = Own(o)
  /\ NoRunner \notin Runners
<1>1. NoRunner \notin Runners
  BY TaskContextAssumption DEF Runners, Ops
<1> QED BY <1>1 DEF Runners, Sys, Own

LEMMA Numbers ==
  /\ MaxOps \in Nat /\ MaxToolTurns \in Nat /\ Lease \in Nat \ {0} /\ MaxLen \in Nat
  /\ \A o \in Ops : o \in Nat /\ \A p \in 1..o - 1 : p \in Ops /\ p # o
  /\ \A o, p \in Ops : o # p => p \in 1..o - 1 \/ o \in 1..p - 1
  BY TaskContextAssumption DEF Ops

LEMMA Entries ==
  \A o \in Ops : \A role \in {"system", "user", "calls", "results", "answer"} :
    Say(o, role) \in Entry /\ Say(o, role).role = role /\ Say(o, role).op = o
  BY DEF Say, Entry

-----------------------------------------------------------------------------
(* The ref *)

LEMMA SameInv == Ref!RefInv <=> RefProofs!RefInv
  BY DEF Ref!RefInv, RefProofs!RefInv, Ref!TypeOK, RefProofs!TypeOK,
         Ref!HoldersLeased, RefProofs!HoldersLeased,
         Ref!HolderIsCurrent, RefProofs!HolderIsCurrent, Ref!WritersKnown, RefProofs!WritersKnown,
         Ref!TurnsContiguous, RefProofs!TurnsContiguous, Ref!Holds, RefProofs!Holds,
         Ref!Available, RefProofs!Available, Ref!Chain, RefProofs!Chain,
         Ref!RefRow, RefProofs!RefRow, Ref!LeasedRef, RefProofs!LeasedRef

LEMMA SameInvNext == Ref!RefInv' <=> RefProofs!RefInv'
  BY DEF Ref!RefInv, RefProofs!RefInv, Ref!TypeOK, RefProofs!TypeOK,
         Ref!HoldersLeased, RefProofs!HoldersLeased,
         Ref!HolderIsCurrent, RefProofs!HolderIsCurrent, Ref!WritersKnown, RefProofs!WritersKnown,
         Ref!TurnsContiguous, RefProofs!TurnsContiguous, Ref!Holds, RefProofs!Holds,
         Ref!Available, RefProofs!Available, Ref!Chain, RefProofs!Chain,
         Ref!RefRow, RefProofs!RefRow, Ref!LeasedRef, RefProofs!LeasedRef

LEMMA RefAssumption == RefProofs!ConversationRefAssumption
  BY Names, TaskContextAssumption DEF RefProofs!ConversationRefAssumption

LEMMA RefInit == Ref!Init => Ref!RefInv
<1>1. Ref!Init => RefProofs!Init
  BY DEF Ref!Init, RefProofs!Init, Ref!Unused, RefProofs!Unused, Ref!NoRef, RefProofs!NoRef
<1> QED BY <1>1, SameInv, RefAssumption, RefProofs!RefInvInit

LEMMA SameAppend ==
  ASSUME NEW r \in Runners, NEW m \in Entry
  PROVE  Ref!AppendMessage(r, m) <=> RefProofs!AppendMessage(r, m)
  BY DEF Ref!AppendMessage, RefProofs!AppendMessage, Ref!MayAdvance, RefProofs!MayAdvance,
         Ref!Available, RefProofs!Available

\* What a step may do to the ref: operate on a lease, append, or store nodes.
LeaseStep ==
  \/ Ref!CreateRef(Main)
  \/ \E r \in Runners : Ref!Acquire(r) \/ Ref!Open(r) \/ Ref!Close(r) \/ Ref!Abandon(r) \/ Ref!Renew(r)
  \/ Ref!Tick

AppendStep == \E r \in Runners : \E m \in Entry : Ref!AppendMessage(r, m)

StoreStep == \E h \in Seq(Entry) : Store(h)

LEMMA SameLease == LeaseStep => RefProofs!Next
<1>1. ASSUME Ref!CreateRef(Main) PROVE RefProofs!Next
  BY <1>1 DEF Ref!CreateRef, RefProofs!CreateRef, RefProofs!Next
<1>2. ASSUME NEW r \in Runners, Ref!Acquire(r) PROVE RefProofs!Next
  <2>1. RefProofs!Acquire(r)
    BY <1>2 DEF Ref!Acquire, RefProofs!Acquire, Ref!Available, RefProofs!Available
  <2> QED BY <2>1 DEF RefProofs!Next
<1>3. ASSUME NEW r \in Runners, Ref!Open(r) PROVE RefProofs!Next
  <2>1. RefProofs!Open(r)
    BY <1>3 DEF Ref!Open, RefProofs!Open
  <2> QED BY <2>1 DEF RefProofs!Next
<1>4. ASSUME NEW r \in Runners, Ref!Close(r) PROVE RefProofs!Next
  <2>1. RefProofs!Close(r)
    BY <1>4 DEF Ref!Close, RefProofs!Close, Ref!Released, RefProofs!Released
  <2> QED BY <2>1 DEF RefProofs!Next
<1>5. ASSUME NEW r \in Runners, Ref!Abandon(r) PROVE RefProofs!Next
  <2>1. RefProofs!Abandon(r)
    BY <1>5 DEF Ref!Abandon, RefProofs!Abandon
  <2> QED BY <2>1 DEF RefProofs!Next
<1>6. ASSUME NEW r \in Runners, Ref!Renew(r) PROVE RefProofs!Next
  <2>1. RefProofs!Renew(r)
    BY <1>6 DEF Ref!Renew, RefProofs!Renew
  <2> QED BY <2>1 DEF RefProofs!Next
<1>7. ASSUME Ref!Tick PROVE RefProofs!Next
  BY <1>7 DEF Ref!Tick, RefProofs!Tick, RefProofs!Next
<1> QED BY <1>1, <1>2, <1>3, <1>4, <1>5, <1>6, <1>7 DEF LeaseStep

\* Nodes that no ref points at are no concern of the refs.
LEMMA StoreKept ==
  ASSUME Ref!RefInv, NEW h \in Seq(Entry), Store(h)
  PROVE  Ref!RefInv'
<1>1. node' = node \cup {h} /\ UNCHANGED <<ref, run, writer, lapsed>>
  BY DEF Store
<1>2. Ref!TypeOK'
  BY <1>1 DEF Ref!RefInv, Ref!TypeOK, Ref!Chain, Ref!RefRow, Ref!LeasedRef
<1>3. (Ref!HoldersLeased /\ Ref!HolderIsCurrent)'
  BY <1>1 DEF Ref!RefInv, Ref!HoldersLeased, Ref!HolderIsCurrent, Ref!Holds, Ref!Available
<1>4. (Ref!WritersKnown /\ Ref!TurnsContiguous)'
  BY <1>1 DEF Ref!RefInv, Ref!WritersKnown, Ref!TurnsContiguous
<1> QED BY <1>2, <1>3, <1>4 DEF Ref!RefInv

LEMMA RefKept ==
  ASSUME Ref!RefInv, LeaseStep \/ AppendStep \/ StoreStep \/ UNCHANGED refVars
  PROVE  Ref!RefInv'
<1>1. CASE LeaseStep \/ AppendStep \/ UNCHANGED refVars
  <2>1. [RefProofs!Next]_(RefProofs!vars)
    <3>1. CASE LeaseStep
      BY <3>1, SameLease
    <3>2. CASE AppendStep
      BY <3>2, SameAppend DEF AppendStep, RefProofs!Next
    <3>3. CASE UNCHANGED refVars
      BY <3>3 DEF refVars, RefProofs!vars
    <3> QED BY <1>1, <3>1, <3>2, <3>3
  <2> QED BY <2>1, SameInv, SameInvNext, RefAssumption, RefProofs!RefInvStep
<1>2. CASE StoreStep
  BY <1>2, StoreKept DEF StoreStep
<1> QED BY <1>1, <1>2

LEMMA RefTypes ==
  ASSUME Ref!RefInv
  PROVE  /\ ref \in [{Main} -> Ref!RefRow] /\ run \in [Runners -> Ref!LeasedRef]
         /\ ref[Main] \in Ref!RefRow
         /\ Chain \in Seq(Entry) /\ DOMAIN Chain = 1..Len(Chain) /\ Len(Chain) \in Nat
         /\ ref[Main].by \in Runners \cup {NoRunner} /\ ref[Main].left \in Nat
         /\ \A r \in Runners : /\ run[r] \in Ref!LeasedRef /\ run[r].name = Main /\ run[r].hash \in Seq(Entry)
                               /\ run[r].pc \in {"new", "leased", "open", "closed"}
                               /\ Len(run[r].hash) <= Len(Chain)
                               /\ run[r].pc \in {"leased", "open"} /\ r \notin lapsed =>
                                    ref[Main].by = r /\ ref[Main].left > 0
         /\ writer \in [{Main} -> Seq(Runners)]
         /\ lapsed \subseteq Runners
<1>1. /\ ref \in [{Main} -> Ref!RefRow] /\ run \in [Runners -> Ref!LeasedRef]
      /\ writer \in [{Main} -> Seq(Runners)] /\ lapsed \subseteq Runners
  BY DEF Ref!RefInv, Ref!TypeOK
<1>2. /\ ref[Main] \in Ref!RefRow /\ Chain \in Seq(Entry)
      /\ ref[Main].by \in Runners \cup {NoRunner} /\ ref[Main].left \in Nat
  BY <1>1 DEF Ref!RefRow, Ref!Chain, Chain
<1>3. \A r \in Runners : /\ run[r] \in Ref!LeasedRef /\ run[r].name = Main /\ run[r].hash \in Seq(Entry)
                         /\ run[r].pc \in {"new", "leased", "open", "closed"}
  BY <1>1 DEF Ref!LeasedRef, Ref!Chain
<1>4. \A r \in Runners : Len(run[r].hash) <= Len(Chain)
  BY <1>3 DEF Ref!RefInv, Ref!WritersKnown, Chain
<1>5. \A r \in Runners : run[r].pc \in {"leased", "open"} /\ r \notin lapsed =>
                           ref[Main].by = r /\ ref[Main].left > 0
  BY <1>3 DEF Ref!RefInv, Ref!HoldersLeased, Ref!Holds
<1> QED BY <1>1, <1>2, <1>3, <1>4, <1>5

\* The operations on leases, as the runners see them.
Only(r) == \A q \in Runners : q # r => run'[q] = run[q]

LEMMA LeaseMoves ==
  ASSUME Ref!RefInv
  PROVE  /\ Ref!CreateRef(Main) => run' = run /\ lapsed' = lapsed /\ Chain' = Chain /\ ref'[Main].by = ref[Main].by
         /\ Ref!Tick => run' = run /\ lapsed \subseteq lapsed' /\ Chain' = Chain /\ ref'[Main].by = ref[Main].by
         /\ \A r \in Runners :
              /\ Ref!Acquire(r) => /\ run[r].pc = "new" /\ run'[r].pc = "leased" /\ run'[r].hash = run[r].hash
                                   /\ Only(r) /\ lapsed' = lapsed /\ Chain' = Chain /\ ref'[Main].by = r
              /\ Ref!Open(r) => /\ run[r].pc = "leased" /\ run'[r].pc = "open" /\ run'[r].hash = Chain
                                /\ Only(r) /\ lapsed' = lapsed /\ Chain' = Chain /\ ref'[Main].by = ref[Main].by
              /\ Ref!Close(r) => /\ run[r].pc \in {"leased", "open"} /\ run'[r].pc = "closed" /\ run'[r].hash = run[r].hash
                                 /\ Only(r) /\ lapsed' = lapsed /\ Chain' = Chain
                                 /\ ref'[Main].by = NoRunner \/ (ref'[Main].by = ref[Main].by /\ ref[Main].by # r)
              /\ Ref!Abandon(r) => /\ run[r].pc \in {"leased", "open"} /\ run'[r].pc = "closed" /\ run'[r].hash = run[r].hash
                                   /\ Only(r) /\ lapsed' = lapsed /\ Chain' = Chain /\ ref'[Main].by = ref[Main].by
              /\ Ref!Renew(r) => run' = run /\ lapsed' = lapsed /\ Chain' = Chain /\ ref'[Main].by = ref[Main].by
<1>0. /\ ref \in [{Main} -> Ref!RefRow] /\ run \in [Runners -> Ref!LeasedRef] /\ ref[Main] \in Ref!RefRow
      /\ \A r \in Runners : run[r] \in Ref!LeasedRef /\ run[r].name = Main
      /\ lapsed \subseteq Runners
  BY RefTypes
<1>1. Ref!CreateRef(Main) => run' = run /\ lapsed' = lapsed /\ Chain' = Chain /\ ref'[Main].by = ref[Main].by
  BY <1>0 DEF Ref!CreateRef, Ref!RefRow, Chain
<1>2. Ref!Tick => run' = run /\ lapsed \subseteq lapsed' /\ Chain' = Chain /\ ref'[Main].by = ref[Main].by
  BY <1>0 DEF Ref!Tick, Ref!RefRow, Chain
<1>3. ASSUME NEW r \in Runners, Ref!Acquire(r)
      PROVE  /\ run[r].pc = "new" /\ run'[r].pc = "leased" /\ run'[r].hash = run[r].hash
             /\ Only(r) /\ lapsed' = lapsed /\ Chain' = Chain /\ ref'[Main].by = r
  BY <1>0, <1>3 DEF Ref!Acquire, Ref!RefRow, Ref!LeasedRef, Only, Chain
<1>4. ASSUME NEW r \in Runners, Ref!Open(r)
      PROVE  /\ run[r].pc = "leased" /\ run'[r].pc = "open" /\ run'[r].hash = Chain
             /\ Only(r) /\ lapsed' = lapsed /\ Chain' = Chain /\ ref'[Main].by = ref[Main].by
  BY <1>0, <1>4 DEF Ref!Open, Ref!RefRow, Ref!LeasedRef, Only, Chain
<1>5. ASSUME NEW r \in Runners, Ref!Close(r)
      PROVE  /\ run[r].pc \in {"leased", "open"} /\ run'[r].pc = "closed" /\ run'[r].hash = run[r].hash
             /\ Only(r) /\ lapsed' = lapsed /\ Chain' = Chain
             /\ ref'[Main].by = NoRunner \/ (ref'[Main].by = ref[Main].by /\ ref[Main].by # r)
  BY <1>0, <1>5 DEF Ref!Close, Ref!Released, Ref!RefRow, Ref!LeasedRef, Only, Chain
<1>6. ASSUME NEW r \in Runners, Ref!Abandon(r)
      PROVE  /\ run[r].pc \in {"leased", "open"} /\ run'[r].pc = "closed" /\ run'[r].hash = run[r].hash
             /\ Only(r) /\ lapsed' = lapsed /\ Chain' = Chain /\ ref'[Main].by = ref[Main].by
  BY <1>0, <1>6 DEF Ref!Abandon, Ref!RefRow, Ref!LeasedRef, Only, Chain
<1>7. ASSUME NEW r \in Runners, Ref!Renew(r)
      PROVE  run' = run /\ lapsed' = lapsed /\ Chain' = Chain /\ ref'[Main].by = ref[Main].by
  BY <1>0, <1>7 DEF Ref!Renew, Ref!RefRow, Chain
<1> QED BY <1>1, <1>2, <1>3, <1>4, <1>5, <1>6, <1>7

\* An append makes the conversation one longer, for the runner that appends.
LEMMA AppendMoves ==
  ASSUME Ref!RefInv, NEW r \in Runners, NEW m \in Entry, Ref!AppendMessage(r, m)
  PROVE  /\ run[r].pc = "open" /\ Chain = run[r].hash
         /\ Len(Chain') = Len(Chain) + 1 /\ DOMAIN Chain' = 1..Len(Chain) + 1
         /\ \A k \in DOMAIN Chain : Chain'[k] = Chain[k]
         /\ Chain'[Len(Chain) + 1] = m
         /\ run'[r].hash = Chain' /\ run'[r].pc = "open"
         /\ Only(r) /\ lapsed' = lapsed /\ ref'[Main].by = ref[Main].by
         /\ \A q \in Runners : q # r /\ run[q].pc \in {"leased", "open"} => q \in lapsed
<1>1. RefProofs!AppendMessage(r, m) /\ RefProofs!TypeOK /\ RefProofs!WritersKnown
  BY SameAppend, SameInv DEF RefProofs!RefInv
<1>2. /\ run[r].name = Main /\ Chain \in Seq(Entry) /\ ref[Main] \in Ref!RefRow /\ ref \in [{Main} -> Ref!RefRow]
      /\ ref[Main].by \in Runners \cup {NoRunner} /\ ref[Main].left \in Nat
      /\ \A q \in Runners : run[q].pc \in {"leased", "open"} /\ q \notin lapsed => ref[Main].by = q /\ ref[Main].left > 0
  BY RefTypes
<1>3. /\ run[r].pc = "open" /\ Ref!Available(r, Main) /\ lapsed' = lapsed
  BY <1>2 DEF Ref!AppendMessage, Ref!MayAdvance
<1>4. ref'[Main].by = ref[Main].by
  BY <1>2 DEF Ref!AppendMessage, Ref!RefRow
<1>5. /\ ref[Main].hash = run[r].hash
      /\ ref'[Main].hash = Append(run[r].hash, m)
      /\ run'[r].hash = Append(run[r].hash, m) /\ run'[r].pc = "open"
      /\ \A q \in Runners : q # r => run'[q] = run[q]
  <2>1. /\ ref[run[r].name].hash = run[r].hash
        /\ ref'[run[r].name].hash = Append(run[r].hash, m)
        /\ run'[r].hash = Append(run[r].hash, m) /\ run'[r].pc = "open"
        /\ \A q \in Runners : q # r => run'[q] = run[q]
    BY <1>1, RefAssumption, RefProofs!AppendFacts, Zenon
  <2> QED BY <1>2, <2>1
<1>6. Chain = run[r].hash /\ Chain' = Append(Chain, m) /\ run'[r].hash = Chain'
  BY <1>5 DEF Chain
<1>7. /\ Len(Append(Chain, m)) = Len(Chain) + 1 /\ DOMAIN Append(Chain, m) = 1..Len(Chain) + 1
      /\ \A k \in DOMAIN Chain : Append(Chain, m)[k] = Chain[k]
      /\ Append(Chain, m)[Len(Chain) + 1] = m
  BY <1>2
<1>8. \A q \in Runners : q # r /\ run[q].pc \in {"leased", "open"} => q \in lapsed
  BY <1>2, <1>3, Names DEF Ref!Available
<1> QED BY <1>3, <1>4, <1>5, <1>6, <1>7, <1>8 DEF Only

-----------------------------------------------------------------------------
(* The operations *)

\* o moves on; the others stay where they are.
Moved(o, pc, out, base) ==
  /\ op' \in [Ops -> Operation]
  /\ op'[o].pc = pc /\ op'[o].out = out /\ op'[o].base = base
  /\ op'[o].kind = op[o].kind /\ op'[o].caller = op[o].caller
  /\ \A p \in Ops : p # o => op'[p] = op[p]

Pcs == {"new", "ensure", "create", "check", "system", "prompted", "ready", "asking", "tools", "ran",
        "returned", "branch", "judging", "dead"}

LEMMA GotoMoves ==
  ASSUME op \in [Ops -> Operation], NEW o \in Ops, NEW pc \in Pcs, Goto(o, pc)
  PROVE  Moved(o, pc, op[o].out, op[o].base)
<1>1. op[o] \in Operation
  OBVIOUS
<1>2. [op[o] EXCEPT !.pc = pc] \in Operation
  BY <1>1 DEF Operation, Pcs
<1>3. op' = [op EXCEPT ![o] = [op[o] EXCEPT !.pc = pc]]
  BY DEF Goto
<1> QED BY <1>1, <1>2, <1>3 DEF Moved, Operation

Ends(o, pc, out) == op' = [op EXCEPT ![o] = [op[o] EXCEPT !.pc = pc, !.out = out]]

LEMMA OutMoves ==
  ASSUME op \in [Ops -> Operation], NEW o \in Ops, NEW pc \in Pcs, NEW out \in {"ok", "empty", "error"},
         Ends(o, pc, out)
  PROVE  Moved(o, pc, out, op[o].base)
<1>1. op[o] \in Operation
  OBVIOUS
<1>2. [op[o] EXCEPT !.pc = pc, !.out = out] \in Operation
  BY <1>1 DEF Operation, Pcs
<1> QED BY <1>1, <1>2 DEF Ends, Moved, Operation

LEMMA OverMoves ==
  ASSUME op \in [Ops -> Operation], NEW o \in Ops, NEW out \in {"ok", "empty", "error"}, Over(o, out)
  PROVE  Moved(o, "returned", out, op[o].base)
<1>1. "returned" \in Pcs
  BY DEF Pcs
<1>2. Ends(o, "returned", out)
  BY DEF Over, Ends
<1> QED BY <1>1, <1>2, OutMoves

\* Where every action takes its operation.
LEMMA Before ==
  ASSUME TypeOK, NEW o \in Ops
  PROVE  /\ Start(o) => Moved(o, "ensure", op[o].out, op[o].base)
         /\ Ensure(o) => Moved(o, "check", op[o].out, op[o].base) \/ Moved(o, "create", op[o].out, op[o].base)
         /\ Create(o) => Moved(o, "check", op[o].out, op[o].base)
         /\ Check(o) => /\ Chain # <<>> => Moved(o, "ready", op[o].out, op[o].base)
                        /\ Chain = <<>> => Moved(o, "system", op[o].out, op[o].base)
         /\ Prompt(o) => Moved(o, "prompted", op[o].out, op[o].base)
         /\ CloseSystem(o) => Moved(o, "ready", op[o].out, op[o].base)
         /\ Refuse(o) \/ PromptFails(o) \/ RunFails(o) => Moved(o, "returned", "error", op[o].base)
<1>0. op \in [Ops -> Operation]
  BY DEF TypeOK
<1>1. \A pc \in Pcs : Goto(o, pc) => Moved(o, pc, op[o].out, op[o].base)
  BY <1>0, GotoMoves
<1>2. Over(o, "error") => Moved(o, "returned", "error", op[o].base)
  BY <1>0, OverMoves
<1>3. Start(o) => Moved(o, "ensure", op[o].out, op[o].base)
  BY <1>1 DEF Start, Pcs
<1>4. Ensure(o) => Moved(o, "check", op[o].out, op[o].base) \/ Moved(o, "create", op[o].out, op[o].base)
  BY <1>1 DEF Ensure, Pcs
<1>5. Create(o) => Moved(o, "check", op[o].out, op[o].base)
  BY <1>1 DEF Create, Pcs
<1>6. Check(o) => /\ Chain # <<>> => Moved(o, "ready", op[o].out, op[o].base)
                  /\ Chain = <<>> => Moved(o, "system", op[o].out, op[o].base)
  BY <1>1 DEF Check, Pcs, Chain
<1>7. Prompt(o) => Moved(o, "prompted", op[o].out, op[o].base)
  BY <1>1 DEF Prompt, Pcs
<1>8. CloseSystem(o) => Moved(o, "ready", op[o].out, op[o].base)
  BY <1>1 DEF CloseSystem, Pcs
<1>9. Refuse(o) \/ PromptFails(o) \/ RunFails(o) => Moved(o, "returned", "error", op[o].base)
  BY <1>2 DEF Refuse, PromptFails, RunFails
<1> QED BY <1>3, <1>4, <1>5, <1>6, <1>7, <1>8, <1>9

LEMMA After ==
  ASSUME TypeOK, NEW o \in Ops
  PROVE  /\ Mixin(o) => Moved(o, "ran", "ok", op[o].base)
         /\ Run(o) => Moved(o, "asking", op[o].out, op[o].base)
         /\ Calls(o) => Moved(o, "tools", op[o].out, op[o].base)
         /\ Results(o) => Moved(o, "asking", op[o].out, op[o].base)
         /\ Answer(o) => Moved(o, "ran", "ok", op[o].base) \/ Moved(o, "ran", "error", op[o].base)
         /\ RunEnds(o) => Moved(o, "ran", "error", op[o].base)
         /\ Interrupt(o) => Moved(o, "ran", "empty", op[o].base) \/ Moved(o, "ran", "error", op[o].base)
         /\ Return(o) => Moved(o, "returned", op[o].out, op[o].base)
         /\ Die(o) => Moved(o, "dead", op[o].out, op[o].base)
<1>0. op \in [Ops -> Operation] /\ op[o] \in Operation
  BY DEF TypeOK
<1>1. \A pc \in Pcs : Goto(o, pc) => Moved(o, pc, op[o].out, op[o].base)
  BY <1>0, GotoMoves
<1>2. \A out \in {"ok", "empty", "error"} :
        op' = [op EXCEPT ![o].pc = "ran", ![o].out = out] => Moved(o, "ran", out, op[o].base)
  <2> SUFFICES ASSUME NEW out \in {"ok", "empty", "error"}, op' = [op EXCEPT ![o].pc = "ran", ![o].out = out]
               PROVE  Moved(o, "ran", out, op[o].base)
    OBVIOUS
  <2>1. "ran" \in Pcs
    BY DEF Pcs
  <2>2. Ends(o, "ran", out)
    BY <1>0 DEF Ends
  <2> QED BY <1>0, <2>1, <2>2, OutMoves
<1>3. Mixin(o) => Moved(o, "ran", "ok", op[o].base)
  BY <1>2 DEF Mixin
<1>4. Run(o) => Moved(o, "asking", op[o].out, op[o].base)
  BY <1>1 DEF Run, Pcs
<1>5. ASSUME Calls(o) PROVE Moved(o, "tools", op[o].out, op[o].base)
  <2>1. /\ op' = [op EXCEPT ![o] = [op[o] EXCEPT !.pc = "tools", !.turn = op[o].turn + 1]]
        /\ op[o].turn < MaxToolTurns
    BY <1>5 DEF Calls
  <2>2. op[o].turn + 1 \in 0..MaxToolTurns
    BY <1>0, <2>1, Numbers DEF Operation
  <2>3. [op[o] EXCEPT !.pc = "tools", !.turn = op[o].turn + 1] \in Operation
    BY <1>0, <2>2 DEF Operation
  <2> QED BY <1>0, <2>1, <2>3 DEF Moved, Operation
<1>6. Results(o) => Moved(o, "asking", op[o].out, op[o].base)
  BY <1>1 DEF Results, Pcs
<1>7. Answer(o) => Moved(o, "ran", "ok", op[o].base) \/ Moved(o, "ran", "error", op[o].base)
  BY <1>2 DEF Answer
<1>8. RunEnds(o) => Moved(o, "ran", "error", op[o].base)
  BY <1>2 DEF RunEnds
<1>9. Return(o) => Moved(o, "returned", op[o].out, op[o].base)
  BY <1>1 DEF Return, Pcs
<1>10. Die(o) => Moved(o, "dead", op[o].out, op[o].base)
  BY <1>1 DEF Die, Pcs
<1>11. Interrupt(o) => Moved(o, "ran", "empty", op[o].base) \/ Moved(o, "ran", "error", op[o].base)
  BY <1>2 DEF Interrupt
<1> QED BY <1>3, <1>4, <1>5, <1>6, <1>7, <1>8, <1>9, <1>10, <1>11

LEMMA Branching ==
  ASSUME TypeOK, Ref!RefInv, NEW o \in Ops
  PROVE  /\ ReadHead(o) => Moved(o, "branch", op[o].out, Chain)
         /\ AskBranch(o) => Moved(o, "judging", op[o].out, op[o].base)
         /\ Judge(o) => Moved(o, "returned", "ok", op[o].base) \/ Moved(o, "returned", "error", op[o].base)
         /\ BranchFails(o) => Moved(o, "returned", "error", op[o].base)
<1>0. op \in [Ops -> Operation] /\ op[o] \in Operation /\ Chain \in Seq(Entry)
  BY RefTypes DEF TypeOK
<1>1. ASSUME ReadHead(o) PROVE Moved(o, "branch", op[o].out, Chain)
  <2>1. op' = [op EXCEPT ![o] = [op[o] EXCEPT !.pc = "branch", !.base = Chain]]
    BY <1>1 DEF ReadHead, Chain
  <2>2. [op[o] EXCEPT !.pc = "branch", !.base = Chain] \in Operation
    BY <1>0 DEF Operation
  <2> QED BY <1>0, <2>1, <2>2 DEF Moved, Operation
<1>2. AskBranch(o) => Moved(o, "judging", op[o].out, op[o].base)
  BY <1>0, GotoMoves DEF AskBranch, Pcs
<1>3. \A out \in {"ok", "error"} : Over(o, out) => Moved(o, "returned", out, op[o].base)
  BY <1>0, OverMoves
<1> QED BY <1>1, <1>2, <1>3 DEF Judge, BranchFails

\* The actions that leave the operations where they are.
LEMMA Resting ==
  ASSUME NEW o \in Ops
  PROVE  LeaseRef(o) \/ Renew(o) \/ CloseMain(o) => op' = op
  BY DEF LeaseRef, Renew, CloseMain

LEMMA CloseMoves ==
  ASSUME NEW o \in Ops, CloseMain(o)
  PROVE  /\ At(o, "ran") \/ At(o, "returned")
         /\ Released(Own(o)) /\ UNCHANGED <<op, refused, loose>>
  BY DEF CloseMain, Released, At

-----------------------------------------------------------------------------
(* Places *)

\* A step of o leaves the leases of the others alone, and the history grows.
Touches(o) == \A q \in Runners : q # Sys(o) /\ q # Own(o) => run'[q] = run[q]
Grows == loose \subseteq loose' /\ abandoned \subseteq abandoned' /\ lapsed \subseteq lapsed'

Placed(o) == Place(o)' /\ Sort(o)' /\ Touches(o) /\ Grows

LEMMA OpTypes ==
  ASSUME TypeOK
  PROVE  /\ op \in [Ops -> Operation]
         /\ \A o \in Ops : op[o] \in Operation /\ op[o].pc \in Pcs /\ op[o].base \in Seq(Entry)
                           /\ op[o].out \in {"none", "ok", "empty", "error"}
  BY DEF TypeOK, Operation, Pcs

\* The actions before the work begins that leave all leases alone.
LEMMA PlaceBefore ==
  ASSUME Base, NEW o \in Ops, Place(o), Sort(o),
         Start(o) \/ Ensure(o) \/ Create(o) \/ Check(o) \/ Refuse(o)
  PROVE  Placed(o)
<1>0. /\ Sys(o) \in Runners /\ Own(o) \in Runners
      /\ TypeOK /\ Ref!RefInv
  BY Names DEF Base
<1>1. run' = run /\ lapsed' = lapsed
  BY <1>0, LeaseMoves DEF Start, Ensure, Create, Check, Refuse, refVars
<1>2. loose' = loose /\ abandoned' = abandoned
  BY DEF Start, Ensure, Create, Check, Refuse, History
<1>3. Touches(o) /\ Grows
  BY <1>1, <1>2 DEF Touches, Grows
<1>4. CASE Start(o)
  <2>1. op[o].pc = "new" /\ Moved(o, "ensure", op[o].out, op[o].base)
    BY <1>0, <1>4, Before DEF Start, At
  <2> QED BY <1>1, <1>3, <2>1 DEF Placed, Place, Sort, Moved, At
<1>5. CASE Ensure(o)
  <2>1. op[o].pc = "ensure" /\ (Moved(o, "check", op[o].out, op[o].base) \/ Moved(o, "create", op[o].out, op[o].base))
    BY <1>0, <1>5, Before DEF Ensure, At
  <2> QED BY <1>1, <1>3, <2>1 DEF Placed, Place, Sort, Moved, At
<1>6. CASE Create(o)
  <2>1. op[o].pc = "create" /\ Moved(o, "check", op[o].out, op[o].base)
    BY <1>0, <1>6, Before DEF Create, At
  <2> QED BY <1>1, <1>3, <2>1 DEF Placed, Place, Sort, Moved, At
<1>7. CASE Check(o)
  <2>1. op[o].pc = "check" /\ (Moved(o, "ready", op[o].out, op[o].base) \/ Moved(o, "system", op[o].out, op[o].base))
    BY <1>0, <1>7, Before DEF Check, At
  <2> QED BY <1>1, <1>3, <2>1 DEF Placed, Place, Sort, Moved, At, Idle
<1>8. CASE Refuse(o)
  <2>1. /\ Moved(o, "returned", "error", op[o].base)
        /\ \/ At(o, "system") /\ run[Sys(o)].pc = "new"
           \/ At(o, "ready") /\ run[Own(o)].pc = "new"
    BY <1>0, <1>8, Before DEF Refuse, At, Wants
  <2> QED BY <1>1, <1>3, <2>1 DEF Placed, Place, Sort, Moved, At, Idle
<1> QED BY <1>4, <1>5, <1>6, <1>7, <1>8

LEMMA ReleasedMoves ==
  ASSUME Ref!RefInv, NEW r \in Runners, Released(r)
  PROVE  /\ run[r].pc \in {"leased", "open"} /\ run'[r].pc = "closed" /\ run'[r].hash = run[r].hash
         /\ Only(r) /\ lapsed' = lapsed /\ Chain' = Chain
         /\ abandoned \subseteq abandoned' /\ (abandoned' = abandoned \/ abandoned' = abandoned \cup {r})
         /\ ref'[Main].by = NoRunner \/ (ref'[Main].by = ref[Main].by /\ (ref[Main].by # r \/ r \in abandoned'))
<1>1. CASE Ref!Close(r) /\ abandoned' = abandoned
  BY <1>1, LeaseMoves
<1>2. CASE Ref!Abandon(r) /\ abandoned' = abandoned \cup {r}
  BY <1>2, LeaseMoves
<1> QED BY <1>1, <1>2 DEF Released

\* A lease is begun or given up.
LEMMA PlaceLease ==
  ASSUME Base, NEW o \in Ops, Place(o), Sort(o),
         LeaseRef(o) \/ CloseSystem(o) \/ PromptFails(o) \/ RunFails(o) \/ CloseMain(o) \/ Renew(o)
  PROVE  Placed(o)
<1>0. /\ Sys(o) \in Runners /\ Own(o) \in Runners /\ Sys(o) # Own(o)
      /\ TypeOK /\ Ref!RefInv
  BY Names DEF Base
<1>1. CASE LeaseRef(o)
  <2>1. op' = op /\ loose' = loose /\ abandoned' = abandoned
    BY <1>1 DEF LeaseRef, History
  <2>2. CASE At(o, "system")
    <3>1. Ref!Acquire(Sys(o)) \/ Ref!Open(Sys(o))
      BY <1>1, <2>2 DEF LeaseRef, Leasing, Wants
    <3>2. /\ run'[Sys(o)].pc \in {"leased", "open"} /\ run'[Own(o)] = run[Own(o)] /\ Only(Sys(o)) /\ lapsed' = lapsed
      BY <1>0, <3>1, LeaseMoves DEF Only
    <3> QED BY <1>0, <2>1, <2>2, <3>2 DEF Placed, Place, Sort, At, Idle, Touches, Grows, Only
  <2>3. CASE At(o, "ready") /\ op[o].kind # "condition"
    <3>1. Ref!Acquire(Own(o)) \/ Ref!Open(Own(o))
      BY <1>1, <2>3 DEF LeaseRef, Leasing, Wants, At
    <3>2. /\ run'[Own(o)].pc \in {"leased", "open"} /\ run'[Sys(o)] = run[Sys(o)] /\ Only(Own(o)) /\ lapsed' = lapsed
      BY <1>0, <3>1, LeaseMoves DEF Only
    <3> QED BY <1>0, <2>1, <2>3, <3>2 DEF Placed, Place, Sort, At, Idle, Touches, Grows, Only
  <2> QED BY <1>1, <2>2, <2>3 DEF LeaseRef
<1>2. CASE CloseSystem(o)
  <2>1. At(o, "prompted") /\ Released(Sys(o)) /\ loose' = loose /\ Moved(o, "ready", op[o].out, op[o].base)
    BY <1>0, <1>2, Before DEF CloseSystem
  <2>2. /\ run'[Sys(o)].pc = "closed" /\ run'[Own(o)] = run[Own(o)] /\ Only(Sys(o)) /\ lapsed' = lapsed
        /\ abandoned \subseteq abandoned'
    BY <1>0, <2>1, ReleasedMoves DEF Only
  <2> QED BY <1>0, <2>1, <2>2 DEF Placed, Place, Sort, At, Idle, Touches, Grows, Only, Moved
<1>3. CASE PromptFails(o)
  <2>1. At(o, "system") /\ Released(Sys(o)) /\ loose' = loose /\ Moved(o, "returned", "error", op[o].base)
    BY <1>0, <1>3, Before DEF PromptFails
  <2>2. /\ run'[Sys(o)].pc = "closed" /\ run'[Own(o)] = run[Own(o)] /\ Only(Sys(o)) /\ lapsed' = lapsed
        /\ abandoned \subseteq abandoned'
    BY <1>0, <2>1, ReleasedMoves DEF Only
  <2> QED BY <1>0, <2>1, <2>2 DEF Placed, Place, Sort, At, Idle, Touches, Grows, Only, Moved
<1>4. CASE RunFails(o)
  <2>1. At(o, "ready") /\ run[Own(o)].pc = "open" /\ Released(Own(o)) /\ loose' = loose
        /\ Moved(o, "returned", "error", op[o].base)
    BY <1>0, <1>4, Before DEF RunFails
  <2>2. /\ run'[Own(o)].pc = "closed" /\ run'[Sys(o)] = run[Sys(o)] /\ Only(Own(o)) /\ lapsed' = lapsed
        /\ abandoned \subseteq abandoned'
    BY <1>0, <2>1, ReleasedMoves DEF Only
  <2> QED BY <1>0, <2>1, <2>2 DEF Placed, Place, Sort, At, Idle, Touches, Grows, Only, Moved
<1>5. CASE CloseMain(o)
  <2>1. (At(o, "ran") \/ At(o, "returned")) /\ Released(Own(o)) /\ loose' = loose /\ op' = op
    BY <1>5, CloseMoves
  <2>2. /\ run[Own(o)].pc \in {"leased", "open"} /\ run'[Own(o)].pc = "closed" /\ run'[Sys(o)] = run[Sys(o)]
        /\ Only(Own(o)) /\ lapsed' = lapsed /\ abandoned \subseteq abandoned'
    BY <1>0, <2>1, ReleasedMoves DEF Only
  <2> QED BY <1>0, <2>1, <2>2 DEF Placed, Place, Sort, At, Idle, Touches, Grows, Only
<1>6. CASE Renew(o)
  <2>1. Ref!Renew(Own(o)) /\ op' = op /\ loose' = loose /\ abandoned' = abandoned
    BY <1>6 DEF Renew, History
  <2>2. run' = run /\ lapsed' = lapsed
    BY <1>0, <2>1, LeaseMoves
  <2> QED BY <2>1, <2>2 DEF Placed, Place, Sort, At, Idle, Touches, Grows
<1> QED BY <1>1, <1>2, <1>3, <1>4, <1>5, <1>6

\* An append leaves every lease as it is.
LEMMA AppendRests ==
  ASSUME Ref!RefInv, NEW r \in Runners, NEW m \in Entry, Ref!AppendMessage(r, m)
  PROVE  (\A q \in Runners : run'[q].pc = run[q].pc) /\ Only(r) /\ lapsed' = lapsed /\ run[r].pc = "open"
  BY AppendMoves DEF Only

\* What is said in a run, and by whom.
Speaks(o) == Mixin(o) \/ Run(o) \/ Calls(o) \/ Results(o) \/ Answer(o)

Says(o, role) ==
  /\ Ref!AppendMessage(Own(o), Say(o, role)) /\ Say(o, role) \in Entry
  /\ UNCHANGED <<refused, abandoned, loose>>
  /\ \/ role = "user" /\ op[o].kind = "mixin" /\ At(o, "ready") /\ Moved(o, "ran", "ok", op[o].base)
     \/ role = "user" /\ op[o].kind = "exec" /\ At(o, "ready") /\ Moved(o, "asking", op[o].out, op[o].base)
     \/ role = "calls" /\ At(o, "asking") /\ Moved(o, "tools", op[o].out, op[o].base)
     \/ role = "results" /\ At(o, "tools") /\ Moved(o, "asking", op[o].out, op[o].base)
     \/ /\ role = "answer" /\ At(o, "asking")
        /\ Moved(o, "ran", "ok", op[o].base) \/ Moved(o, "ran", "error", op[o].base)

Roles == {"user", "calls", "results", "answer"}

LEMMA Speech ==
  ASSUME TypeOK, NEW o \in Ops, Speaks(o)
  PROVE  \E role \in Roles : Says(o, role)
<1>0. \A role \in Roles : Say(o, role) \in Entry
  BY Entries DEF Roles
<1>1. CASE Mixin(o)
  <2>1. Says(o, "user")
    BY <1>0, <1>1, After DEF Mixin, Says, History, Roles
  <2> QED BY <2>1 DEF Roles
<1>2. CASE Run(o)
  <2>1. Says(o, "user")
    BY <1>0, <1>2, After DEF Run, Says, History, Roles
  <2> QED BY <2>1 DEF Roles
<1>3. CASE Calls(o)
  <2>1. Says(o, "calls")
    BY <1>0, <1>3, After DEF Calls, Says, History, Roles
  <2> QED BY <2>1 DEF Roles
<1>4. CASE Results(o)
  <2>1. Says(o, "results")
    BY <1>0, <1>4, After DEF Results, Says, History, Roles
  <2> QED BY <2>1 DEF Roles
<1>5. CASE Answer(o)
  <2>1. Says(o, "answer")
    BY <1>0, <1>5, After DEF Answer, Says, History, Roles
  <2> QED BY <2>1 DEF Roles
<1> QED BY <1>1, <1>2, <1>3, <1>4, <1>5 DEF Speaks

LEMMA PlaceSpeech ==
  ASSUME Base, NEW o \in Ops, Place(o), Sort(o), Speaks(o)
  PROVE  Placed(o)
<1>0. Own(o) \in Runners /\ Sys(o) \in Runners /\ TypeOK /\ Ref!RefInv
  BY Names DEF Base
<1>1. PICK role \in Roles : Says(o, role)
  BY <1>0, Speech
<1>2. (\A q \in Runners : run'[q].pc = run[q].pc) /\ Only(Own(o)) /\ lapsed' = lapsed /\ run[Own(o)].pc = "open"
  <2>1. Ref!AppendMessage(Own(o), Say(o, role)) /\ Say(o, role) \in Entry
    BY <1>1 DEF Says
  <2> QED BY <1>0, <2>1, AppendRests
<1>3. Touches(o) /\ Grows
  BY <1>1, <1>2 DEF Says, Touches, Grows, Only
<1>4. run'[Own(o)].pc = "open" /\ run'[Sys(o)].pc = run[Sys(o)].pc
  BY <1>0, <1>2
<1>5. /\ At(o, "ready") \/ At(o, "asking") \/ At(o, "tools")
      /\ \/ op[o].kind = "mixin" /\ Moved(o, "ran", "ok", op[o].base)
         \/ (op[o].kind = "exec" \/ At(o, "tools")) /\ Moved(o, "asking", op[o].out, op[o].base)
         \/ At(o, "asking") /\ Moved(o, "tools", op[o].out, op[o].base)
         \/ At(o, "asking") /\ (Moved(o, "ran", "ok", op[o].base) \/ Moved(o, "ran", "error", op[o].base))
  BY <1>1 DEF Says
<1>6. Place(o)'
  BY <1>2, <1>4, <1>5 DEF Place, At, Idle, Moved
<1>7. Sort(o)'
  BY <1>2, <1>4, <1>5 DEF Sort, At, Moved
<1> QED BY <1>3, <1>6, <1>7 DEF Placed

LEMMA PlacePrompt ==
  ASSUME Base, NEW o \in Ops, Place(o), Sort(o), Prompt(o)
  PROVE  Placed(o)
<1>0. Own(o) \in Runners /\ Sys(o) \in Runners /\ TypeOK /\ Ref!RefInv /\ Say(o, "system") \in Entry
  BY Names, Entries DEF Base
<1>1. /\ At(o, "system") /\ run[Sys(o)].pc = "open" /\ Moved(o, "prompted", op[o].out, op[o].base)
      /\ abandoned' = abandoned /\ loose' = loose
  BY <1>0, Before DEF Prompt, History
<1>2. (\A q \in Runners : run'[q].pc = run[q].pc) /\ Only(Sys(o)) /\ lapsed' = lapsed
  <2>1. CASE run[Sys(o)].hash = <<>>
    BY <1>0, <2>1, AppendRests DEF Prompt
  <2>2. CASE run[Sys(o)].hash # <<>>
    BY <2>2 DEF Prompt, refVars, Only
  <2> QED BY <2>1, <2>2
<1>3. run'[Sys(o)].pc = "open" /\ run'[Own(o)].pc = run[Own(o)].pc
  BY <1>0, <1>1, <1>2
<1> QED BY <1>1, <1>2, <1>3 DEF Placed, Place, Sort, At, Idle, Moved, Touches, Grows, Only

LEMMA PlaceEnd ==
  ASSUME Base, NEW o \in Ops, Place(o), Sort(o),
         RunEnds(o) \/ Interrupt(o) \/ Return(o) \/ ReadHead(o) \/ AskBranch(o) \/ Judge(o) \/ BranchFails(o)
  PROVE  Placed(o)
<1>0. TypeOK /\ Ref!RefInv
  BY DEF Base
<1>1. run' = run /\ lapsed' = lapsed /\ loose \subseteq loose' /\ abandoned' = abandoned
  BY DEF RunEnds, Interrupt, Return, ReadHead, AskBranch, Judge, BranchFails, Store, refVars, History
<1>2. Touches(o) /\ Grows
  BY <1>1 DEF Touches, Grows
<1>3. CASE RunEnds(o)
  <2>1. op[o].pc \in {"asking", "tools"} /\ Moved(o, "ran", "error", op[o].base)
    BY <1>0, <1>3, After DEF RunEnds
  <2> QED BY <1>1, <1>2, <2>1 DEF Placed, Place, Sort, At, Idle, Moved
<1>8. CASE Interrupt(o)
  <2>1. At(o, "asking") /\ (Moved(o, "ran", "empty", op[o].base) \/ Moved(o, "ran", "error", op[o].base))
    BY <1>0, <1>8, After DEF Interrupt
  <2> QED BY <1>1, <1>2, <2>1 DEF Placed, Place, Sort, At, Idle, Moved
<1>4. CASE Return(o)
  <2>1. At(o, "ran") /\ Moved(o, "returned", op[o].out, op[o].base) /\ (run[Own(o)].pc = "open" => o \in loose')
    BY <1>0, <1>4, After DEF Return
  <2> QED BY <1>1, <1>2, <2>1 DEF Placed, Place, Sort, At, Idle, Moved
<1>5. CASE ReadHead(o)
  <2>1. At(o, "ready") /\ op[o].kind = "condition" /\ Moved(o, "branch", op[o].out, Chain)
    BY <1>0, <1>5, Branching DEF ReadHead
  <2> QED BY <1>1, <1>2, <2>1 DEF Placed, Place, Sort, At, Idle, Moved
<1>6. CASE AskBranch(o)
  <2>1. At(o, "branch") /\ Moved(o, "judging", op[o].out, op[o].base)
    BY <1>0, <1>6, Branching DEF AskBranch
  <2> QED BY <1>1, <1>2, <2>1 DEF Placed, Place, Sort, At, Idle, Moved
<1>7. CASE Judge(o) \/ BranchFails(o)
  <2>1. /\ op[o].pc \in {"branch", "judging"}
        /\ Moved(o, "returned", "ok", op[o].base) \/ Moved(o, "returned", "error", op[o].base)
    BY <1>0, <1>7, Branching DEF Judge, BranchFails, At
  <2> QED BY <1>1, <1>2, <2>1 DEF Placed, Place, Sort, At, Idle, Moved
<1> QED BY <1>3, <1>4, <1>5, <1>6, <1>7, <1>8

LEMMA PlaceDie ==
  ASSUME Base, NEW o \in Ops, Place(o), Sort(o), Die(o)
  PROVE  Placed(o)
<1>0. /\ Own(o) \in Runners /\ Sys(o) \in Runners /\ Sys(o) # Own(o) /\ TypeOK /\ Ref!RefInv
      /\ run[Own(o)].pc \in {"new", "leased", "open", "closed"} /\ run[Sys(o)].pc \in {"new", "leased", "open", "closed"}
      /\ op[o].pc \in Pcs
  BY Names, RefTypes, OpTypes DEF Base
<1>1. /\ Moved(o, "dead", op[o].out, op[o].base) /\ loose' = loose
      /\ op[o].pc \notin {"new", "returned", "dead"}
  BY <1>0, After DEF Die
<1>2. Idle(Sys(o)) \/ Idle(Own(o))
  BY <1>0, <1>1 DEF Place, At, Idle, Pcs
<1>3. CASE Holding(o) = {}
  <2>1. run' = run /\ lapsed' = lapsed /\ abandoned' = abandoned
    BY <1>3 DEF Die, refVars
  <2>2. Idle(Sys(o)) /\ Idle(Own(o))
    BY <1>0, <1>3 DEF Holding, Idle
  <2> QED BY <1>1, <2>1, <2>2 DEF Placed, Place, Sort, At, Idle, Moved, Touches, Grows
<1>4. CASE Holding(o) # {}
  <2>1. PICK r \in Holding(o) : Ref!Abandon(r) /\ abandoned' = abandoned \cup {r}
    BY <1>4 DEF Die
  <2>2. r \in {Sys(o), Own(o)} /\ r \in Runners /\ run[r].pc \in {"leased", "open"}
    BY <1>0, <2>1 DEF Holding
  <2>3. run'[r].pc = "closed" /\ Only(r) /\ lapsed' = lapsed
    BY <1>0, <2>1, <2>2, LeaseMoves
  <2>4. Idle(Sys(o))' /\ Idle(Own(o))' /\ (run'[Own(o)].pc # "new" => run[Own(o)].pc # "new")
    BY <1>0, <1>2, <2>2, <2>3 DEF Idle, Only
  <2>5. Touches(o) /\ Grows
    BY <1>0, <1>1, <2>1, <2>2, <2>3 DEF Touches, Grows, Only
  <2> QED BY <1>1, <2>4, <2>5 DEF Placed, Place, Sort, At, Idle, Moved
<1> QED BY <1>3, <1>4

-----------------------------------------------------------------------------
(* Steps *)

Prelude(o) == Start(o) \/ Ensure(o) \/ Create(o) \/ Check(o) \/ Refuse(o)
Leases(o) == LeaseRef(o) \/ CloseSystem(o) \/ PromptFails(o) \/ RunFails(o) \/ CloseMain(o) \/ Renew(o)
Ending(o) == RunEnds(o) \/ Interrupt(o) \/ Return(o) \/ ReadHead(o) \/ AskBranch(o) \/ Judge(o) \/ BranchFails(o)

Acts(o) == Prelude(o) \/ Leases(o) \/ Speaks(o) \/ Prompt(o) \/ Ending(o) \/ Die(o)

Time == Ref!Tick /\ UNCHANGED <<op, History>>

LEMMA StepCases ==
  ASSUME [Next]_vars
  PROVE  (\E o \in Ops : Acts(o)) \/ Time \/ UNCHANGED vars
  BY DEF Next, Acts, Prelude, Leases, Speaks, Ending, Time

LEMMA ActPlaced ==
  ASSUME Base, NEW o \in Ops, Place(o), Sort(o), Acts(o)
  PROVE  Placed(o)
<1>1. CASE Prelude(o)
  BY <1>1, PlaceBefore DEF Prelude
<1>2. CASE Leases(o)
  BY <1>2, PlaceLease DEF Leases
<1>3. CASE Speaks(o)
  BY <1>3, PlaceSpeech
<1>4. CASE Prompt(o)
  BY <1>4, PlacePrompt
<1>5. CASE Ending(o)
  BY <1>5, PlaceEnd DEF Ending
<1>6. CASE Die(o)
  BY <1>6, PlaceDie
<1> QED BY <1>1, <1>2, <1>3, <1>4, <1>5, <1>6 DEF Acts

\* An action of o is about o only, and o ends once.
LEMMA ActMoves ==
  ASSUME Base, NEW o \in Ops, Acts(o)
  PROVE  /\ op' \in [Ops -> Operation]
         /\ \A p \in Ops : p # o => op'[p] = op[p]
         /\ op'[o].kind = op[o].kind /\ op'[o].caller = op[o].caller
         /\ op' = op \/ Start(o) \/ op[o].pc \notin {"new", "returned", "dead"}
         /\ op'[o].base = op[o].base \/ (ReadHead(o) /\ op'[o].base = Chain)
         /\ op'[o].out = op[o].out \/ op[o].pc \notin {"new", "returned", "dead", "ran"}
<1>0. TypeOK /\ Ref!RefInv /\ op \in [Ops -> Operation]
  BY DEF Base, TypeOK
<1> DEFINE Goal ==
         /\ op' \in [Ops -> Operation]
         /\ \A p \in Ops : p # o => op'[p] = op[p]
         /\ op'[o].kind = op[o].kind /\ op'[o].caller = op[o].caller
         /\ op' = op \/ Start(o) \/ op[o].pc \notin {"new", "returned", "dead"}
         /\ op'[o].base = op[o].base \/ (ReadHead(o) /\ op'[o].base = Chain)
         /\ op'[o].out = op[o].out \/ op[o].pc \notin {"new", "returned", "dead", "ran"}
<1>1. CASE Prelude(o)
  <2>1. CASE Start(o)
    BY <1>0, <2>1, Before DEF Moved
  <2>2. CASE Ensure(o)
    BY <1>0, <2>2, Before DEF Ensure, Moved, At
  <2>3. CASE Create(o)
    BY <1>0, <2>3, Before DEF Create, Moved, At
  <2>4. CASE Check(o)
    BY <1>0, <2>4, Before DEF Check, Moved, At
  <2>5. CASE Refuse(o)
    BY <1>0, <2>5, Before DEF Refuse, Moved, At
  <2> QED BY <1>1, <2>1, <2>2, <2>3, <2>4, <2>5 DEF Prelude
<1>2. CASE Leases(o)
  <2>1. CASE LeaseRef(o) \/ CloseMain(o) \/ Renew(o)
    BY <1>0, <2>1, Resting
  <2>2. CASE CloseSystem(o)
    BY <1>0, <2>2, Before DEF CloseSystem, Moved, At
  <2>3. CASE PromptFails(o)
    BY <1>0, <2>3, Before DEF PromptFails, Moved, At
  <2>4. CASE RunFails(o)
    BY <1>0, <2>4, Before DEF RunFails, Moved, At
  <2> QED BY <1>2, <2>1, <2>2, <2>3, <2>4 DEF Leases
<1>3. CASE Speaks(o)
  <2>1. PICK role \in Roles : Says(o, role)
    BY <1>0, <1>3, Speech
  <2> QED BY <2>1 DEF Says, Moved, At
<1>4. CASE Prompt(o)
  BY <1>0, <1>4, Before DEF Prompt, Moved, At
<1>5. CASE Ending(o)
  <2>1. CASE RunEnds(o)
    <3>1. Moved(o, "ran", "error", op[o].base)
      BY <1>0, <2>1, After
    <3>2. op[o].pc \in {"asking", "tools"}
      BY <2>1 DEF RunEnds
    <3> QED BY <3>1, <3>2 DEF Moved
  <2>2. CASE Return(o)
    <3>1. At(o, "ran") /\ Moved(o, "returned", op[o].out, op[o].base)
      BY <1>0, <2>2, After DEF Return
    <3> QED BY <3>1 DEF Moved, At
  <2>3. CASE ReadHead(o)
    <3>1. Moved(o, "branch", op[o].out, Chain)
      BY <1>0, <2>3, Branching
    <3>2. At(o, "ready")
      BY <2>3 DEF ReadHead
    <3> QED BY <2>3, <3>1, <3>2 DEF Moved, At
  <2>4. CASE AskBranch(o)
    BY <1>0, <2>4, Branching DEF AskBranch, Moved, At
  <2>5. CASE Judge(o)
    BY <1>0, <2>5, Branching DEF Judge, Moved, At
  <2>6. CASE BranchFails(o)
    BY <1>0, <2>6, Branching DEF BranchFails, Moved, At
  <2>7. CASE Interrupt(o)
    <3>1. Moved(o, "ran", "empty", op[o].base) \/ Moved(o, "ran", "error", op[o].base)
      BY <1>0, <2>7, After
    <3>2. At(o, "asking")
      BY <2>7 DEF Interrupt
    <3> QED BY <3>1, <3>2 DEF Moved, At
  <2> QED BY <1>5, <2>1, <2>2, <2>3, <2>4, <2>5, <2>6, <2>7 DEF Ending
<1>6. CASE Die(o)
  BY <1>0, <1>6, After DEF Die, Moved
<1> QED BY <1>1, <1>2, <1>3, <1>4, <1>5, <1>6 DEF Acts

\* The conversation is left alone, or it grows by one entry of o.
Still ==
  /\ Chain' = Chain
  /\ \A q \in Runners : \/ run'[q].hash = run[q].hash
                        \/ run[q].pc = "leased" /\ run'[q].pc = "open" /\ run'[q].hash = Chain

Prompts(o) ==
  run[Sys(o)].hash = <<>> /\ Ref!AppendMessage(Sys(o), Say(o, "system")) /\ Say(o, "system") \in Entry

LEMMA ActSays ==
  ASSUME Base, NEW o \in Ops, Acts(o)
  PROVE  \/ Still
         \/ Prompt(o) /\ Prompts(o)
         \/ \E role \in Roles : Says(o, role)
<1>0. TypeOK /\ Ref!RefInv /\ Sys(o) \in Runners /\ Own(o) \in Runners /\ Say(o, "system") \in Entry
  BY Names, Entries DEF Base
<1>1. CASE Prelude(o)
  <2>1. UNCHANGED refVars \/ Ref!CreateRef(Main)
    BY <1>1 DEF Prelude, Start, Ensure, Create, Check, Refuse
  <2> QED BY <1>0, <2>1, LeaseMoves DEF refVars, Still, Chain
<1>2. ASSUME NEW r \in Runners, Ref!Acquire(r) \/ Ref!Open(r) \/ Ref!Renew(r) \/ Ref!Abandon(r) \/ Released(r)
      PROVE  Still
  BY <1>0, <1>2, LeaseMoves, ReleasedMoves DEF Still, Only
<1>3. CASE Leases(o)
  BY <1>0, <1>2, <1>3, CloseMoves DEF Leases, LeaseRef, CloseSystem, PromptFails, RunFails, Renew, Leasing, Wants
<1>4. CASE Speaks(o)
  BY <1>0, <1>4, Speech
<1>5. CASE Prompt(o)
  BY <1>0, <1>5 DEF Prompt, Prompts, refVars, Still, Chain
<1>6. CASE Ending(o)
  BY <1>6 DEF Ending, RunEnds, Interrupt, Return, ReadHead, AskBranch, Judge, BranchFails, Store, refVars, Still, Chain
<1>7. CASE Die(o)
  <2>1. UNCHANGED refVars \/ \E r \in {Sys(o), Own(o)} : Ref!Abandon(r)
    BY <1>7 DEF Die, Holding
  <2>2. CASE UNCHANGED refVars
    BY <2>2 DEF refVars, Still, Chain
  <2> QED BY <1>0, <1>2, <2>1, <2>2
<1> QED BY <1>1, <1>3, <1>4, <1>5, <1>6, <1>7 DEF Acts

\* For the invariant of the refs.
LEMMA ActRefs ==
  ASSUME Base, NEW o \in Ops, Acts(o)
  PROVE  LeaseStep \/ AppendStep \/ StoreStep \/ UNCHANGED refVars
<1>0. TypeOK /\ Ref!RefInv /\ Sys(o) \in Runners /\ Own(o) \in Runners /\ Say(o, "system") \in Entry
  BY Names, Entries DEF Base
<1>1. CASE Prelude(o)
  BY <1>1 DEF Prelude, Start, Ensure, Create, Check, Refuse, LeaseStep
<1>2. ASSUME NEW r \in Runners, Ref!Acquire(r) \/ Ref!Open(r) \/ Ref!Renew(r) \/ Ref!Abandon(r) \/ Released(r)
      PROVE  LeaseStep
  BY <1>2 DEF LeaseStep, Released
<1>3. CASE Leases(o)
  BY <1>0, <1>2, <1>3, CloseMoves DEF Leases, LeaseRef, CloseSystem, PromptFails, RunFails, Renew, Leasing, Wants
<1>4. CASE Speaks(o)
  BY <1>0, <1>4, Speech DEF Says, AppendStep
<1>5. CASE Prompt(o)
  BY <1>0, <1>5 DEF Prompt, AppendStep
<1>6. CASE Ending(o)
  <2>1. Question(o) \in Seq(Entry) /\ Append(Question(o), Say(o, "answer")) \in Seq(Entry)
    <3>1. op[o].base \in Seq(Entry) /\ Say(o, "user") \in Entry /\ Say(o, "answer") \in Entry
      BY <1>0, OpTypes, Entries
    <3>2. Question(o) \in Seq(Entry)
      BY <3>1 DEF Question
    <3> QED BY <3>1, <3>2
  <2>2. UNCHANGED refVars \/ Store(Question(o)) \/ Store(Append(Question(o), Say(o, "answer")))
    BY <1>6 DEF Ending, RunEnds, Interrupt, Return, ReadHead, AskBranch, Judge, BranchFails
  <2> QED BY <2>1, <2>2 DEF StoreStep
<1>7. CASE Die(o)
  <2>1. UNCHANGED refVars \/ \E r \in {Sys(o), Own(o)} : Ref!Abandon(r)
    BY <1>7 DEF Die, Holding
  <2> QED BY <1>0, <1>2, <2>1
<1> QED BY <1>1, <1>3, <1>4, <1>5, <1>6, <1>7 DEF Acts

LEMMA BaseStep ==
  ASSUME Base, \A o \in Ops : Place(o) /\ Sort(o), [Next]_vars
  PROVE  Base'
<1>0. /\ op \in [Ops -> Operation] /\ refused \in [Ops -> Runners \cup {NoRunner}]
      /\ abandoned \subseteq Runners /\ loose \subseteq Ops /\ ref[Main].by \in Runners \cup {NoRunner}
      /\ \A o \in Ops : Sys(o) \in Runners /\ Own(o) \in Runners
  BY RefTypes, Names DEF Base, TypeOK
<1>1. Ref!RefInv'
  <2>1. LeaseStep \/ AppendStep \/ StoreStep \/ UNCHANGED refVars
    BY ActRefs, StepCases DEF Time, LeaseStep, vars, refVars
  <2> QED BY <2>1, RefKept DEF Base
<1>2. op' \in [Ops -> Operation]
  BY <1>0, ActMoves, StepCases DEF Time, vars
<1>3. ASSUME NEW o \in Ops, Acts(o)
      PROVE  /\ refused' \in [Ops -> Runners \cup {NoRunner}]
             /\ abandoned' \subseteq Runners /\ loose' \subseteq Ops
  <2>1. CASE Prelude(o)
    BY <1>0, <2>1 DEF Prelude, Start, Ensure, Create, Check, Refuse, History
  <2>2. ASSUME NEW r \in Runners, Released(r) PROVE abandoned' \subseteq Runners
    BY <1>0, <2>2 DEF Released
  <2>3. CASE Leases(o)
    BY <1>0, <2>2, <2>3, CloseMoves DEF Leases, LeaseRef, CloseSystem, PromptFails, RunFails, Renew, History
  <2>4. CASE Speaks(o) \/ Prompt(o)
    BY <1>0, <2>4 DEF Speaks, Mixin, Run, Calls, Results, Answer, Prompt, History
  <2>5. CASE Ending(o)
    BY <1>0, <2>5 DEF Ending, RunEnds, Interrupt, Return, ReadHead, AskBranch, Judge, BranchFails, History
  <2>6. CASE Die(o)
    BY <1>0, <2>6 DEF Die, Holding
  <2> QED BY <1>3, <2>1, <2>3, <2>4, <2>5, <2>6 DEF Acts
<1>4. /\ refused' \in [Ops -> Runners \cup {NoRunner}]
      /\ abandoned' \subseteq Runners /\ loose' \subseteq Ops
  BY <1>0, <1>3, StepCases DEF Time, vars, History
<1> QED BY <1>1, <1>2, <1>4 DEF Base, TypeOK, Ref!RefInv

\* The parts of the frame: places ...
LEMMA PlacesStep ==
  ASSUME Base, \A o \in Ops : Place(o) /\ Sort(o), [Next]_vars
  PROVE  /\ \A o \in Ops : Place(o)' /\ Sort(o)'
         /\ Grows
<1>1. ASSUME NEW o \in Ops, Acts(o), NEW p \in Ops, p # o
      PROVE  Place(p)' /\ Sort(p)'
  <2>1. Touches(o) /\ Grows /\ op'[p] = op[p]
    BY <1>1, ActPlaced, ActMoves DEF Placed
  <2>2. run'[Sys(p)] = run[Sys(p)] /\ run'[Own(p)] = run[Own(p)]
    <3>1. Sys(p) # Sys(o) /\ Sys(p) # Own(o) /\ Own(p) # Sys(o) /\ Own(p) # Own(o)
      BY <1>1, Names
    <3>2. Sys(p) \in Runners /\ Own(p) \in Runners
      BY Names
    <3> QED BY <2>1, <3>1, <3>2 DEF Touches
  <2>3. Place(p)'
    BY <2>1, <2>2 DEF Place, At, Idle, Grows
  <2>4. Sort(p)'
    BY <2>1, <2>2 DEF Sort, At
  <2> QED BY <2>3, <2>4
<1>2. CASE Time
  <2>1. run' = run /\ lapsed \subseteq lapsed' /\ op' = op /\ loose' = loose /\ abandoned' = abandoned
    BY <1>2, LeaseMoves DEF Base, Time, History
  <2> QED BY <2>1 DEF Place, Sort, At, Idle, Grows
<1>3. CASE UNCHANGED vars
  BY <1>3 DEF vars, refVars, Place, Sort, At, Idle, Grows
<1>4. ASSUME NEW o \in Ops, Acts(o)
      PROVE  (\A p \in Ops : Place(p)' /\ Sort(p)') /\ Grows
  BY <1>1, <1>4, ActPlaced DEF Placed
<1> QED BY <1>2, <1>3, <1>4, StepCases

\* ... the caller's order ...
LEMMA TurnsStep ==
  ASSUME Base, Turns, [Next]_vars
  PROVE  Turns'
<1>1. CASE op' = op
  BY <1>1 DEF Turns, At
<1>2. ASSUME NEW o \in Ops, Acts(o), op' # op
      PROVE  Turns'
  <2>1. /\ \A p \in Ops : p # o => op'[p] = op[p]
        /\ \A p \in Ops : op'[p].caller = op[p].caller
        /\ Start(o) \/ op[o].pc \notin {"new", "returned", "dead"}
    BY <1>2, ActMoves
  <2>2. op[o].pc # "returned"
    BY <2>1 DEF Start, At
  <2> SUFFICES ASSUME NEW q \in Ops, op'[q].pc # "new", NEW p \in 1..q - 1, op[p].caller = op[q].caller
               PROVE  op'[p].pc = "returned"
    BY <2>1, Numbers DEF Turns, At
  <2>3. p \in Ops /\ p # q
    BY Numbers
  <2>4. op[p].pc = "returned"
    <3>1. CASE op[q].pc # "new"
      BY <3>1 DEF Turns, At
    <3>2. CASE op[q].pc = "new"
      <4>1. q = o /\ Start(o)
        BY <2>1, <3>2
      <4> QED BY <4>1 DEF Start, At
    <3> QED BY <3>1, <3>2
  <2> QED BY <2>1, <2>2, <2>3, <2>4
<1>3. op' = op \/ \E o \in Ops : Acts(o)
  BY StepCases DEF Time, vars
<1> QED BY <1>1, <1>2, <1>3

\* ... whom the ref names ...
LEMMA NamedStep ==
  ASSUME Base, Named, [Next]_vars
  PROVE  Named'
<1>0. /\ TypeOK /\ Ref!RefInv /\ \A o \in Ops : Sys(o) \in Runners /\ Own(o) \in Runners /\ Say(o, "system") \in Entry
      /\ ref[Main].by \in Runners \cup {NoRunner} /\ NoRunner \notin Runners
  BY Names, Entries, RefTypes DEF Base
<1>1. ASSUME ref'[Main].by = ref[Main].by, abandoned \subseteq abandoned',
             \A r \in Runners : run[r].pc \in {"leased", "open"} => run'[r].pc \in {"leased", "open"}
      PROVE  Named'
  BY <1>0, <1>1 DEF Named
<1>2. ASSUME ref' = ref, run' = run, abandoned' = abandoned PROVE Named'
  BY <1>2 DEF Named
<1>3. ASSUME NEW r \in Runners, Ref!Acquire(r) \/ Ref!Open(r), abandoned' = abandoned PROVE Named'
  <2>1. CASE Ref!Acquire(r)
    BY <1>0, <2>1, LeaseMoves DEF Named
  <2>2. CASE Ref!Open(r)
    <3>1. run'[r].pc = "open" /\ Only(r) /\ ref'[Main].by = ref[Main].by
      BY <1>0, <2>2, LeaseMoves
    <3> QED BY <1>1, <1>3, <3>1 DEF Only
  <2> QED BY <1>3, <2>1, <2>2
<1>4. ASSUME NEW r \in Runners, Released(r) PROVE Named'
  BY <1>0, <1>4, ReleasedMoves DEF Named, Only
<1>5. ASSUME NEW r \in Runners, NEW m \in Entry, Ref!AppendMessage(r, m), abandoned' = abandoned PROVE Named'
  <2>1. run'[r].pc = "open" /\ Only(r) /\ ref'[Main].by = ref[Main].by
    BY <1>0, <1>5, AppendMoves
  <2> QED BY <1>1, <1>5, <2>1 DEF Only
<1>6. ASSUME NEW o \in Ops, Prelude(o) PROVE Named'
  <2>1. abandoned' = abandoned /\ (UNCHANGED refVars \/ Ref!CreateRef(Main))
    BY <1>6 DEF Prelude, Start, Ensure, Create, Check, Refuse, History
  <2>2. CASE Ref!CreateRef(Main)
    BY <1>0, <1>1, <2>1, <2>2, LeaseMoves
  <2> QED BY <1>2, <2>1, <2>2 DEF refVars
<1>7. ASSUME NEW o \in Ops, Leases(o) PROVE Named'
  <2>1. CASE LeaseRef(o)
    BY <1>0, <1>3, <2>1 DEF LeaseRef, Leasing, Wants, History
  <2>2. CASE Renew(o)
    <3>1. run' = run /\ ref'[Main].by = ref[Main].by /\ abandoned' = abandoned
      BY <1>0, <2>2, LeaseMoves DEF Renew, History
    <3> QED BY <1>1, <3>1
  <2>3. CASE CloseSystem(o) \/ PromptFails(o) \/ RunFails(o) \/ CloseMain(o)
    BY <1>0, <1>4, <2>3, CloseMoves DEF CloseSystem, PromptFails, RunFails
  <2> QED BY <1>7, <2>1, <2>2, <2>3 DEF Leases
<1>8. ASSUME NEW o \in Ops, Speaks(o) PROVE Named'
  <2>1. PICK role \in Roles : Says(o, role)
    BY <1>0, <1>8, Speech
  <2> QED BY <1>0, <1>5, <2>1 DEF Says
<1>9. ASSUME NEW o \in Ops, Prompt(o) PROVE Named'
  <2>1. abandoned' = abandoned
    BY <1>9 DEF Prompt, History
  <2>2. CASE Ref!AppendMessage(Sys(o), Say(o, "system"))
    BY <1>0, <1>5, <2>1, <2>2
  <2>3. CASE UNCHANGED refVars
    BY <1>2, <2>1, <2>3 DEF refVars
  <2> QED BY <1>9, <2>2, <2>3 DEF Prompt
<1>10. ASSUME NEW o \in Ops, Ending(o) PROVE Named'
  <2>1. ref' = ref /\ run' = run /\ abandoned' = abandoned
    BY <1>10 DEF Ending, RunEnds, Interrupt, Return, ReadHead, AskBranch, Judge, BranchFails, Store, refVars, History
  <2> QED BY <1>2, <2>1
<1>11. ASSUME NEW o \in Ops, Die(o) PROVE Named'
  <2>1. CASE UNCHANGED <<refVars, abandoned>>
    BY <1>2, <2>1 DEF refVars
  <2>2. ASSUME NEW r \in {Sys(o), Own(o)}, Ref!Abandon(r), abandoned' = abandoned \cup {r} PROVE Named'
    BY <1>0, <1>4, <2>2 DEF Released
  <2> QED BY <1>11, <2>1, <2>2 DEF Die, Holding
<1>12. CASE Time
  BY <1>0, <1>1, <1>12, LeaseMoves DEF Time, History
<1>13. CASE UNCHANGED vars
  BY <1>2, <1>13 DEF vars, refVars
<1> QED BY <1>6, <1>7, <1>8, <1>9, <1>10, <1>11, <1>12, <1>13, StepCases DEF Acts

\* ... and what was read.
Grown == \A k \in DOMAIN Chain : k \in DOMAIN Chain' /\ Chain'[k] = Chain[k]

LEMMA StepSays ==
  ASSUME Base, [Next]_vars
  PROVE  \/ Still
         \/ \E o \in Ops : Acts(o) /\ Prompt(o) /\ Prompts(o)
         \/ \E o \in Ops : Acts(o) /\ \E role \in Roles : Says(o, role)
<1>1. CASE Time
  BY <1>1, LeaseMoves DEF Base, Time, Still
<1>2. CASE UNCHANGED vars
  BY <1>2 DEF vars, refVars, Still, Chain
<1> QED BY <1>1, <1>2, ActSays, StepCases

\* Every step keeps what was said, and a runner knows the conversation as it
\* read it or wrote it.
LEMMA HashMoves ==
  ASSUME Base, [Next]_vars
  PROVE  /\ Grown
         /\ \A q \in Runners :
              \/ run'[q].hash = run[q].hash
              \/ run[q].pc = "leased" /\ run'[q].pc = "open" /\ run'[q].hash = Chain /\ Chain' = Chain
              \/ run[q].pc = "open" /\ run[q].hash = Chain /\ run'[q].hash = Chain'
<1>0. Ref!RefInv /\ \A o \in Ops : Sys(o) \in Runners /\ Own(o) \in Runners
  BY Names DEF Base
<1>1. CASE Still
  BY <1>1 DEF Still, Grown
<1>2. ASSUME NEW r \in Runners, NEW m \in Entry, Ref!AppendMessage(r, m)
      PROVE  /\ Grown
             /\ \A q \in Runners : \/ run'[q].hash = run[q].hash
                                   \/ run[q].pc = "open" /\ run[q].hash = Chain /\ run'[q].hash = Chain'
  <2>1. /\ DOMAIN Chain' = 1..Len(Chain) + 1 /\ \A k \in DOMAIN Chain : Chain'[k] = Chain[k]
        /\ run'[r].hash = Chain' /\ Only(r) /\ run[r].pc = "open" /\ Chain = run[r].hash
    BY <1>0, <1>2, AppendMoves
  <2>2. \A k \in DOMAIN Chain : k \in 1..Len(Chain) + 1
    BY <1>0, RefTypes
  <2> QED BY <2>1, <2>2 DEF Grown, Only
<1>3. CASE \E o \in Ops : Prompts(o)
  BY <1>0, <1>2, <1>3 DEF Prompts
<1>4. CASE \E o \in Ops : \E role \in Roles : Says(o, role)
  BY <1>0, <1>2, <1>4 DEF Says
<1> QED BY <1>1, <1>3, <1>4, StepSays

LEMMA PastKept ==
  ASSUME Grown, NEW CONSTANT c, Past(c)
  PROVE  Past(c)'
  BY DEF Past, Grown

LEMMA PastsStep ==
  ASSUME Base, Pasts, [Next]_vars
  PROVE  Pasts'
<1>1. Grown
  BY HashMoves
<1>2. \A k \in DOMAIN Chain' : k \in DOMAIN Chain'
  OBVIOUS
<1>3. ASSUME NEW r \in Runners PROVE Past(run[r].hash)'
  <2>1. CASE run'[r].hash = run[r].hash
    BY <1>1, <2>1 DEF Pasts, Past, Grown
  <2>2. CASE run'[r].hash = Chain
    BY <1>1, <2>2 DEF Past, Grown
  <2>3. CASE run'[r].hash = Chain'
    BY <2>3 DEF Past
  <2> QED BY <2>1, <2>2, <2>3, HashMoves
<1>4. ASSUME NEW o \in Ops PROVE Past(op[o].base)'
  <2>1. op'[o].base = op[o].base \/ op'[o].base = Chain
    BY ActMoves, StepCases DEF Time, vars
  <2>2. CASE op'[o].base = op[o].base
    BY <1>1, <2>2 DEF Pasts, Past, Grown
  <2>3. CASE op'[o].base = Chain
    BY <1>1, <2>3 DEF Past, Grown
  <2> QED BY <2>1, <2>2, <2>3
<1> QED BY <1>3, <1>4 DEF Pasts

-----------------------------------------------------------------------------
(* The prompt *)

BegunPcs == {"prompted", "ready", "asking", "tools", "ran", "branch", "judging"}

LEMMA BegunMoves ==
  ASSUME Base, NEW o \in Ops, Acts(o), op'[o].pc \in BegunPcs
  PROVE  op[o].pc \in BegunPcs \/ Prompt(o) \/ Chain # <<>>
<1>0. TypeOK /\ Ref!RefInv
  BY DEF Base
<1>1. CASE Prelude(o)
  <2>1. CASE Check(o)
    BY <1>0, <2>1, Before DEF Moved, BegunPcs
  <2>2. CASE Start(o) \/ Ensure(o) \/ Create(o) \/ Refuse(o)
    BY <1>0, <2>2, Before DEF Moved, BegunPcs
  <2> QED BY <1>1, <2>1, <2>2 DEF Prelude
<1>2. CASE Leases(o)
  <2>1. CASE LeaseRef(o) \/ CloseMain(o) \/ Renew(o)
    BY <2>1, Resting
  <2>2. CASE CloseSystem(o)
    BY <2>2 DEF CloseSystem, At, BegunPcs
  <2>3. CASE PromptFails(o) \/ RunFails(o)
    BY <1>0, <2>3, Before DEF Moved, BegunPcs
  <2> QED BY <1>2, <2>1, <2>2, <2>3 DEF Leases
<1>3. CASE Speaks(o)
  BY <1>3 DEF Speaks, Mixin, Run, Calls, Results, Answer, At, BegunPcs
<1>4. CASE Prompt(o)
  BY <1>4
<1>5. CASE Ending(o)
  BY <1>5 DEF Ending, RunEnds, Interrupt, Return, ReadHead, AskBranch, Judge, BranchFails, At, BegunPcs
<1>6. CASE Die(o)
  BY <1>0, <1>6, After DEF Moved, BegunPcs
<1> QED BY <1>1, <1>2, <1>3, <1>4, <1>5, <1>6 DEF Acts

LEMMA SomeChain ==
  ASSUME Ref!RefInv
  PROVE  Chain # <<>> <=> Len(Chain) > 0
  BY RefTypes

LEMMA PromptStep ==
  ASSUME Base, OnePrompt, \A o \in Ops : Begun(o), [Next]_vars
  PROVE  OnePrompt' /\ \A o \in Ops : Begun(o)'
<1>0. Ref!RefInv /\ Ref!RefInv' /\ \A o \in Ops : Sys(o) \in Runners /\ Own(o) \in Runners
  <2>1. LeaseStep \/ AppendStep \/ StoreStep \/ UNCHANGED refVars
    BY ActRefs, StepCases DEF Time, LeaseStep, vars, refVars
  <2> QED BY <2>1, RefKept, Names DEF Base
<1>1. /\ DOMAIN Chain = 1..Len(Chain) /\ Len(Chain) \in Nat
      /\ Chain # <<>> <=> Len(Chain) > 0
  BY <1>0, RefTypes
<1>2. Chain # <<>> => Chain' # <<>>
  <2>1. ASSUME Chain # <<>> PROVE 1 \in DOMAIN Chain'
    <3>1. Grown /\ 1 \in DOMAIN Chain
      BY <1>1, <2>1, HashMoves
    <3> QED BY <3>1 DEF Grown
  <2> QED BY <2>1
<1>3. OnePrompt'
  <2> SUFFICES ASSUME NEW k \in DOMAIN Chain' PROVE Chain'[k].role = "system" <=> k = 1
    BY DEF OnePrompt, Chain
  <2>0. \A i \in DOMAIN Chain : Chain[i].role = "system" <=> i = 1
    BY DEF OnePrompt, Chain
  <2>1. CASE Still
    BY <2>0, <2>1 DEF Still
  <2>2. ASSUME NEW o \in Ops, Prompts(o) PROVE Chain'[k].role = "system" <=> k = 1
    <3>1. /\ Chain = <<>> /\ DOMAIN Chain' = 1..Len(Chain) + 1 /\ Chain'[Len(Chain) + 1] = Say(o, "system")
      BY <1>0, <2>2, AppendMoves DEF Prompts
    <3>2. Len(Chain) = 0 /\ Say(o, "system").role = "system"
      BY <3>1, Entries
    <3> QED BY <3>1, <3>2
  <2>3. ASSUME NEW o \in Ops, NEW role \in Roles, Says(o, role) PROVE Chain'[k].role = "system" <=> k = 1
    <3>1. /\ DOMAIN Chain' = 1..Len(Chain) + 1 /\ Chain'[Len(Chain) + 1] = Say(o, role)
          /\ \A i \in DOMAIN Chain : Chain'[i] = Chain[i]
      BY <1>0, <2>3, AppendMoves DEF Says
    <3>2. Chain # <<>>
      BY <2>3 DEF Says, Begun, At
    <3>3. Say(o, role).role = role /\ role # "system"
      BY Entries DEF Roles
    <3>4. CASE k \in DOMAIN Chain
      BY <2>0, <3>1, <3>4
    <3>5. CASE k = Len(Chain) + 1
      BY <1>1, <3>1, <3>2, <3>3, <3>5
    <3> QED BY <1>1, <3>1, <3>4, <3>5
  <2> QED BY <2>1, <2>2, <2>3, StepSays
<1>4. ASSUME NEW o \in Ops, op'[o].pc \in BegunPcs PROVE Chain' # <<>>
  <2>1. CASE op[o].pc \in BegunPcs
    BY <1>2, <2>1 DEF Begun, BegunPcs
  <2>2. CASE op[o].pc \notin BegunPcs
    <3>1. Acts(o)
      BY <1>4, <2>2, ActMoves, StepCases DEF Time, vars
    <3>2. CASE Prompt(o)
      <4>1. CASE run[Sys(o)].hash = <<>>
        <5>1. Len(Chain') = Len(Chain) + 1
          BY <1>0, <3>2, <4>1, AppendMoves, Entries DEF Prompt
        <5> QED BY <1>1, <5>1, <1>0, RefTypes
      <4>2. CASE run[Sys(o)].hash # <<>>
        <5>1. run[Sys(o)].hash \in Seq(Entry) /\ Len(run[Sys(o)].hash) <= Len(Chain)
          BY <1>0, RefTypes
        <5>2. Len(run[Sys(o)].hash) > 0
          BY <4>2, <5>1
        <5>3. Len(Chain) > 0
          BY <1>1, <5>1, <5>2
        <5> QED BY <1>1, <1>2, <5>3
      <4> QED BY <4>1, <4>2
    <3> QED BY <1>2, <1>4, <2>2, <3>1, <3>2, BegunMoves
  <2> QED BY <2>1, <2>2
<1> QED BY <1>3, <1>4 DEF Begun, BegunPcs

-----------------------------------------------------------------------------
(* Calls and results *)

Places == \A o \in Ops : Place(o) /\ Sort(o)

\* What was cut short stays so.
LEMMA CutShortStays ==
  ASSUME Base, Places, [Next]_vars, NEW p \in Ops, CutShort(p)
  PROVE  op'[p].out = "error" \/ op'[p].pc = "dead"
<1>1. CASE op' = op
  BY <1>1 DEF CutShort
<1>2. ASSUME NEW o \in Ops, Acts(o) PROVE op'[p].out = "error" \/ op'[p].pc = "dead"
  <2>1. CASE p # o
    BY <1>2, <2>1, ActMoves DEF CutShort
  <2>2. CASE p = o
    <3>1. /\ op' = op \/ Start(o) \/ op[o].pc \notin {"new", "returned", "dead"}
          /\ op'[o].out = op[o].out \/ op[o].pc \notin {"new", "returned", "dead", "ran"}
      BY <1>2, ActMoves
    <3>2. Start(o) => op[o].pc = "new"
      BY DEF Start, At
    <3>3. op[o].out # "none" => op[o].pc \in {"ran", "returned", "dead"}
      BY DEF Places, Sort
    <3> QED BY <2>2, <3>1, <3>2, <3>3 DEF CutShort
  <2> QED BY <2>1, <2>2
<1> QED BY <1>1, <1>2, StepCases DEF Time, vars

\* Between a completion and its results an operation goes on with the results,
\* or is cut short.
LEMMA ToolsMove ==
  ASSUME Base, Places, NEW o \in Ops, Acts(o), At(o, "tools")
  PROVE  \/ op'[o].pc = "tools"
         \/ op'[o].out = "error" \/ op'[o].pc = "dead"
         \/ \E role \in Roles : Says(o, role) /\ role = "results"
<1>0. TypeOK /\ Ref!RefInv /\ op[o].pc = "tools" /\ run[Own(o)].pc = "open"
  BY DEF Base, At, Places, Place
<1>1. CASE Prelude(o) \/ Prompt(o)
  BY <1>0, <1>1 DEF Prelude, Start, Ensure, Create, Check, Refuse, Prompt, At
<1>2. CASE Leases(o)
  BY <1>0, <1>2, Resting DEF Leases, CloseSystem, PromptFails, RunFails, At
<1>3. CASE Speaks(o)
  <2>1. PICK role \in Roles : Says(o, role)
    BY <1>0, <1>3, Speech
  <2>2. role = "results"
    BY <1>0, <2>1 DEF Says, At
  <2> QED BY <2>1, <2>2
<1>4. CASE Ending(o)
  <2>1. RunEnds(o)
    BY <1>0, <1>4 DEF Ending, Interrupt, Return, ReadHead, AskBranch, Judge, BranchFails, At
  <2> QED BY <1>0, <2>1, After DEF Moved
<1>5. CASE Die(o)
  BY <1>0, <1>5, After DEF Moved
<1> QED BY <1>1, <1>2, <1>3, <1>4, <1>5 DEF Acts

LEMMA FollowsStep ==
  ASSUME Base, Places, Follows, [Next]_vars
  PROVE  Follows'
<1>0. /\ Ref!RefInv /\ \A o \in Ops : Sys(o) \in Runners /\ Own(o) \in Runners
      /\ Chain \in Seq(Entry) /\ DOMAIN Chain = 1..Len(Chain) /\ Len(Chain) \in Nat
      /\ Grown /\ lapsed \subseteq lapsed'
  BY Names, RefTypes, HashMoves, PlacesStep DEF Base, Grows, Places
<1>1. \A k \in DOMAIN Chain : Chain[k] \in Entry /\ Chain[k].op \in Ops
  <2>1. \A k \in DOMAIN Chain : Chain[k] \in Entry
    BY <1>0
  <2> QED BY <2>1 DEF Entry
<1> SUFFICES ASSUME NEW k \in DOMAIN Chain', Chain'[k].role = "calls" PROVE Follow(k)'
  BY DEF Follows
<1>2. ASSUME k \in DOMAIN Chain PROVE Follow(k)'
  <2>0. Chain'[k] = Chain[k] /\ Follow(k)
    BY <1>0, <1>2 DEF Grown, Follows
  <2> DEFINE p == Chain[k].op
  <2>1. CASE k + 1 \in DOMAIN Chain /\ Chain[k + 1] = Say(p, "results")
    <3>1. k + 1 \in DOMAIN Chain' /\ Chain'[k + 1] = Say(p, "results")
      BY <1>0, <2>1 DEF Grown
    <3> QED BY <2>0, <3>1 DEF Follow
  <2>2. CASE CutShort(p) \/ Own(p) \in lapsed
    <3>1. op'[p].out = "error" \/ op'[p].pc = "dead" \/ Own(p) \in lapsed'
      BY <1>0, <1>1, <1>2, <2>2, CutShortStays
    <3> QED BY <2>0, <3>1 DEF Follow, CutShort
  <2>3. CASE At(p, "tools") /\ k = Len(Chain)
    <3>0. p \in Ops /\ run[Own(p)].pc = "open"
      BY <1>1, <1>2, <2>3 DEF Places, Place, At
    <3>1. ASSUME NEW o \in Ops, NEW role \in Roles, Says(o, role) PROVE Follow(k)'
      <4>1. Ref!AppendMessage(Own(o), Say(o, role)) /\ Say(o, role) \in Entry
        BY <3>1 DEF Says
      <4>2. /\ Chain'[Len(Chain) + 1] = Say(o, role) /\ DOMAIN Chain' = 1..Len(Chain) + 1 /\ lapsed' = lapsed
            /\ \A q \in Runners : q # Own(o) /\ run[q].pc \in {"leased", "open"} => q \in lapsed
        BY <1>0, <4>1, AppendMoves
      <4>3. CASE o = p
        <5>1. role = "results"
          BY <2>3, <3>1, <4>3 DEF Says, At
        <5>2. k + 1 \in DOMAIN Chain' /\ Chain'[k + 1] = Say(p, "results")
          BY <1>0, <2>3, <4>2, <4>3, <5>1
        <5> QED BY <2>0, <5>2 DEF Follow
      <4>4. CASE o # p
        <5>1. Own(p) \in lapsed'
          BY <1>0, <3>0, <4>2, <4>4, Names
        <5> QED BY <2>0, <5>1 DEF Follow
      <4> QED BY <4>3, <4>4
    <3>2. ASSUME NEW o \in Ops, Prompts(o) PROVE FALSE
      <4>1. Chain = <<>>
        BY <1>0, <3>2, AppendMoves DEF Prompts
      <4> QED BY <1>0, <1>2, <4>1
    <3>3. CASE Still
      <4>1. CASE op'[p] = op[p]
        BY <2>0, <2>3, <3>3, <4>1 DEF Follow, At, Still
      <4>2. ASSUME Acts(p) PROVE Follow(k)'
        <5>1. CASE op'[p].pc = "tools"
          BY <2>0, <2>3, <3>3, <5>1 DEF Follow, At, Still
        <5>2. CASE op'[p].out = "error" \/ op'[p].pc = "dead"
          BY <2>0, <5>2 DEF Follow, CutShort
        <5> QED BY <2>3, <3>0, <3>1, <4>2, <5>1, <5>2, ToolsMove
      <4> QED BY <3>0, <4>1, <4>2, ActMoves, StepCases DEF Time, vars
    <3> QED BY <3>1, <3>2, <3>3, StepSays
  <2> QED BY <2>0, <2>1, <2>2, <2>3 DEF Follow
<1>3. ASSUME k \notin DOMAIN Chain PROVE Follow(k)'
  <2>1. CASE Still
    BY <1>3, <2>1 DEF Still
  <2>2. ASSUME NEW o \in Ops, Prompts(o) PROVE FALSE
    <3>1. DOMAIN Chain' = 1..Len(Chain) + 1 /\ Chain'[Len(Chain) + 1] = Say(o, "system")
      BY <1>0, <2>2, AppendMoves DEF Prompts
    <3>2. k = Len(Chain) + 1
      BY <1>0, <1>3, <3>1
    <3> QED BY <3>1, <3>2, Entries
  <2>3. ASSUME NEW o \in Ops, NEW role \in Roles, Says(o, role) PROVE Follow(k)'
    <3>1. /\ DOMAIN Chain' = 1..Len(Chain) + 1 /\ Chain'[Len(Chain) + 1] = Say(o, role)
          /\ Len(Chain') = Len(Chain) + 1
      BY <1>0, <2>3, AppendMoves DEF Says
    <3>2. k = Len(Chain')
      BY <1>0, <1>3, <3>1
    <3>3. Say(o, role).role = role /\ Say(o, role).op = o
      BY Entries DEF Roles
    <3>4. role = "calls" /\ Chain'[k].op = o
      BY <3>1, <3>2, <3>3
    <3>5. op'[o].pc = "tools"
      BY <2>3, <3>4 DEF Says, Moved
    <3> QED BY <3>2, <3>4, <3>5 DEF Follow, At
  <2> QED BY <2>1, <2>2, <2>3, StepSays
<1> QED BY <1>2, <1>3

-----------------------------------------------------------------------------
(* What the model is asked *)

LEMMA AskingMove ==
  ASSUME Base, NEW o \in Ops, Acts(o), op'[o].pc = "asking"
  PROVE  At(o, "asking") \/ Speaks(o)
<1>0. TypeOK /\ Ref!RefInv
  BY DEF Base
<1>1. CASE Prelude(o)
  <2>1. Start(o) \/ Ensure(o) \/ Create(o) \/ Check(o) \/ Refuse(o)
    BY <1>1 DEF Prelude
  <2> QED BY <1>0, <2>1, Before DEF Moved
<1>2. CASE Leases(o)
  <2>1. LeaseRef(o) \/ CloseSystem(o) \/ PromptFails(o) \/ RunFails(o) \/ CloseMain(o) \/ Renew(o)
    BY <1>2 DEF Leases
  <2> QED BY <1>0, <2>1, Before, Resting DEF Moved, At
<1>3. CASE Speaks(o)
  BY <1>3
<1>4. CASE Prompt(o)
  BY <1>0, <1>4, Before DEF Moved
<1>5. CASE Ending(o)
  <2>1. RunEnds(o) \/ Interrupt(o) \/ Return(o) \/ ReadHead(o) \/ AskBranch(o) \/ Judge(o) \/ BranchFails(o)
    BY <1>5 DEF Ending
  <2> QED BY <1>0, <2>1, After, Branching DEF Moved
<1>6. CASE Die(o)
  BY <1>0, <1>6, After DEF Moved
<1> QED BY <1>1, <1>2, <1>3, <1>4, <1>5, <1>6 DEF Acts

\* A condition keeps what it read.
LEMMA BranchMove ==
  ASSUME Base, NEW o \in Ops, Acts(o), op'[o].pc \in {"branch", "judging"}
  PROVE  \/ op[o].pc \in {"branch", "judging"} /\ op'[o].base = op[o].base
         \/ ReadHead(o) /\ op'[o].base = Chain
<1>0. TypeOK /\ Ref!RefInv
  BY DEF Base
<1>1. CASE Prelude(o)
  <2>1. Start(o) \/ Ensure(o) \/ Create(o) \/ Check(o) \/ Refuse(o)
    BY <1>1 DEF Prelude
  <2> QED BY <1>0, <2>1, Before DEF Moved
<1>2. CASE Leases(o)
  <2>1. LeaseRef(o) \/ CloseSystem(o) \/ PromptFails(o) \/ RunFails(o) \/ CloseMain(o) \/ Renew(o)
    BY <1>2 DEF Leases
  <2> QED BY <1>0, <2>1, Before, Resting DEF Moved
<1>3. CASE Speaks(o)
  <2>1. Mixin(o) \/ Run(o) \/ Calls(o) \/ Results(o) \/ Answer(o)
    BY <1>3 DEF Speaks
  <2> QED BY <1>0, <2>1, After DEF Moved
<1>4. CASE Prompt(o)
  BY <1>0, <1>4, Before DEF Moved
<1>5. CASE Ending(o)
  <2>1. CASE RunEnds(o) \/ Interrupt(o) \/ Return(o)
    BY <1>0, <2>1, After DEF Moved
  <2>2. CASE ReadHead(o) \/ Judge(o) \/ BranchFails(o)
    BY <1>0, <2>2, Branching DEF Moved
  <2>3. CASE AskBranch(o)
    <3>1. op[o].pc = "branch" /\ Moved(o, "judging", op[o].out, op[o].base)
      BY <1>0, <2>3, Branching DEF AskBranch, At
    <3> QED BY <3>1 DEF Moved
  <2> QED BY <1>5, <2>1, <2>2, <2>3 DEF Ending
<1>6. CASE Die(o)
  BY <1>0, <1>6, After DEF Moved
<1> QED BY <1>1, <1>2, <1>3, <1>4, <1>5, <1>6 DEF Acts

\* What a run asks after is its own: while it asks nobody appends for it.
LEMMA AskingKept ==
  ASSUME Base, Places, [Next]_vars, NEW o \in Ops, At(o, "asking"),
         ~ \E role \in Roles : Says(o, role)
  PROVE  run'[Own(o)].hash = run[Own(o)].hash
<1>0. /\ Ref!RefInv /\ \A p \in Ops : Sys(p) \in Runners /\ Own(p) \in Runners
      /\ run[Own(o)].pc = "open"
  BY Names DEF Base, Places, Place, At
<1>1. CASE Still
  BY <1>0, <1>1 DEF Still
<1>2. ASSUME NEW p \in Ops, Prompts(p) PROVE run'[Own(o)].hash = run[Own(o)].hash
  <2>1. Only(Sys(p)) /\ Sys(p) # Own(o)
    BY <1>0, <1>2, AppendMoves, Names DEF Prompts
  <2> QED BY <1>0, <2>1 DEF Only
<1>3. ASSUME NEW p \in Ops, NEW role \in Roles, Says(p, role) PROVE run'[Own(o)].hash = run[Own(o)].hash
  <2>1. Only(Own(p))
    BY <1>0, <1>3, AppendMoves DEF Says
  <2>2. Own(p) # Own(o)
    BY <1>3, Names
  <2> QED BY <1>0, <2>1, <2>2 DEF Only
<1> QED BY <1>1, <1>2, <1>3, StepSays

LEMMA AsksStep ==
  ASSUME Base, Places, Turns, Follows, \A o \in Ops : Asks(o), [Next]_vars
  PROVE  \A o \in Ops : Asks(o)'
<1>0. /\ TypeOK /\ Ref!RefInv /\ Chain \in Seq(Entry) /\ DOMAIN Chain = 1..Len(Chain) /\ Len(Chain) \in Nat
      /\ lapsed \subseteq lapsed' /\ \A p \in Ops : Own(p) \in Runners
  BY RefTypes, PlacesStep, Names DEF Base, Grows, Places
<1> SUFFICES ASSUME NEW o \in Ops PROVE Asks(o)'
  OBVIOUS
<1>1. op'[o].kind = op[o].kind /\ \A p \in Ops : op'[p].caller = op[p].caller
  BY ActMoves, StepCases DEF Time, vars
<1>2. ASSUME op'[o].pc = "asking"
      PROVE  LET c == run'[Own(o)].hash IN
             Len(c) \in DOMAIN c /\ (c[Len(c)] = Say(o, "user") \/ c[Len(c)] = Say(o, "results"))
  <2>1. ASSUME NEW role \in Roles, Says(o, role)
        PROVE  LET c == run'[Own(o)].hash IN
               Len(c) \in DOMAIN c /\ (c[Len(c)] = Say(o, "user") \/ c[Len(c)] = Say(o, "results"))
    <3>1. /\ DOMAIN Chain' = 1..Len(Chain) + 1 /\ Chain'[Len(Chain) + 1] = Say(o, role)
          /\ Len(Chain') = Len(Chain) + 1 /\ run'[Own(o)].hash = Chain'
      BY <1>0, <2>1, AppendMoves DEF Says
    <3>2. role = "user" \/ role = "results"
      BY <1>2, <2>1 DEF Says, Moved
    <3>3. Len(Chain') \in DOMAIN Chain' /\ Chain'[Len(Chain')] = Say(o, role)
      BY <1>0, <3>1
    <3> QED BY <3>1, <3>2, <3>3
  <2>2. ASSUME ~ \E role \in Roles : Says(o, role)
        PROVE  LET c == run'[Own(o)].hash IN
               Len(c) \in DOMAIN c /\ (c[Len(c)] = Say(o, "user") \/ c[Len(c)] = Say(o, "results"))
    <3>1. At(o, "asking")
      <4>1. CASE op'[o] = op[o]
        BY <1>2, <4>1 DEF At
      <4>2. CASE Acts(o)
        BY <1>0, <1>2, <2>2, <4>2, AskingMove, Speech
      <4> QED BY <4>1, <4>2, ActMoves, StepCases DEF Time, vars
    <3>2. run'[Own(o)].hash = run[Own(o)].hash
      BY <2>2, <3>1, AskingKept
    <3> QED BY <3>1, <3>2 DEF Asks, LastIs
  <2> QED BY <2>1, <2>2
<1>3. ASSUME NEW p \in Ops, CutShort(p) \/ Own(p) \in lapsed \/ op[p].caller # op[o].caller
      PROVE  op'[p].out = "error" \/ op'[p].pc = "dead" \/ Own(p) \in lapsed' \/ op'[p].caller # op'[o].caller
  <2>1. CASE CutShort(p)
    BY <2>1, CutShortStays
  <2>2. CASE Own(p) \in lapsed
    BY <1>0, <2>2
  <2> QED BY <1>1, <1>3, <2>1, <2>2
<1>4. ASSUME op'[o].pc \in {"branch", "judging"}, op'[o].base # <<>>,
             op'[o].base[Len(op'[o].base)].role = "calls"
      PROVE  LET p == op'[o].base[Len(op'[o].base)].op IN
             op'[p].out = "error" \/ op'[p].pc = "dead" \/ Own(p) \in lapsed' \/ op'[p].caller # op'[o].caller
  <2>1. \A c \in Seq(Entry) : c # <<>> => Len(c) \in DOMAIN c /\ c[Len(c)] \in Entry /\ Len(c) \in Nat
    OBVIOUS
  <2>2. CASE op[o].pc \in {"branch", "judging"} /\ op'[o].base = op[o].base
    <3>1. op[o].base \in Seq(Entry)
      BY <1>0, OpTypes
    <3>2. PICK p \in Ops : p = op[o].base[Len(op[o].base)].op
      <4>1. op[o].base[Len(op[o].base)] \in Entry
        BY <1>4, <2>1, <2>2, <3>1
      <4> QED BY <4>1 DEF Entry
    <3>3. CutShort(p) \/ Own(p) \in lapsed \/ op[p].caller # op[o].caller
      BY <1>4, <2>2, <3>2 DEF Asks
    <3> QED BY <1>3, <2>2, <3>2, <3>3
  <2>3. CASE ReadHead(o) /\ op'[o].base = Chain
    <3>0. Len(Chain) \in DOMAIN Chain /\ Chain[Len(Chain)].role = "calls" /\ Len(Chain) + 1 \notin DOMAIN Chain
      BY <1>0, <1>4, <2>1, <2>3
    <3>1. PICK p \in Ops : p = Chain[Len(Chain)].op
      <4>1. Chain[Len(Chain)] \in Entry
        BY <1>0, <1>4, <2>1, <2>3
      <4> QED BY <4>1 DEF Entry
    <3>2. CutShort(p) \/ Own(p) \in lapsed \/ At(p, "tools")
      BY <3>0, <3>1 DEF Follows, Follow
    <3>3. ASSUME At(p, "tools") PROVE op[p].caller # op[o].caller
      <4>1. At(o, "ready") /\ p # o
        BY <2>3, <3>3 DEF ReadHead, At
      <4>2. p \in 1..o - 1 \/ o \in 1..p - 1
        BY <4>1, Numbers
      <4> QED BY <3>3, <4>1, <4>2 DEF Turns, At
    <3> QED BY <1>3, <2>3, <3>1, <3>2, <3>3
  <2>4. CASE op'[o] = op[o]
    BY <1>4, <2>2, <2>4
  <2>5. CASE Acts(o)
    BY <1>4, <2>2, <2>3, <2>5, BranchMove
  <2> QED BY <2>4, <2>5, ActMoves, StepCases DEF Time, vars
<1> QED BY <1>2, <1>4 DEF Asks, LastIs, At, CutShort

-----------------------------------------------------------------------------
(* What a caller remembers *)

\* A run and a mixin come to owe the conversation what they then add to it.
LEMMA SpokenMove ==
  ASSUME Base, Places, NEW o \in Ops, Acts(o), NEW role \in Spoken, Owes(o, role)'
  PROVE  Owes(o, role) \/ Says(o, role)
<1>0. /\ TypeOK /\ Ref!RefInv /\ Sort(o) /\ op'[o].kind = op[o].kind
      /\ role = "user" \/ role = "answer"
  BY ActMoves DEF Base, Places, Spoken
<1>1. ASSUME op'[o].out = op[o].out, op'[o].pc \notin {"asking", "tools"} PROVE Owes(o, role)
  BY <1>0, <1>1 DEF Owes
<1>2. ASSUME op'[o].out = "error", op'[o].pc \notin {"asking", "tools"} PROVE FALSE
  BY <1>0, <1>2 DEF Owes
<1>3. CASE op' = op
  BY <1>3 DEF Owes
<1>4. CASE Prelude(o)
  <2>1. Start(o) \/ Ensure(o) \/ Create(o) \/ Check(o) \/ Refuse(o)
    BY <1>4 DEF Prelude
  <2> QED BY <1>0, <1>1, <1>2, <2>1, Before DEF Moved
<1>5. CASE Leases(o)
  <2>1. LeaseRef(o) \/ CloseSystem(o) \/ PromptFails(o) \/ RunFails(o) \/ CloseMain(o) \/ Renew(o)
    BY <1>5 DEF Leases
  <2> QED BY <1>0, <1>1, <1>2, <1>3, <2>1, Before, Resting DEF Moved
<1>6. CASE Speaks(o)
  <2>1. PICK said \in Roles : Says(o, said)
    BY <1>0, <1>6, Speech
  <2>2. CASE said = "user" /\ op[o].kind = "mixin"
    <3>1. said = role
      BY <1>0, <2>2 DEF Owes
    <3> QED BY <2>1, <3>1
  <2>3. CASE said = "user" /\ op[o].kind = "exec"
    <3>1. op'[o].out = op[o].out
      BY <2>1, <2>3 DEF Says, Moved
    <3>2. CASE role = "user"
      BY <2>1, <2>3, <3>2
    <3>3. CASE role = "answer"
      BY <1>0, <3>1, <3>3 DEF Owes
    <3> QED BY <1>0, <3>2, <3>3
  <2>4. CASE said = "calls" \/ said = "results"
    <3>1. op'[o].out = op[o].out /\ op[o].pc \in {"asking", "tools"}
      BY <2>1, <2>4 DEF Says, Moved, At
    <3> QED BY <1>0, <3>1 DEF Owes
  <2>5. CASE said = "answer"
    <3>1. op[o].pc = "asking"
      BY <2>1, <2>5 DEF Says, At
    <3>2. CASE role = "user"
      BY <1>0, <3>1, <3>2 DEF Owes
    <3>3. CASE role = "answer"
      BY <2>1, <2>5, <3>3
    <3> QED BY <1>0, <3>2, <3>3
  <2>6. said = "user" => op[o].kind \in {"mixin", "exec"}
    BY <2>1 DEF Says
  <2> QED BY <2>2, <2>3, <2>4, <2>5, <2>6 DEF Roles
<1>7. CASE Prompt(o)
  BY <1>0, <1>1, <1>7, Before DEF Moved
<1>8. CASE Ending(o)
  <2>1. CASE RunEnds(o) \/ Return(o)
    BY <1>0, <1>1, <1>2, <2>1, After DEF Moved
  <2>2. CASE ReadHead(o) \/ AskBranch(o) \/ BranchFails(o)
    BY <1>0, <1>1, <1>2, <2>2, Branching DEF Moved
  <2>3. CASE Judge(o)
    <3>1. op[o].kind = "condition"
      BY <1>0, <2>3 DEF Judge, Sort, At
    <3> QED BY <1>0, <3>1 DEF Owes
  <2>4. CASE Interrupt(o)
    <3>1. op[o].pc = "asking" /\ (op'[o].out = "empty" \/ op'[o].out = "error") /\ op'[o].pc = "ran"
      BY <1>0, <2>4, After DEF Interrupt, Moved, At
    <3> QED BY <1>0, <3>1 DEF Owes
  <2> QED BY <1>8, <2>1, <2>2, <2>3, <2>4 DEF Ending
<1>9. CASE Die(o)
  BY <1>0, <1>1, <1>9, After DEF Moved
<1> QED BY <1>4, <1>5, <1>6, <1>7, <1>8, <1>9 DEF Acts

\* A lease that is opened shows the conversation.
LEMMA OpenMove ==
  ASSUME Base, [Next]_vars, NEW q \in Runners, run'[q].pc = "open"
  PROVE  run[q].pc = "open" \/ (run'[q].hash = Chain /\ Chain' = Chain)
<1>0. TypeOK /\ Ref!RefInv /\ \A o \in Ops : Sys(o) \in Runners /\ Own(o) \in Runners /\ Say(o, "system") \in Entry
  BY Names, Entries DEF Base
<1> DEFINE Goal == run[q].pc = "open" \/ (run'[q].hash = Chain /\ Chain' = Chain)
<1>1. ASSUME run' = run PROVE Goal
  BY <1>1
<1>2. ASSUME NEW r \in Runners,
             Ref!Acquire(r) \/ Ref!Open(r) \/ Ref!Renew(r) \/ Ref!Abandon(r) \/ Released(r)
      PROVE  Goal
  <2>1. CASE Ref!Open(r)
    <3>1. run'[r].hash = Chain /\ Chain' = Chain /\ Only(r)
      BY <1>0, <2>1, LeaseMoves
    <3> QED BY <3>1 DEF Only
  <2>2. CASE Ref!Renew(r)
    BY <1>0, <2>2, LeaseMoves
  <2>3. CASE Ref!Acquire(r) \/ Ref!Abandon(r) \/ Released(r)
    <3>1. run'[r].pc # "open" /\ Only(r)
      BY <1>0, <2>3, LeaseMoves, ReleasedMoves
    <3> QED BY <3>1 DEF Only
  <2> QED BY <1>2, <2>1, <2>2, <2>3
<1>3. ASSUME NEW r \in Runners, NEW m \in Entry, Ref!AppendMessage(r, m) PROVE Goal
  BY <1>0, <1>3, AppendRests
<1>4. ASSUME NEW o \in Ops, Prelude(o) PROVE Goal
  <2>1. UNCHANGED refVars \/ Ref!CreateRef(Main)
    BY <1>4 DEF Prelude, Start, Ensure, Create, Check, Refuse
  <2> QED BY <1>0, <1>1, <2>1, LeaseMoves DEF refVars
<1>5. ASSUME NEW o \in Ops, Leases(o) PROVE Goal
  BY <1>0, <1>2, <1>5, CloseMoves DEF Leases, LeaseRef, CloseSystem, PromptFails, RunFails, Renew, Leasing, Wants
<1>6. ASSUME NEW o \in Ops, Speaks(o) PROVE Goal
  <2>1. PICK role \in Roles : Says(o, role)
    BY <1>0, <1>6, Speech
  <2> QED BY <1>0, <1>3, <2>1 DEF Says
<1>7. ASSUME NEW o \in Ops, Prompt(o) PROVE Goal
  BY <1>0, <1>1, <1>3, <1>7 DEF Prompt, refVars
<1>8. ASSUME NEW o \in Ops, Ending(o) PROVE Goal
  BY <1>1, <1>8 DEF Ending, RunEnds, Interrupt, Return, ReadHead, AskBranch, Judge, BranchFails, Store, refVars
<1>9. ASSUME NEW o \in Ops, Die(o) PROVE Goal
  <2>1. UNCHANGED refVars \/ \E r \in {Sys(o), Own(o)} : Ref!Abandon(r)
    BY <1>9 DEF Die, Holding
  <2> QED BY <1>0, <1>1, <1>2, <2>1 DEF refVars
<1>10. CASE Time
  BY <1>0, <1>1, <1>10, LeaseMoves DEF Time
<1>11. CASE UNCHANGED vars
  BY <1>1, <1>11 DEF vars, refVars
<1> QED BY <1>4, <1>5, <1>6, <1>7, <1>8, <1>9, <1>10, <1>11, StepCases DEF Acts

LEMMA MemoryStep ==
  ASSUME Base, Places, Turns, Memory, [Next]_vars
  PROVE  Memory'
<1>0. /\ TypeOK /\ Ref!RefInv /\ DOMAIN Chain = 1..Len(Chain) /\ Len(Chain) \in Nat
      /\ Grown /\ \A p \in Ops : Sys(p) \in Runners /\ Own(p) \in Runners
  BY RefTypes, HashMoves, Names DEF Base
<1>1. \A p \in Ops : op'[p].kind = op[p].kind /\ op'[p].caller = op[p].caller
  BY ActMoves, StepCases DEF Time, vars
<1>3. ASSUME NEW o \in Ops, NEW role \in Spoken, Owes(o, role)' PROVE Has(Chain, o, role)'
  <2>1. CASE Owes(o, role)
    <3>1. PICK k \in DOMAIN Chain : Chain[k] = Say(o, role)
      BY <2>1 DEF Memory, Has
    <3>2. k \in DOMAIN Chain' /\ Chain'[k] = Say(o, role)
      BY <1>0, <3>1 DEF Grown
    <3> QED BY <3>2 DEF Has
  <2>2. CASE ~Owes(o, role)
    <3>1. op'[o] # op[o]
      BY <1>3, <2>2 DEF Owes
    <3>2. Acts(o)
      BY <3>1, ActMoves, StepCases DEF Time, vars
    <3>3. Says(o, role)
      BY <1>3, <2>2, <3>2, SpokenMove
    <3>4. DOMAIN Chain' = 1..Len(Chain) + 1 /\ Chain'[Len(Chain) + 1] = Say(o, role)
      BY <1>0, <3>3, AppendMoves DEF Says
    <3> QED BY <1>0, <3>4 DEF Has
  <2> QED BY <2>1, <2>2
\* What a caller did before o, it had done when o began.
<1>4. ASSUME NEW o \in Ops, ~At(o, "new"), NEW p \in 1..o - 1, NEW role \in Spoken,
             op[p].caller = op[o].caller, Owes(p, role)'
      PROVE  Owes(p, role)
  <2>1. p \in Ops /\ op[p].pc = "returned"
    BY <1>4, Numbers DEF Turns, At
  <2>2. op'[p] = op[p]
    BY <2>1, ActMoves, StepCases DEF Time, vars, Start, At
  <2> QED BY <1>4, <2>2 DEF Owes
<1>5. ASSUME NEW o \in Ops, run'[Own(o)].pc = "open" PROVE Remembers(run[Own(o)].hash, o)'
  <2> SUFFICES ASSUME NEW p \in 1..o - 1, NEW role \in Spoken, op[p].caller = op[o].caller, Owes(p, role)'
               PROVE  \E k \in DOMAIN run'[Own(o)].hash : run'[Own(o)].hash[k] = Say(p, role)
    BY <1>1, Numbers DEF Remembers, Has
  <2>0. p \in Ops
    BY Numbers
  <2>1. CASE run[Own(o)].pc = "open"
    <3>1. ~At(o, "new")
      BY <2>1 DEF Places, Place, At
    <3>2. Owes(p, role)
      BY <1>4, <3>1
    <3>3. PICK k \in DOMAIN run[Own(o)].hash : run[Own(o)].hash[k] = Say(p, role)
      BY <2>1, <3>2 DEF Memory, Remembers, Has
    <3>4. CASE run'[Own(o)].hash = run[Own(o)].hash
      BY <3>3, <3>4
    <3>5. CASE run[Own(o)].hash = Chain /\ run'[Own(o)].hash = Chain'
      BY <1>0, <3>3, <3>5 DEF Grown
    <3> QED BY <1>0, <2>1, <3>4, <3>5, HashMoves
  <2>2. CASE run[Own(o)].pc # "open"
    <3>1. run'[Own(o)].hash = Chain /\ Chain' = Chain
      BY <1>0, <1>5, <2>2, OpenMove
    <3>2. Has(Chain, p, role)'
      BY <1>3, <2>0
    <3> QED BY <2>0, <3>1, <3>2 DEF Has
  <2> QED BY <2>1, <2>2
<1>6. ASSUME NEW o \in Ops, op'[o].pc \in {"branch", "judging"} PROVE Remembers(op[o].base, o)'
  <2> SUFFICES ASSUME NEW p \in 1..o - 1, NEW role \in Spoken, op[p].caller = op[o].caller, Owes(p, role)'
               PROVE  \E k \in DOMAIN op'[o].base : op'[o].base[k] = Say(p, role)
    BY <1>1, Numbers DEF Remembers, Has
  <2>0. p \in Ops
    BY Numbers
  <2>1. CASE op[o].pc \in {"branch", "judging"} /\ op'[o].base = op[o].base
    <3>1. Owes(p, role)
      BY <1>4, <2>1 DEF At
    <3> QED BY <2>1, <3>1 DEF Memory, Remembers, Has
  <2>2. CASE ReadHead(o) /\ op'[o].base = Chain
    <3>1. Chain' = Chain
      BY <2>2 DEF ReadHead, refVars, Chain
    <3>2. Has(Chain, p, role)'
      BY <1>3, <2>0
    <3> QED BY <2>0, <2>2, <3>1, <3>2 DEF Has
  <2>3. CASE op'[o] = op[o]
    BY <1>6, <2>1, <2>3
  <2>4. CASE Acts(o)
    BY <1>6, <2>1, <2>2, <2>4, BranchMove
  <2> QED BY <2>3, <2>4, ActMoves, StepCases DEF Time, vars
<1> QED BY <1>3, <1>5, <1>6 DEF Memory

-----------------------------------------------------------------------------
(* Who is refused *)

\* The reason for a refusal, at the time of it.
LEMMA RefusedWhy ==
  ASSUME Base, Places, Turns, Named, NEW o \in Ops, Refuse(o)
  PROVE  /\ ref[Main].by \in Runners
         /\ LET q == ref[Main].by[1] IN
            op[q].caller # op[o].caller \/ ref[Main].by \in abandoned \/ q \in loose
<1>0. /\ Ref!RefInv /\ ref[Main].by \in Runners \cup {NoRunner}
      /\ Sys(o) \in Runners /\ Own(o) \in Runners /\ op[o].pc \in {"system", "ready"}
  BY Names, RefTypes DEF Base, Refuse, At
<1>1. /\ ref[Main].by # NoRunner /\ run[Wants(o)].pc = "new"
      /\ \/ At(o, "system") /\ Wants(o) = Sys(o)
         \/ At(o, "ready") /\ Wants(o) = Own(o)
  BY DEF Refuse, Ref!Available, Wants, At
<1>2. PICK q \in Ops : ref[Main].by = Sys(q) \/ ref[Main].by = Own(q)
  BY <1>0, <1>1, Names
<1>3. ref[Main].by[1] = q
  BY <1>2, Names
<1>4. ASSUME ref[Main].by \notin abandoned, op[q].caller = op[o].caller
      PROVE  q \in loose
  <2>1. run[Sys(q)].pc \in {"leased", "open"} \/ run[Own(q)].pc \in {"leased", "open"}
    BY <1>1, <1>2, <1>4 DEF Named
  <2>2. Place(q) /\ Place(o)
    BY DEF Places
  <2>3. q # o
    BY <1>1, <2>1, <2>2 DEF Place, At, Idle
  <2>4. CASE q \in 1..o - 1
    <3>1. At(q, "returned")
      BY <1>0, <1>4, <2>4 DEF Turns, At
    <3> QED BY <2>1, <2>2, <3>1 DEF Place, At, Idle
  <2>5. CASE o \in 1..q - 1
    <3>1. At(q, "new")
      BY <1>0, <1>4, <2>5 DEF Turns, At
    <3> QED BY <2>1, <2>2, <3>1 DEF Place, At
  <2> QED BY <2>3, <2>4, <2>5, Numbers
<1> QED BY <1>0, <1>1, <1>3, <1>4

LEMMA RefusedMove ==
  ASSUME Base, NEW o \in Ops, Acts(o)
  PROVE  \/ refused' = refused
         \/ Refuse(o) /\ refused' = [refused EXCEPT ![o] = ref[Main].by]
<1>1. CASE Prelude(o)
  BY <1>1 DEF Prelude, Start, Ensure, Create, Check, Refuse, History
<1>2. CASE Leases(o)
  BY <1>2, CloseMoves DEF Leases, LeaseRef, CloseSystem, PromptFails, RunFails, Renew, History
<1>3. CASE Speaks(o) \/ Prompt(o)
  BY <1>3 DEF Speaks, Mixin, Run, Calls, Results, Answer, Prompt, History
<1>4. CASE Ending(o)
  BY <1>4 DEF Ending, RunEnds, Interrupt, Return, ReadHead, AskBranch, Judge, BranchFails, History
<1>5. CASE Die(o)
  BY <1>5 DEF Die
<1> QED BY <1>1, <1>2, <1>3, <1>4, <1>5 DEF Acts

LEMMA RefusedStep ==
  ASSUME Base, Places, Turns, Named, RefusedWhenBusy, [Next]_vars
  PROVE  RefusedWhenBusy'
<1>0. /\ loose \subseteq loose' /\ abandoned \subseteq abandoned'
      /\ refused \in [Ops -> Runners \cup {NoRunner}]
      /\ \A r \in Runners : r[1] \in Ops
  BY PlacesStep, Names DEF Base, TypeOK, Grows, Places
<1>1. \A p \in Ops : op'[p].caller = op[p].caller
  BY ActMoves, StepCases DEF Time, vars
<1> SUFFICES ASSUME NEW o \in Ops, refused'[o] # NoRunner
             PROVE  LET q == refused'[o][1] IN
                    op'[q].caller # op'[o].caller \/ refused'[o] \in abandoned' \/ q \in loose'
  BY DEF RefusedWhenBusy
<1>2. CASE refused'[o] = refused[o]
  <2>1. refused[o] \in Runners /\ refused[o][1] \in Ops
    BY <1>0, <1>2
  <2>2. LET q == refused[o][1] IN
        op[q].caller # op[o].caller \/ refused[o] \in abandoned \/ q \in loose
    BY <1>2 DEF RefusedWhenBusy
  <2> QED BY <1>0, <1>1, <1>2, <2>1, <2>2
<1>3. CASE Refuse(o) /\ refused'[o] = ref[Main].by
  <2>1. ref[Main].by \in Runners /\ ref[Main].by[1] \in Ops
    BY <1>0, <1>3, RefusedWhy
  <2>2. LET q == ref[Main].by[1] IN
        op[q].caller # op[o].caller \/ ref[Main].by \in abandoned \/ q \in loose
    BY <1>3, RefusedWhy
  <2> QED BY <1>0, <1>1, <1>3, <2>1, <2>2
<1>4. refused'[o] = refused[o] \/ (Refuse(o) /\ refused'[o] = ref[Main].by)
  <2>1. ASSUME NEW p \in Ops, Acts(p)
        PROVE  refused'[o] = refused[o] \/ (Refuse(o) /\ refused'[o] = ref[Main].by)
    BY <1>0, <2>1, RefusedMove
  <2> QED BY <2>1, StepCases DEF Time, vars, History
<1> QED BY <1>2, <1>3, <1>4

-----------------------------------------------------------------------------
(* The theorems *)

TaskContextInductive == Base /\ Frame /\ Said /\ RefusedWhenBusy

LEMMA InductiveInit == Init => TaskContextInductive
<1> SUFFICES ASSUME Init PROVE TaskContextInductive
  OBVIOUS
<1>0. /\ Ref!Init /\ \A o \in Ops : Sys(o) \in Runners /\ Own(o) \in Runners
      /\ NoRunner \notin Runners
  BY Names DEF Init
<1>1. Ref!RefInv
  BY <1>0, RefInit
<1>2. ASSUME NEW o \in Ops
      PROVE  op[o] \in Operation /\ op[o].pc = "new" /\ op[o].out = "none" /\ op[o].base = <<>>
  <2>1. PICK k \in {"exec", "mixin", "condition"}, c \in Callers :
          op[o] = [kind |-> k, caller |-> c, pc |-> "new", turn |-> 0, base |-> <<>>, out |-> "none"]
    BY DEF Init
  <2>2. 0 \in 0..MaxToolTurns /\ <<>> \in Seq(Entry)
    BY Numbers
  <2> QED BY <2>1, <2>2 DEF Operation
<1>3. \A o \in Ops : op[o].pc = "new" /\ op[o].out = "none" /\ op[o].base = <<>>
  BY <1>2
<1>4. op \in [Ops -> Operation]
  <2>1. op = [o \in Ops |-> op[o]]
    BY DEF Init
  <2> QED BY <1>2, <2>1
<1>5. /\ Chain = <<>> /\ ref[Main].by = NoRunner
      /\ \A r \in Runners : run[r].pc = "new" /\ run[r].hash = <<>>
  BY <1>0 DEF Ref!Init, Ref!NoRef, Ref!Unused, Chain
<1>6. /\ refused \in [Ops -> Runners \cup {NoRunner}] /\ abandoned = {} /\ loose = {}
      /\ \A o \in Ops : refused[o] = NoRunner
  BY DEF Init
<1>7. Base
  BY <1>1, <1>4, <1>6 DEF Base, TypeOK, Ref!RefInv
<1>8. Frame
  <2>1. \A o \in Ops : Place(o) /\ Sort(o)
    BY <1>0, <1>3, <1>5 DEF Place, Sort, At
  <2>2. Turns /\ Named
    BY <1>3, <1>5 DEF Turns, Named, At
  <2>3. Pasts
    BY <1>3, <1>5 DEF Pasts, Past
  <2> QED BY <2>1, <2>2, <2>3 DEF Frame
<1>9. Said
  <2>1. DOMAIN Chain = {}
    BY <1>5
  <2>2. OnePrompt /\ Follows
    BY <2>1 DEF OnePrompt, Follows, Chain
  <2>3. \A o \in Ops : Begun(o) /\ Asks(o)
    BY <1>3 DEF Begun, Asks, At
  <2>4. Memory
    BY <1>0, <1>3, <1>5 DEF Memory, Owes, Spoken
  <2> QED BY <2>2, <2>3, <2>4 DEF Said
<1>10. RefusedWhenBusy
  BY <1>6 DEF RefusedWhenBusy
<1> QED BY <1>7, <1>8, <1>9, <1>10 DEF TaskContextInductive

LEMMA InductiveStep == TaskContextInductive /\ [Next]_vars => TaskContextInductive'
<1> SUFFICES ASSUME TaskContextInductive, [Next]_vars PROVE TaskContextInductive'
  OBVIOUS
<1>0. Base /\ Frame /\ Said /\ RefusedWhenBusy /\ Places
  BY DEF TaskContextInductive, Frame, Places
<1>1. Base'
  BY <1>0, BaseStep DEF Places
<1>2. (\A o \in Ops : Place(o) /\ Sort(o))'
  BY <1>0, PlacesStep DEF Places
<1>3. Turns' /\ Named' /\ Pasts'
  BY <1>0, TurnsStep, NamedStep, PastsStep DEF Frame
<1>4. OnePrompt' /\ (\A o \in Ops : Begun(o))'
  BY <1>0, PromptStep DEF Said
<1>5. Follows'
  BY <1>0, FollowsStep DEF Said
<1>6. (\A o \in Ops : Asks(o))'
  BY <1>0, AsksStep DEF Said, Frame
<1>7. Memory'
  BY <1>0, MemoryStep DEF Said, Frame
<1>8. RefusedWhenBusy'
  BY <1>0, RefusedStep DEF Frame
<1> QED BY <1>1, <1>2, <1>3, <1>4, <1>5, <1>6, <1>7, <1>8 DEF TaskContextInductive, Frame, Said

\* Who holds which lease, what was read and what was said: the invariant that
\* task_context.go keeps between any two steps of its callers.
THEOREM Invariance == Spec => []TaskContextInductive
  BY InductiveInit, InductiveStep, PTL DEF Spec

\* However many callers come first, a conversation begins with one system
\* prompt and has no other: ensureSystemPromptOnRef looks again under the lease.
THEOREM PromptIsFirst == Spec => []TaskInv
<1>1. TaskContextInductive => TaskInv
  BY DEF TaskContextInductive, Base, Said, TaskInv
<1> QED BY <1>1, Invariance, PTL

\* Whoever is refused the conversation is refused by another caller, by a lease
\* that was never released, or by an own operation that Wait returned too early.
THEOREM RefusalsExplained == Spec => []RefusedWhenBusy
<1>1. TaskContextInductive => RefusedWhenBusy
  BY DEF TaskContextInductive
<1> QED BY <1>1, Invariance, PTL

\* Of what was read of the conversation only the last entry can be calls whose
\* results are still to come.
LEMMA PastFollows ==
  ASSUME Base, Pasts, Follows, NEW c \in Seq(Entry), Past(c),
         NEW k \in DOMAIN c, k # Len(c), c[k].role = "calls"
  PROVE  k < Len(c) /\ (c[k + 1] = Say(c[k].op, "results") \/ CutShort(c[k].op) \/ Own(c[k].op) \in lapsed)
<1>1. DOMAIN c = 1..Len(c) /\ DOMAIN Chain = 1..Len(Chain) /\ Len(Chain) \in Nat /\ Len(c) \in Nat
  BY RefTypes DEF Base
<1>2. k \in Nat /\ k < Len(c) /\ k + 1 \in DOMAIN c
  BY <1>1
<1>3. k \in DOMAIN Chain /\ k + 1 \in DOMAIN Chain /\ Chain[k] = c[k] /\ Chain[k + 1] = c[k + 1]
  BY <1>2 DEF Past
<1>4. k # Len(Chain)
  BY <1>1, <1>3
<1>5. Follow(k)
  BY <1>3 DEF Follows
<1> QED BY <1>2, <1>3, <1>4, <1>5 DEF Follow

LEMMA WholeInv == TaskContextInductive => RequestsWhole
<1> SUFFICES ASSUME TaskContextInductive, NEW o \in Ops, Asked(o)
             PROVE  LET c == Request(o) IN
                    /\ \A k \in DOMAIN c : c[k].role = "calls" =>
                         \/ k < Len(c) /\ c[k + 1] = Say(c[k].op, "results")
                         \/ CutShort(c[k].op)
                         \/ op[o].kind = "condition" /\ op[c[k].op].caller # op[o].caller
                         \/ Own(c[k].op) \in lapsed
                    /\ Remembers(c, o)
  BY DEF RequestsWhole, Remembers, Owes, Has, Spoken
<1>0. /\ Base /\ TypeOK /\ Ref!RefInv /\ Pasts /\ Follows /\ Asks(o) /\ Place(o) /\ Sort(o) /\ Memory
      /\ Own(o) \in Runners
  BY Names DEF TaskContextInductive, Base, Frame, Said
<1>1. CASE At(o, "asking")
  <2> DEFINE c == run[Own(o)].hash
  <2>1. c = Request(o) /\ c \in Seq(Entry) /\ Past(c)
    BY <1>0, <1>1, RefTypes DEF Request, Pasts
  <2>2. c[Len(c)].role \in {"user", "results"}
    BY <1>0, <1>1, Entries DEF Asks, LastIs
  <2>3. Remembers(c, o)
    BY <1>0, <1>1 DEF Memory, Place, At
  <2>4. ASSUME NEW k \in DOMAIN c, c[k].role = "calls"
        PROVE  k < Len(c) /\ (c[k + 1] = Say(c[k].op, "results") \/ CutShort(c[k].op) \/ Own(c[k].op) \in lapsed)
    <3>1. k # Len(c)
      BY <2>2, <2>4
    <3> QED BY <1>0, <2>1, <2>4, <3>1, PastFollows
  <2> HIDE DEF c
  <2> QED BY <2>1, <2>3, <2>4
<1>2. CASE At(o, "judging")
  <2> DEFINE b == op[o].base
             q == Say(o, "user")
             c == Append(b, q)
  <2>1. /\ b \in Seq(Entry) /\ Past(b) /\ op[o].kind = "condition"
        /\ q \in Entry /\ q.role = "user"
    BY <1>0, <1>2, OpTypes, Entries DEF Pasts, Sort, At
  <2>2. c = Request(o)
    BY <1>2 DEF Request, Question, At
  <2>3. /\ DOMAIN c = 1..Len(b) + 1 /\ DOMAIN b = 1..Len(b) /\ Len(c) = Len(b) + 1 /\ Len(b) \in Nat
        /\ c[Len(b) + 1] = q /\ \A k \in DOMAIN b : c[k] = b[k]
    <3> HIDE DEF b, q
    <3> QED BY <2>1
  <2>4. ASSUME NEW p \in 1..o - 1, NEW role \in Spoken, op[p].caller = op[o].caller, Owes(p, role)
        PROVE  Has(c, p, role)
    <3>1. Has(b, p, role)
      BY <1>0, <1>2, <2>4 DEF Memory, Remembers, At
    <3>2. PICK k \in DOMAIN b : b[k] = Say(p, role)
      BY <3>1 DEF Has
    <3>3. k \in DOMAIN c /\ c[k] = Say(p, role)
      BY <2>3, <3>2
    <3> HIDE DEF c
    <3> QED BY <3>3 DEF Has
  <2>5. ASSUME NEW k \in DOMAIN c, c[k].role = "calls"
        PROVE  \/ k < Len(c) /\ c[k + 1] = Say(c[k].op, "results")
               \/ CutShort(c[k].op) \/ Own(c[k].op) \in lapsed
               \/ op[o].kind = "condition" /\ op[c[k].op].caller # op[o].caller
    <3>1. k \in DOMAIN b /\ c[k] = b[k]
      <4>1. k # Len(b) + 1
        BY <2>1, <2>3, <2>5
      <4> QED BY <2>3, <4>1
    <3>2. CASE k = Len(b)
      <4>1. b # <<>>
        BY <3>1
      <4>2. CutShort(b[k].op) \/ Own(b[k].op) \in lapsed \/ op[b[k].op].caller # op[o].caller
        BY <1>0, <1>2, <2>5, <3>1, <3>2, <4>1 DEF Asks, At
      <4> QED BY <2>1, <3>1, <4>2
    <3>3. CASE k # Len(b)
      <4>1. k < Len(b) /\ (b[k + 1] = Say(b[k].op, "results") \/ CutShort(b[k].op) \/ Own(b[k].op) \in lapsed)
        BY <1>0, <2>1, <2>5, <3>1, <3>3, PastFollows
      <4>2. k + 1 \in DOMAIN b /\ c[k + 1] = b[k + 1] /\ k < Len(c)
        BY <2>3, <3>1, <4>1
      <4> QED BY <3>1, <4>1, <4>2
    <3> QED BY <3>2, <3>3
  <2> HIDE DEF c
  <2> QED BY <2>2, <2>4, <2>5 DEF Remembers
<1> QED BY <1>1, <1>2 DEF Asked

\* What the model is sent is whole: calls without results are of runs that failed,
\* or of another caller whose run was going on, and of the caller's own earlier
\* operations that returned no error no message is missing, nor an answer, but for
\* the runs that a cancellation interrupted: they have none, and return as if they
\* had an empty one.
THEOREM RequestsAreWhole == Spec => []RequestsWhole
  BY WholeInv, Invariance, PTL
=============================================================================
