------------------------ MODULE ConversationRefProofs ------------------------
(***************************************************************************)
(* Proofs about ConversationRef for any refs, runners and messages and any *)
(* lease.                                                                  *)
(***************************************************************************)
EXTENDS ConversationRef, SequenceTheorems, TLAPS

-----------------------------------------------------------------------------
(* Type correctness *)

LEMMA TypeInit == Init => TypeOK
<1> SUFFICES ASSUME Init PROVE TypeOK
  OBVIOUS
<1>1. <<>> \in Chain
  BY DEF Chain
<1>2. NoRef \in RefRow
  BY <1>1 DEF NoRef, RefRow
<1>3. \A n \in Refs : Unused(n) \in LeasedRef
  BY <1>1 DEF Unused, LeasedRef
<1> QED BY <1>1, <1>2, <1>3 DEF Init, TypeOK

LEMMA PutRef ==
  ASSUME TypeOK, NEW n \in Refs, NEW x \in RefRow
  PROVE  [ref EXCEPT ![n] = x] \in [Refs -> RefRow]
  BY DEF TypeOK

LEMMA PutRun ==
  ASSUME TypeOK, NEW r \in Runners, NEW x \in LeasedRef
  PROVE  [run EXCEPT ![r] = x] \in [Runners -> LeasedRef]
  BY DEF TypeOK

\* An append makes the chain, and the list of writers, one longer.
LEMMA Appended ==
  ASSUME TypeOK, NEW r \in Runners, NEW m \in Msgs
  PROVE  /\ Append(run[r].hash, m) \in Chain
         /\ Len(Append(run[r].hash, m)) = Len(run[r].hash) + 1
         /\ Append(writer[run[r].name], r) \in Seq(Runners)
<1>1. run[r].hash \in Seq(Msgs) /\ writer[run[r].name] \in Seq(Runners)
  BY DEF TypeOK, Chain, LeasedRef
<1> QED BY <1>1 DEF Chain

LEMMA TypeStep == TypeOK /\ [Next]_vars => TypeOK'
<1> SUFFICES ASSUME TypeOK, [Next]_vars PROVE TypeOK'
  OBVIOUS
<1>1. ASSUME NEW n \in Refs, CreateRef(n) PROVE TypeOK'
  <2>1. [ref[n] EXCEPT !.exists = TRUE] \in RefRow
    BY DEF TypeOK, RefRow
  <2> QED BY <1>1, <2>1 DEF CreateRef, TypeOK
<1>2. ASSUME NEW r \in Runners, Acquire(r) PROVE TypeOK'
  <2> DEFINE n == run[r].name
  <2>1. n \in Refs /\ Lease \in Nat
    BY ConversationRefAssumption DEF TypeOK, LeasedRef
  <2>2. /\ [ref[n] EXCEPT !.by = r, !.left = Lease] \in RefRow
        /\ [run[r] EXCEPT !.pc = "leased"] \in LeasedRef
    <3>1. ref[n] \in RefRow /\ run[r] \in LeasedRef
      BY <2>1 DEF TypeOK
    <3>2. [ref[n] EXCEPT !.by = r, !.left = Lease] \in RefRow
      BY <2>1, <3>1 DEF RefRow
    <3>3. [run[r] EXCEPT !.pc = "leased"] \in LeasedRef
      BY <3>1 DEF LeasedRef
    <3> QED BY <3>2, <3>3
  <2>3. /\ ref' = [ref EXCEPT ![n] = [ref[n] EXCEPT !.by = r, !.left = Lease]]
        /\ run' = [run EXCEPT ![r] = [run[r] EXCEPT !.pc = "leased"]]
    BY <1>2, <2>1 DEF Acquire, TypeOK
  <2> QED BY <1>2, <2>1, <2>2, <2>3, PutRef, PutRun DEF Acquire, TypeOK
<1>3. ASSUME NEW r \in Runners, Open(r) PROVE TypeOK'
  <2>1. run[r].name \in Refs /\ ref[run[r].name].hash \in Chain
    BY DEF TypeOK, LeasedRef, RefRow
  <2>2. [run[r] EXCEPT !.pc = "open", !.hash = ref[run[r].name].hash] \in LeasedRef
    BY <2>1 DEF TypeOK, LeasedRef
  <2> QED BY <1>3, <2>2, PutRun DEF Open, TypeOK
<1>4. ASSUME NEW r \in Runners, run' = [run EXCEPT ![r] = [@ EXCEPT !.pc = "closed"]]
      PROVE  run' \in [Runners -> LeasedRef]
  <2>1. [run[r] EXCEPT !.pc = "closed"] \in LeasedRef
    BY DEF TypeOK, LeasedRef
  <2> QED BY <1>4, <2>1, PutRun DEF TypeOK
<1>5. ASSUME NEW r \in Runners, Close(r) PROVE TypeOK'
  <2>1. run[r].name \in Refs
    BY DEF TypeOK, LeasedRef
  <2>2. [ref[run[r].name] EXCEPT !.by = NoRunner, !.left = 0] \in RefRow
    BY <2>1 DEF TypeOK, RefRow
  <2>3. Released(r) \in [Refs -> RefRow]
    BY <2>1, <2>2, PutRef DEF Released, TypeOK
  <2> QED BY <1>4, <1>5, <2>3 DEF Close, TypeOK
<1>6. ASSUME NEW r \in Runners, Abandon(r) PROVE TypeOK'
  BY <1>4, <1>6 DEF Abandon, TypeOK
<1>7. ASSUME NEW r \in Runners, Renew(r) PROVE TypeOK'
  <2>1. run[r].name \in Refs /\ Lease \in Nat
    BY ConversationRefAssumption DEF TypeOK, LeasedRef
  <2>2. [ref[run[r].name] EXCEPT !.left = Lease] \in RefRow
    BY <2>1 DEF TypeOK, RefRow
  <2> QED BY <1>7, <2>1, <2>2, PutRef DEF Renew, TypeOK
<1>8. ASSUME NEW r \in Runners, NEW m \in Msgs, AppendMessage(r, m) PROVE TypeOK'
  <2> DEFINE n == run[r].name
             h == Append(run[r].hash, m)
  <2>1. n \in Refs /\ h \in Chain /\ Append(writer[n], r) \in Seq(Runners)
    BY Appended DEF TypeOK, LeasedRef
  <2>2. [ref[n] EXCEPT !.hash = h] \in RefRow /\ [run[r] EXCEPT !.hash = h] \in LeasedRef
    <3>1. ref[n] \in RefRow /\ run[r] \in LeasedRef
      BY <2>1 DEF TypeOK
    <3>2. [ref[n] EXCEPT !.hash = h] \in RefRow
      BY <2>1, <3>1 DEF RefRow
    <3>3. [run[r] EXCEPT !.hash = h] \in LeasedRef
      BY <2>1, <3>1 DEF LeasedRef
    <3> QED BY <3>2, <3>3
  <2>3. /\ node' = node \cup {h}
        /\ ref' = [ref EXCEPT ![n] = [ref[n] EXCEPT !.hash = h]]
        /\ run' = [run EXCEPT ![r] = [run[r] EXCEPT !.hash = h]]
        /\ writer' = [writer EXCEPT ![n] = Append(writer[n], r)]
        /\ lapsed' = lapsed
    BY <1>8, <2>1 DEF AppendMessage, TypeOK
  <2> HIDE DEF n, h
  <2>4. ref' \in [Refs -> RefRow] /\ run' \in [Runners -> LeasedRef]
    BY <2>1, <2>2, <2>3, PutRef, PutRun
  <2> QED BY <2>1, <2>3, <2>4 DEF TypeOK
<1>9. ASSUME NEW m \in Msgs, AppendBranch(m) PROVE TypeOK'
  <2>1. \A p \in node : Append(p, m) \in Chain
    BY DEF TypeOK, Chain
  <2> QED BY <1>9, <2>1 DEF AppendBranch, TypeOK
<1>10. CASE Tick
  <2>1. ASSUME NEW n \in Refs, NEW l \in Nat PROVE [ref[n] EXCEPT !.left = l] \in RefRow
    BY DEF TypeOK, RefRow
  <2>2. \A n \in Refs : (IF ref[n].left = 0 THEN 0 ELSE ref[n].left - 1) \in Nat
    BY DEF TypeOK, RefRow
  <2>3. ref' \in [Refs -> RefRow]
    BY <1>10, <2>1, <2>2 DEF Tick
  <2> QED BY <1>10, <2>3 DEF Tick, TypeOK
<1>11. CASE UNCHANGED vars
  BY <1>11 DEF vars, TypeOK
<1> QED
  BY <1>1, <1>2, <1>3, <1>5, <1>6, <1>7, <1>8, <1>9, <1>10, <1>11 DEF Next

\* Type correctness of conversation refs, leases and chains.
THEOREM TypeCorrect == Spec => []TypeOK
  BY TypeInit, TypeStep, PTL DEF Spec

-----------------------------------------------------------------------------
(* Leases *)

\* What a runner that holds its lease may rely on.
Safe(q) ==
  Holds(q) =>
    /\ ref[run[q].name].by = q
    /\ ref[run[q].name].left > 0
    /\ run[q].pc = "open" => ref[run[q].name].hash = run[q].hash

LEMMA SafeIsInv ==
  (\A q \in Runners : Safe(q)) <=> (HoldersLeased /\ HolderIsCurrent)
  BY DEF Safe, HoldersLeased, HolderIsCurrent, Available

\* A runner keeps what it relies on while its ref and its own state stay.
LEMMA SafeKept ==
  ASSUME NEW q \in Runners, Safe(q), run'[q] = run[q], lapsed' = lapsed,
         ref'[run[q].name].by = ref[run[q].name].by,
         ref'[run[q].name].left = ref[run[q].name].left \/ ref'[run[q].name].left > 0,
         ref'[run[q].name].hash = ref[run[q].name].hash
  PROVE  Safe(q)'
  BY DEF Safe, Holds

\* Somebody who finds a ref available meets no holder of that ref.
LEMMA NoOtherHolder ==
  ASSUME TypeOK, NEW r \in Runners, NEW q \in Runners, q # r, Safe(q), Holds(q),
         Available(r, run[r].name)
  PROVE  run[q].name # run[r].name
  BY ConversationRefAssumption DEF TypeOK, LeasedRef, RefRow, Safe, Available

LEMMA SafeStep ==
  ASSUME TypeOK, TypeOK', \A p \in Runners : Safe(p), [Next]_vars, NEW q \in Runners
  PROVE  Safe(q)'
<1>0. Safe(q) /\ run[q].name \in Refs /\ ref \in [Refs -> RefRow] /\ run \in [Runners -> LeasedRef]
  BY DEF TypeOK, LeasedRef
<1>1. ASSUME NEW n \in Refs, CreateRef(n) PROVE Safe(q)'
  <2>1. /\ run'[q] = run[q] /\ lapsed' = lapsed
        /\ ref' = [ref EXCEPT ![n] = [ref[n] EXCEPT !.exists = TRUE]]
    BY <1>0, <1>1 DEF CreateRef
  <2>2. /\ ref'[run[q].name].by = ref[run[q].name].by
        /\ ref'[run[q].name].left = ref[run[q].name].left
        /\ ref'[run[q].name].hash = ref[run[q].name].hash
    BY <1>0, <2>1 DEF RefRow
  <2> QED BY <1>0, <2>1, <2>2, SafeKept
<1>2. ASSUME NEW r \in Runners, Acquire(r) PROVE Safe(q)'
  <2> DEFINE n == run[r].name
  <2>1. /\ n \in Refs /\ lapsed' = lapsed
        /\ ref' = [ref EXCEPT ![n] = [ref[n] EXCEPT !.by = r, !.left = Lease]]
        /\ run' = [run EXCEPT ![r] = [run[r] EXCEPT !.pc = "leased"]]
    BY <1>0, <1>2 DEF Acquire, TypeOK, LeasedRef
  <2>2. CASE q = r
    <3>1. run'[q].name = n /\ run'[q].pc = "leased"
      BY <1>0, <2>1, <2>2 DEF LeasedRef
    <3>2. ref'[n].by = q /\ ref'[n].left = Lease
      BY <1>0, <2>1, <2>2 DEF RefRow
    <3> QED BY <3>1, <3>2, ConversationRefAssumption DEF Safe
  <2>3. CASE q # r
    <3>1. run'[q] = run[q]
      BY <1>0, <2>1, <2>3
    <3>2. CASE Holds(q)
      <4>1. run[q].name # n
        BY <1>0, <1>2, <2>3, <3>2, NoOtherHolder DEF Acquire
      <4> QED BY <1>0, <2>1, <3>1, <4>1, SafeKept
    <3>3. CASE ~Holds(q)
      BY <2>1, <3>1, <3>3 DEF Safe, Holds
    <3> QED BY <3>2, <3>3
  <2> QED BY <2>2, <2>3
<1>3. ASSUME NEW r \in Runners, Open(r) PROVE Safe(q)'
  <2>1. /\ ref' = ref /\ lapsed' = lapsed /\ run[r].pc = "leased"
        /\ run' = [run EXCEPT ![r] =
                     [run[r] EXCEPT !.pc = "open", !.hash = ref[run[r].name].hash]]
    BY <1>0, <1>3 DEF Open
  <2>2. CASE q = r
    <3>1. run'[q].name = run[q].name /\ run'[q].hash = ref[run[q].name].hash
      BY <1>0, <2>1, <2>2 DEF LeasedRef
    <3> QED BY <1>0, <2>1, <2>2, <3>1 DEF Safe, Holds
  <2>3. CASE q # r
    <3>1. run'[q] = run[q]
      BY <1>0, <2>1, <2>3
    <3> QED BY <1>0, <2>1, <3>1, SafeKept
  <2> QED BY <2>2, <2>3
<1>4. ASSUME NEW r \in Runners, Close(r) \/ Abandon(r) PROVE Safe(q)'
  <2>1. /\ ref' \in {ref, Released(r)} /\ lapsed' = lapsed
        /\ run' = [run EXCEPT ![r] = [run[r] EXCEPT !.pc = "closed"]]
    BY <1>0, <1>4 DEF Close, Abandon
  <2>2. CASE q = r
    <3>1. run'[q].pc = "closed"
      BY <1>0, <2>1, <2>2 DEF LeasedRef
    <3> QED BY <3>1 DEF Safe, Holds
  <2>3. CASE q # r
    <3>1. run'[q] = run[q]
      BY <1>0, <2>1, <2>3
    <3>2. CASE Holds(q)
      <4>1. ref[run[q].name].by # r
        BY <1>0, <2>3, <3>2 DEF Safe
      <4>2. ref'[run[q].name] = ref[run[q].name]
        BY <1>0, <2>1, <4>1 DEF Released
      <4> QED BY <1>0, <2>1, <3>1, <4>2, SafeKept
    <3>3. CASE ~Holds(q)
      BY <2>1, <3>1, <3>3 DEF Safe, Holds
    <3> QED BY <3>2, <3>3
  <2> QED BY <2>2, <2>3
<1>5. ASSUME NEW r \in Runners, Renew(r) PROVE Safe(q)'
  <2>1. /\ run'[q] = run[q] /\ lapsed' = lapsed
        /\ ref' = [ref EXCEPT ![run[r].name] = [ref[run[r].name] EXCEPT !.left = Lease]]
    BY <1>0, <1>5 DEF Renew
  <2>2. /\ ref'[run[q].name].by = ref[run[q].name].by
        /\ ref'[run[q].name].left = ref[run[q].name].left \/ ref'[run[q].name].left > 0
        /\ ref'[run[q].name].hash = ref[run[q].name].hash
    BY <1>0, <2>1, ConversationRefAssumption DEF RefRow
  <2> QED BY <1>0, <2>1, <2>2, SafeKept
<1>6. ASSUME NEW r \in Runners, NEW m \in Msgs, AppendMessage(r, m) PROVE Safe(q)'
  <2> DEFINE n == run[r].name
             h == Append(run[r].hash, m)
  <2>1. /\ n \in Refs /\ lapsed' = lapsed /\ Available(r, n) /\ run[r].pc = "open"
        /\ ref' = [ref EXCEPT ![n] = [ref[n] EXCEPT !.hash = h]]
        /\ run' = [run EXCEPT ![r] = [run[r] EXCEPT !.hash = h]]
    BY <1>0, <1>6 DEF AppendMessage, MayAdvance, TypeOK, LeasedRef
  <2> HIDE DEF h
  <2>2. CASE q = r
    <3>1. run'[q].name = n /\ run'[q].hash = h /\ run'[q].pc = run[q].pc
      BY <1>0, <2>1, <2>2 DEF LeasedRef
    <3>2. ref'[n].by = ref[n].by /\ ref'[n].left = ref[n].left /\ ref'[n].hash = h
      BY <1>0, <2>1 DEF RefRow
    <3> QED BY <1>0, <2>1, <2>2, <3>1, <3>2 DEF Safe, Holds
  <2>3. CASE q # r
    <3>1. run'[q] = run[q]
      BY <1>0, <2>1, <2>3
    <3>2. CASE Holds(q)
      <4>1. run[q].name # n
        BY <1>0, <2>1, <2>3, <3>2, NoOtherHolder
      <4> QED BY <1>0, <2>1, <3>1, <4>1, SafeKept
    <3>3. CASE ~Holds(q)
      BY <2>1, <3>1, <3>3 DEF Safe, Holds
    <3> QED BY <3>2, <3>3
  <2> QED BY <2>2, <2>3
<1>7. CASE Tick
  <2> DEFINE n == run[q].name
  <2>1. ref'[n] = [ref[n] EXCEPT !.left = IF ref[n].left = 0 THEN 0 ELSE ref[n].left - 1]
    BY <1>0, <1>7 DEF Tick
  <2>2. /\ ref'[n].by = ref[n].by /\ ref'[n].hash = ref[n].hash
        /\ ref'[n].left = IF ref[n].left = 0 THEN 0 ELSE ref[n].left - 1
    BY <1>0, <2>1 DEF RefRow
  <2>3. ref[n].left \in Nat
    BY <1>0 DEF RefRow
  <2>4. SUFFICES ASSUME Holds(q)' PROVE Safe(q)'
    BY DEF Safe
  <2>5. Holds(q) /\ ~(ref[n].by = q /\ ref[n].left <= 1) /\ run' = run
    BY <1>0, <1>7, <2>4 DEF Tick, Holds
  <2> QED BY <1>0, <2>2, <2>3, <2>5 DEF Safe
<1>8. CASE (\E m \in Msgs : AppendBranch(m)) \/ UNCHANGED vars
  <2>1. ref' = ref /\ run' = run /\ lapsed' = lapsed
    BY <1>8 DEF AppendBranch, vars
  <2> QED BY <1>0, <2>1 DEF Safe, Holds
<1> QED BY <1>1, <1>2, <1>3, <1>4, <1>5, <1>6, <1>7, <1>8 DEF Next

LEMMA SafeInit == Init => \A q \in Runners : Safe(q)
  BY DEF Init, Unused, Safe, Holds

-----------------------------------------------------------------------------
(* Writers *)

\* The third part of WritersKnown, for one message.
Known(n, k) ==
  LET r == writer[n][k] IN
  /\ run[r].pc \in {"open", "closed"}
  /\ run[r].name = n
  /\ Len(run[r].hash) \in DOMAIN writer[n]
  /\ writer[n][Len(run[r].hash)] = r

LEMMA KnownIsInv ==
  WritersKnown <=>
    /\ \A n \in Refs : Len(writer[n]) = Len(ref[n].hash)
    /\ \A r \in Runners : Len(run[r].hash) <= Len(ref[run[r].name].hash)
    /\ \A n \in Refs : \A k \in DOMAIN writer[n] : Known(n, k)
  BY DEF WritersKnown, Known

LEMMA WritersInit == Init => WritersKnown /\ TurnsContiguous
  BY DEF Init, NoRef, Unused, WritersKnown, TurnsContiguous

\* Steps that append nothing and leave the caches of the writers alone.
LEMMA WritersKept ==
  ASSUME TypeOK, WritersKnown, TurnsContiguous,
         writer' = writer,
         \A n \in Refs : ref'[n].hash = ref[n].hash,
         \A q \in Runners :
           /\ run'[q].name = run[q].name
           /\ run[q].pc \in {"open", "closed"} =>
                run'[q].pc \in {"open", "closed"} /\ run'[q].hash = run[q].hash
           /\ Len(run'[q].hash) <= Len(ref[run[q].name].hash)
  PROVE  WritersKnown' /\ TurnsContiguous'
<1>1. \A n \in Refs : writer[n] \in Seq(Runners)
  BY DEF TypeOK
<1>2. \A n \in Refs : \A k \in DOMAIN writer[n] : writer[n][k] \in Runners
  BY <1>1
<1>3. \A q \in Runners : run[q].name \in Refs
  BY DEF TypeOK, LeasedRef
<1>4. ASSUME NEW n \in Refs, NEW k \in DOMAIN writer[n] PROVE Known(n, k)'
  <2>1. writer[n][k] \in Runners /\ Known(n, k)
    BY <1>2, <1>4, KnownIsInv
  <2> QED BY <2>1 DEF Known
<1>5. TurnsContiguous'
  BY DEF TurnsContiguous
<1>6. \A n \in Refs : Len(writer'[n]) = Len(ref'[n].hash)
  BY DEF WritersKnown
<1>7. \A r \in Runners : Len(run'[r].hash) <= Len(ref'[run'[r].name].hash)
  BY <1>3
<1> QED BY <1>4, <1>5, <1>6, <1>7 DEF WritersKnown, Known

\* The state after an append by r, and the writer of the message before it.
LEMMA AppendFacts ==
  ASSUME TypeOK, WritersKnown, NEW r \in Runners, NEW m \in Msgs, AppendMessage(r, m)
  PROVE  /\ run[r].name \in Refs /\ writer[run[r].name] \in Seq(Runners)
         /\ writer' = [writer EXCEPT ![run[r].name] = Append(writer[run[r].name], r)]
         /\ Len(run[r].hash) = Len(writer[run[r].name]) /\ ref[run[r].name].hash = run[r].hash
         /\ ref'[run[r].name].hash = Append(run[r].hash, m)
         /\ \A p \in Refs : p # run[r].name => ref'[p].hash = ref[p].hash
         /\ run'[r].hash = Append(run[r].hash, m)
         /\ run'[r].pc = "open" /\ run'[r].name = run[r].name
         /\ \A q \in Runners : q # r => run'[q] = run[q]
         /\ Len(Append(run[r].hash, m)) = Len(writer[run[r].name]) + 1
         /\ \A k \in DOMAIN writer[run[r].name] : writer[run[r].name][k] = r => writer[run[r].name][Len(writer[run[r].name])] = r
<1> DEFINE n == run[r].name
           h == Append(run[r].hash, m)
<1>1. /\ n \in Refs /\ ref \in [Refs -> RefRow] /\ run \in [Runners -> LeasedRef]
      /\ writer[n] \in Seq(Runners) /\ run[r].hash \in Seq(Msgs)
  BY DEF TypeOK, LeasedRef, Chain
<1>2. /\ run[r].pc = "open"
      /\ ref[n].hash = run[r].hash
      /\ ref' = [ref EXCEPT ![n] = [ref[n] EXCEPT !.hash = h]]
      /\ run' = [run EXCEPT ![r] = [run[r] EXCEPT !.hash = h]]
      /\ writer' = [writer EXCEPT ![n] = Append(writer[n], r)]
  BY <1>1 DEF AppendMessage, MayAdvance
<1>3. Len(h) = Len(run[r].hash) + 1
  BY <1>1
<1>4. Len(run[r].hash) = Len(writer[n])
  BY <1>1, <1>2 DEF WritersKnown
<1>5. ASSUME NEW k \in DOMAIN writer[n], writer[n][k] = r PROVE writer[n][Len(writer[n])] = r
  <2>1. Known(n, k)
    BY <1>1, KnownIsInv
  <2> QED BY <1>4, <1>5, <2>1 DEF Known
<1> HIDE DEF h
<1>6. ref'[n].hash = h /\ \A p \in Refs : p # n => ref'[p].hash = ref[p].hash
  BY <1>1, <1>2 DEF RefRow
<1>7. /\ run'[r].hash = h /\ run'[r].pc = "open" /\ run'[r].name = n
      /\ \A q \in Runners : q # r => run'[q] = run[q]
  BY <1>1, <1>2 DEF LeasedRef
<1> USE DEF h
<1> QED BY <1>1, <1>2, <1>3, <1>4, <1>5, <1>6, <1>7

LEMMA WritersAppend ==
  ASSUME TypeOK, WritersKnown, TurnsContiguous,
         NEW r \in Runners, NEW m \in Msgs, AppendMessage(r, m)
  PROVE  WritersKnown' /\ TurnsContiguous'
<1> DEFINE n == run[r].name
           w == writer[n]
           L == Len(w)
<1>1. /\ n \in Refs /\ w \in Seq(Runners) /\ L \in Nat
      /\ writer' = [writer EXCEPT ![n] = Append(w, r)]
      /\ Len(run[r].hash) = L /\ Len(run'[r].hash) = L + 1 /\ Len(ref'[n].hash) = L + 1
      /\ Len(ref[n].hash) = L
      /\ \A p \in Refs : p # n => ref'[p].hash = ref[p].hash
      /\ run'[r].pc = "open" /\ run'[r].name = n
      /\ \A q \in Runners : q # r => run'[q] = run[q]
      /\ \A k \in DOMAIN w : w[k] = r => w[L] = r
  <2>1. /\ n \in Refs /\ w \in Seq(Runners)
        /\ writer' = [writer EXCEPT ![n] = Append(w, r)]
        /\ Len(run[r].hash) = L /\ ref[n].hash = run[r].hash
        /\ ref'[n].hash = Append(run[r].hash, m)
        /\ \A p \in Refs : p # n => ref'[p].hash = ref[p].hash
        /\ run'[r].hash = Append(run[r].hash, m)
        /\ run'[r].pc = "open" /\ run'[r].name = n
        /\ \A q \in Runners : q # r => run'[q] = run[q]
        /\ Len(Append(run[r].hash, m)) = L + 1
        /\ \A k \in DOMAIN w : w[k] = r => w[L] = r
    BY AppendFacts, Zenon
  <2>2. L \in Nat
    BY <2>1
  <2> QED BY <2>1, <2>2, Zenon
<1>2. writer \in [Refs -> Seq(Runners)] /\ \A q \in Runners : run[q].name \in Refs
  BY DEF TypeOK, LeasedRef
<1>2a. \A q \in Runners : Len(run[q].hash) \in Nat
  BY DEF TypeOK, LeasedRef, Chain
<1>3. writer'[n] = Append(w, r) /\ \A p \in Refs : p # n => writer'[p] = writer[p]
  BY <1>1, <1>2
<1>4. /\ DOMAIN writer'[n] = 1..(L + 1) /\ DOMAIN w = 1..L
      /\ Len(writer'[n]) = L + 1
      /\ writer'[n][L + 1] = r
      /\ \A k \in 1..L : writer'[n][k] = w[k]
  BY <1>1, <1>3
<1>5. \A p \in Refs : \A k \in DOMAIN writer[p] : writer[p][k] \in Runners
  BY <1>2
<1>6. ASSUME NEW p \in Refs PROVE Len(writer'[p]) = Len(ref'[p].hash)
  <2>1. CASE p = n
    BY <1>1, <1>4, <2>1
  <2>2. CASE p # n
    <3>1. Len(writer[p]) = Len(ref[p].hash)
      BY DEF WritersKnown
    <3>2. writer'[p] = writer[p] /\ ref'[p].hash = ref[p].hash
      BY <1>1, <1>3, <2>2
    <3> QED BY <3>1, <3>2
  <2> QED BY <2>1, <2>2
<1>7. ASSUME NEW q \in Runners PROVE Len(run'[q].hash) <= Len(ref'[run'[q].name].hash)
  <2>1. CASE q = r
    BY <1>1, <2>1
  <2>2. CASE q # r
    <3>1. run'[q] = run[q] /\ Len(run[q].hash) <= Len(ref[run[q].name].hash)
      BY <1>1, <2>2 DEF WritersKnown
    <3>2. CASE run[q].name = n
      BY <1>1, <1>2a, <3>1, <3>2
    <3>3. CASE run[q].name # n
      BY <1>1, <1>2, <3>1, <3>3
    <3> QED BY <3>2, <3>3
  <2> QED BY <2>1, <2>2
<1>7a. \A i, j, k \in 1..L : i < j /\ j < k /\ w[i] = w[k] => w[j] = w[i]
  <2>1. \A i, j, k \in DOMAIN w : i < j /\ j < k /\ w[i] = w[k] => w[j] = w[i]
    BY <1>1 DEF TurnsContiguous
  <2>2. DOMAIN w = 1..L
    BY <1>4
  <2> HIDE DEF w, L
  <2> QED BY <2>1, <2>2
<1> HIDE DEF n, w, L
<1>8. ASSUME NEW p \in Refs, NEW k \in DOMAIN writer'[p] PROVE Known(p, k)'
  <2>1. CASE p # n
    <3>1. writer'[p] = writer[p] /\ k \in DOMAIN writer[p]
      BY <1>3, <1>8, <2>1
    <3>2. Known(p, k) /\ writer[p][k] \in Runners
      BY <1>5, <3>1, KnownIsInv
    <3>3. writer[p][k] # r
      BY <2>1, <3>2 DEF Known, n
    <3>4. run'[writer[p][k]] = run[writer[p][k]]
      BY <1>1, <3>2, <3>3
    <3> QED BY <3>1, <3>2, <3>4 DEF Known
  <2>2. CASE p = n /\ writer'[n][k] = r
    BY <1>1, <1>4, <2>2 DEF Known
  <2>3. CASE p = n /\ writer'[n][k] # r
    <3>1. k \in 1..L /\ writer'[n][k] = w[k]
      BY <1>1, <1>4, <1>8, <2>3
    <3>2. Known(n, k) /\ w[k] \in Runners
      BY <1>1, <1>4, <1>5, <3>1, KnownIsInv DEF w
    <3>3. run'[w[k]] = run[w[k]]
      BY <1>1, <2>3, <3>1, <3>2
    <3>4. Len(run[w[k]].hash) \in 1..L /\ w[Len(run[w[k]].hash)] = w[k]
      BY <1>4, <3>2 DEF Known, w
    <3>5. Len(run[w[k]].hash) \in 1..(L + 1) /\ writer'[n][Len(run[w[k]].hash)] = w[k]
      BY <1>1, <1>4, <3>4
    <3>6. run[w[k]].pc \in {"open", "closed"} /\ run[w[k]].name = n
      BY <3>2 DEF Known, w
    <3> QED BY <1>4, <2>3, <3>1, <3>3, <3>5, <3>6 DEF Known
  <2> QED BY <2>1, <2>2, <2>3
<1>9. ASSUME NEW p \in Refs, NEW i \in DOMAIN writer'[p], NEW j \in DOMAIN writer'[p],
             NEW k \in DOMAIN writer'[p],
             i < j, j < k, writer'[p][i] = writer'[p][k]
      PROVE  writer'[p][j] = writer'[p][i]
  <2>1. CASE p # n
    BY <1>3, <1>9, <2>1 DEF TurnsContiguous
  <2>2. CASE p = n /\ k <= L
    <3>1. i \in 1..L /\ j \in 1..L /\ k \in 1..L
      BY <1>1, <1>4, <1>9, <2>2
    <3>2. w[i] = w[k] /\ writer'[n][i] = w[i] /\ writer'[n][j] = w[j]
      BY <1>4, <1>9, <2>2, <3>1
    <3>3. w[j] = w[i]
      BY <1>7a, <1>9, <3>1, <3>2
    <3> QED BY <2>2, <3>2, <3>3
  <2>3. CASE p = n /\ k = L + 1
    <3>1. i \in 1..L /\ j \in 1..L /\ L \in 1..L
      BY <1>1, <1>4, <1>9, <2>3
    <3>2. w[i] = r /\ writer'[n][i] = w[i] /\ writer'[n][j] = w[j]
      BY <1>4, <1>9, <2>3, <3>1
    <3>3. w[L] = r
      BY <1>1, <1>4, <3>1, <3>2
    <3>4. j < L => w[j] = w[i]
      BY <1>1, <1>7a, <1>9, <3>1, <3>2, <3>3
    <3> QED BY <1>1, <2>3, <3>1, <3>2, <3>3, <3>4
  <2> QED BY <1>1, <1>4, <1>9, <2>1, <2>2, <2>3
<1>10. TurnsContiguous'
  BY <1>9 DEF TurnsContiguous
<1> QED BY <1>6, <1>7, <1>8, <1>10 DEF WritersKnown, Known

LEMMA WritersStep ==
  ASSUME TypeOK, WritersKnown, TurnsContiguous, [Next]_vars
  PROVE  WritersKnown' /\ TurnsContiguous'
<1>0. /\ ref \in [Refs -> RefRow] /\ run \in [Runners -> LeasedRef]
      /\ \A q \in Runners : /\ run[q].name \in Refs
                            /\ Len(run[q].hash) <= Len(ref[run[q].name].hash)
                            /\ Len(run[q].hash) \in Nat
                            /\ Len(ref[run[q].name].hash) \in Nat
  BY DEF TypeOK, LeasedRef, RefRow, Chain, WritersKnown
<1>1. ASSUME NEW n \in Refs, CreateRef(n) PROVE WritersKnown' /\ TurnsContiguous'
  <2>1. /\ writer' = writer /\ run' = run
        /\ ref' = [ref EXCEPT ![n] = [ref[n] EXCEPT !.exists = TRUE]]
    BY <1>0, <1>1 DEF CreateRef
  <2>2. \A p \in Refs : ref'[p].hash = ref[p].hash
    BY <1>0, <2>1 DEF RefRow
  <2> QED BY <1>0, <2>1, <2>2, WritersKept
<1>2. ASSUME NEW r \in Runners, Acquire(r) PROVE WritersKnown' /\ TurnsContiguous'
  <2>1. /\ writer' = writer /\ run[r].name \in Refs /\ run[r].pc = "new"
        /\ ref' = [ref EXCEPT ![run[r].name] = [ref[run[r].name] EXCEPT !.by = r, !.left = Lease]]
        /\ run' = [run EXCEPT ![r] = [run[r] EXCEPT !.pc = "leased"]]
    BY <1>0, <1>2 DEF Acquire
  <2>2. \A p \in Refs : ref'[p].hash = ref[p].hash
    BY <1>0, <2>1 DEF RefRow
  <2>3. \A q \in Runners : /\ run'[q].name = run[q].name /\ run'[q].hash = run[q].hash
                           /\ run[q].pc \in {"open", "closed"} => run'[q].pc = run[q].pc
    BY <1>0, <2>1 DEF LeasedRef
  <2> QED BY <1>0, <2>1, <2>2, <2>3, WritersKept
<1>3. ASSUME NEW r \in Runners, Open(r) PROVE WritersKnown' /\ TurnsContiguous'
  <2>1. /\ writer' = writer /\ ref' = ref /\ run[r].name \in Refs /\ run[r].pc = "leased"
        /\ run' = [run EXCEPT ![r] =
                     [run[r] EXCEPT !.pc = "open", !.hash = ref[run[r].name].hash]]
    BY <1>0, <1>3 DEF Open
  <2>2. /\ run'[r].name = run[r].name /\ run'[r].hash = ref[run[r].name].hash
        /\ run'[r].pc = "open"
        /\ \A q \in Runners : q # r => run'[q] = run[q]
    BY <1>0, <2>1 DEF LeasedRef
  <2>3. \A q \in Runners :
          /\ run'[q].name = run[q].name
          /\ run[q].pc \in {"open", "closed"} =>
               run'[q].pc \in {"open", "closed"} /\ run'[q].hash = run[q].hash
          /\ Len(run'[q].hash) <= Len(ref[run[q].name].hash)
    <3> SUFFICES ASSUME NEW q \in Runners
                 PROVE  /\ run'[q].name = run[q].name
                        /\ run[q].pc \in {"open", "closed"} =>
                             run'[q].pc \in {"open", "closed"} /\ run'[q].hash = run[q].hash
                        /\ Len(run'[q].hash) <= Len(ref[run[q].name].hash)
      OBVIOUS
    <3>1. CASE q = r
      BY <1>0, <2>1, <2>2, <3>1
    <3>2. CASE q # r
      BY <1>0, <2>2, <3>2
    <3> QED BY <3>1, <3>2
  <2> QED BY <2>1, <2>3, WritersKept
<1>4. ASSUME NEW r \in Runners, Close(r) \/ Abandon(r) PROVE WritersKnown' /\ TurnsContiguous'
  <2>1. /\ writer' = writer /\ run[r].name \in Refs
        /\ ref' \in {ref, Released(r)}
        /\ run' = [run EXCEPT ![r] = [run[r] EXCEPT !.pc = "closed"]]
    BY <1>0, <1>4 DEF Close, Abandon
  <2>2. \A p \in Refs : ref'[p].hash = ref[p].hash
    <3>1. \A p \in Refs : Released(r)[p].hash = ref[p].hash
      BY <1>0, <2>1 DEF RefRow, Released
    <3> QED BY <2>1, <3>1
  <2>3. \A q \in Runners : /\ run'[q].name = run[q].name /\ run'[q].hash = run[q].hash
                           /\ run'[q].pc \in {run[q].pc, "closed"}
    BY <1>0, <2>1 DEF LeasedRef
  <2> QED BY <1>0, <2>1, <2>2, <2>3, WritersKept
<1>5. ASSUME NEW r \in Runners, Renew(r) PROVE WritersKnown' /\ TurnsContiguous'
  <2>1. /\ writer' = writer /\ run' = run
        /\ ref' = [ref EXCEPT ![run[r].name] = [ref[run[r].name] EXCEPT !.left = Lease]]
    BY <1>0, <1>5 DEF Renew
  <2>2. \A p \in Refs : ref'[p].hash = ref[p].hash
    BY <1>0, <2>1 DEF RefRow
  <2> QED BY <1>0, <2>1, <2>2, WritersKept
<1>6. ASSUME NEW r \in Runners, NEW m \in Msgs, AppendMessage(r, m)
      PROVE  WritersKnown' /\ TurnsContiguous'
  BY <1>6, WritersAppend
<1>7. CASE Tick
  <2>1. \A p \in Refs : ref'[p].hash = ref[p].hash
    BY <1>0, <1>7 DEF Tick, RefRow
  <2> QED BY <1>0, <1>7, <2>1, WritersKept DEF Tick
<1>8. CASE (\E m \in Msgs : AppendBranch(m)) \/ UNCHANGED vars
  <2>1. ref' = ref /\ run' = run /\ writer' = writer
    BY <1>8 DEF AppendBranch, vars
  <2> QED BY <1>0, <2>1, WritersKept
<1> QED BY <1>1, <1>2, <1>3, <1>4, <1>5, <1>6, <1>7, <1>8 DEF Next

-----------------------------------------------------------------------------
(* The invariant and the properties *)

LEMMA RefInvInit == Init => RefInv
<1> SUFFICES ASSUME Init PROVE RefInv
  OBVIOUS
<1>1. HoldersLeased /\ HolderIsCurrent
  BY SafeInit, SafeIsInv
<1> QED BY <1>1, TypeInit, WritersInit DEF RefInv

LEMMA RefInvStep == RefInv /\ [Next]_vars => RefInv'
<1> SUFFICES ASSUME RefInv, [Next]_vars PROVE RefInv'
  OBVIOUS
<1>1. TypeOK'
  BY TypeStep DEF RefInv
<1>2. (\A q \in Runners : Safe(q))'
  BY <1>1, SafeStep, SafeIsInv DEF RefInv
<1>3. (HoldersLeased /\ HolderIsCurrent)'
  BY <1>2, SafeIsInv DEF Safe, HoldersLeased, HolderIsCurrent, Available
<1>4. WritersKnown' /\ TurnsContiguous'
  BY WritersStep DEF RefInv
<1> QED BY <1>1, <1>3, <1>4 DEF RefInv

\* Lease holders and writers stay as RefInv describes them.
THEOREM Invariance == Spec => []RefInv
  BY RefInvInit, RefInvStep, PTL DEF Spec

\* Two runners whose leases never ran out never work on the same ref.
THEOREM Exclusion == Spec => []ExclusiveLease
<1>1. RefInv => ExclusiveLease
  BY DEF RefInv, HoldersLeased, ExclusiveLease
<1> QED BY <1>1, Invariance, PTL

\* The head a runner caches is the ref's head until its lease runs out.
THEOREM CacheCurrent == Spec => []HolderIsCurrent
<1>1. RefInv => HolderIsCurrent
  BY DEF RefInv
<1> QED BY <1>1, Invariance, PTL

\* The messages of one run stay together, whatever happens to its lease.
THEOREM Contiguity == Spec => []TurnsContiguous
<1>1. RefInv => TurnsContiguous
  BY DEF RefInv
<1> QED BY <1>1, Invariance, PTL

-----------------------------------------------------------------------------
(* Refinement *)

\* The log that a chain and its writers stand for.
Pairs(w, h) == [k \in DOMAIN h |-> [by |-> w[k], msg |-> h[k]]]

Entry == [by : Runners, msg : Msgs]

LEMMA PairsType ==
  ASSUME NEW w \in Seq(Runners), NEW h \in Seq(Msgs), Len(w) = Len(h)
  PROVE  Pairs(w, h) \in Seq(Entry) /\ Len(Pairs(w, h)) = Len(w)
<1>1. DOMAIN h = 1..Len(w) /\ Len(w) \in Nat
  OBVIOUS
<1>2. \A k \in 1..Len(w) : [by |-> w[k], msg |-> h[k]] \in Entry
  <2>1. \A k \in 1..Len(w) : w[k] \in Runners /\ h[k] \in Msgs
    OBVIOUS
  <2> QED BY <2>1 DEF Entry
<1>3. Pairs(w, h) = [k \in 1..Len(w) |-> [by |-> w[k], msg |-> h[k]]]
  BY <1>1 DEF Pairs
<1> HIDE DEF Pairs
<1> QED BY <1>1, <1>2, <1>3, SMT

LEMMA PairsAppend ==
  ASSUME NEW w \in Seq(Runners), NEW h \in Seq(Msgs), Len(w) = Len(h),
         NEW r \in Runners, NEW m \in Msgs
  PROVE  Pairs(Append(w, r), Append(h, m)) = Append(Pairs(w, h), [by |-> r, msg |-> m])
<1> DEFINE L == Len(w)
           wr == Append(w, r)
           hm == Append(h, m)
           p == Pairs(w, h)
           q == Pairs(wr, hm)
           e == [by |-> r, msg |-> m]
<1>1. /\ wr \in Seq(Runners) /\ hm \in Seq(Msgs) /\ Len(wr) = L + 1 /\ Len(hm) = L + 1
      /\ L \in Nat
  OBVIOUS
<1>2. DOMAIN h = 1..L /\ DOMAIN hm = 1..(L + 1)
  BY <1>1, LenProperties
<1>3. /\ \A k \in 1..L : wr[k] = w[k] /\ hm[k] = h[k]
      /\ wr[L + 1] = r /\ hm[L + 1] = m
  OBVIOUS
<1> HIDE DEF wr, hm
<1>4. p \in Seq(Entry) /\ Len(p) = L /\ q \in Seq(Entry) /\ Len(q) = L + 1
  BY <1>1, PairsType
<1>5. e \in Entry
  BY DEF Entry
<1>6. /\ \A k \in 1..(L + 1) : q[k] = [by |-> wr[k], msg |-> hm[k]]
      /\ \A k \in 1..L : p[k] = [by |-> w[k], msg |-> h[k]]
  BY <1>2 DEF Pairs
<1> HIDE DEF p, q, e, L
<1>7. /\ Append(p, e) \in Seq(Entry) /\ Len(Append(p, e)) = L + 1
      /\ \A k \in 1..L : Append(p, e)[k] = p[k]
      /\ Append(p, e)[L + 1] = e
  BY <1>1, <1>4, <1>5
<1>8. ASSUME NEW k \in 1..(L + 1) PROVE q[k] = Append(p, e)[k]
  <2>1. CASE k = L + 1
    BY <1>1, <1>3, <1>6, <1>7, <2>1 DEF e
  <2>2. CASE k # L + 1
    <3>1. k \in 1..L
      BY <1>1, <2>2
    <3> QED BY <1>3, <1>6, <1>7, <3>1
  <2> QED BY <2>1, <2>2
<1>9. q = Append(p, e)
  BY <1>4, <1>7, <1>8, SeqEqual
<1> QED BY <1>9 DEF p, q, e, wr, hm

\* The log of ConversationLog under the refinement mapping.
MappedLog == [n \in Refs |-> Pairs(writer[n], ref[n].hash)]

LEMMA LogInit == Init => Log!Init
  BY DEF Init, NoRef, Log!Init

LEMMA LogKept ==
  ASSUME writer' = writer, \A n \in Refs : ref'[n].hash = ref[n].hash
  PROVE  MappedLog' = MappedLog
  BY DEF MappedLog, Pairs

LEMMA LogAppend ==
  ASSUME RefInv, NEW r \in Runners, NEW m \in Msgs, AppendMessage(r, m),
         NEW n \in Refs, n = run[r].name
  PROVE  Log!Write(r, n, m)
<1> DEFINE w == writer[n]
           e == [by |-> r, msg |-> m]
<1>0. TypeOK /\ WritersKnown
  BY DEF RefInv
<1>1a. /\ w \in Seq(Runners)
       /\ writer' = [writer EXCEPT ![n] = Append(w, r)]
       /\ Len(run[r].hash) = Len(w) /\ ref[n].hash = run[r].hash
  BY <1>0, AppendFacts
<1>1b. \A p \in Refs : p # n => ref'[p].hash = ref[p].hash
  BY <1>0, AppendFacts
<1>1c. ref'[n].hash = Append(run[r].hash, m)
  BY <1>0, AppendFacts
<1>1d. \A k \in DOMAIN w : w[k] = r => w[Len(w)] = r
  BY <1>0, AppendFacts
<1>1. /\ w \in Seq(Runners)
      /\ writer' = [writer EXCEPT ![n] = Append(w, r)]
      /\ Len(run[r].hash) = Len(w) /\ ref[n].hash = run[r].hash
      /\ ref'[n].hash = Append(ref[n].hash, m)
      /\ \A p \in Refs : p # n => ref'[p].hash = ref[p].hash
      /\ \A k \in DOMAIN w : w[k] = r => w[Len(w)] = r
  BY <1>1a, <1>1b, <1>1c, <1>1d
<1>2. writer \in [Refs -> Seq(Runners)] /\ ref[n].hash \in Seq(Msgs) /\ TypeOK
  BY <1>1 DEF RefInv, TypeOK, RefRow, Chain
<1>3. /\ MappedLog[n] = Pairs(w, ref[n].hash)
      /\ DOMAIN MappedLog[n] = DOMAIN w /\ Len(MappedLog[n]) = Len(w)
      /\ \A k \in DOMAIN w : MappedLog[n][k].by = w[k]
  <2>1. MappedLog[n] = [k \in DOMAIN ref[n].hash |-> [by |-> w[k], msg |-> ref[n].hash[k]]]
    BY <1>1 DEF MappedLog, Pairs
  <2>2. DOMAIN w = 1..Len(w) /\ DOMAIN ref[n].hash = 1..Len(w) /\ Len(w) \in Nat
    BY <1>1, <1>2
  <2>3. DOMAIN MappedLog[n] = 1..Len(w)
    BY <2>1, <2>2
  <2>4. MappedLog[n] = Pairs(w, ref[n].hash)
    BY <2>1 DEF Pairs
  <2>5. Len(MappedLog[n]) = Len(w)
    BY <2>1, <2>2
  <2>6. \A k \in DOMAIN w : MappedLog[n][k].by = w[k]
    BY <2>1, <2>2
  <2> QED BY <2>2, <2>3, <2>4, <2>5, <2>6
<1>4. \A k \in DOMAIN MappedLog[n] :
        MappedLog[n][k].by = r => MappedLog[n][Len(MappedLog[n])].by = r
  <2>1. \A k \in DOMAIN w : Len(w) \in DOMAIN w
    BY <1>1
  <2> QED BY <1>1, <1>3, <2>1
<1>5. MappedLog' = [MappedLog EXCEPT ![n] = Append(MappedLog[n], e)]
  <2>1. writer'[n] = Append(w, r) /\ \A p \in Refs : p # n => writer'[p] = writer[p]
    BY <1>1, <1>2
  <2>2. Pairs(writer'[n], ref'[n].hash) = Append(MappedLog[n], e)
    <3>1. w \in Seq(Runners) /\ ref[n].hash \in Seq(Msgs) /\ Len(w) = Len(ref[n].hash)
      BY <1>1, <1>2
    <3>2. Pairs(Append(w, r), Append(ref[n].hash, m)) = Append(Pairs(w, ref[n].hash), e)
      BY <3>1, PairsAppend
    <3>3. ref'[n].hash = Append(ref[n].hash, m)
      BY <1>1
    <3> QED BY <1>3, <2>1, <3>2, <3>3
  <2>3. \A p \in Refs : p # n => Pairs(writer'[p], ref'[p].hash) = Pairs(writer[p], ref[p].hash)
    BY <1>1, <2>1
  <2>4. MappedLog' = [p \in Refs |-> Pairs(writer'[p], ref'[p].hash)]
    BY DEF MappedLog, Pairs
  <2> HIDE DEF w, e
  <2> QED BY <1>1, <2>2, <2>3, <2>4 DEF MappedLog
<1> QED BY <1>4, <1>5 DEF Log!Write, Log!MayWrite, MappedLog, Pairs

\* Heads move by appends only, and no node is ever removed.
LEMMA HeadsKept ==
  ASSUME TypeOK, [Next]_vars, ~\E r \in Runners, m \in Msgs : AppendMessage(r, m)
  PROVE  writer' = writer /\ node \subseteq node' /\ \A p \in Refs : ref'[p].hash = ref[p].hash
<1> DEFINE Goal ==
      writer' = writer /\ node \subseteq node' /\ \A p \in Refs : ref'[p].hash = ref[p].hash
<1>0. /\ ref \in [Refs -> RefRow]
      /\ \A q \in Runners : run[q].name \in Refs
  BY DEF TypeOK, LeasedRef
<1>1. ASSUME NEW n \in Refs, CreateRef(n) PROVE Goal
  BY <1>0, <1>1 DEF CreateRef, RefRow
<1>2. ASSUME NEW r \in Runners, Acquire(r) PROVE Goal
  BY <1>0, <1>2 DEF Acquire, RefRow
<1>3. ASSUME NEW r \in Runners, Open(r) \/ Abandon(r) PROVE Goal
  BY <1>3 DEF Open, Abandon
<1>4. ASSUME NEW r \in Runners, Close(r) PROVE Goal
  BY <1>0, <1>4 DEF Close, Released, RefRow
<1>5. ASSUME NEW r \in Runners, Renew(r) PROVE Goal
  BY <1>0, <1>5 DEF Renew, RefRow
<1>6. ASSUME Tick PROVE Goal
  BY <1>0, <1>6 DEF Tick, RefRow
<1>7. ASSUME (\E m \in Msgs : AppendBranch(m)) \/ UNCHANGED vars PROVE Goal
  BY <1>7 DEF AppendBranch, vars
<1> HIDE DEF Goal
<1>8. Goal
  BY <1>1, <1>2, <1>3, <1>4, <1>5, <1>6, <1>7 DEF Next
<1> QED BY <1>8 DEF Goal

LEMMA LogStep == RefInv /\ [Next]_vars => [Log!Next]_(MappedLog)
<1> SUFFICES ASSUME RefInv, [Next]_vars PROVE Log!Next \/ MappedLog' = MappedLog
  OBVIOUS
<1>1. ASSUME NEW r \in Runners, NEW m \in Msgs, AppendMessage(r, m) PROVE Log!Next
  <2>1. PICK n \in Refs : n = run[r].name
    BY DEF RefInv, TypeOK, LeasedRef
  <2>2. Log!Write(r, n, m)
    BY <1>1, <2>1, LogAppend
  <2> QED BY <2>2 DEF Log!Next
<1>2. CASE ~\E r \in Runners, m \in Msgs : AppendMessage(r, m)
  BY <1>2, HeadsKept, LogKept DEF RefInv
<1> QED BY <1>1, <1>2

\* Refs, leases and cached heads implement append-only conversations in which
\* the messages of one run are never interleaved with another's.
THEOREM Refinement == Spec => ImplementsConversationLog
<1>1. RefInv /\ [Next]_vars
        => [Log!Next]_([n \in Refs |-> [k \in DOMAIN ref[n].hash |->
                          [by |-> writer[n][k], msg |-> ref[n].hash[k]]]])
  BY LogStep DEF MappedLog, Pairs
<1> QED BY <1>1, LogInit, RefInvInit, RefInvStep, PTL
        DEF Spec, ImplementsConversationLog, Log!Spec

-----------------------------------------------------------------------------
(* Chains are stored *)

\* The prefixes of a chain that grows are those it had, and itself.
LEMMA PrefixesOfAppend ==
  ASSUME NEW h \in Seq(Msgs), NEW m \in Msgs, NEW k \in 0..Len(Append(h, m))
  PROVE  SubSeq(Append(h, m), 1, k) = IF k <= Len(h) THEN SubSeq(h, 1, k) ELSE Append(h, m)
<1> DEFINE g == Append(h, m)
<1>1. g \in Seq(Msgs) /\ Len(g) = Len(h) + 1 /\ Len(h) \in Nat
  OBVIOUS
<1>2. \A i \in 1..Len(h) : g[i] = h[i]
  OBVIOUS
<1> HIDE DEF g
<1>3. CASE k <= Len(h)
  <2>1. k \in Int /\ 1 \in Int /\ k \in Nat
    BY <1>1, <1>3 DEF g
  <2>2. \A i \in 1..k : h[i] \in Msgs /\ g[i] \in Msgs /\ g[i] = h[i]
    BY <1>1, <1>2, <1>3, <2>1
  <2>3. /\ SubSeq(g, 1, k) \in Seq(Msgs) /\ SubSeq(h, 1, k) \in Seq(Msgs)
        /\ Len(SubSeq(g, 1, k)) = k /\ Len(SubSeq(h, 1, k)) = k
        /\ \A i \in 1..k : SubSeq(g, 1, k)[i] = g[i] /\ SubSeq(h, 1, k)[i] = h[i]
    <3>1. /\ SubSeq(g, 1, k) \in Seq(Msgs)
          /\ Len(SubSeq(g, 1, k)) = IF 1 <= k THEN k - 1 + 1 ELSE 0
          /\ \A i \in 1..(k - 1 + 1) : SubSeq(g, 1, k)[i] = g[1 + i - 1]
      BY <2>1, <2>2, SubSeqProperties
    <3>2. /\ SubSeq(h, 1, k) \in Seq(Msgs)
          /\ Len(SubSeq(h, 1, k)) = IF 1 <= k THEN k - 1 + 1 ELSE 0
          /\ \A i \in 1..(k - 1 + 1) : SubSeq(h, 1, k)[i] = h[1 + i - 1]
      BY <2>1, <2>2, SubSeqProperties
    <3> QED BY <2>1, <3>1, <3>2
  <2>4. \A i \in 1..k : SubSeq(g, 1, k)[i] = SubSeq(h, 1, k)[i]
    BY <2>2, <2>3
  <2>5. SubSeq(g, 1, k) = SubSeq(h, 1, k)
    BY <2>3, <2>4, SeqEqual
  <2> QED BY <1>3, <2>5 DEF g
<1>4. CASE k = Len(h) + 1
  <2>1. SubSeq(g, 1, Len(g)) = g
    BY <1>1, SubSeqFull
  <2> QED BY <1>1, <1>4, <2>1 DEF g
<1> QED BY <1>1, <1>3, <1>4 DEF g

LEMMA ChainStep == RefInv /\ ChainStored /\ [Next]_vars => ChainStored'
<1> SUFFICES ASSUME RefInv, ChainStored, [Next]_vars,
                    NEW n \in Refs, NEW k \in 0..Len(ref'[n].hash)
             PROVE  SubSeq(ref'[n].hash, 1, k) \in node'
  BY DEF ChainStored
<1>0. TypeOK /\ WritersKnown
  BY DEF RefInv
<1>1. ASSUME NEW r \in Runners, NEW m \in Msgs, AppendMessage(r, m)
      PROVE  SubSeq(ref'[n].hash, 1, k) \in node'
  <2>1. /\ ref[run[r].name].hash = run[r].hash /\ run[r].hash \in Seq(Msgs)
        /\ ref'[run[r].name].hash = Append(run[r].hash, m)
        /\ \A p \in Refs : p # run[r].name => ref'[p].hash = ref[p].hash
    <3>1. run[r].hash \in Seq(Msgs)
      BY <1>0 DEF TypeOK, LeasedRef, Chain
    <3> QED BY <1>0, <1>1, <3>1, AppendFacts
  <2>2. node' = node \cup {Append(run[r].hash, m)}
    BY <1>1 DEF AppendMessage
  <2>3. CASE n # run[r].name
    BY <2>1, <2>2, <2>3 DEF ChainStored
  <2>4. CASE n = run[r].name
    <3>1. k \in 0..Len(Append(run[r].hash, m)) /\ ref'[n].hash = Append(run[r].hash, m)
      BY <2>1, <2>4
    <3>2. SubSeq(ref'[n].hash, 1, k)
            = IF k <= Len(run[r].hash) THEN SubSeq(run[r].hash, 1, k) ELSE Append(run[r].hash, m)
      BY <2>1, <3>1, PrefixesOfAppend
    <3>3. CASE k <= Len(run[r].hash)
      <4>1. k \in 0..Len(ref[n].hash) /\ SubSeq(ref'[n].hash, 1, k) = SubSeq(ref[n].hash, 1, k)
        BY <2>1, <2>4, <3>2, <3>3
      <4> QED BY <2>2, <4>1 DEF ChainStored
    <3> QED BY <2>2, <3>2, <3>3
  <2> QED BY <2>3, <2>4
<1>2. CASE ~\E r \in Runners, m \in Msgs : AppendMessage(r, m)
  BY <1>0, <1>2, HeadsKept DEF ChainStored
<1> QED BY <1>1, <1>2

\* A ref can always be loaded: whoever appended to it, under whatever leases,
\* every message of its chain is stored down to the root.
THEOREM ChainsStored == Spec => []ChainStored
<1>1. Init => ChainStored
  <2> SUFFICES ASSUME Init, NEW n \in Refs, NEW k \in 0..Len(ref[n].hash)
               PROVE  SubSeq(ref[n].hash, 1, k) \in node
    BY DEF ChainStored
  <2>1. ref[n].hash = <<>> /\ node = {<<>>} /\ k = 0
    BY DEF Init, NoRef
  <2>2. SubSeq(<<>>, 1, 0) = <<>>
    BY SubSeqEmpty
  <2> QED BY <2>1, <2>2
<1>2. RefInv /\ ChainStored /\ [Next]_vars => ChainStored'
  BY ChainStep
<1> QED BY <1>1, <1>2, RefInvInit, RefInvStep, PTL DEF Spec
=============================================================================
