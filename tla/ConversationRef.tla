--------------------------- MODULE ConversationRef ---------------------------
(***************************************************************************)
(* The conversation database (conversation/db): content-addressed message  *)
(* nodes, named refs that point at the head of a chain, and the leases     *)
(* under which runners append to a ref.                                    *)
(*                                                                         *)
(* Every transaction is one action.  A runner id is used for one lease     *)
(* (the callers build it from the clock).  LeaseRef is two statements, the *)
(* lease and the read of the head, and a LeasedRef caches the head: what   *)
(* other runners and the clock do in between is what the module is about.  *)
(*                                                                         *)
(* A node's hash covers its parent's hash and its message, so a hash is    *)
(* modelled by the chain of messages it stands for; <<>> is RootHash.      *)
(* A call that fails changes nothing and is no action.                     *)
(***************************************************************************)
EXTENDS Integers, Sequences, FiniteSets

CONSTANTS
  Refs,      \* names of refs: one per gateway session and one per task
  Runners,   \* runner ids
  NoRunner,  \* leased_by = ''
  Msgs,      \* message contents
  Lease,     \* defaultLeaseDuration, in clock periods
  MaxLen,    \* bound: messages in a chain
  MaxNodes   \* bound: stored nodes up to which branches are added

ASSUME ConversationRefAssumption ==
  /\ NoRunner \notin Runners
  /\ Lease \in Nat \ {0}
  /\ MaxLen \in Nat
  /\ MaxNodes \in Nat

VARIABLES
  node,    \* conversation_node: the hashes stored
  ref,     \* conversation_ref: head, lease holder, periods left of the lease
  run,     \* every runner's LeasedRef, with its cached head
  writer,  \* history: who appended each message of a ref's chain
  lapsed   \* history: runners whose lease ran out while they held it

vars == <<node, ref, run, writer, lapsed>>

NoRef  == [exists |-> FALSE, hash |-> <<>>, by |-> NoRunner, left |-> 0]
Unused(n) == [pc |-> "new", name |-> n, hash |-> <<>>]

\* insertRoot; every runner is to work on some ref.
Init ==
  /\ node = {<<>>}
  /\ ref = [n \in Refs |-> NoRef]
  /\ run \in [Runners -> {Unused(n) : n \in Refs}]
  /\ writer = [n \in Refs |-> <<>>]
  /\ lapsed = {}

-----------------------------------------------------------------------------
(* Refs and leases *)

\* GetRef, then CreateRef at RootHash when there is none; a second insert of
\* the same name fails.
CreateRef(n) ==
  /\ ~ref[n].exists
  /\ ref' = [ref EXCEPT ![n] = [@ EXCEPT !.exists = TRUE]]
  /\ UNCHANGED <<node, run, writer, lapsed>>

\* Faulty Available: a lease in its last period counts as expired.
Available_Early(r, n) == ref[n].by \in {NoRunner, r} \/ ref[n].left <= 1

\* Not under somebody else's lease: free, one's own, or expired.
Available(r, n) == ref[n].by \in {NoRunner, r} \/ ref[n].left = 0

\* Faulty Acquire: the lease gets no end.
Acquire_NoUntil(r) ==
  LET n == run[r].name IN
  /\ run[r].pc = "new"
  /\ ref[n].exists /\ Available(r, n)
  /\ ref' = [ref EXCEPT ![n] = [@ EXCEPT !.by = r]]
  /\ run' = [run EXCEPT ![r] = [@ EXCEPT !.pc = "leased"]]
  /\ UNCHANGED <<node, writer, lapsed>>

\* acquireLease
Acquire(r) ==
  LET n == run[r].name IN
  /\ run[r].pc = "new"
  /\ ref[n].exists /\ Available(r, n)
  /\ ref' = [ref EXCEPT ![n] = [@ EXCEPT !.by = r, !.left = Lease]]
  /\ run' = [run EXCEPT ![r] = [@ EXCEPT !.pc = "leased"]]
  /\ UNCHANGED <<node, writer, lapsed>>

\* The rest of LeaseRef: GetRef, whose hash the LeasedRef keeps.
Open(r) ==
  /\ run[r].pc = "leased"
  /\ run' = [run EXCEPT ![r] = [@ EXCEPT !.pc = "open", !.hash = ref[run[r].name].hash]]
  /\ UNCHANGED <<node, ref, writer, lapsed>>

\* releaseLease: only one's own lease.
Released(r) ==
  LET n == run[r].name IN
  IF ref[n].by = r THEN [ref EXCEPT ![n] = [@ EXCEPT !.by = NoRunner, !.left = 0]] ELSE ref

\* LeasedRef.Close, and LeaseRef when GetRef fails.
Close(r) ==
  /\ run[r].pc \in {"leased", "open"}
  /\ ref' = Released(r)
  /\ run' = [run EXCEPT ![r] = [@ EXCEPT !.pc = "closed"]]
  /\ UNCHANGED <<node, writer, lapsed>>

\* The process dies, or the runner is forgotten after a release that failed.
Abandon(r) ==
  /\ run[r].pc \in {"leased", "open"}
  /\ run' = [run EXCEPT ![r] = [@ EXCEPT !.pc = "closed"]]
  /\ UNCHANGED <<node, ref, writer, lapsed>>

\* renewLease asks who holds the lease, not whether it has expired.
Renew(r) ==
  LET n == run[r].name IN
  /\ run[r].pc = "open"
  /\ ref[n].by = r
  /\ ref' = [ref EXCEPT ![n] = [@ EXCEPT !.left = Lease]]
  /\ UNCHANGED <<node, run, writer, lapsed>>

-----------------------------------------------------------------------------
(* Messages *)

\* Faulty MayAdvance: only the lease is looked at.
MayAdvance_AnyHead(r) == Available(r, run[r].name)

\* advanceRef: the head must be the cached one, and nobody else may hold a
\* lease that is still running.  One's own lease may have run out or be gone.
MayAdvance(r) ==
  LET n == run[r].name IN ref[n].hash = run[r].hash /\ Available(r, n)

\* LeasedRef.Append
AppendMessage(r, m) ==
  LET n == run[r].name
      h == Append(run[r].hash, m) IN
  /\ run[r].pc = "open"
  /\ Len(run[r].hash) < MaxLen
  /\ MayAdvance(r)
  /\ node' = node \cup {h}
  /\ ref' = [ref EXCEPT ![n] = [@ EXCEPT !.hash = h]]
  /\ run' = [run EXCEPT ![r] = [@ EXCEPT !.hash = h]]
  /\ writer' = [writer EXCEPT ![n] = Append(writer[n], r)]
  /\ UNCHANGED lapsed

\* DB.Append: a node beside the refs, as runConditionBranch adds them.
AppendBranch(m) ==
  /\ Cardinality(node) < MaxNodes
  /\ \E p \in node : Len(p) < MaxLen /\ node' = node \cup {Append(p, m)}
  /\ UNCHANGED <<ref, run, writer, lapsed>>

-----------------------------------------------------------------------------
(* Time *)

Tick ==
  /\ ref' = [n \in Refs |->
               [ref[n] EXCEPT !.left = IF ref[n].left = 0 THEN 0 ELSE ref[n].left - 1]]
  /\ lapsed' = lapsed \cup {r \in Runners : \E n \in Refs : ref[n].by = r /\ ref[n].left <= 1}
  /\ UNCHANGED <<node, run, writer>>

Next ==
  \/ \E n \in Refs : CreateRef(n)
  \/ \E r \in Runners : \/ Acquire(r) \/ Open(r) \/ Close(r) \/ Abandon(r) \/ Renew(r)
                        \/ \E m \in Msgs : AppendMessage(r, m)
  \/ \E m \in Msgs : AppendBranch(m)
  \/ Tick

Spec == Init /\ [][Next]_vars

-----------------------------------------------------------------------------
(* Properties *)

Chain == Seq(Msgs)
RefRow == [exists : BOOLEAN, hash : Chain, by : Runners \cup {NoRunner}, left : Nat]
LeasedRef == [pc : {"new", "leased", "open", "closed"}, name : Refs, hash : Chain]

\* Every variable keeps its type.
TypeOK ==
  /\ node \subseteq Chain
  /\ ref \in [Refs -> RefRow]
  /\ run \in [Runners -> LeasedRef]
  /\ writer \in [Refs -> Seq(Runners)]
  /\ lapsed \subseteq Runners

\* At work, and the lease has never run out.
Holds(r) == run[r].pc \in {"leased", "open"} /\ r \notin lapsed

\* A lease that never ran out is exclusive: two such runners never share a ref
\* (acquireLease refuses a ref under somebody else's running lease).
ExclusiveLease ==
  \A r, q \in Runners : Holds(r) /\ Holds(q) /\ run[r].name = run[q].name => r = q

\* The head that a LeasedRef caches is the ref's head as long as its lease has
\* not run out, so its Append never fails with ErrRefMoved or ErrRefLeased.
HolderIsCurrent ==
  \A r \in Runners :
    Holds(r) /\ run[r].pc = "open" =>
      /\ ref[run[r].name].hash = run[r].hash
      /\ Available(r, run[r].name)

\* The messages a run appends stay together in the chain, also when its lease
\* ran out, another run wrote, and the lease was renewed or acquired again.
TurnsContiguous ==
  \A n \in Refs : \A i, j, k \in DOMAIN writer[n] :
    i < j /\ j < k /\ writer[n][i] = writer[n][k] => writer[n][j] = writer[n][i]

\* A ref can always be loaded: its chain is stored down to the root
\* (LoadChain joins every node with its parent).
ChainStored ==
  \A n \in Refs : \A k \in 0..Len(ref[n].hash) : SubSeq(ref[n].hash, 1, k) \in node

\* The parts of the inductive invariant.  A runner that holds its lease is the
\* one the ref names, and the lease is running.
HoldersLeased ==
  \A r \in Runners :
    Holds(r) => ref[run[r].name].by = r /\ ref[run[r].name].left > 0

\* A runner that wrote to a ref has it cached up to its own last message.
WritersKnown ==
  /\ \A n \in Refs : Len(writer[n]) = Len(ref[n].hash)
  /\ \A r \in Runners : Len(run[r].hash) <= Len(ref[run[r].name].hash)
  /\ \A n \in Refs : \A k \in DOMAIN writer[n] :
       LET r == writer[n][k] IN
       /\ run[r].pc \in {"open", "closed"}
       /\ run[r].name = n
       /\ Len(run[r].hash) \in DOMAIN writer[n]
       /\ writer[n][Len(run[r].hash)] = r

\* The inductive invariant.
RefInv ==
  /\ TypeOK
  /\ HoldersLeased
  /\ HolderIsCurrent
  /\ WritersKnown
  /\ TurnsContiguous

-----------------------------------------------------------------------------
(* Refinement *)

Log == INSTANCE ConversationLog WITH
  log <- [n \in Refs |-> [k \in DOMAIN ref[n].hash |-> [by |-> writer[n][k], msg |-> ref[n].hash[k]]]]

\* Refs, caches and leases implement append-only logs of unbroken turns.
ImplementsConversationLog == Log!Spec
=============================================================================
