----------------------------- MODULE TaskContext -----------------------------
(***************************************************************************)
(* The natural-language operations of a task (runtime/task_context.go) on  *)
(* the task's main conversation: NLExec lets an executor work on it,       *)
(* LoadMixin adds a message to it, and NLCondition asks about it on a      *)
(* branch.  Each of them first sees to it that the conversation exists and *)
(* starts with a system prompt.                                            *)
(*                                                                         *)
(* A function calls them one after the other.  Two callers share a         *)
(* conversation when it starts goroutines, and when two processes on the   *)
(* same databases have given two tasks the same id.  The executor is in    *)
(* module Executor in full; a condition's branch is a chain of nodes that  *)
(* no ref points at.                                                       *)
(***************************************************************************)
EXTENDS Integers, Sequences, FiniteSets

CONSTANTS
  Main,         \* mainConversationRef
  Callers,
  MaxOps,       \* bound: operations, in the order in which a caller makes them
  MaxToolTurns, \* bound: completions with tool calls, per operation
  NoRunner, Lease, MaxLen, MaxNodes  \* see ConversationRef

ASSUME TaskContextAssumption ==
  /\ MaxOps \in Nat /\ MaxToolTurns \in Nat
  /\ Lease \in Nat \ {0} /\ MaxLen \in Nat /\ MaxNodes \in Nat
  /\ NoRunner \notin (1..MaxOps) \X {"system", "main"}

VARIABLES
  node, ref, run, writer, lapsed,  \* see ConversationRef
  op,        \* the operations: kind, caller, pc, turn, head read by a condition, outcome
  refused,   \* history: whose lease an operation ran into
  abandoned, \* history: runners whose lease was never released
  loose      \* history: operations that returned before their lease was released

refVars == <<node, ref, run, writer, lapsed>>
vars == <<node, ref, run, writer, lapsed, op, refused, abandoned, loose>>

Ops == 1..MaxOps

\* The leases of an operation: for the system prompt, and for its own work.
Sys(o) == <<o, "system">>
Own(o) == <<o, "main">>
Runners == Ops \X {"system", "main"}

Entry == [role : {"system", "user", "calls", "results", "answer"}, op : Ops]
Ref == INSTANCE ConversationRef WITH Refs <- {Main}, Msgs <- Entry

Say(o, role) == [role |-> role, op |-> o]

Init ==
  /\ Ref!Init
  /\ op \in [Ops -> {[kind |-> k, caller |-> c, pc |-> "new", turn |-> 0, base |-> <<>>, out |-> "none"] :
                       k \in {"exec", "mixin", "condition"}, c \in Callers}]
  /\ refused = [o \in Ops |-> NoRunner]
  /\ abandoned = {} /\ loose = {}

-----------------------------------------------------------------------------

At(o, pc) == op[o].pc = pc
Goto(o, pc) == op' = [op EXCEPT ![o].pc = pc]
Over(o, out) == op' = [op EXCEPT ![o].pc = "returned", ![o].out = out]
History == <<refused, abandoned, loose>>

\* A caller's operations follow each other.
Start(o) ==
  /\ At(o, "new")
  /\ \A p \in 1..o - 1 : op[p].caller = op[o].caller => At(p, "returned")
  /\ Goto(o, "ensure")
  /\ UNCHANGED <<refVars, History>>

\* ensureMainConversation: GetRef ...
Ensure(o) ==
  /\ At(o, "ensure")
  /\ Goto(o, IF ref[Main].exists THEN "check" ELSE "create")
  /\ UNCHANGED <<refVars, History>>

\* ... and CreateRef, for which it does not matter if another one was faster.
Create(o) ==
  /\ At(o, "create")
  /\ IF ref[Main].exists THEN UNCHANGED refVars ELSE Ref!CreateRef(Main)
  /\ Goto(o, "check")
  /\ UNCHANGED History

\* ensureSystemPromptOnRef: nothing to do if the conversation has begun.
Check(o) ==
  /\ At(o, "check")
  /\ Goto(o, IF ref[Main].hash # <<>> THEN "ready" ELSE "system")
  /\ UNCHANGED <<refVars, History>>

\* LeaseRef, for r.
Leasing(o, r) == Ref!Acquire(r) \/ Ref!Open(r)

Wants(o) == IF At(o, "system") THEN Sys(o) ELSE Own(o)

LeaseRef(o) ==
  /\ At(o, "system") \/ (At(o, "ready") /\ op[o].kind # "condition")
  /\ Leasing(o, Wants(o))
  /\ UNCHANGED <<op, History>>

\* ErrRefLeased
Refuse(o) ==
  /\ At(o, "system") \/ (At(o, "ready") /\ op[o].kind # "condition")
  /\ run[Wants(o)].pc = "new" /\ ~Ref!Available(Wants(o), Main)
  /\ refused' = [refused EXCEPT ![o] = ref[Main].by]
  /\ Over(o, "error")
  /\ UNCHANGED <<refVars, abandoned, loose>>

\* Faulty Prompt: the conversation is not looked at again.
Prompt_Unchecked(o) ==
  /\ At(o, "system") /\ run[Sys(o)].pc = "open"
  /\ Ref!AppendMessage(Sys(o), Say(o, "system"))
  /\ Goto(o, "prompted")
  /\ UNCHANGED History

\* Under the lease the conversation is looked at again.
Prompt(o) ==
  /\ At(o, "system") /\ run[Sys(o)].pc = "open"
  /\ IF run[Sys(o)].hash = <<>> THEN Ref!AppendMessage(Sys(o), Say(o, "system")) ELSE UNCHANGED refVars
  /\ Goto(o, "prompted")
  /\ UNCHANGED History

\* Releasing a lease may fail, and nobody hears of it.
Released(r) ==
  \/ Ref!Close(r) /\ UNCHANGED abandoned
  \/ Ref!Abandon(r) /\ abandoned' = abandoned \cup {r}

\* Faulty CloseSystem: the lease is not released.
CloseSystem_Kept(o) ==
  /\ At(o, "prompted")
  /\ Goto(o, "ready")
  /\ UNCHANGED <<refVars, History>>

CloseSystem(o) ==
  /\ At(o, "prompted")
  /\ Released(Sys(o))
  /\ Goto(o, "ready")
  /\ UNCHANGED <<refused, loose>>

\* An append or a read fails, or the lease was lost: the operation is over.
PromptFails(o) ==
  /\ At(o, "system") /\ run[Sys(o)].pc = "open"
  /\ Released(Sys(o))
  /\ Over(o, "error")
  /\ UNCHANGED <<refused, loose>>

-----------------------------------------------------------------------------
(* LoadMixin, and NLExec up to the user's message *)

\* appendToMainRef
Mixin(o) ==
  /\ At(o, "ready") /\ op[o].kind = "mixin"
  /\ Ref!AppendMessage(Own(o), Say(o, "user"))
  /\ op' = [op EXCEPT ![o].pc = "ran", ![o].out = "ok"]
  /\ UNCHANGED History

\* newMainRunner and Executor.Run
Run(o) ==
  /\ At(o, "ready") /\ op[o].kind = "exec"
  /\ Ref!AppendMessage(Own(o), Say(o, "user"))
  /\ Goto(o, "asking")
  /\ UNCHANGED History

\* Either fails: the lease is released before the operation returns.
RunFails(o) ==
  /\ At(o, "ready") /\ run[Own(o)].pc = "open"
  /\ Released(Own(o))
  /\ Over(o, "error")
  /\ UNCHANGED <<refused, loose>>

-----------------------------------------------------------------------------
(* The executor *)

Calls(o) ==
  /\ At(o, "asking") /\ op[o].turn < MaxToolTurns
  /\ Ref!AppendMessage(Own(o), Say(o, "calls"))
  /\ op' = [op EXCEPT ![o].pc = "tools", ![o].turn = op[o].turn + 1]
  /\ UNCHANGED History

Results(o) ==
  /\ At(o, "tools")
  /\ Ref!AppendMessage(Own(o), Say(o, "results"))
  /\ Goto(o, "asking")
  /\ UNCHANGED History

\* The last answer.  A typed one (NLExecTyped, without tools) may be no JSON:
\* it stays in the conversation, and the operation returns an error.
Answer(o) ==
  /\ At(o, "asking")
  /\ Ref!AppendMessage(Own(o), Say(o, "answer"))
  /\ \E out \in {"ok", "error"} :
       /\ out = "error" => op[o].turn = 0
       /\ op' = [op EXCEPT ![o].pc = "ran", ![o].out = out]
  /\ UNCHANGED History

\* An error: of the model, of an append or a read, the deadline, the last of the
\* turns.
RunEnds(o) ==
  /\ op[o].pc \in {"asking", "tools"}
  /\ op' = [op EXCEPT ![o].pc = "ran", ![o].out = "error"]
  /\ UNCHANGED <<refVars, History>>

\* The model fails as the task is canceled: the run is interrupted, without an
\* error, and NLExec returns an empty text as if that were the answer.  A typed
\* answer cannot be read from it.  Tools get to report first.
Interrupt(o) ==
  /\ At(o, "asking")
  /\ \E out \in {"empty", "error"} :
       /\ out = "error" => op[o].turn = 0
       /\ op' = [op EXCEPT ![o].pc = "ran", ![o].out = out]
  /\ UNCHANGED <<refVars, History>>

\* renewLeaseLoop goes on until finish releases the ref.
Renew(o) ==
  /\ op[o].kind = "exec" /\ op[o].pc \in {"asking", "tools", "ran", "returned"}
  /\ Ref!Renew(Own(o))
  /\ UNCHANGED <<op, History>>

\* LoadMixin closes the ref itself, and finish does for an executor.  If the
\* release fails there, it never comes, and the ref stays open.
CloseMain(o) ==
  /\ op[o].pc \in {"ran", "returned"}
  /\ IF op[o].kind = "mixin" THEN Released(Own(o)) ELSE Ref!Close(Own(o)) /\ UNCHANGED abandoned
  /\ UNCHANGED <<op, refused, loose>>

\* Faulty Return: the run is not waited for.
Return_Running(o) ==
  /\ op[o].kind = "exec" /\ op[o].pc \in {"asking", "tools", "ran"}
  /\ loose' = IF run[Own(o)].pc = "open" THEN loose \cup {o} ELSE loose
  /\ Over(o, "ok")
  /\ UNCHANGED <<refVars, refused, abandoned>>

\* Wait looks whether the executor runs, and may return before the release.
Return(o) ==
  /\ At(o, "ran")
  /\ op[o].kind = "mixin" => run[Own(o)].pc = "closed"
  /\ loose' = IF run[Own(o)].pc = "open" THEN loose \cup {o} ELSE loose
  /\ Goto(o, "returned")
  /\ UNCHANGED <<refVars, refused, abandoned>>

-----------------------------------------------------------------------------
(* NLCondition *)

\* runConditionBranch takes the head as it is, without a lease ...
ReadHead(o) ==
  /\ At(o, "ready") /\ op[o].kind = "condition"
  /\ op' = [op EXCEPT ![o].pc = "branch", ![o].base = ref[Main].hash]
  /\ UNCHANGED <<refVars, History>>

Store(h) == node' = node \cup {h} /\ UNCHANGED <<ref, run, writer, lapsed>>

Question(o) == Append(op[o].base, Say(o, "user"))

\* ... appends the question and sends the branch ...
AskBranch(o) ==
  /\ At(o, "branch")
  /\ Store(Question(o))
  /\ Goto(o, "judging")
  /\ UNCHANGED History

\* ... and appends the verdict, whatever can be made of it.
Judge(o) ==
  /\ At(o, "judging")
  /\ Store(Append(Question(o), Say(o, "answer")))
  /\ \E out \in {"ok", "error"} : Over(o, out)
  /\ UNCHANGED History

BranchFails(o) ==
  /\ op[o].pc \in {"branch", "judging"}
  /\ Over(o, "error")
  /\ UNCHANGED <<refVars, History>>

-----------------------------------------------------------------------------

Holding(o) == {r \in {Sys(o), Own(o)} : run[r].pc \in {"leased", "open"}}

\* The caller's process dies.
Die(o) ==
  /\ op[o].pc \notin {"new", "returned", "dead"}
  /\ Goto(o, "dead")
  /\ IF Holding(o) = {} THEN UNCHANGED <<refVars, abandoned>>
     ELSE \E r \in Holding(o) : Ref!Abandon(r) /\ abandoned' = abandoned \cup {r}
  /\ UNCHANGED <<refused, loose>>

Next ==
  \/ \E o \in Ops :
       \/ Start(o) \/ Ensure(o) \/ Create(o) \/ Check(o) \/ LeaseRef(o) \/ Refuse(o)
       \/ Prompt(o) \/ CloseSystem(o) \/ PromptFails(o)
       \/ Mixin(o) \/ Run(o) \/ RunFails(o)
       \/ Calls(o) \/ Results(o) \/ Answer(o) \/ RunEnds(o) \/ Interrupt(o) \/ Renew(o) \/ CloseMain(o) \/ Return(o)
       \/ ReadHead(o) \/ AskBranch(o) \/ Judge(o) \/ BranchFails(o)
       \/ Die(o)
  \/ Ref!Tick /\ UNCHANGED <<op, History>>

Spec == Init /\ [][Next]_vars

-----------------------------------------------------------------------------
(* Properties *)

Operation == [kind : {"exec", "mixin", "condition"}, caller : Callers,
              pc : {"new", "ensure", "create", "check", "system", "prompted", "ready", "asking", "tools", "ran",
                    "returned", "branch", "judging", "dead"},
              turn : 0..MaxToolTurns, base : Seq(Entry), out : {"none", "ok", "empty", "error"}]

\* Every variable keeps its type.
TypeOK ==
  /\ Ref!TypeOK
  /\ op \in [Ops -> Operation]
  /\ refused \in [Ops -> Runners \cup {NoRunner}]
  /\ abandoned \subseteq Runners /\ loose \subseteq Ops

\* However many callers find the conversation empty, it begins with one system
\* prompt and has no other.
OnePrompt ==
  \A k \in DOMAIN ref[Main].hash : ref[Main].hash[k].role = "system" <=> k = 1

\* With the types.
TaskInv == TypeOK /\ OnePrompt

\* What the model is sent for o, when it is asked.
Asked(o) == At(o, "asking") \/ At(o, "judging")
Request(o) == IF At(o, "asking") THEN run[Own(o)].hash ELSE Question(o)

\* p ended, or may yet end, between a completion and its results.
CutShort(p) == op[p].out = "error" \/ op[p].pc = "dead"

\* A request holds whole runs: calls without results were left by a run that
\* failed, or belong to another caller's run that was going on when a condition
\* read the head, and never by a run that a cancellation interrupted.  And nothing
\* is forgotten: the messages of the caller's own operations that returned no error
\* before are all in it, with their answers, but for the runs that were
\* interrupted, whose empty text the caller took for one.
RequestsWhole ==
  \A o \in Ops : Asked(o) =>
    LET c == Request(o) IN
    /\ \A k \in DOMAIN c : c[k].role = "calls" =>
         \/ k < Len(c) /\ c[k + 1] = Say(c[k].op, "results")
         \/ CutShort(c[k].op)
         \/ op[o].kind = "condition" /\ op[c[k].op].caller # op[o].caller
         \/ Own(c[k].op) \in lapsed
    /\ \A p \in 1..o - 1 :
         op[p].caller = op[o].caller /\ op[p].kind # "condition" /\ op[p].out \in {"ok", "empty"} =>
           /\ \E k \in DOMAIN c : c[k] = Say(p, "user")
           /\ op[p].kind = "exec" =>
                op[p].out = "empty" \/ \E k \in DOMAIN c : c[k] = Say(p, "answer")

\* An operation is refused the conversation when another caller is at work, or
\* when a lease was not released; else only by an operation of its own caller
\* that has returned before its lease was released, if it ever is.
RefusedWhenBusy ==
  \A o \in Ops : refused[o] # NoRunner =>
    LET q == refused[o][1] IN
    op[q].caller # op[o].caller \/ refused[o] \in abandoned \/ q \in loose
=============================================================================
