------------------------------ MODULE Executor ------------------------------
(***************************************************************************)
(* The executor (conversation/executor.go): one run of the model loop on a *)
(* leased ref.  A run appends the user's message, then alternates between  *)
(* a completion by the model and the execution of the tools it calls, and  *)
(* ends completed, interrupted or with an error.  Stop, the cancellation   *)
(* and the deadline of its context, the renewal of its lease, and the runs *)
(* that follow on the same ref happen at any moment.                       *)
(*                                                                         *)
(* The ref operations are those of ConversationRef; a message is its role  *)
(* and the number of tool calls or results it carries.  An executor makes  *)
(* one run, as all its callers do.                                         *)
(***************************************************************************)
EXTENDS Integers, Sequences, FiniteSets

CONSTANTS
  Refs, Runners, NoRunner, Lease, MaxLen, MaxNodes,  \* see ConversationRef
  MaxTurns,  \* ExecutorConfig.MaxTurns, of every executor
  Prompted,  \* the executors with a SystemPrompt
  MaxCalls   \* bound: tool calls in one completion, of every executor

ASSUME ExecutorAssumption ==
  /\ NoRunner \notin Runners
  /\ Lease \in Nat \ {0}
  /\ MaxLen \in Nat
  /\ MaxNodes \in Nat
  /\ MaxTurns \in [Runners -> Nat \ {0}]
  /\ Prompted \subseteq Runners
  /\ MaxCalls \in [Runners -> Nat]

VARIABLES
  node, ref, run, writer, lapsed,  \* see ConversationRef
  ex                               \* the executors

vars == <<node, ref, run, writer, lapsed, ex>>
refVars == <<node, ref, run, writer, lapsed>>

Message == [role : {"system", "user", "assistant", "tool"}, n : Nat]

Ref == INSTANCE ConversationRef WITH Msgs <- Message

System == [role |-> "system", n |-> 0]
User == [role |-> "user", n |-> 0]
Assistant(n) == [role |-> "assistant", n |-> n]
Results(n) == [role |-> "tool", n |-> n]

\* NewExecutor: turn 0 until the loop starts; stop is the closed interruptCh, beats
\* says that the goroutine of renewLeaseLoop is there.
Built == [pc |-> "built", turn |-> 0, call |-> 0, stop |-> FALSE, ctx |-> "live", beats |-> FALSE,
          status |-> "none", turns |-> 0]

Init == Ref!Init /\ ex = [r \in Runners |-> Built]

-----------------------------------------------------------------------------
(* The run *)

\* Run has been called and done is not closed yet.
Active(r) == ex[r].pc \notin {"built", "done", "dead"}

InLoop(r) == ex[r].pc \in {"top", "asking", "tool", "results"}

Chain(r) == run[r].hash

\* The number of calls in the completion that is being worked on.
Calls(r) == Chain(r)[Len(Chain(r))].n

Set(r, e) == ex' = [ex EXCEPT ![r] = e]

\* finish, up to the unlock: the result is there and running is false.  The
\* interrupt and the context are not looked at any more.
Ended(e, status, turns) ==
  [e EXCEPT !.pc = "close", !.call = 0, !.stop = FALSE, !.ctx = "live",
            !.status = status, !.turns = turns]

\* Run, up to the unlock.
Start(r) ==
  /\ ex[r].pc = "built" /\ run[r].pc \in {"open", "closed"}
  /\ Set(r, [ex[r] EXCEPT !.pc = "prompt"])
  /\ UNCHANGED refVars

\* ensureSystemPrompt appends the prompt, if one is configured, to a chain
\* that is empty or cannot be read (mustLoadChain).
Prompt(r) ==
  /\ ex[r].pc = "prompt"
  /\ Set(r, [ex[r] EXCEPT !.pc = "user"])
  /\ \/ r \in Prompted /\ Ref!AppendMessage(r, System)
     \/ (r \in Prompted => Chain(r) # <<>>) /\ UNCHANGED refVars

\* Run appends the user's message and starts the loop and the renewals.
Say(r) ==
  /\ ex[r].pc = "user"
  /\ Ref!AppendMessage(r, User)
  /\ Set(r, [ex[r] EXCEPT !.pc = "top", !.turn = 1, !.beats = TRUE])

\* Top of the loop: the chain is loaded and sent to the model.
Ask(r) ==
  /\ ex[r].pc = "top"
  /\ Set(r, IF ex[r].turn > MaxTurns[r] THEN Ended(ex[r], "errored", MaxTurns[r])
            ELSE IF ex[r].stop THEN Ended(ex[r], "interrupted", ex[r].turn - 1)
            ELSE [ex[r] EXCEPT !.pc = "asking"])
  /\ UNCHANGED refVars

\* Complete, of either client: text and any number of calls, each with an id of
\* its own.  Whatever goes wrong on the way is an error, see AnswerError.
Completions(r) == 0..MaxCalls[r]

\* Faulty Answer: the tools of an interrupted completion are not run, and it
\* counts as complete.
Answer_Completed(r, n) ==
  /\ ex[r].pc = "asking"
  /\ Ref!AppendMessage(r, Assistant(n))
  /\ Set(r, IF n = 0 \/ ex[r].stop THEN Ended(ex[r], "completed", ex[r].turn)
            ELSE [ex[r] EXCEPT !.pc = "tool", !.call = 1])

\* The completion is appended; then an interrupt wins over its tool calls.
Answer(r, n) ==
  /\ ex[r].pc = "asking"
  /\ Ref!AppendMessage(r, Assistant(n))
  /\ Set(r, IF ex[r].stop THEN Ended(ex[r], "interrupted", ex[r].turn)
            ELSE IF n = 0 THEN Ended(ex[r], "completed", ex[r].turn)
            ELSE [ex[r] EXCEPT !.pc = "tool", !.call = 1])

\* The model fails, or its context has ended.  Only a canceled context counts
\* as an interrupt, one past its deadline is an error.
AnswerError(r) ==
  /\ ex[r].pc = "asking"
  /\ Set(r, Ended(ex[r], IF ex[r].stop \/ ex[r].ctx = "canceled" THEN "interrupted" ELSE "errored",
                  ex[r].turn - 1))
  /\ UNCHANGED refVars

\* Faulty Tool: one call too many is made.
Tool_OffByOne(r) ==
  /\ ex[r].pc = "tool"
  /\ Set(r, IF ex[r].stop \/ ex[r].call > Calls(r)
            THEN [ex[r] EXCEPT !.pc = "results", !.call = 0]
            ELSE [ex[r] EXCEPT !.call = ex[r].call + 1])
  /\ UNCHANGED refVars

\* A tool returns, with or without an error.  After an interrupt the results
\* of this call and of those that follow are filled in.
Tool(r) ==
  /\ ex[r].pc = "tool"
  /\ Set(r, IF ex[r].stop \/ ex[r].call = Calls(r)
            THEN [ex[r] EXCEPT !.pc = "results", !.call = 0]
            ELSE [ex[r] EXCEPT !.call = ex[r].call + 1])
  /\ UNCHANGED refVars

\* Faulty Report: only the calls before the interrupt get a result.
Report_Short(r) ==
  /\ ex[r].pc = "results"
  /\ Ref!AppendMessage(r, Results(IF ex[r].stop THEN 0 ELSE Calls(r)))
  /\ Set(r, IF ex[r].stop THEN Ended(ex[r], "interrupted", ex[r].turn)
            ELSE [ex[r] EXCEPT !.pc = "top", !.turn = ex[r].turn + 1])

\* One result per call.
Report(r) ==
  /\ ex[r].pc = "results"
  /\ Ref!AppendMessage(r, Results(Calls(r)))
  /\ Set(r, IF ex[r].stop THEN Ended(ex[r], "interrupted", ex[r].turn)
            ELSE [ex[r] EXCEPT !.pc = "top", !.turn = ex[r].turn + 1])

\* An append fails: the ref was taken over or moved, was closed by Stop before
\* the run, or the database failed.
AppendFails(r) ==
  /\ ex[r].pc \in {"prompt", "user", "results"}
  /\ Set(r, Ended(ex[r], "errored", ex[r].turn))
  /\ UNCHANGED refVars

\* The append of a completion fails.
AnswerLost(r) ==
  /\ ex[r].pc = "asking"
  /\ Set(r, Ended(ex[r], "errored", ex[r].turn - 1))
  /\ UNCHANGED refVars

\* finish: leaseStop is closed and the lease released, if the database lets it; if
\* not, the error is dropped and the ref stays open.
CloseRef(r) ==
  /\ ex[r].pc = "close"
  /\ Set(r, [ex[r] EXCEPT !.pc = "signal"])
  /\ Ref!Close(r) \/ UNCHANGED refVars

\* finish: done is closed.
Signal(r) ==
  /\ ex[r].pc = "signal"
  /\ Set(r, [ex[r] EXCEPT !.pc = "done"])
  /\ UNCHANGED refVars

\* Faulty RenewLease: the renewals are not stopped by finish.
RenewLease_Late(r) ==
  /\ ex[r].turn > 0
  /\ ref[run[r].name].by = r
  /\ ref' = [ref EXCEPT ![run[r].name] = [@ EXCEPT !.left = Lease]]
  /\ UNCHANGED <<node, run, writer, lapsed, ex>>

\* renewLeaseLoop: a tick.
RenewLease(r) == ex[r].beats /\ Ref!Renew(r) /\ UNCHANGED ex

\* renewLeaseLoop sees that leaseStop is closed.  finish does not wait for it, so
\* a last tick may come after the release and after done.
EndRenewals(r) ==
  /\ ex[r].beats /\ ex[r].pc \in {"signal", "done"}
  /\ Set(r, [ex[r] EXCEPT !.beats = FALSE])
  /\ UNCHANGED refVars

-----------------------------------------------------------------------------
(* Its callers *)

\* Stop: before Run it closes the ref, later it closes interruptCh, which the
\* loop looks at when it begins or is under way.
Stop(r) ==
  \/ ex[r].pc = "built" /\ Ref!Close(r) /\ UNCHANGED ex
  \/ /\ InLoop(r) \/ ex[r].pc \in {"prompt", "user"}
     /\ ~ex[r].stop
     /\ Set(r, [ex[r] EXCEPT !.stop = TRUE])
     /\ UNCHANGED refVars

\* Faulty GraceOver: only a tool is canceled that ran when Stop was called.
GraceOver_Tool(r) ==
  /\ InLoop(r) /\ ex[r].stop /\ ex[r].ctx # "canceled"
  /\ Set(r, [ex[r] EXCEPT !.ctx = IF ex[r].pc = "tool" THEN "canceled" ELSE ex[r].ctx])
  /\ UNCHANGED refVars

\* Stop's grace period is over: it cancels the run's context.
GraceOver(r) ==
  /\ InLoop(r) /\ ex[r].stop /\ ex[r].ctx # "canceled"
  /\ Set(r, [ex[r] EXCEPT !.ctx = "canceled"])
  /\ UNCHANGED refVars

\* The caller's context is canceled with its task, or past its deadline: to be
\* seen by the model and the tools.
EndContext(r, how) ==
  /\ ex[r].pc \in {"asking", "tool"} /\ ex[r].ctx = "live"
  /\ Set(r, [ex[r] EXCEPT !.ctx = how])
  /\ UNCHANGED refVars

\* Release, Stop once the run has ended, and newMainRunner when it fails: the ref
\* is closed, maybe once more.
Release(r) ==
  /\ ex[r].pc \in {"built", "close", "signal", "done"}
  /\ Ref!Close(r)
  /\ UNCHANGED ex

\* The process dies.
Die(r) ==
  /\ run[r].pc \in {"leased", "open"}
  /\ Ref!Abandon(r)
  /\ Set(r, [ex[r] EXCEPT !.pc = "dead", !.beats = FALSE])

Step(r) ==
  \/ Prompt(r) \/ Say(r) \/ Ask(r) \/ Report(r) \/ AppendFails(r) \/ CloseRef(r) \/ Signal(r)

World(r) ==
  \/ Start(r) \/ Stop(r) \/ GraceOver(r) \/ Release(r) \/ Die(r) \/ RenewLease(r) \/ EndRenewals(r)
  \/ EndContext(r, "canceled") \/ EndContext(r, "expired")
  \/ (Ref!Acquire(r) \/ Ref!Open(r)) /\ UNCHANGED ex

Next ==
  \/ \E r \in Runners :
       Step(r) \/ World(r) \/ AnswerError(r) \/ AnswerLost(r) \/ Tool(r) \/ \E n \in Completions(r) : Answer(r, n)
  \/ ((\E n \in Refs : Ref!CreateRef(n)) \/ Ref!Tick) /\ UNCHANGED ex

Spec == Init /\ [][Next]_vars

\* The run's own steps are taken, its renewals see that they are over, and time
\* passes.  The model fails when its context has ended and owes no answer before;
\* a tool owes none at all, as some of them ignore their context.
Fairness ==
  /\ \A r \in Runners :
       /\ WF_vars(Step(r) \/ (ex[r].ctx # "live" /\ AnswerError(r)))
       /\ WF_vars(GraceOver(r))
       /\ WF_vars(EndRenewals(r))
  /\ WF_vars(Ref!Tick /\ UNCHANGED ex)

FairSpec == Spec /\ Fairness

-----------------------------------------------------------------------------
(* Requests *)

\* What toAnthropicMessages and toGeminiContents make of a message: its role,
\* the ids of the calls it makes and of the calls it answers.
Sent(m) ==
  [role    |-> IF m.role = "tool" THEN "user" ELSE m.role,
   uses    |-> IF m.role = "assistant" THEN 1..m.n ELSE {},
   answers |-> IF m.role = "tool" THEN 1..m.n ELSE {}]

\* System messages are gathered in front, the others keep their order.
NextSent(c, k) ==
  {j \in k + 1..Len(c) : c[j].role # "system" /\ \A i \in k + 1..j - 1 : c[i].role = "system"}

Answered(c, k) == \E j \in NextSent(c, k) : Sent(c[j]).answers = Sent(c[k]).uses

-----------------------------------------------------------------------------
(* Properties *)

Pc == {"built", "prompt", "user", "top", "asking", "tool", "results", "close", "signal", "done", "dead"}

ExRow == [pc : Pc, turn : Nat, call : Nat, stop : BOOLEAN,
          ctx : {"live", "canceled", "expired"}, beats : BOOLEAN,
          status : {"none", "completed", "interrupted", "errored"}, turns : Nat]

\* Every variable keeps its type.
TypeOK == Ref!TypeOK /\ ex \in [Runners -> ExRow]

Own(r) == {k \in DOMAIN writer[run[r].name] : writer[run[r].name][k] = r}

\* The loop's place in the conversation: the model is asked when a user or a
\* tool has spoken last, and tools run for the calls of the run's own last
\* completion, none twice and none that was not asked for.
LoopInPlace ==
  \A r \in Runners :
    LET last == Chain(r)[Len(Chain(r))] IN
    /\ InLoop(r) => Len(Chain(r)) \in Own(r)
    /\ ex[r].pc \in {"top", "asking"} => last.role \in {"user", "tool"}
    /\ ex[r].pc \in {"tool", "results"} => last.role = "assistant" /\ last.n > 0
    /\ ex[r].pc = "tool" => ex[r].call \in 1..last.n

\* Candidate for an inductive invariant, with the types.
ExecInv == TypeOK /\ LoopInPlace

\* The run of r stopped short of the results of its last calls, or is about to:
\* it was interrupted right after the completion, an append failed, it died,
\* or its lease ran out while its tools were at work.
CutShort(r) ==
  \/ ex[r].status \in {"interrupted", "errored"} \/ ex[r].pc = "dead"
  \/ ex[r].pc \in {"tool", "results"} /\ r \in lapsed

\* In a request to the model, results follow the calls they answer, all of
\* them, and calls without results are never the run's own: they come from an
\* earlier run that was cut short between a completion and its results.
RequestsPaired ==
  \A r \in Runners : ex[r].pc = "asking" =>
    \A k \in DOMAIN Chain(r) :
      LET q == writer[run[r].name][k] IN
      /\ Sent(Chain(r)[k]).uses # {} => Answered(Chain(r), k) \/ (q # r /\ CutShort(q))
      /\ Chain(r)[k].role = "tool" =>
           \E j \in 1..k - 1 : k \in NextSent(Chain(r), j) /\ Answered(Chain(r), j)

\* The result of a run agrees with the conversation: Turns completions were
\* appended, at most MaxTurns, and a completed run ends with one that calls no
\* tool.
ResultAgrees ==
  \A r \in Runners : ex[r].status # "none" =>
    /\ Cardinality({k \in Own(r) : Chain(r)[k].role = "assistant"}) = ex[r].turns
    /\ ex[r].turns <= MaxTurns[r]
    /\ ex[r].status = "completed" =>
         Len(Chain(r)) \in Own(r) /\ Chain(r)[Len(Chain(r))] = Assistant(0)

\* Once running is false Wait returns the result and nothing is appended, and a
\* ref that was released or lost is not leased again.  Once done is closed the
\* lease is not renewed, but for a last tick after a release that failed.
QuietStep ==
  \A r \in Runners :
    LET row == ref[run[r].name] IN
    /\ ex[r].status # "none" =>
         /\ ex'[r].status = ex[r].status /\ Own(r)' = Own(r)
         /\ row.by # r => ref'[run[r].name].by # r
    /\ ex[r].pc \in {"done", "dead"} /\ row.by = r =>
         \/ ref'[run[r].name].by # r \/ ref'[run[r].name].left <= row.left
         \/ run[r].pc = "open" /\ ex[r].beats
    /\ ex[r].status # "none" /\ ~ex[r].beats => ~ex'[r].beats

FinishedIsQuiet == [][QuietStep]_vars

\* The run of r has been stopped, its context has ended, or it has a result: it is
\* so until done is closed or the process dies.
Ending(r) == Active(r) /\ (ex[r].stop \/ ex[r].ctx # "live" \/ ex[r].status # "none")

\* A run that was stopped, or whose context has ended, ends: it does not stay ending
\* for ever, unless it is in a tool that never returns.
StopEnds == \A r \in Runners : []<>(ex[r].pc # "tool") => []<>~Ending(r)

\* A run that has ended leaves its ref to others, for good, also when the release
\* failed and a renewal that nobody waits for came after it.
RefFreed ==
  \A r \in Runners :
    <>[](ex[r].status # "none" => ref[run[r].name].by # r \/ ref[run[r].name].left = 0)
=============================================================================
