# Verification of zoa

zoa is a daemon that runs *functions* as tasks, some of them written in natural
language and executed by a model with tools, and a *gateway* through which
clients (command line, TUI, Slack) talk to it. This directory holds TLA+
specifications of the parts of it that are concurrent or survive crashes, TLC
configurations that check them on small instances, and TLAPS proofs of their
main promises for every instance.

To check: `tlc -workers 2 -config <Run>.cfg MC<Module>.tla` (`Pumps` and `Delivery`
have no MC module); to prove: `tlapm <Module>Proofs.tla`, of which there is one for
every module that models code, `RuntimeProofs` being that of `TaskManager` and of
`Pumps`. `PROJECT.json` lists the runs with their properties,
for every property a fault of the code that breaks it (the operators marked
*Faulty* in the modules), the code lines behind every definition, the hazards
and the theorems.

## The system

| component | state | operations | talks to |
|---|---|---|---|
| gateway queue (`hub/util/gateway`, `internal/reliable`) | SQLite tables `gateway__inbound` (status, attempt, next attempt, lease) and `gateway__outbox` | `recv`, `pump` (claim, read back, heartbeat, complete / retry / fail), `outbox_since`, `outbox_max_id` | runs as tasks; a pump runs the executor on the session's conversation |
| conversation database (`conversation/db`) | content-addressed nodes, refs with head and lease | `CreateRef`, `LeaseRef`, `LeasedRef.Append/Renew/Close`, `DB.Append`, `LoadChain` | used by executor, gateway and task context |
| executor (`conversation/executor.go`) | one leased ref, run state, interrupt, lease renewal goroutine | `Run`, `Wait`, `Stop`, `Release` | model client, tools, conversation database |
| task manager (`runtime/task_manager.go`, `log.go`) | map of live tasks, task log in SQLite, id counter | `Spawn`, `Wait`, `Get`, `Cancel`, `runTask`, restart | everything runs as a task |
| pumps and shutdown (same file) | registered pumps, their goroutines, `closed` | `registerPump`, `runPumpLoop`, `stopAllPumps`, `Close` | spawn and wait for tasks |
| task context and its tools (`runtime/task_context.go`, `zoafunction_tools.go`) | the main conversation of a task | `NLExec`, `NLCondition`, `LoadMixin`; tools to start, wait for and cancel tasks | task manager, executor |
| gateway client (`internal/gatewayclient`) | the reader's position in the outbox | `Enqueue`, `OutboxSince`, `OutboxMaxID` | gateway functions |
| Slack service (`internal/slack`) | events seen, bound channel, outbox position, all in memory | socket loop, event handler, outbox loop | gateway client |
| trace control (`internal/tracecontrol`, `semtrace`) | the active capture, the recorded events | `Start`, `Stop`, recording | all tasks |
| models and tools, command line, viewer, hub functions | – | calls to services, formatting, files | – |

What is hard in it:

* **Several pumps, one queue.** `recv` spawns a pump for every message, and a
  registered pump comes by every second; leases expire under handlers that are
  still alive; the claim and the reading of the claimed row are two statements;
  heartbeats may land after their handler returned; the process may die at any
  statement.
* **Two layers of leases.** A message is leased for two minutes and the
  conversation it writes to for thirty seconds, with separate renewals.
* **Cached state.** A `LeasedRef` remembers the head it read; renewal revives a
  lease that ran out.
* **Cancellation** races with the start of a task, with the spawning of
  children and with the end of the task.
* **Map and log.** A task is in the map, then in the log; a reader must never
  fall between the two, and a restart numbers tasks from the log.
* **The executor's goroutines.** The loop, the renewals, `Stop` and `Wait` meet at
  the end of a run, which is over for `Wait` before its ref is released.
* **Shared conversations.** Two processes on one session directory may give two
  tasks the same id, and then they extend the same main conversation.
* **Waiting in circles.** Pumps are replaced, and tasks waited for, by the very
  tasks that pumps run.
* **Delivery** to Slack keeps its positions in memory only, acknowledges events
  before it handles them, and posts without a way to ask what was posted.
* **Traces** share one recorder, whose numbers begin anew with every trace.

What makes each component correct:

* queue: one reply per message, from its last attempt, in order per session; no
  message is lost unless a handler hangs; a lease takeover never corrupts the new holder's work;
* conversation: a chain only grows, the messages of one run stay together,
  leases exclude each other, chains can be loaded;
* executor: every tool call is answered, also when interrupted, or the run is known
  to have been cut short; a run writes nothing after it ended; its result is what
  the conversation shows; a stopped run ends, unless it is in a tool that never
  returns, and a run that has ended leaves its ref free;
* task context: one system prompt; requests hold whole runs, but for interrupted
  ones; an operation is not refused its own conversation;
* task manager: no cancellation is lost, no direct child of a task with a record
  escapes it, the final status is found by whoever asks, ids are not reused;
* pumps: at most one loop per pump at a time, none after the databases are closed;
* client and Slack: an event is accepted once within a day, replies are posted in
  order, once unless an answer was lost, and in the end;
* traces: a dump is of one trace, a slice of one task, a tree whole.

The full list, each at its line, is under `hazards` in `PROJECT.json`.

## Modules

```
FifoReplies        what a client is promised         ConversationLog   append-only logs
    ^ implements   ^ instance                            ^ implements
GatewayQueue       Delivery  (Slack, TUI)            ConversationRef   nodes, refs, leases
    ^ extends                                            ^ instance
MCGatewayQueue, GatewayQueueProofs                   Executor     one run of the model loop
                                                     TaskContext  operations of a task
TaskManager        tasks, cancellation, log          GatewayChat  queue and conversation
Pumps              pumps, Close
Tracing            trace control, recorder, zoa trace
```

Every MC module extends the module of its name; it holds the sets and symmetries
of the runs. Every `...Proofs` module extends the module of its name, and
`RuntimeProofs` extends `TaskManager` and `Pumps`, whose `PumpsInit`, `PumpsNext` and so
on are so named that it can; the proofs of `Executor`, `TaskContext` and `GatewayChat` use `ConversationRefProofs` through
`INSTANCE`, as their models use `ConversationRef`.

### GatewayQueue

`inbound` and `outbox` are the two tables; `lease` and `due` count the whole
heartbeat periods left until `lease_until` and `next_attempt_at`, so the clock is
the action `Tick` and no absolute time is needed. (In the code a lease is four
periods of 30 s.) `task` holds the pump tasks: the loop of the registered pump of
each session in `PumpedSessions` and the one spawned by each `recv`. A pump goes

    ready --Claim--> claimed --ReadBack--> handling --Return--> settling --Settle--> (off or ready)

with one action per statement or transaction: `claimDueInboundID`,
`inboundByID`, `renewInboundLease` (`Heartbeat`, and `StrayHeartbeat` for a
renewal that was under way when the handler returned), `markInboundRetry`,
`completeInboundSuccess` and `completeInboundFailure`. `Recv` inserts a row and
spawns a pump. What the handler does is a choice of its three outcomes. The
action `ClaimNothing` stands for a claim that finds nothing or fails,
`ReadBackError` and `SettleError` for statements that fail, `Crash` for the end
and restart of the process. A claimed row is read back as it is *then*: after a
stall of a whole lease two tasks may hold the same attempt number, and what
keeps them apart is the status in the fence.

Crashes, failed statements, refused spawns, and periods in which a live task
does not get to its next statement cost one `faults` each and are bounded by
`MaxFaults`; everything else is free. The abstraction `FifoReplies` knows
accepted messages, waiting messages and replies; the mapping takes the open rows
for the waiting messages and the outbox without attempts for the replies.

### ConversationRef

A node's hash covers its parent's, so a hash is modelled by the chain it stands
for: equal chains have equal hashes, as in the code, and two branches may share
nodes. `ref` is the table of refs with the lease in clock periods; `run` is the
`LeasedRef` of every runner, with its cached head. `LeaseRef` is the two actions
`Acquire` and `Open`. `Available` is the test of `acquireLease` and of
`advanceRef`; `Renew` asks for the holder only, as the code does, so an expired
lease comes back to life. `Abandon` is a runner that goes away without releasing
(a crash, or a release whose error is dropped). Runner ids are assumed to be
unique: every caller builds one from the clock in nanoseconds and uses it for one
lease. `writer` and `lapsed` are history: who appended what, and whose lease has
run out at least once.

`ConversationLog` is a log per ref in which a writer may go on only while it was
the last to write; the mapping pairs every message of the head's chain with its
writer.

### Executor

One executor per runner of `ConversationRef`, whose operations are used as they
are: every append of the loop is `Ref!AppendMessage`, and every failure the
database allows (ref taken over, moved or closed) is `AppendFails` or
`AnswerLost`. A run goes

    built --Start--> prompt --Prompt--> user --Say--> top --Ask--> asking --Answer-->
      [tool --Tool--> .. results --Report--> top] close --CloseRef--> signal --Signal--> done

A message is its role and the number of calls or results it carries. `stop` is the
closed `interruptCh`, `ctx` the context of the run: `canceled` (by the grace period
of `Stop`, or by the caller) or `expired`, which the code does not count as an
interrupt. `finish` is three steps, the result (with `running` cleared), the
release of the ref and the closing of `done`; a `Wait` may return after the first.
`finish` drops the error of a release that fails: `CloseRef` may leave the ref open,
and `Release` (also `Stop` after the run) may close it once more. `beats` is the
goroutine of `renewLeaseLoop`, for which nobody waits: `RenewLease` goes on until
`EndRenewals`, which may be after `done`.
`Sent` and `NextSent` are what both clients make of a message when they build
a request.

### TaskContext

The operations of a task on its main conversation, in the order in which a caller
makes them: `ensureMainConversation` and `ensureSystemPromptOnRef` step by step
(each look at the conversation is a step of its own, and the second one is under
a lease), then an executor's run (shortened to appends), a mixin, or a condition
on a branch that no ref points at. A run ends with an answer, with an error
(`RunEnds`), or interrupted by the cancellation of its task (`Interrupt`), which is no
error: `NLExec` returns an empty text (`out = "empty"`), and only a typed call fails,
as it cannot decode that. `Renew` and `CloseMain` may come after the operation has
returned. Two callers stand for two goroutines of a
function, or for two processes whose tasks have the same id.

### GatewayChat

The two layers of leases together: an attempt claims a message, leases the
session's ref, lets an executor run and settles the message, and both leases
run on their own clocks, the inbound one longer than the other. The statements on
the queue run under the task's context, those on the conversation do not; so
after a cancellation no heartbeat and no settlement gets through, while the run
still releases its ref. Renewals go on from the user's message (`Spoke`) until the ref
is released (`Finish`), which may be after the attempt is over; `loose` remembers the
attempts that were over, settled or not, before it was. `stalled` remembers attempts whose inbound lease came
down to the length of a conversation lease.

### TaskManager

Every section under `m.mu` and every write to the log is one action. A task goes

    created --Spawned--> starting --LogStart--> ready --Run--> running --Return-->
      [cascading --Cascade-->] ended --LogEnd--> saved --CloseDone--> closed --Delete--> gone

`Cancel` marks what its breadth-first visit reaches and puts the collected
cancel functions into `calls`; `CallCancel` calls one of them later, without the
lock. `Wait` looks into the map, then waits or asks the log. `Crash` keeps the log
only; `Restarted` is `MaxTaskSequence`. A function may return any outcome at any
time; a function left behind by a task (a goroutine that outlives it) may still
try to spawn.

### Pumps

A runner is one registered pump: `made`, then `start` when the loop of the pump
that it replaces has ended, then `idle` and `task` in turn, and `done`. `call` is
what a thread or a pump's task waits for: the end of a replaced loop (`registerPump`)
or a task (`wait_zoafunction` without a timeout). `Close` refuses new pumps,
cancels all contexts, takes the runners out of the map, waits for each for a
limited time (`late`) and closes the databases.

### Delivery

`FifoReplies` stands for the gateway. Slack sends an event until the
acknowledgement arrives; the socket loop acknowledges, looks the event up among
those seen, binds the first channel and calls `gateway.recv`. `Expire` is an event
that comes again more than a day after it was seen, and counts as new. The outbox loop
polls in batches of `Limit` from a position in memory, passes over replies for
other transports and gives the batch up when a post fails. `PostUnsure` is a post
that Slack has made and the bridge takes for failed. `Stop` ends the process, at
any moment; the queue is the one thing that survives it, and a terminal in
another process keeps writing to it.

### Tracing

The manager's lock covers `Start` and the first half of `Stop`; what follows
(the Go tracer, the file, the recorder) is done without it, step by step. A task
takes a number (`Name`) and records its start afterwards; its end is recorded only
if the recorder is on at that time. `Slices`, `Root` and `Dropped` are what
`zoa trace` computes from a dump, whole-tree removal of short hidden roots
included. `findTaskRoot` climbs from parent to parent with a set of those it has
met; `Root` says where it ends: at the one id on the way up (`Ancestors`) that has no
parent, or where it began if there is none.

## Runs

| run | shows | bounds |
|---|---|---|
| `GatewayQueueSafety` | one reply per message, from the last attempt, in order; rows are fenced; concurrency and extra attempts need faults; the queue refines `FifoReplies` | 2 messages in one session: one that blocks and one that waits; 3 tasks; lease of 2 periods, so one stalled period lets another task in; 2 attempts: a retry and a last one; 2 faults, which combine a stall with a crash or a failed statement |
| `GatewayQueueLiveness` | every message of the pumped session is answered unless a handler hangs | as above with a second session that has no pump, and one fault |
| `GatewayQueueSessions` | *violated*: a session without a registered pump is not always served | one message, no fault |
| `ConversationRefSafety` | leases exclude, cached heads are current, turns are not torn apart; the database refines `ConversationLog` | 3 runners on one ref: one that lapses, one that takes over, one after both; 2 contents, so that equal chains occur; chains of 3 messages: the least in which a turn can be torn |
| `Executor` | calls and results are paired in every request; the result agrees with the conversation; a finished run is quiet; a stopped run ends unless a tool hangs; a run that ended leaves its ref free | 2 runs on one ref: one with a prompt and two turns, of which a completion makes a call or none, and one that inherits what the first left |
| `TaskContext` | one system prompt; whole runs in requests, but for interrupted ones; who is refused the conversation | 2 operations of any kinds, by one caller or two; one completion with calls |
| `GatewayChat` | what it takes for two attempts to meet, answer out of order or answer twice; replies come from the conversation | 2 messages, slash or not; 2 attempts; a conversation lease of 1 period, an inbound lease of 3 |
| `TaskManagerCancel` | no cancellation is lost, no direct child escapes | 3 tasks: any chain or forest; no fault, no waiter |
| `TaskManagerLog` | the log against the map; ids after a crash; cancellation takes effect | 2 tasks, 1 waiter, 2 faults: a failed write and a crash |
| `Pumps` | one loop per pump, none after `Close`, calls return unless tasks wait in a circle | 3 runners, 2 pumps, 2 configurations, 1 thread: a pump replaced before its replacement has started, and two that wait for each other |
| `Delivery` | events accepted once, replies posted in order, kept, and posted in the end | 2 events, 2 channels of which one takes no posts, 2 accepted messages, 2 lives of the bridge, 1 lost answer, batches of 1, so that two replies need two polls |
| `Tracing` | traces do not mix; slices and trees are whole | 2 requests, 2 traces, 3 tasks of which 2 hidden |

The sessions of the queue share no state but the id counter, so one session is
enough for safety; the second one matters for liveness only. Runners of different
refs share nothing but the node table, to which nodes are only added.

Deadlock is checked in the runs of the queue, of `ConversationRef` and of the task
log. In the others a bounded supply (task ids, executors that make one run,
operations, attempts, runners, messages, lives, handles) ends with nothing left
to do.

Several properties name the circumstances under which the code allows what one
would like to exclude, and show that nothing else leads to it:

* `RequestsPaired`: a request may contain calls without results, but only those
  of an *earlier* run that was cut short. Such a chain stays as it is, and every
  later request on the ref replays it.
* `RefusedNeedsStall`, `RefusedWhenBusy`: `ErrRefLeased` meets an attempt that
  keeps its own lease only if the other one had stalled, or was over before its ref
  was released: `finish` clears `running`, and so lets the attempt settle, or give up
  when its settlement fails, before it ends the renewals and releases the ref. A crash
  alone does not, because the inbound lease is longer than the conversation's.
* `RequestsWhole`: what a caller did before is in its requests, with the answers,
  except for runs that were interrupted, which returned an empty text and no error.
* `FinishedIsQuiet`: after `done` the lease may be renewed once more, by a tick that was
  under way when the renewals were stopped, if the release had failed.
* `SecondAnswerNeedsLoss`: a message is answered twice in the conversation (never
  in the outbox) only after a settlement that failed or an attempt that had lost
  touch with the queue.
* `RepliesFromConversation`: the "(no response)" of an interrupted run is never
  sent, since the cancellation that interrupts the run also stops its settlement;
  the message is handled again after its lease.
* `EventsOnce`: an acknowledged event may be lost (`failed`), as it is marked as seen
  and acknowledged before it is queued, and it is accepted again if Slack still
  sends it after a day.
* `RepliesPosted`: a channel that takes no posts holds up all replies behind it.
* `CallsReturn`: tasks that wait for each other in a circle never come back; a pump's
  task that replaces its own pump is such a circle.
* `EveryMessageAnswered`, `StopEnds`: a handler or a tool that never returns blocks its
  session, or the `Stop` that waits for it, for ever.
* `ChildrenStopped`: only direct children are meant, of a parent whose record is
  there. A grandchild whose parent's record was deleted is not reached by `Cancel`.
* `TracesApart`, `TraceStitched`: a trace that is started while another is being
  stopped may be ended by that stop, and numbers of an earlier trace may meet those
  of the current one.

The violated property is recorded as a finding: only the session `default` is
polled. A message of another session that is put off by a retryable error waits
until the next message of its session.

## Fairness

* Queue: weak fairness of every pump's steps except `Return`, and of time. Pumps are
  goroutines, and heartbeats are a ticker. A handler owes no return: most chats end
  with their timeout, but the tool `wait_zoafunction` without a timeout of its own
  ignores the context, and `timeout_sec=0` takes the timeout away. Such a handler keeps
  its row by its heartbeat, so `EveryMessageAnswered` is for messages that are
  `Unblocked`: no handler with the head of their session, and not the registered
  pump, stays in its handler for ever. A handler that hangs after it lost its row
  does not matter. Nothing is assumed of `recv`, of crashes or of failures. A
  registered pump is ready again after every run because its ticker goes on.
* Executor: the run's own steps, the end of the grace period and the end of the
  renewals are taken; the model fails once its context has ended, as an HTTP request
  under that context does, and owes no answer before. A tool owes none at all, and
  `StopEnds` is for runs that are not in one for ever. Time passes. `StopEnds` and
  `RepliesPosted` say of a condition that has one end (`Ending`, `Held`) that it does
  not last for ever.
* Task manager: goroutines go on and collected cancel functions are called; a
  function need never return.
* Pumps: callers and loops go on; strong fairness of `Return` (a function that is
  again and again at work returns) and of `End`, since `select` between a tick
  and the end of the context chooses at random.
* Delivery: the outbox loop goes on, and Slack accepts a post that is tried over and over (strong
  fairness of `Post`), except in a channel of `Dead`.

`GatewayChat`, `TaskContext` and `Tracing` state safety only: what must happen in
them is the liveness of the queue, the executor and the tasks.

## Proofs

Every safety property that a run checks, the action properties and the two
refinements are theorems of the specification, for all values of the constants.
The bounds of the models (`MaxLen`, `MaxFaults`,
`MaxLives` and so on) are arbitrary naturals in the proofs.

### What is assumed

The assumptions are those named in the modules and evaluated in every run:
naturals where a number is counted, positive leases, batch sizes and limits of
attempts and turns, and "no runner", "no event" and "tui" different from the
others. Three say something about the system:

* `GatewayChatAssumption`: an inbound lease is longer than a conversation lease
  (two minutes and thirty seconds in the code); `RefusedNeedsStall` depends on it.
* `AttemptsBounded` is proved for `1 < Lease`, a lease that outlasts the period
  of its heartbeat (in the code it has four). With `Lease = 1` every lease runs out
  before its first renewal and attempts need no fault, so the hypothesis
  cannot be dropped. `ConcurrencyIsPaid` needs no such hypothesis: with `Lease = 1` its
  bound is zero.
* `PumpsAssumption`: there is a pump id and a configuration, without which the
  fields of an unused runner have no value.

### Queue (`GatewayQueueProofs`)

Types are proved action by action. For the tables, `NextIsRowStep` shows that every
step is one of five changes (accept, claim, retry, finish, quiet), and the
inductive invariant `QueueInv` is shown for those. The promises are not inductive
alone: that replies are in order needs that nothing overtakes the head
(`NothingOvertakes`), and one reply per message needs the relation between rows and
replies; both need that ids are handed out in order. `OneReply`, `NoStaleReply`
and `FifoOrder` follow, and in `Refinement` a claim or a retry is a stutter of
`FifoReplies` and a finish answers the oldest waiting message. None of this
uses how the pumps' states relate to the rows: the fences alone carry it, and
`RowsAreFenced` says what they do to one row. It needs one more invariant, that a row
that has ended has no lease.

The two bounds do relate pumps to rows. `Guards(t, i)` says that `t` has the attempt
that row `i` names and that the lease outlasts another period without faults.
In `AttemptsBounded` a row in processing has an attempt to spare or a task that
guards it, so that only a fault frees it for an attempt that was not paid for.
In `ConcurrencyIsPaid` (`StallInv`) every worker of a session has been paid for with
`Lease - 1` stalled periods, or all but one that may still settle, and for
that one the periods that its lease has come down have been. The claim statement
takes a row only when its lease is over, which is when that worker is paid for.

### Conversations (`ConversationRefProofs`)

`ExclusiveLease` follows from `HoldersLeased` (a runner whose lease never ran out is
the one its ref names, with time left). `TurnsContiguous` follows from
`WritersKnown`: a runner that wrote has cached exactly the chain up to its
own last message, so the comparison of heads in `advanceRef` fails once anybody
else has written. This holds without any assumption on leases: contiguity
comes from the comparison, and the lease only saves the loser from failing. The
same invariant `RefInv` gives the refinement of `ConversationLog`. `ChainsStored` is
separate, and proved only: nodes are never removed, and every chain that a ref or a cache names
is stored before it is named.

### On top of conversations

A step of `Executor`, `TaskContext` or `GatewayChat` is, for the refs, an
operation on a lease, an append, or nothing. So `RefInv` is taken over from
`ConversationRefProofs`, and two lemmas say what those steps do to chains: an
append adds one message of the appending runner at the end, everything else
leaves the chain of every ref alone. `UsesRefs` (of executor and gateway) states that
all of `ConversationRef`'s behaviour is kept, and `ImplementsLog` that these models
therefore implement `ConversationLog` as well: the refinement is proved once, for
`ConversationRef`, and composed with the steps of those who use it.

*Executor* (`LoopInv`). A cached chain is a beginning of the ref's, and holds
everything its run wrote (`Cached`); the turn counts the completions in the chain
(`Counted`); a completed run ends with its own last completion (`Concluded`); and
calls have their results right after them unless their run was cut off or is at
work on them (`Paired`). With a lease that passes from run to run, it is
`TurnsContiguous` that keeps calls and results together. From this follow
`LoopKnowsItsPlace`, `PairsAreSent` (the chain that is sent is a beginning of the
ref's, and one's own calls are answered at that point), `ResultIsTrue` and the
action property `QuietAfterwards`, for which renewals begin only in a run that has no
result yet.

*TaskContext* (`TaskContextInductive`). The frame: which of its two leases an operation
has at every place (`Place`), that a caller does one thing after the other
(`Turns`), that the ref names someone who works on it or an abandoned lease
(`Named`), and that what anybody read is a beginning of what there is (`Pasts`).
On it: one prompt (`PromptIsFirst`, because the look under the lease sees
everything that was ever appended), what follows calls (`Follows`), and that what an
operation reads has all that its caller did before (`Memory`: what an operation owes
to the conversation depends on its outcome, an interrupted run owing its message
only), which together give `RequestsAreWhole`. `RefusalsExplained` is inductive with the frame.

*GatewayChat* (`ChatInductive`). Time is what relates the two leases: an attempt in touch
with the queue has its row for more than a conversation lease (`InTouch`), and the
row of an attempt that died outlives the lease it left on the ref (`Remains`),
both because an inbound lease is longer and both are counted by the same
clock. Messages are reached in the order of their ids (`InOrder`). What was
written is described per attempt (`Progress`) and per entry (`Answers`), which gives
`SecondAnswersExplained` and `RepliesAreWritten`.

### Tasks and pumps (`RuntimeProofs`), delivery

*TaskManager*. `CancelInv` relates mark, context and pending calls for
every parent with a record and each of its direct children: it holds for any forest
of tasks because the visit of `Cancel` marks a set closed under live children, and a
spawn under a marked parent is marked itself. `LogInv` relates the record's status, the goroutine's place
and the log for `FinalStatusIsKnown`; with it `FinalStays` is one look at each action,
the restart included, since ids go on from the highest in the log. That there is a
highest is the least-element principle for naturals, from the well-foundedness of `<`
(induction itself cannot be used).

*Pumps*. Runners are numbered as they are registered. `Succession` (once a loop
has started all earlier ones of its pump have ended) needs that a runner not yet
started is in the hands of exactly one call, which waits for the one just before
(`CallsMade`), and that the map holds the last one (`MapIsLast`). For `CloseIsLast`,
`Close` has the last of every pump among those it waits for (`AwaitsLast`), and when
that one has ended so have all before it.

*Delivery*. `PostedInOrder` compares what was posted with the position of the
loop; over a restart it is `GatewayOrdered` (replies only grow, in order) and
`OutboxMaxID` as the new position that keep the order. `SeenKnown` ties the
bridge's memory to what it handled in this life and has not forgotten after a day,
for `OnceAccepted`.

### Traces (`TracingProofs`)

*Requests* (`OneAtATime`). As long as no trace was started while another was being
stopped, nobody stops anything while a trace is active, and at most one request is
on its way, for the session that the recorder has. `Manager.Stop` clears the active
trace first, so this cannot be had without the condition; given it,
`TracesStayApart` is what the invariant says of the last dump and of the manager.

*Numbers* (`NumInv`). Live tasks that were numbered in the present session have
different numbers, all up to the recorder's counter; the events of such tasks have
their numbers (`EventsTell`), and no task has two starts (`EventsBegun`). A task
may be numbered in one session and recorded in another, so all of this is said of
the tasks of the present session, and a new session makes it hold of none. From it
follows that the last start of an id before an end is a start of the same task
(`SlicesAreOwn`). When all events are of the present session an id has one start, so
`parentByTask` says what its event says, and the way up from a task is the task and
the way up from its parent (`WayUp`): both end at the same root, or both go in a
circle and neither is dropped (`TreesAreWhole`). The way up is a least closed set and
not a recursive definition, which is what lets one reason about it here.

### Model-checked only

Liveness: `EveryMessageAnswered`, `StopEnds`, `RefFreed`, `CancelTakesEffect`,
`CallsReturn`, `RepliesPosted`. The prover has neither fairness nor ENABLED. The violated property
of `GatewayQueueSessions` is a matter of TLC's counterexample as well.

## Not modelled

* Times are counted periods. The code compares `lease_until` and `next_attempt_at`
  as RFC3339Nano text, which orders times within one second differently
  (`state.go:243`); against leases and delays of seconds this is not visible.
* The task log that two processes share: both number tasks from the same highest
  id, and rows of equal ids overwrite each other. `TaskContext` has the
  conversation that such tasks share; `TaskManager` is one process.
* The start of the task manager (`Init`: a sequence of `Spawn` and `Wait`), the
  search for functions and mixins, the SQL helpers and directories of the task
  context.
* Regions and logs in traces, the HTTP side of trace control, the layout of
  `zoa trace`'s output.
* Calls to model services beyond the pairing of calls and results, file tools,
  formatting, the command line, the daemon's service files and the viewer: input
  and output without state of their own. Hub functions are straight-line code on
  the task context.
