# Harnessy: a TLA+ verification project

Harnessy is a plugin-based agent harness in TypeScript. An *agent* is a driver
that turns user input into turns and steps (a step is one model request and the
tool calls it asks for), recorded as events on an append-only *session log*;
plugins around it persist the log, run tools and background jobs, ask the user,
retry requests, and expose everything to clients. All of it runs on one
JavaScript thread per process, so nothing is preempted between two `await`s;
what interleaves are the continuations after them, the synchronous listeners of
events, and the processes that share a session directory. This project models
the parts whose correctness depends on those orders.

Every definition is translated from `src/`; `PROJECT.json` maps each to its
lines. Prose in comments or docs of the repository is used only as a claim to
test (the runs named `finding_*`).

## Inventory

| component | state it keeps | operations | interacts with |
| --- | --- | --- | --- |
| agent loop driver (`core/agent-loop/src/agent.ts`) | activity phase (idle, maintenance, running), abort signal and its first cause, latched wake, turn and step numbers | send, followup, steer, inject, cancel, runMaintenance, whenIdle; kick, turn, preStep, step | session log (appends), inbox, tool scheduler, model stream, event listeners |
| agent inbox (`inbox.ts`) | two pending lists, next-turn and next-step | append, prepend, replace, remove, clear, claim, splice | session log (each splice is an event), driver |
| tool scheduler (`tool-calls.ts`) | pool of calls in flight, started / settled / committed prefix of a batch | executeToolCalls, runGroup | tool registry, session log, abort signal |
| agent lifecycle (`agent-loop/src/index.ts`) | owner signals, memoized disposal, publication | create, resume, fork, dispose | driver, session store, persistence handle |
| session (`core/session/src/index.ts`) | in-memory log, surface, append guard | append, commit, reduce | observers, persistence |
| session repair (`core/session/src/repair.ts`, `fork.ts`) | fold of open turn, open step, pending calls | openTurnClosers, ToolCallRecovery, buildForkSeed | driver (failed step), resume, fork |
| JSONL persistence (`session-persistence-jsonl`) | per-handle mutation chain, live buffer and its timer, durable cursor, torn tail, write claim and kernel lock | open, append, flush, enqueueLive, drainLive, close | session events, other processes |
| jobs (`jobs/jobs-local`) | job records, waiters, output ring | start, kill, wait, remove, settle, disposeOwned | agents, tools, subprocesses |
| schedule (`schedule/schedule`) | the durable table of reminders, one FIFO of operations, one Host timer, the runtime's `running` and `requested` | create, update, delete, deleteInactive, stop with a session, requestDrive, drive | sessions (restoration, followup, flush), storage domain, wall clock |
| approvals, questions, goal, plan mode, sub-agents, agent team | one record or wait per request or session | see `PROJECT.json` | driver's inbox and abort |
| mcp, companion relay, gateway, clients | connections, in-flight requests | connect, reconnect, call, dispose | external services |

`PROJECT.json` lists all components, including those left out and why.

### Hard behaviours

* listeners of an event run inside the call that emits it, and may call back
  into the driver before that call has finished (send inside send's own insert);
* state read before an `await` or a microtask and used after it (the abort
  signal, the queue, the execution mode of a call, the row of a reminder);
* cancel, dispose and maintenance racing a turn, with the first cause winning;
* a request failing and being retried after the input was already recorded;
* a process dying between any two writes, then repairing what it left: the log of
  a session, or a reminder told but not recorded as told;
* a settlement, a wait's deadline, a kill and a teardown of one job meeting;
* a wall clock that is set back or forward under a timer.

The hazards are listed at their lines in `PROJECT.json`, each with the properties
that would catch it. A few have only a note: what the code does there is in a model
(or would be), but no document says what it should do.

## Plan

The order puts first what every other part relies on: the driver and its log, the
tool batch inside a step, the durable log under it, then the services around it.

| stage | module | composes / refines | state |
| --- | --- | --- | --- |
| 1 | `AgentDriver` | implements `TurnLog` (the log's turn and step grammar) | checked, safety proved |
| 2 | `ToolScheduler` | implements `ToolBatch`, the batch that `AgentDriver`'s tool window abstracts | checked, safety proved |
| 3 | `SessionWriter` | handles, processes and the artifact of one session | checked, safety proved |
| 4 | `SessionRecovery` | driver, tools, checkpoint policy, crash and resume over one log | checked, safety proved |
| 5 | `JobRegistry` | implements `JobContract`; jobs, tool-jobs and the disposal of agents | checked, safety proved |
| 6 | `Schedule` | implements `ReminderBook`; timer, FIFO, sessions and clock | checked, safety and refinement proved |

What would come next, had the instances room for it: the driver of goal rounds and
replies to questions, which need two sources of input above `AgentDriver`; creation
and fork of agents; reconnection of MCP clients.

## Modules

### AgentDriver, TurnLog

`AgentDriver` is one `ReactLoopAgent` with its inbox. Its state is the agent's
fields (`phase`, `turn`, `step`, the abort `cause`, `wakeRequested`, the two
pending lists) and where its coroutine is suspended. `pc` names the `await`, or
the publication of a session event, at which the driver is stopped; between two
such points nothing else runs, so each stretch is one action (`OpenTurn`,
`FirstClaim`, `DecidePreStep`, `BeginRequest`, `SettleStream`, ...). The input of a
step is appended message by message, in publications of their own: `BeginAdmission`
is the last look at the signal, `toAdmit` what `AdmitMessage` has still to append, and
a cancel that an observer of one message makes does not keep the next out of the log
(`agent.ts:422-440`), only the request (`OpenStream`). `AbortBeginsNothing` says that
nothing else is appended as input, or begun, under an abort. Two kinds of
window are told apart: at an `await` any caller may run; in the publication of an
event, observers run, but the session refuses to append from inside an append.
`stack` holds the synchronous calls of `send` and `cancel` that are interrupted
by listeners of the event they just emitted, which may call in again: `send`
samples the abort *before* its insertion and wakes *after* it, and `cancel`
clears one list, then the other, then aborts.

`Send`, `Insert`, `Remove`, `Replace`, `Cancel`, `CancelKeeping`, `Dispose` and
`StartMaintenance` are the callers' entry points. A model request may fail and be
retried (`RecoverRequest`), a stream may settle with text, with tool calls or cut
at the token ceiling (`SettleStream`), listeners may veto a step (`decision`) and
anything may throw (`CatchStepFailure`, `Catch`). Prompt assembly, message
contents and the stream's chunks are abstracted to these outcomes.

`TurnLog` says what a reader of a session log may rely on: turns never overlap,
steps nest in turns, tool calls are recorded before they are answered, and a step
closes over answered calls. `LogGrammar` is its specification with the same
variables: every step of the driver appends what the grammar allows, or nothing.

### ToolScheduler, ToolBatch

`ToolScheduler` is `executeToolCalls` with `runGroup`: the tool calls of one
assistant message, split into groups by execution mode, a rolling pool of
`MaxParallel` bodies, policy (`prepare`) awaited before a body starts, results
kept in slots and committed in model order, and the two ways out: an abort, which
answers everything that was not started, and a pipeline failure, which waits for
what runs and then throws. The registry's answer about a call's mode may change
between the formation of a group and the call's start (`ChangeMode`). `signal` is
the step's abort, `aborted` the sample of it the scheduler works with.

`ToolBatch` is what the step relies on: ordered calls and results, no start after
the signal, every call answered on return. `AgentDriver` uses exactly this
interface (`StartCall`, `CommitResult`, `SkipCalls`, `FinishTools`).

### SessionWriter

`SessionWriter` has several write handles of one session, in one or several
processes, over one log file. A handle has a mutation chain of promises (`chain`,
its first operation `running`), a live buffer with a batching `timer` and a
`paused` flag, a single-flight drain (`Draining`), a lease that stands for the
kernel lock, and the logical end it knows (`cursor`). `disk` is the sequence of
events in complete frames; a crash inside an append, or a failed append whose rollback
fails, leaves a part of a frame (`torn`), from which a prefix of its events (`tail`)
can be decoded. What is appended behind such a part cannot be read any more: its events
are `buried`. `ReadForOpen` counts the decoded events into the cursor; the first write truncates the frame (`TruncateTornTail`)
and rewrites them (`RewriteRecovered`) before it writes its own batch.

`Publish`, `Flush` and `Close` are the `session/event`, `session/flush` and
`session/disposed` listeners. `close` is followed await by await (`stage`): it
drains, waits for the chain it saw, drains again while anything is buffered,
awaits the chain once more, releases the lock, then the claim. `wait` counts the
operations in front of close's continuation; promise order (`CloserFirst`) makes
it run before any operation queued later. `IOFails` is a rejected operation: the file
is as it was; or a truncation took place and its sync failed; or an append, of a batch
or of a recovered tail, left its whole frame or a part of it, because the rollback
failed (`RollbackFails`, which also stands for an append handle that fails to close
after its sync) or because it was the first one, which is published before the
directory is synced. `Crash` ends a process: its memory is gone and the kernel drops its locks.

A first write (`materialize`) may fail after the file was published: the handle
then refuses every retry because the file exists. That is in the model; nothing
the code says is contradicted by it.

### SessionRecovery

`SessionRecovery` follows one session's log over the deaths of its process. `log` is
what the session holds in memory, `durable` how much of it is stored; `Persist` is
what `SessionWriter` guarantees of a handle: storing proceeds towards the end of the
log, and a crash keeps the stored prefix. `stage` is where the driver is, `slot` what
became of each call of the open step.

`SendRequest` and `Dispatch` stand behind the checkpoints of
`session-checkpoint-policy`: a model request, a step and a tool body wait until the log
up to their boundary is stored (`RequestFlushed`, `CallFlushed`), and a checkpoint that
rejects refuses the call (`CheckpointFails`). `Crash` cuts the log at `durable`;
`Resume` appends the closers of `repair.ts`: `PendingCalls` is
`ToolCallRecovery.pendingCalls`, `RecoveredOutcome` says whether a call is answered as
not started or as unknown, `Endings` closes step and turn. The same operators make the
results of a step whose scheduler failed (`RecoverStep`). `EndAborted` records the
calls an abort skipped. `ran` is the history of the bodies that were invoked, `shown`
what the last model request was built from.

### JobRegistry, JobContract

`JobRegistry` is jobs-local with the reports of tool-jobs. A job's record has its
`status`, its `owner` and its `cause`; `result` is the producer's promise, which
`Settle` picks up in a later microtask. `Kill` is both the model's (`byModel`) and a
user's; `Wait`, `LeaveLate` and `Leave` are a wait and its deadline, whose callback
finds the record terminal or not. `Dispose`, `Clean`, `Drop`, `NothingToClean` and
`Unregister` are the disposal of an agent up to its removal from the agent registry,
in the middle of which the registry's cleanup stops the agent's jobs, settles those
whose cancel throws (`Sweep`, `Forced`) and waits for the rest. `Launch` starts the
next agent of the session, `DisposeService` and `DropAll` are the registry's own
teardown. `Announce` is `jobs/settled` with what tool-jobs makes of it: a notice,
unless a wait or the model's own kill already told the agent.

`JobContract` is the Service Definition: one transition to a terminal status, by a step
that also releases every waiter, and a record that never changes after it.

### Schedule, ReminderBook

`Schedule` is the reminder service of a Host. `rows` is the durable table `tasks`,
`chain` the FIFO of `serialize`: the job at its head is a `drive` or a management call.
A call that writes is taken from the head into `slot` and each of its rows is written,
or fails, in an action of its own (`Write`, `WriteFails`); `drive` holds the locals of
`drive()`, which scans the table once (`Scan`), and for each group of due reminders
restores the session, appends one message to it (`Restored`), waits for its flush
(`Flushed`) and commits row by row (`Commit`). Any of these awaits may fail
(`GiveUp`). `run`, `requested` and `timer` are the runtime: `Loop` is the do-while of
`requestDrive`, `Settle` its `finally` one microtask later, between which another
request may arrive. `timer` is the one Host timer, in ticks left, clamped to what a
timer can hold (`Armed`).

The wall clock (`now`) advances with the timer (`Tick`) but may also be adjusted
(`Shift`). `Unload` closes initiator admission, `Stop` and `Close` are the service's
teardown, `Crash` and `Restart` another life of the Host over the same table: of the
messages that no flush acknowledged, the session's own storage keeps any prefix
(`Keeps`). `excused` is a history variable with the reminders that may be repeated:
told and then not recorded, or set back by an edit.

`ReminderBook` is what a user relies on. Only a call that was accepted edits the book
(`Accept`), and it writes what it was accepted for to the reminders it was accepted for
(`Write`), or fails to (`Fail`); no delivery comes between. Otherwise a reminder that
rings once ends only when its session durably holds its instant (`End`), and a
recurring one moves only past an occurrence of its series that its session durably
holds, counted from the target and rule it has at that moment (`Advance`). A removed
reminder never returns, and what was told stays told. `KeepsBook` says that `Schedule`
implements it, with the table (without receipts) for the book, the stored messages for
what was told, and what `slot` has still to write for the edit. So a drive that commits
a row it read before an edit, or moves a recurring reminder by another step than the
occurrence it told, or tells what was not stored, breaks it.

## Runs

| run | instance | shows |
| --- | --- | --- |
| `agent_driver_safety` | 2 messages, 2 steps with tools, 2 calls, 1 retry, nesting 2; 847k states | `RetiredLogBalanced`, `AdmittedOnce`, `LogGrammar`, `AbortBeginsNothing` |
| `agent_driver_liveness` | 2 messages, 1 step with tools, 1 call; 214k states | `LatchedWakeReplays`, `QueuedWakeServed`, `DisposalTerminates` |
| `tool_scheduler` | 3 calls, pool of 2; 384k states | `ModelOrder`, `ExclusiveRunsAlone`, `SettlesQuiescent`, `FailureStopsDispatch`, refinement of `ToolBatch`, `BatchSettles` |
| `session_writer_safety` | 2 handles in one process or in two, 2 events, 1 failing operation, crashes; 440k states up to symmetry | `LogContiguous`, `PromiseKept`, `NothingLost`, `CloseDrains`, `OwnerHolds` (with the routing of a session's events to the handle that owns it) |
| `session_writer_liveness` | 1 handle, 3 events, 2 failing operations; 70k states | `BufferSettles`, `CloseTerminates` |
| `session_recovery` | 2 turns, 2 steps, 2 calls, 2 crashes; 121k states | `ResultsTellTheTruth`, `NothingForgotten`, `AnsweredOnce`, `RepairCompletes`, `TurnCloses` |
| `job_registry` | 2 jobs, limit 1, 2 successive agents and jobs without owner; 492k states | `CompletionToldOnce`, `NoOrphans`, refinement of `JobContract`, `DisposalEnds` |
| `schedule` | 2 reminders of a session, 2 ticks, 2 interventions; 465k states | `ReceiptsAreDurable`, `TimerCovers`, `RepeatsAreExcused`, refinement of `ReminderBook`, `DueIsServed` |

### What the code does not do as documented

These runs check a sentence of the repository's own documentation, and TLC shows
a behaviour of the code that contradicts it. The quotations are in `PROJECT.json`.

| run | behaviour |
| --- | --- |
| `finding_DisposalReplaysNoTurn` | When a user's cancel came first, disposal does not become the abort's cause: a wake that arrives late is latched and replayed as a new turn while disposal waits for quiescence. |
| `finding_single_mutator` | An event published while `close` releases the lock, or while a batch fails, leaves a timer armed. It fires after the release and appends through the stale lease, possibly behind another process's writer. |
| `finding_fragment_discarded` | Torn-tail repair truncates, then rewrites what it recovered; a crash in between discards complete records the resumed session had already shown. |
| `finding_teardown_cause` | A user's kill that arrives while an agent's disposal waits for the job replaces the cause `teardown`: the settlement is announced as a kill and reported to the agent that is going away. |

Two more behaviours met while modelling are listed as hazards with a note: a followup
sent in the microtask between `turn()`'s last look at the queue and the driver's
retirement is neither claimed nor latched until the next wake (`agent.ts:392`;
`QueuedWakeServed` speaks of open turns only), and a batch whose append fails, and whose
rollback fails too, is retried behind what the append left: then it is on disk twice,
or, behind a part of a frame, unreadable, against the comment at `index.ts:1408`.

The safety properties of `SessionWriter` about the file are stated for histories
without a write outside the lock (`~stray`), because `finding_single_mutator` shows
what such a write does; the constraint `OwnedWrites` ends a behaviour at that point.
`OwnerHolds` holds throughout.

### Bounds

* `AgentDriver`: two messages are the fewest that can overtake each other across
  the two lists; a second step distinguishes a turn's first claim from later ones;
  two calls make a partial answer possible; a nesting of two lets a listener of
  one call's event interrupt it with another call. `MaxSteps` bounds only when the
  model asks for tools. `CancelCauses` holds one cause, since all causes but
  disposal are handled alike. Messages are interchangeable, so the safety run uses
  symmetry; the liveness run does not.
* `ToolScheduler`: with three calls and a pool of two, a slot frees while another
  call runs and a third waits, results can settle in either order, and a group can
  be followed by a group.
* `SessionWriter`: two events let one arrive while the other is written, and let
  one be recovered while the next is appended; one failure suffices for a retry;
  two handles are an owner and its successor (crashed, closed or contending).
  Handles are interchangeable, and so are processes (`Interchangeable`). The
  liveness run has three events and two failures for a single handle. Queued
  operations are bounded by the callers: at most one drain and one flush at a time.
* `SessionRecovery`: two crashes let the second one cut what the first resume
  appended; two turns and two steps let an unanswered call sit in a first or a later
  boundary; two calls of a step can be in different slots when the process dies.
* `JobRegistry`: two jobs under a limit of one contend for it; two successive agents
  are the one going away and the one that follows it in the session. `MaxWaits` is one,
  since a settlement releases every wait of a job at once. `Reported` has a success and
  a kill; the other outcomes are treated as the success is.
* `Schedule`: two reminders of one session ring in one message when both recur, and
  apart otherwise. `MaxNow` is the horizon at which the wall clock stands still, and
  `MaxDelay` is shorter, so that a timer must be armed more than once. One receipt is
  kept per reminder (`Records`). `Budget` is shared by calls, faults, adjustments of the
  clock and restarts: any two of them meet in any order.

### Fairness

JavaScript runs every ready continuation, and timers fire, so each component's own
continuations are weakly fair. What they await is assumed to settle: model
streams, tool bodies and policies, listeners, maintenance jobs, file operations.
Callers are never fair: nothing obliges a user to send, cancel or close, nor a
process to crash. Termination (`CloseTerminates`, `DisposalTerminates`) is shown for
callers who send finitely many messages or events; against an endless producer the code
promises none.

* `AgentDriver`: the end of a disposal (`FinishDisposal`) is strongly fair: callers
  may start maintenance again and again while disposal waits for an idle agent, and
  its continuation is a microtask that runs before a caller's next turn of the loop.
* `SessionRecovery`: requests, tools, results and storage proceed; nobody has to
  resume a dead session, and the properties ask nothing of one that stays dead.
* `JobRegistry`: a producer that was asked to stop does settle. That is the contract of
  `cancel`, an assumption about the environment; a job that nobody stops may run for
  ever. The microtasks of a settlement and the stages of a disposal are fair.
* `Schedule`: the FIFO, the drive, the loop of the runtime, the timer and time are fair;
  calls, faults, `Unload`, `Stop`, `Crash` and `Restart` are not.

Deadlock is not checked, because the systems really stop: an idle agent with no
message left, a settled batch, a closed handle, a service that is down.

## Proofs

The theorems hold for every value of the constants, under the modules' named
assumptions only: bounds are natural numbers (some not zero), causes and outcomes are
known ones, `Jobs` is finite, each reminder belongs to a session, and `NoHandle` is no
handle. Each proof module has an invariant that is inductive and implies the
properties; TLC checked these before they were proved.

* `AgentDriverProofs`: `TypeOK`, `RetiredLogBalanced`, `AbortBeginsNothing`,
  `AdmittedOnce`, `LogGrammar`. None is inductive alone. `Located` ties
  the suspension point to the boundaries open on the log; `Accounted` bounds
  answered by called by requested calls and says in which windows they must be
  equal; `Placed` keeps each message in one of unsent, queued or claimed;
  `Unadmitted` says what of these cannot be in the history yet; `Prompted` limits a
  turn's claims. What an admission has still to append is in the batch and not in the
  history, so appending it one by one, under an abort or not, admits nothing twice.
  `DriverKeepsGrammar` maps each action to an action of `TurnLog` or a
  stutter.
* `ToolSchedulerProofs`: `TypeOK`, `ModelOrder`, `ExclusiveRunsAlone`,
  `SettlesQuiescent`, `FailureStopsDispatch`, `ImplementsBatch`. `Ordered` relates the
  group's base, the committed and the started prefix; `Held` and `Covered` say that every
  started call is in flight, in a slot or about to be dispatched, so that a commit pass
  which stops has the first uncommitted call still in flight; that is what makes the
  defensive throw at a group's end unreachable. `Barrier` gives all calls in flight
  their group's mode, and `Room` bounds the pool.
* `SessionWriterProofs`: `OwnerHolds`, `TypeOK`, `LogContiguous`, `PromiseKept`,
  `NothingLost`, `CloseDrains`. For ownership, `LockHeld` and `Routed` extend it to the
  stages of opening and releasing; actions that leave it alone are handled by one lemma
  (`AdvanceKeeps`). For the file, `LogInv` relates three sequences, written with `At` (this
  sequence stands in that one behind the first n) so that no proof unfolds a
  concatenation: `BufferOK` puts batch and buffer behind a handle's cursor in its log,
  `OwnerOK` puts file and recovered events before it, for the handle that holds the lock,
  and `FileOK` and `Kept` are what the file is like for the next one to open it. `ChainOK`
  says what may be queued, `RunOK` where the operation in progress is, and `CloseOK` what
  close has seen stored at each of its awaits. An action of one handle leaves the others
  as they were (`Spared`), except that it may write the file while they hold a stale
  lease, and that is a write without the lock.
  The four properties of the file are proved from the hypothesis `~RollbackFails`, the
  constant with which `session_writer_safety` runs them: when an append fails and cutting
  the file back fails too, the retry is written behind what the append left and they are
  false. What is left without the hypothesis is `StoredOrBuriedForGood`: an event that a flush
  promised, or that a close drained, is in a complete frame of the file for good, or it
  was appended behind a part of a frame (`StoredOrBuried`), and that happens only where a
  rollback failed. It is not more than that: such an event is in the file's bytes, but a
  reader does not find it. The invariant `WrittenInv` adds to `LogInv` that every event of
  a handle before its cursor is in the file or buried, but for the end recovered from a
  torn frame, and that nothing is promised while such an end has still to be rewritten.
  `OneWriter` is an action property, again under
  `~RollbackFails`: every write of a handle that did not lose the lock extends the file
  towards its own log, a crash inside an append included. It is what `SessionRecovery`
  takes for granted when its `durable` only grows towards the end of the log.
* `SessionRecoveryProofs`: `TypeOK`, `ResultsTellTheTruth`, `NothingForgotten`. `Ids`
  keeps the ids of later calls out of the log, `CallsFollow` puts the start of a call
  after the message that asks for it, `Recorded` says that the start of every call whose
  body was invoked is *stored* (that is what the checkpoint before the body is for),
  `SlotOK` what the slot of a call implies about the log and the body, and
  `ShownStored` that what the model was shown is stored.
* `SessionRepairProofs`: `AnsweredOnce`, `RepairCompletes`. The invariant `Well` says of
  each event what it requires of those before it (`Placed`: a result answers the next
  call of its message, a step ends with every call answered) and that what a step holds
  is closed by the step's own end, if at all (`Enclosed`). A beginning of such a log is
  such a log (`WellCut`), which is why one invariant covers every crash and every fork.
  `Answering` is the lemma for all sequences of answers at once, the results of a repair
  and the pairs of an abort: an order-preserving enumeration of what is pending
  (`NthEnumerates`) keeps the log well, so that no induction over it is needed.
  `StageOK` ties the slots of the open step to what its log asked for and answered.
* `JobRegistryProofs`: `TypeOK`, `CompletionToldOnce`, `NoOrphans`, `KeepsContract`.
  `AgentOK` ties the registered agent to its life and its cleanup, `Kept` says that an
  owned record is in the hands of its owner's cleanup, attached or at work, `RecordOK`
  that a job has a record until it is terminal, `HeardOnce` how many notices a settlement
  sends given what the model was told before.
* `ScheduleProofs`: `TypeOK`, `ReceiptsAreDurable`, `TimerCovers`, `KeepsBook`.
  The work is in the exclusivity of the FIFO: `Reading`, `Telling` and `Writing` say,
  step by step of a drive, that the rows it read and the occurrences it told are still
  those of the table, so that what it commits is about them; `Pending` is the same for a
  management call. `LoopOnly` and `Cover` follow the timer, the request flag and the
  loop through the microtask in which none of them seems to cover a reminder.
* `ScheduleRepeatProofs`: `RepeatsAreExcused`, from the invariant of `ScheduleProofs`.
  `Ahead` says that whatever a session was told of a reminder that is neither excused nor
  gone lies before its target, or is the occurrence that the drive is recording right now;
  `Gone` that a service which was torn down has nothing under way that could tell more.

Listed theorems that no run checks as a property: `TurnTakesOnePrompt`,
`CutTurnStaysCut`, `PoolStaysBounded`, `GroupCommitsWhatItStarted`, `LimitHolds`,
`StoredOrBuriedForGood`, `OneWriter`.

Every safety invariant, action property and refinement that a run checks is also stated by
a theorem. Only model-checked: the liveness properties, which with `ENABLED` are outside
the proof system's reach, as is induction over recursive definitions; and the findings.

## Not modelled

* contents: messages, tool arguments and results, contexts, prompt assembly,
  encodings; they reach the models only through the outcomes they cause;
* of the JSONL backend: reads, listing, format migration, explicit append batches,
  uncompressed logs, inode verification of the lock file, the Windows lock;
* of recovery: a composition without the checkpoint policy plugin, which is optional;
  the end-seed marker and the publication of a fork's child;
* of jobs: the output ring and its pump, progress, the budget of wakes, the controllers
  of a scope, a starter that calls back into the registry, a job removed from inside the
  publication of its own settlement, and a kill whose `cancel` tears down its owner
  before it returns;
* of schedule: rule parsing and calendars (a rule is an interval), titles and prompts,
  the age limit of receipts, catalog and history reads, a storage domain that fails to
  open;
* calls that append from inside an event's publication: the session refuses them, so
  the model disables them, and what the caller does with the exception is its own;
* `withInitiator` that throws once the agent registry closed its admission, which leaves
  the phase running with no driver;
* input inserted from inside `cancel`'s clear is in the model, but no document says
  what should happen to it (see the hazards with a note in `PROJECT.json`);
* the components listed `not_modelled`, each with its reason. Most of the repository is
  data: catalogs of models and of client slots, generators of schemas, user interface,
  adapters of external services. What remains and has a state machine of its own (goal
  rounds, replies to questions, MCP clients) sits above the driver or inside a library;
  alone it is a map with one guarded removal, and composed with `AgentDriver` its
  instances are beyond what TLC can enumerate with these bounds.
