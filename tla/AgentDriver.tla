------------------------------ MODULE AgentDriver ------------------------------
(***************************************************************************)
(* One agent's driver (ReactLoopAgent): its activity phase, its two-list   *)
(* inbox, and the loop that opens turns and steps on the session log.      *)
(*                                                                         *)
(* Everything runs on one JavaScript thread.  pc is where the driver is    *)
(* suspended: at an await (a full window, in which any caller may run), in *)
(* the publication of a session event (observers run, but may not append), *)
(* or nowhere (no caller can run).  stack holds the synchronous calls of   *)
(* send and cancel that are interrupted by the listeners of an event they  *)
(* emitted: such a listener may itself call send or cancel.                *)
(***************************************************************************)
EXTENDS Integers, Sequences, FiniteSets

CONSTANTS
    Messages,     \* identities of the user messages callers may submit
    CancelCauses, \* the causes other than disposal a caller may cancel with
    MaxSteps,     \* bound: the model asks for tools only before this step
    MaxCalls,     \* bound: tool calls in one assistant message
    MaxRetries,   \* bound: request retries within a step
    MaxDepth      \* bound: synchronous calls nested through listeners

ASSUME CausesAssumption == CancelCauses \subseteq {"user", "parent", "hook"}
ASSUME BoundsAssumption == /\ MaxSteps \in Nat /\ MaxCalls \in Nat
                           /\ MaxRetries \in Nat /\ MaxDepth \in Nat

VARIABLES
    phase,          \* "idle", "maintenance" or "running"
    turn, step,     \* number of the last turn/start; step within the open turn
    cause,          \* why the activity's signal is aborted, "none" while live
    wakeRequested,  \* a wake is latched for replay when the activity converges
    pc, stack,
    nextTurn, nextStep,  \* the inbox: prompts in order; input for the next step
    batch,          \* messages claimed by the pre-step under way
    decision,       \* what the pre-step decided
    attempt,        \* requests already admitted in this step
    toAdmit,        \* messages the admission under way has still to append
    truncated,      \* the last assistant message hit the token ceiling
    ends, drained,  \* turnEnds; whether the loop was left by its normal break
    turnOpen, stepOpen,           \* boundaries on the session log
    requests, called, answered,   \* tool calls asked, recorded, answered in model order
    concluded,      \* some committed result concludes the turn
    lastEnd,        \* the latest turn/end: its reason, and what held at that time
    life,           \* "live", "draining" (disposal under way) or "closed"
    interrupted,    \* the phase disposal found
    unsent,         \* messages no caller has submitted yet
    admissions,     \* how often each message was appended as user/message
    prompts,        \* prompts claimed since turn/start
    waking          \* messages submitted with wakeup

phaseVars == <<phase, turn, step, cause, wakeRequested>>
inboxVars == <<nextTurn, nextStep>>
loopVars  == <<batch, decision, attempt, toAdmit, truncated, ends, drained, prompts>>
logVars   == <<turnOpen, stepOpen, requests, called, answered, lastEnd, admissions>>
toolVars  == <<requests, called, answered, concluded>>
callerVars == <<unsent, waking>>
lifeVars == <<life, interrupted>>
vars == <<phaseVars, pc, stack, inboxVars, loopVars, logVars, concluded, lifeVars, callerVars>>

Causes == CancelCauses \cup {"disposed"}
Reasons == {"completed", "max-tokens", "blocked", "aborted", "error"}
\* Windows in which session/event observers run: Session.append refuses reentry.
Observing == {"opened", "entered", "admitting", "closedStep", "unwound", "closedTurn"}
\* Windows in which anything may run.
Awaiting == {"off", "woken", "again", "preStep", "decided", "request", "streaming",
             "recovering", "answered", "tools", "stepped", "failed", "stopping",
             "reporting", "exit"}
Frames == [op : {"wake"}, late : BOOLEAN]
            \cup [op : {"clear", "abort"}, cause : Causes]
            \cup [op : {"drive", "replay"}]

Pending == {nextTurn[i] : i \in DOMAIN nextTurn} \cup nextStep
HasPending == nextTurn # << >> \/ nextStep # {}
Aborted == cause # "none"
\* The synchronous stack is empty: an awaited continuation may run.
Unwound == stack = << >>
Top(op) == stack # << >> /\ Head(stack).op = op
\* The driver's synchronous prefix runs inside wakeDriver or from the event loop.
InPrefix == Unwound \/ Top("drive")
PopDrive == IF Unwound THEN stack ELSE Tail(stack)

Init ==
    /\ phase = "idle" /\ turn = 0 /\ step = 0 /\ cause = "none" /\ wakeRequested = FALSE
    /\ pc = "off" /\ stack = << >>
    /\ nextTurn = << >> /\ nextStep = {}
    /\ batch = {} /\ decision = "none" /\ attempt = 0 /\ toAdmit = {} /\ truncated = FALSE
    /\ ends = "none" /\ drained = FALSE /\ prompts = 0
    /\ turnOpen = FALSE /\ stepOpen = FALSE
    /\ requests = 0 /\ called = 0 /\ answered = 0 /\ concluded = FALSE
    /\ lastEnd = [reason |-> "completed", stepped |-> FALSE, cancelled |-> FALSE]
    /\ life = "live" /\ interrupted = "idle"
    /\ unsent = Messages /\ admissions = [m \in Messages |-> 0]
    /\ waking = {}

-----------------------------------------------------------------------------
(* Callers.  May says when a caller can run at all, MayAppend when it can  *)
(* run and append to the session (an inbox splice is a session event).     *)

May == life # "closed" /\ pc # "closing" /\ Len(stack) < MaxDepth
MayAppend == May /\ pc \in Awaiting

Put(m, list, front) ==
    IF list = "next-turn"
    THEN /\ nextTurn' = IF front THEN <<m>> \o nextTurn ELSE Append(nextTurn, m)
         /\ UNCHANGED nextStep
    ELSE nextStep' = nextStep \cup {m} /\ UNCHANGED nextTurn

\* Agent.send with wakeup: the abort is sampled before the insertion, whose
\* listeners run before wakeDriver does.
Send(m, list) ==
    /\ MayAppend /\ m \in unsent
    /\ LET late == phase # "idle" /\ Aborted
       IN /\ Put(m, IF late THEN "next-turn" ELSE list, FALSE)
          /\ stack' = <<[op |-> "wake", late |-> late]>> \o stack
    /\ unsent' = unsent \ {m} /\ waking' = waking \cup {m}
    /\ UNCHANGED <<phaseVars, pc, loopVars, logVars, concluded, lifeVars>>

\* Agent.inject, inbox.append and inbox.prepend: no wake.
Insert(m, list, front) ==
    /\ MayAppend /\ m \in unsent
    /\ Put(m, list, front)
    /\ unsent' = unsent \ {m}
    /\ UNCHANGED <<phaseVars, pc, stack, loopVars, logVars, concluded, lifeVars, waking>>

CutAt(list, i) == SubSeq(list, 1, i - 1) \o SubSeq(list, i + 1, Len(list))

\* inbox.remove: the pending message is discarded.
Remove(m) ==
    /\ MayAppend /\ m \in Pending
    /\ nextStep' = nextStep \ {m}
    /\ IF m \in nextStep
       THEN UNCHANGED nextTurn
       ELSE \E i \in DOMAIN nextTurn : nextTurn[i] = m /\ nextTurn' = CutAt(nextTurn, i)
    /\ UNCHANGED <<phaseVars, pc, stack, loopVars, logVars, concluded, lifeVars, callerVars>>

\* inbox.replace: the same position, a new identity.
Replace(m, n) ==
    /\ MayAppend /\ m \in Pending /\ n \in unsent
    /\ nextStep' = IF m \in nextStep THEN (nextStep \ {m}) \cup {n} ELSE nextStep
    /\ nextTurn' = [i \in DOMAIN nextTurn |-> IF nextTurn[i] = m THEN n ELSE nextTurn[i]]
    /\ unsent' = unsent \ {n}
    /\ waking' = IF m \in waking THEN waking \cup {n} ELSE waking
    /\ UNCHANGED <<phaseVars, pc, stack, loopVars, logVars, concluded, lifeVars>>

\* phase.abort.abort(c): the first cause wins, and an idle agent has no signal.
Abort(c) == cause' = IF phase # "idle" /\ ~Aborted THEN c ELSE cause

\* The part of cancel after inbox.clear().
AbortCleared(c, rest) ==
    /\ Abort(c) /\ wakeRequested' = FALSE /\ stack' = rest
    /\ UNCHANGED <<phase, turn, step>>

\* inbox.clear() on next-turn, then its discard listeners, then the abort.
ClearTurn(c, rest) ==
    IF nextTurn # << >>
    THEN /\ nextTurn' = << >>
         /\ stack' = <<[op |-> "abort", cause |-> c]>> \o rest
         /\ UNCHANGED phaseVars
    ELSE UNCHANGED nextTurn /\ AbortCleared(c, rest)

\* Agent.cancel clearing the inbox: next-step first, its listeners, then the rest.
ClearAndCancel(c) ==
    /\ (pc \in Observing => ~HasPending)
    /\ IF nextStep # {}
       THEN /\ nextStep' = {} /\ UNCHANGED <<nextTurn, phaseVars>>
            /\ stack' = <<[op |-> "clear", cause |-> c]>> \o stack
       ELSE UNCHANGED nextStep /\ ClearTurn(c, stack)
    /\ UNCHANGED <<pc, loopVars, logVars, concluded, unsent, waking>>

Cancel(c) == May /\ ClearAndCancel(c) /\ UNCHANGED lifeVars

\* Agent.cancel(cause, { keepInbox: true }).
CancelKeeping(c) ==
    /\ May /\ Abort(c)
    /\ UNCHANGED <<phase, turn, step, wakeRequested, pc, stack, inboxVars, loopVars,
                   logVars, concluded, lifeVars, callerVars>>

\* AgentHandle.dispose: a disposed-cause cancel, then the wait for quiescence.
Dispose ==
    /\ May /\ life = "live" /\ life' = "draining" /\ interrupted' = phase
    /\ ClearAndCancel("disposed")

\* whenIdle() has returned: no driver, no maintenance, no replacement.
FinishDisposal ==
    /\ life = "draining" /\ phase = "idle" /\ Unwound
    /\ life' = "closed"
    /\ UNCHANGED <<interrupted, phaseVars, pc, stack, inboxVars, loopVars, logVars, concluded, callerVars>>

\* runMaintenance claims the idle phase synchronously.
StartMaintenance ==
    /\ MayAppend /\ phase = "idle"
    /\ phase' = "maintenance"
    /\ UNCHANGED <<turn, step, cause, wakeRequested, pc, stack, inboxVars, loopVars,
                   logVars, concluded, lifeVars, callerVars>>

-----------------------------------------------------------------------------
(* wakeDriver and the frames of the synchronous stack.                     *)

\* From idle: reserve the running phase, then run the driver's prefix in place.
StartDriver(rest) ==
    /\ phase' = "running" /\ step' = 0 /\ cause' = "none" /\ wakeRequested' = FALSE
    /\ pc' = "woken" /\ stack' = <<[op |-> "drive"]>> \o rest
    /\ UNCHANGED turn

\* Otherwise latch the wake, unless a live driver will claim it or disposal began.
Latches(late) == cause # "disposed" /\ (phase = "maintenance" \/ late)

LatchWake(late, rest) ==
    /\ wakeRequested' = (wakeRequested \/ Latches(late))
    /\ stack' = rest
    /\ UNCHANGED <<phase, turn, step, cause, pc>>

Wake ==
    /\ Top("wake")
    /\ IF phase = "idle"
       THEN StartDriver(Tail(stack))
       ELSE LatchWake(Head(stack).late, Tail(stack))
    /\ UNCHANGED <<inboxVars, loopVars, logVars, concluded, lifeVars, unsent, waking>>

ContinueClear ==
    /\ Top("clear") /\ ClearTurn(Head(stack).cause, Tail(stack))
    /\ UNCHANGED <<pc, nextStep, loopVars, logVars, concluded, lifeVars, unsent, waking>>

ContinueAbort ==
    /\ Top("abort") /\ AbortCleared(Head(stack).cause, Tail(stack))
    /\ UNCHANGED <<pc, inboxVars, loopVars, logVars, concluded, lifeVars, unsent, waking>>

\* The end of kick or runMaintenance: replay a latched wake while work is pending.
Replay ==
    /\ Top("replay")
    /\ IF phase = "idle" /\ HasPending
       THEN StartDriver(Tail(stack))
       ELSE IF HasPending
            THEN LatchWake(FALSE, Tail(stack))
            ELSE stack' = Tail(stack) /\ UNCHANGED <<phaseVars, pc>>
    /\ UNCHANGED <<inboxVars, loopVars, logVars, concluded, lifeVars, unsent, waking>>

\* Mutant: any abort of the maintenance drops the wake latched behind it.
ReplaysUnaborted == ~Aborted /\ wakeRequested /\ HasPending

Replays == cause # "disposed" /\ wakeRequested /\ HasPending

\* Mutant: the phase is restored only after the job, not in a finally block.
JobReturned == phase = "maintenance" /\ Unwound /\ ~Aborted

JobSettled == phase = "maintenance" /\ Unwound

\* The maintenance job settled.  Status stays idle, so no listener runs before the replay.
EndMaintenance ==
    /\ JobSettled
    /\ IF Replays
       THEN StartDriver(stack)
       ELSE /\ phase' = "idle" /\ cause' = "none" /\ wakeRequested' = FALSE
            /\ UNCHANGED <<turn, step, pc, stack>>
    /\ UNCHANGED <<inboxVars, loopVars, logVars, concluded, lifeVars, unsent, waking>>

\* kick leaves its loop: publish idle, then replay what was latched.
Converge ==
    /\ pc = "exit" /\ Unwound
    /\ phase' = "idle" /\ pc' = "off" /\ step' = 0 /\ cause' = "none" /\ wakeRequested' = FALSE
    /\ stack' = IF wakeRequested THEN <<[op |-> "replay"]>> ELSE << >>
    /\ UNCHANGED <<turn, inboxVars, loopVars, logVars, concluded, lifeVars, callerVars>>

-----------------------------------------------------------------------------
(* turn(): the turn boundary and the step loop.                            *)

\* signal.throwIfAborted() before turn/start leaves no turn behind.
OpenTurn ==
    /\ pc \in {"woken", "again"} /\ InPrefix
    /\ IF Aborted
       THEN /\ pc' = "exit" /\ stack' = PopDrive
            /\ UNCHANGED <<turn, turnOpen, ends, drained, prompts>>
       ELSE /\ turn' = turn + 1 /\ turnOpen' = TRUE /\ pc' = "opened"
            /\ ends' = "none" /\ drained' = FALSE /\ prompts' = 0
            /\ UNCHANGED stack
    /\ UNCHANGED <<phase, step, cause, wakeRequested, inboxVars, batch, decision, attempt,
                   toAdmit, truncated, stepOpen, toolVars, lastEnd, admissions, lifeVars,
                   callerVars>>

\* Mutant: an abort is rethrown without recording the turn's ending.
CatchUnrecorded ==
    /\ ends' = IF Aborted THEN ends ELSE "error"
    /\ pc' = IF Aborted THEN "closing" ELSE "reporting"

\* The catch block: abort wins over the error; only an error is reported.
Catch ==
    /\ ends' = IF Aborted THEN "aborted" ELSE "error"
    /\ pc' = IF Aborted THEN "closing" ELSE "reporting"

TakesPrompt(list) == list = "next-turn" /\ nextTurn # << >>

\* inbox.claim(list): all next-step input, and one prompt at the turn boundary.
Claim(list) ==
    /\ batch' = nextStep \cup (IF TakesPrompt(list) THEN {Head(nextTurn)} ELSE {})
    /\ nextStep' = {}
    /\ nextTurn' = IF TakesPrompt(list) THEN Tail(nextTurn) ELSE nextTurn
    /\ prompts' = prompts + (IF TakesPrompt(list) THEN 1 ELSE 0)
    /\ pc' = "preStep"

FirstClaim ==
    /\ pc = "opened" /\ InPrefix
    /\ IF Aborted
       THEN Catch /\ UNCHANGED <<stack, inboxVars, batch, prompts>>
       ELSE Claim("next-turn") /\ stack' = PopDrive /\ UNCHANGED ends
    /\ UNCHANGED <<phaseVars, decision, attempt, toAdmit, truncated, drained, logVars, concluded,
                   lifeVars, callerVars>>

\* The step opens for a batch, or to continue after tool results without one.
EntersStep == decision = "enter" \/ (decision = "empty" /\ ends = "none" /\ step > 0)

\* preStep settles: an abort or a failing listener rejects it, else the pre-step
\* waterfall rejects the step or enters a batch it may have cut, emptied or extended.
DecidePreStep ==
    /\ pc = "preStep" /\ Unwound
    /\ pc' = "decided"
    /\ \/ decision' = "fail" /\ batch' = {}
       \/ ~Aborted /\ decision' = "reject" /\ batch' = {}
       \/ /\ ~Aborted
          /\ \E kept \in SUBSET batch, context \in BOOLEAN :
                /\ batch' = kept
                /\ decision' = IF kept = {} /\ ~context THEN "empty" ELSE "enter"
    /\ UNCHANGED <<phaseVars, stack, inboxVars, attempt, toAdmit, truncated, ends, drained,
                   prompts, logVars, concluded, lifeVars, callerVars>>

\* turn() resumes after preStep, one microtask later: the turn ends, or the step opens.
LeaveTurn ==
    /\ \/ decision = "fail" /\ Catch /\ UNCHANGED drained
       \/ decision = "reject" /\ ends' = "blocked" /\ pc' = "closing" /\ UNCHANGED drained
       \/ decision = "empty" /\ ends # "none" /\ drained' = TRUE /\ pc' = "closing" /\ UNCHANGED ends
       \/ decision = "empty" /\ ends = "none" /\ step = 0
            /\ ends' = "completed" /\ pc' = "closing" /\ UNCHANGED drained
       \/ EntersStep /\ Aborted /\ Catch /\ UNCHANGED drained
    /\ UNCHANGED <<step, stepOpen, attempt, toolVars>>

\* Mutant: the abort is not sampled again between the pre-step and step/start.
OpenStepUnchecked ==
    /\ EntersStep
    /\ step' = step + 1 /\ stepOpen' = TRUE /\ pc' = "entered"
    /\ attempt' = 0 /\ requests' = 0 /\ called' = 0 /\ answered' = 0 /\ concluded' = FALSE
    /\ UNCHANGED <<ends, drained>>

OpenStep ==
    /\ EntersStep /\ ~Aborted
    /\ step' = step + 1 /\ stepOpen' = TRUE /\ pc' = "entered"
    /\ attempt' = 0 /\ requests' = 0 /\ called' = 0 /\ answered' = 0 /\ concluded' = FALSE
    /\ UNCHANGED <<ends, drained>>

EnterStep ==
    /\ pc = "decided" /\ Unwound
    /\ decision' = "none"
    /\ LeaveTurn \/ OpenStep
    /\ UNCHANGED <<phase, turn, cause, wakeRequested, stack, inboxVars, batch, toAdmit, truncated,
                   prompts, turnOpen, lastEnd, admissions, lifeVars, callerVars>>

\* What step() returns: null (here "none") while tool results await the model.
StepEnd == IF truncated THEN "max-tokens"
           ELSE IF requests = 0 \/ concluded THEN "completed" ELSE "none"

\* max-tokens stays the turn's outcome.
Ending == IF ends = "max-tokens" THEN ends ELSE StepEnd

\* step() returned: close the step.
CloseStep ==
    /\ pc = "stepped" /\ Unwound
    /\ stepOpen' = FALSE /\ pc' = "closedStep"
    /\ ends' = Ending
    /\ UNCHANGED <<phaseVars, stack, inboxVars, batch, decision, attempt, toAdmit, truncated,
                   drained, prompts, turnOpen, toolVars, lastEnd, admissions, lifeVars, callerVars>>

\* Mutant: a failed step is closed without answers for its pending calls.
RecoverNothing == answered' = answered

\* ToolCallRecovery.results: an error result for every unanswered request.
RecoverResults == answered' = requests

\* step() threw: answer every unanswered request, close the step, rethrow.
UnwindStep ==
    /\ pc = "failed" /\ Unwound
    /\ RecoverResults
    /\ stepOpen' = FALSE /\ pc' = "unwound"
    /\ UNCHANGED <<phaseVars, stack, inboxVars, loopVars, turnOpen, requests, called, concluded,
                   lastEnd, admissions, lifeVars, callerVars>>

CatchStepFailure ==
    /\ pc = "unwound" /\ Unwound /\ Catch
    /\ UNCHANGED <<phaseVars, stack, inboxVars, batch, decision, attempt, toAdmit, truncated,
                   drained, prompts, logVars, concluded, lifeVars, callerVars>>

\* After step/end: stop only when the turn has an ending and no input is waiting.
AfterStep ==
    /\ pc = "closedStep" /\ Unwound
    /\ IF Aborted
       THEN Catch /\ UNCHANGED <<inboxVars, batch, prompts>>
       ELSE IF ends # "none" /\ nextStep = {}
            THEN pc' = "stopping" /\ UNCHANGED <<inboxVars, batch, prompts, ends>>
            ELSE Claim("next-step") /\ UNCHANGED ends
    /\ UNCHANGED <<phaseVars, stack, decision, attempt, toAdmit, truncated, drained, logVars,
                   concluded, lifeVars, callerVars>>

\* The agent/turn-stopping listeners settled, or one of them threw.
AfterStopping ==
    /\ pc = "stopping" /\ Unwound
    /\ \/ Catch /\ UNCHANGED <<inboxVars, batch, prompts, drained>>
       \/ /\ ~Aborted /\ nextStep = {}
          /\ drained' = TRUE /\ pc' = "closing"
          /\ UNCHANGED <<inboxVars, batch, prompts, ends>>
       \/ /\ ~Aborted /\ nextStep # {}
          /\ Claim("next-step") /\ UNCHANGED <<ends, drained>>
    /\ UNCHANGED <<phaseVars, stack, decision, attempt, toAdmit, truncated, logVars, concluded,
                   lifeVars, callerVars>>

CloseTurn ==
    /\ pc \in {"closing", "reporting"} /\ InPrefix
    /\ turnOpen' = FALSE /\ pc' = "closedTurn"
    /\ lastEnd' = [reason |-> ends, stepped |-> step > 0, cancelled |-> Aborted]
    /\ UNCHANGED <<phaseVars, stack, inboxVars, loopVars, stepOpen, toolVars, admissions, lifeVars,
                   callerVars>>

\* Mutant: only steering continues the driver, a queued prompt does not.
ContinuesForSteering == drained /\ nextStep # {}

Continues == drained /\ HasPending

\* After turn/end: a drained turn is followed by the next one while work is pending.
NextTurn ==
    /\ pc = "closedTurn" /\ InPrefix /\ stack' = PopDrive
    /\ IF Continues
       THEN /\ pc' = "again" /\ cause' = "none" /\ wakeRequested' = FALSE /\ step' = 0
       ELSE pc' = "exit" /\ UNCHANGED <<cause, wakeRequested, step>>
    /\ UNCHANGED <<phase, turn, inboxVars, loopVars, logVars, concluded, lifeVars, unsent, waking>>

-----------------------------------------------------------------------------
(* step(): one model request, its retries, and the tool calls it asks for. *)

StepUnchanged == UNCHANGED <<phaseVars, stack, ends, drained, decision, prompts, turnOpen,
                             stepOpen, lastEnd, lifeVars, waking>>

Fail == pc' = "failed"

BeginRequest ==
    /\ pc = "entered" /\ Unwound
    /\ pc' = IF Aborted THEN "failed" ELSE "request"
    /\ StepUnchanged
    /\ UNCHANGED <<inboxVars, batch, attempt, toAdmit, truncated, toolVars, admissions, unsent>>

\* Mutant: a retry of the request admits the batch again.
AdmitsOnRetry(m) == m \in batch

\* The batch enters the log with the first request of the step.
Admits(m) == m \in batch /\ attempt = 0

\* prepareRequest settles.  From here to buildRequest the loop only appends, and its
\* signal is sampled no more.
BeginAdmission ==
    /\ pc = "request" /\ Unwound
    /\ \/ Fail /\ UNCHANGED <<attempt, toAdmit>>
       \/ /\ ~Aborted /\ pc' = "admitting" /\ attempt' = attempt + 1
          /\ toAdmit' = {m \in Messages : Admits(m)}
    /\ StepUnchanged
    /\ UNCHANGED <<inboxVars, batch, truncated, toolVars, admissions, unsent>>

\* One message of the batch is appended: its observers may cancel before the next.
AdmitMessage ==
    /\ pc = "admitting" /\ Unwound
    /\ \E m \in toAdmit :
          /\ toAdmit' = toAdmit \ {m}
          /\ admissions' = [admissions EXCEPT ![m] = @ + 1]
    /\ StepUnchanged
    /\ UNCHANGED <<pc, inboxVars, batch, attempt, truncated, toolVars, unsent>>

\* buildRequest's last check and the call to the stream, which may throw at once.
OpenStream ==
    /\ pc = "admitting" /\ Unwound /\ toAdmit = {}
    /\ \/ Fail
       \/ ~Aborted /\ pc' = "streaming"
    /\ StepUnchanged
    /\ UNCHANGED <<inboxVars, batch, attempt, toAdmit, truncated, toolVars, admissions, unsent>>

\* The stream threw or was cut, ended in an in-band error, or produced a message.
SettleStream ==
    /\ pc = "streaming" /\ Unwound
    /\ \/ Fail /\ UNCHANGED <<requests, truncated>>
       \/ ~Aborted /\ pc' = "recovering" /\ UNCHANGED <<requests, truncated>>
       \/ /\ ~Aborted /\ pc' = "answered"
          /\ \/ truncated' = TRUE /\ requests' = 0
             \/ truncated' = FALSE /\ requests' = 0
             \/ truncated' = FALSE /\ step < MaxSteps /\ requests' \in 1 .. MaxCalls
    /\ StepUnchanged
    /\ UNCHANGED <<inboxVars, batch, attempt, toAdmit, called, answered, concluded, admissions,
                   unsent>>

\* The agent/request-error waterfall settled.
RecoverRequest ==
    /\ pc = "recovering" /\ Unwound
    /\ \/ Fail
       \/ ~Aborted /\ attempt <= MaxRetries /\ pc' = "request"
    /\ StepUnchanged
    /\ UNCHANGED <<inboxVars, batch, attempt, toAdmit, truncated, toolVars, admissions, unsent>>

UseAnswer ==
    /\ pc = "answered" /\ Unwound
    /\ pc' = IF requests = 0 THEN "stepped" ELSE "tools"
    /\ StepUnchanged
    /\ UNCHANGED <<inboxVars, batch, attempt, toAdmit, truncated, toolVars, admissions, unsent>>

\* executeToolCalls, as its callers see it: calls start in model order while the
\* signal is live, results commit in model order, an abort skips what is left, a
\* scheduler failure rejects with results missing.
StartCall ==
    /\ pc = "tools" /\ Unwound /\ ~Aborted /\ called < requests
    /\ called' = called + 1
    /\ StepUnchanged
    /\ UNCHANGED <<pc, inboxVars, batch, attempt, toAdmit, truncated, requests, answered, concluded,
                   admissions, unsent>>

CommitResult ==
    /\ pc = "tools" /\ Unwound /\ answered < called
    /\ answered' = answered + 1
    /\ concluded' \in {concluded, TRUE}
    /\ \/ UNCHANGED <<nextStep, unsent>>
       \/ \E m \in unsent : nextStep' = nextStep \cup {m} /\ unsent' = unsent \ {m}
    /\ StepUnchanged
    /\ UNCHANGED <<pc, nextTurn, batch, attempt, toAdmit, truncated, requests, called, admissions>>

SkipCalls ==
    /\ pc = "tools" /\ Unwound /\ Aborted /\ answered = called /\ called < requests
    /\ called' = requests /\ answered' = requests
    /\ StepUnchanged
    /\ UNCHANGED <<pc, inboxVars, batch, attempt, toAdmit, truncated, requests, concluded,
                   admissions, unsent>>

\* Mutant: the batch ends once what was started is answered.
StartedAnswered == answered = called

AllAnswered == answered = requests

FinishTools ==
    /\ pc = "tools" /\ Unwound
    /\ \/ AllAnswered /\ pc' = "stepped"
       \/ Fail
    /\ StepUnchanged
    /\ UNCHANGED <<inboxVars, batch, attempt, toAdmit, truncated, toolVars, admissions, unsent>>

-----------------------------------------------------------------------------
Callers ==
    \/ \E m \in Messages : \E list \in {"next-turn", "next-step"} :
          \/ Send(m, list)
          \/ \E front \in BOOLEAN : Insert(m, list, front)
    \/ \E m \in Messages : Remove(m)
    \/ \E m, n \in Messages : Replace(m, n)
    \/ \E c \in CancelCauses : Cancel(c) \/ CancelKeeping(c)
    \/ Dispose
    \/ StartMaintenance

Synchronous == Wake \/ ContinueClear \/ ContinueAbort \/ Replay

TurnLoop == \/ OpenTurn \/ FirstClaim \/ DecidePreStep \/ EnterStep \/ CloseStep
            \/ UnwindStep \/ CatchStepFailure \/ AfterStep \/ AfterStopping
            \/ CloseTurn \/ NextTurn \/ Converge

StepLoop == \/ BeginRequest \/ BeginAdmission \/ AdmitMessage \/ OpenStream \/ SettleStream
            \/ RecoverRequest \/ UseAnswer \/ StartCall \/ CommitResult \/ SkipCalls \/ FinishTools

Next == Callers \/ Synchronous \/ TurnLoop \/ StepLoop \/ EndMaintenance \/ FinishDisposal

Spec == Init /\ [][Next]_vars

\* The event loop runs every ready continuation, and everything the driver
\* awaits settles: listeners, the model stream, tools and maintenance jobs.
Fairness == /\ WF_vars(Synchronous) /\ WF_vars(TurnLoop) /\ WF_vars(StepLoop)
            /\ WF_vars(EndMaintenance) /\ SF_vars(FinishDisposal)

FairSpec == Spec /\ Fairness
-----------------------------------------------------------------------------
(* Properties.                                                             *)

PCs == Observing \cup Awaiting \cup {"closing"}

FlagsOK ==
    /\ wakeRequested \in BOOLEAN /\ truncated \in BOOLEAN /\ drained \in BOOLEAN
    /\ turnOpen \in BOOLEAN /\ stepOpen \in BOOLEAN /\ concluded \in BOOLEAN

DataOK ==
    /\ phase \in {"idle", "maintenance", "running"}
    /\ turn \in Nat /\ step \in Nat /\ attempt \in Nat /\ prompts \in Nat
    /\ cause \in Causes \cup {"none"}
    /\ pc \in PCs /\ stack \in Seq(Frames)
    /\ nextTurn \in Seq(Messages) /\ nextStep \subseteq Messages
    /\ batch \subseteq Messages /\ toAdmit \subseteq Messages
    /\ decision \in {"none", "fail", "reject", "empty", "enter"}
    /\ ends \in Reasons \cup {"none"}
    /\ requests \in Nat /\ called \in Nat /\ answered \in Nat
    /\ lastEnd \in [reason : Reasons, stepped : BOOLEAN, cancelled : BOOLEAN]
    /\ life \in {"live", "draining", "closed"}
    /\ interrupted \in {"idle", "maintenance", "running"}
    /\ unsent \subseteq Messages /\ waking \subseteq Messages
    /\ admissions \in [Messages -> Nat]

\* Every variable has its type; in particular a turn/end has a reason.
TypeOK == FlagsOK /\ DataOK

\* The session log's turn and step grammar.
Log == INSTANCE TurnLog
LogGrammar == Log!Spec

\* A retired activity leaves a balanced log: when no driver runs, no turn and no
\* step is open; a closed step has an answer for every tool call it asked for.
RetiredLogBalanced ==
    /\ phase # "running" => ~turnOpen
    /\ stepOpen => turnOpen
    /\ ~stepOpen => answered = requests

\* A message enters the model-visible history at most once, whatever retries,
\* cancellations and re-claims happen, and never while it is still pending.
AdmittedOnce ==
    \A m \in Messages : /\ admissions[m] <= 1
                        /\ admissions[m] = 1 => m \notin Pending \cup unsent

\* Each prompt queued by followup is the sole prompt of its turn.
OnePromptPerTurn == prompts <= 1

\* After an abort the activity begins nothing: no turn, step, admission or
\* stream, and no tool call except the skipped ones, answered as they are recorded.
\* An admission that was under way runs to its end, since the signal is not sampled
\* between its appends (agent.ts:422-440), but it takes up no other message.
AbortBeginsNothing ==
    [][cause # "none" /\ cause' # "none" =>
          /\ turn' = turn /\ step' = step /\ attempt' = attempt
          /\ \A m \in Messages : admissions'[m] # admissions[m] => m \in toAdmit
          /\ toAdmit' \subseteq toAdmit
          /\ pc' = "streaming" => pc = "streaming"
          /\ called' = called \/ called' = answered']_vars

\* A turn never ends completed once a step of it was cut at the token ceiling.
CutTurnNeverCompletes == [][ends = "max-tokens" /\ turnOpen' => ends' # "completed"]_vars

\* A clearing cancel is under way.
Clearing == \E i \in DOMAIN stack : stack[i].op \in {"clear", "abort"}

\* A wake latched behind maintenance or an aborted activity is not forgotten: a
\* fresh activity serves the input, unless it is withdrawn or disposal came first.
LatchedWakeReplays ==
    (wakeRequested /\ HasPending) ~>
        (~HasPending \/ Clearing \/ (phase = "running" /\ ~Aborted) \/ cause = "disposed")

\* A waking message that arrives while a turn is open is claimed, unless it is
\* withdrawn, the activity is cancelled, or a turn ends without draining.
QueuedWakeServed ==
    \A m \in Messages :
        (turnOpen /\ m \in waking \cap Pending) ~>
            (m \notin Pending \/ Aborted \/ (pc = "closedTurn" /\ ~drained))

\* Disposal reaches quiescence, whatever callers still send meanwhile.
DisposalTerminates == (life = "draining") ~> (life = "closed")

\* Doc claim (agent.ts:218): disposal never latches, so teardown waits on no model
\* turn: disposal that interrupts a running driver replays no wake.
DisposalReplaysNoTurn ==
    [][life = "draining" /\ interrupted = "running" /\ Top("replay") => pc' # "woken"]_vars
=============================================================================
