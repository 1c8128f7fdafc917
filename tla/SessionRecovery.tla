--------------------------- MODULE SessionRecovery ---------------------------
(***************************************************************************)
(* The log of one session across crashes: what the agent loop appends in a *)
(* turn, the checkpoints (session-checkpoint-policy) that hold back model  *)
(* requests and tool bodies until what precedes them is stored, the loss   *)
(* of what is not stored yet, and the synthetic events that answer the     *)
(* open calls and close the open turn on resume.                           *)
(*                                                                         *)
(* How a handle writes the log is SessionWriter; which calls overlap is    *)
(* ToolScheduler. Here durable only grows towards the end of the log, and  *)
(* the calls of a step start in order and overlap in any way.              *)
(***************************************************************************)
EXTENDS Naturals, Sequences, FiniteSets, SequencesExt

CONSTANTS
    MaxTurns,      \* bound on the turns of the log
    MaxSteps,      \* bound on its steps
    MaxCalls,      \* bound on the calls the model makes
    MaxCrashes     \* bound on crashes

ASSUME RecoveryAssumption ==
    /\ MaxTurns \in Nat /\ MaxSteps \in Nat /\ MaxCalls \in Nat /\ MaxCrashes \in Nat

VARIABLES
    log,        \* the session's events; while the process is down, the stored ones
    durable,    \* how many of them are stored
    stage,      \* where the driver is: see Stages
    slot,       \* the calls of the open step: see Slots
    need,       \* length of the log when a call asked for its checkpoint
    aborted,    \* the turn's signal
    failed,     \* the tool scheduler failed
    nextCall,   \* ids of later calls
    crashes,
    ran,        \* calls whose body was invoked
    shown       \* the log the last model request was built from

vars == <<log, durable, stage, slot, need, aborted, failed, nextCall, crashes, ran, shown>>

Call == 0 .. MaxCalls - 1

\* prestep and request wait for the checkpoint of their boundary; repair is the
\* append of the closers.
Stages == {"idle", "prestep", "request", "stream", "tools", "down", "repair"}
Up == {"prestep", "request", "stream", "tools"}
Slots == {"none", "requested", "called", "barrier", "running", "ran", "refused", "committed"}

-----------------------------------------------------------------------------
(* Events.                                                                 *)

\* What a result tells the model about its call.
Outcomes == {"ran", "refused", "notStarted", "unknown"}
Types == {"turn/start", "turn/end", "step/start", "step/end", "assistant/message",
          "tool/call", "tool/result"}
Event == [type : Types, calls : SUBSET Call, outcome : Outcomes \cup {"none"}]

Mark(type) == [type |-> type, calls |-> {}, outcome |-> "none"]
Message(calls) == [type |-> "assistant/message", calls |-> calls, outcome |-> "none"]
Called(calls) == [type |-> "tool/call", calls |-> calls, outcome |-> "none"]
Result(calls, outcome) == [type |-> "tool/result", calls |-> calls, outcome |-> outcome]

\* The kth of some calls in the order of the model, as a singleton.
Nth(calls, k) == {c \in calls : Cardinality({d \in calls : d < c}) = k - 1}

Boundary == {"turn/start", "turn/end", "step/end"}
Is(l, i, type) == l[i].type = type

-----------------------------------------------------------------------------
(* Repair of a log.                                                        *)

\* Events that no later boundary has closed.
Open(l) == {i \in DOMAIN l : \A j \in i .. Len(l) : l[j].type \notin Boundary}
CallsOf(l, type) == UNION {l[i].calls : i \in {j \in Open(l) : Is(l, j, type)}}

\* ToolCallRecovery.pendingCalls, after it has observed l.
PendingCalls(l) == CallsOf(l, "assistant/message") \ CallsOf(l, "tool/result")

\* Mutant: a recorded call is answered as one that never started.
AllNotStarted(l, calls) == "notStarted"

\* A call whose start was recorded may have run.
RecoveredOutcome(l, calls) ==
    IF calls \cap CallsOf(l, "tool/call") = {} THEN "notStarted" ELSE "unknown"

\* ToolCallRecovery.results, in the order of the requests.
Results(l) ==
    [k \in 1 .. Cardinality(PendingCalls(l)) |->
        LET calls == Nth(PendingCalls(l), k) IN Result(calls, RecoveredOutcome(l, calls))]

TurnOpen(l) ==
    \E i \in DOMAIN l : Is(l, i, "turn/start") /\ \A j \in i .. Len(l) : ~Is(l, j, "turn/end")
StepOpen(l) == \E i \in Open(l) : Is(l, i, "step/start")

\* The boundaries that close an open step and its turn.
Endings(l) == IF StepOpen(l) THEN <<Mark("step/end"), Mark("turn/end")>> ELSE <<Mark("turn/end")>>

\* Mutant: the turn is closed and its unanswered calls are left.
EndingsOnly(l) == IF TurnOpen(l) THEN Endings(l) ELSE << >>

\* openTurnClosers: also what a fork appends to the prefix it inherits.
Closers(l) == IF TurnOpen(l) THEN Results(l) \o Endings(l) ELSE << >>

-----------------------------------------------------------------------------
Init ==
    /\ log = << >> /\ durable = 0 /\ stage = "idle"
    /\ slot = [c \in Call |-> "none"] /\ need = [c \in Call |-> 0]
    /\ aborted = FALSE /\ failed = FALSE
    /\ nextCall = 0 /\ crashes = 0 /\ ran = {} /\ shown = << >>

\* A session/flush that began when the log had n events has resolved.
Flushed(n) == n <= durable

Count(type) == Cardinality({i \in DOMAIN log : Is(log, i, type)})

StartTurn ==
    /\ stage = "idle" /\ Count("turn/start") < MaxTurns
    /\ log' = Append(log, Mark("turn/start"))
    /\ stage' = "prestep" /\ aborted' = FALSE /\ failed' = FALSE
    /\ UNCHANGED <<durable, slot, need, nextCall, crashes, ran, shown>>

\* agent/pre-step flushes before the step opens.
EnterStep ==
    /\ stage = "prestep" /\ Flushed(Len(log)) /\ ~aborted /\ Count("step/start") < MaxSteps
    /\ log' = Append(log, Mark("step/start"))
    /\ stage' = "request"
    /\ UNCHANGED <<durable, slot, need, aborted, failed, nextCall, crashes, ran, shown>>

\* Nothing to claim, a rejected step, an abort, or a checkpoint that failed.
EndTurn ==
    /\ stage = "prestep"
    /\ log' = Append(log, Mark("turn/end")) /\ stage' = "idle"
    /\ UNCHANGED <<durable, slot, need, aborted, failed, nextCall, crashes, ran, shown>>

\* Mutant: the request goes out while the prefix it was built from is buffered.
RequestAtOnce == TRUE

RequestFlushed == Flushed(Len(log))

\* llm/stream: the adapter is asked once the request's prefix is stored.
SendRequest ==
    /\ stage = "request" /\ RequestFlushed
    /\ shown' = log /\ stage' = "stream"
    /\ UNCHANGED <<log, durable, slot, need, aborted, failed, nextCall, crashes, ran>>

\* An attempt that failed is retried from a request built again.
RetryRequest ==
    /\ stage = "stream" /\ ~aborted
    /\ stage' = "request"
    /\ UNCHANGED <<log, durable, slot, need, aborted, failed, nextCall, crashes, ran, shown>>

\* A message without calls ends the step.
Answer ==
    /\ stage = "stream" /\ ~aborted
    /\ log' = log \o <<Message({}), Mark("step/end")>>
    /\ stage' = "prestep"
    /\ UNCHANGED <<durable, slot, need, aborted, failed, nextCall, crashes, ran, shown>>

RequestTools(n) ==
    /\ stage = "stream" /\ ~aborted /\ n > 0 /\ nextCall + n <= MaxCalls
    /\ LET calls == nextCall .. nextCall + n - 1
       IN  /\ log' = Append(log, Message(calls))
           /\ slot' = [c \in Call |-> IF c \in calls THEN "requested" ELSE "none"]
    /\ nextCall' = nextCall + n /\ stage' = "tools"
    /\ UNCHANGED <<durable, need, aborted, failed, crashes, ran, shown>>

\* A stream that was cancelled may have left a message, without its tool calls.
Interrupted == {<< >>} \cup (IF aborted /\ stage = "stream" THEN {<<Message({})>>} ELSE {})

\* A step that fails outside its tools has no calls to answer.
FailRequest ==
    /\ stage \in {"request", "stream"}
    /\ \E kept \in Interrupted : log' = log \o kept \o <<Mark("step/end"), Mark("turn/end")>>
    /\ stage' = "idle"
    /\ UNCHANGED <<durable, slot, need, aborted, failed, nextCall, crashes, ran, shown>>

Abort ==
    /\ stage \in Up /\ ~aborted
    /\ aborted' = TRUE
    /\ UNCHANGED <<log, durable, stage, slot, need, failed, nextCall, crashes, ran, shown>>

-----------------------------------------------------------------------------
(* The calls of a step.                                                    *)

\* Mutant: a call whose preparation threw counts as dispatched.
WorkingOnce == \E c \in Call : slot[c] \in {"called", "barrier", "running"}

Working == \E c \in Call : slot[c] \in {"barrier", "running"}

\* The first call, in model order, in one of these states.
First(c, states) == slot[c] \in states /\ \A d \in Call : d < c => slot[d] \notin states

\* Calls start in order, each after the preparation of the one before.
StartCall(c) ==
    /\ stage = "tools" /\ ~failed /\ ~aborted
    /\ First(c, {"requested", "called"}) /\ slot[c] = "requested"
    /\ log' = Append(log, Called({c})) /\ slot' = [slot EXCEPT ![c] = "called"]
    /\ UNCHANGED <<durable, stage, need, aborted, failed, nextCall, crashes, ran, shown>>

\* Pre-execute lets the call through to dispatch, or answers it itself.
Prepare(c) ==
    /\ slot[c] = "called" /\ ~failed
    /\ \/ slot' = [slot EXCEPT ![c] = "barrier"] /\ need' = [need EXCEPT ![c] = Len(log)]
       \/ slot' = [slot EXCEPT ![c] = "refused"] /\ UNCHANGED need
    /\ UNCHANGED <<log, durable, stage, aborted, failed, nextCall, crashes, ran, shown>>

\* Mutant: the tool body does not wait for the checkpoint.
DispatchAtOnce(c) == slot[c] = "barrier"

CallFlushed(c) == slot[c] = "barrier" /\ Flushed(need[c])

\* tools/execute: the body is invoked once the recorded call is stored, unless the
\* turn was aborted meanwhile.
Dispatch(c) ==
    /\ CallFlushed(c)
    /\ IF aborted
       THEN slot' = [slot EXCEPT ![c] = "refused"] /\ UNCHANGED ran
       ELSE slot' = [slot EXCEPT ![c] = "running"] /\ ran' = ran \cup {c}
    /\ UNCHANGED <<log, durable, stage, need, aborted, failed, nextCall, crashes, shown>>

\* A checkpoint that rejects answers the call with its error: the body is not invoked.
CheckpointFails(c) ==
    /\ slot[c] = "barrier"
    /\ slot' = [slot EXCEPT ![c] = "refused"]
    /\ UNCHANGED <<log, durable, stage, need, aborted, failed, nextCall, crashes, ran, shown>>

Finish(c) ==
    /\ slot[c] = "running"
    /\ slot' = [slot EXCEPT ![c] = "ran"]
    /\ UNCHANGED <<log, durable, stage, need, aborted, failed, nextCall, crashes, ran, shown>>

\* Mutant: a result is committed as soon as it is there.
CommitAnyOrder(c) == slot[c] \in {"ran", "refused"}

\* Results are committed in model order.
Commits(c) == slot[c] \in {"ran", "refused"} /\ First(c, Slots \ {"none", "committed"})

Commit(c) ==
    /\ stage = "tools" /\ ~failed /\ Commits(c)
    /\ log' = Append(log, Result({c}, slot[c])) /\ slot' = [slot EXCEPT ![c] = "committed"]
    /\ UNCHANGED <<durable, stage, need, aborted, failed, nextCall, crashes, ran, shown>>

Cleared == slot' = [c \in Call |-> "none"]

EndStep ==
    /\ stage = "tools" /\ ~failed /\ \A c \in Call : slot[c] \in {"none", "committed"}
    /\ log' = Append(log, Mark("step/end")) /\ stage' = "prestep" /\ Cleared
    /\ UNCHANGED <<durable, need, aborted, failed, nextCall, crashes, ran, shown>>

Skipped == {c \in Call : slot[c] = "requested"}

\* appendSkippedToolCall: a call and its result for every call not started.
SkippedPairs ==
    [k \in 1 .. 2 * Cardinality(Skipped) |->
        IF k % 2 = 1 THEN Called(Nth(Skipped, (k + 1) \div 2))
                     ELSE Result(Nth(Skipped, k \div 2), "refused")]

\* The calls that started are drained and committed first.
EndAborted ==
    /\ stage = "tools" /\ ~failed /\ aborted
    /\ \A c \in Call : slot[c] \in {"none", "committed", "requested"}
    /\ log' = log \o SkippedPairs \o <<Mark("step/end"), Mark("turn/end")>>
    /\ stage' = "idle" /\ Cleared
    /\ UNCHANGED <<durable, need, aborted, failed, nextCall, crashes, ran, shown>>

SchedulerFails ==
    /\ stage = "tools" /\ ~failed
    /\ failed' = TRUE
    /\ UNCHANGED <<log, durable, stage, slot, need, aborted, nextCall, crashes, ran, shown>>

\* The failed step waits for the dispatched calls and answers what is pending.
RecoverStep ==
    /\ stage = "tools" /\ failed /\ ~Working
    /\ log' = log \o Results(log) \o <<Mark("step/end"), Mark("turn/end")>>
    /\ stage' = "idle" /\ Cleared
    /\ UNCHANGED <<durable, need, aborted, failed, nextCall, crashes, ran, shown>>

-----------------------------------------------------------------------------
(* Storage and crashes.                                                    *)

\* A background write, a flush or the append of the closers stores some more events.
Persist(n) ==
    /\ stage # "down" /\ n \in durable + 1 .. Len(log)
    /\ durable' = n
    /\ UNCHANGED <<log, stage, slot, need, aborted, failed, nextCall, crashes, ran, shown>>

\* Mutant: with a torn tail, the last whole event is dropped too.
OneLess == SubSeq(log, 1, durable - 1)

Stored == SubSeq(log, 1, durable)

\* The process dies, or the append of the closers fails and the handle is closed.
Crash ==
    /\ stage # "down" /\ crashes < MaxCrashes
    /\ log' = Stored /\ stage' = "down" /\ crashes' = crashes + 1
    /\ Cleared /\ aborted' = FALSE /\ failed' = FALSE
    /\ UNCHANGED <<durable, need, nextCall, ran, shown>>

\* resumeWith: the closers of the stored log are appended before the session is published.
Resume ==
    /\ stage = "down"
    /\ log' = log \o Closers(log)
    /\ stage' = IF Closers(log) = << >> THEN "idle" ELSE "repair"
    /\ UNCHANGED <<durable, slot, need, aborted, failed, nextCall, crashes, ran, shown>>

Publish ==
    /\ stage = "repair" /\ durable = Len(log)
    /\ stage' = "idle"
    /\ UNCHANGED <<log, durable, slot, need, aborted, failed, nextCall, crashes, ran, shown>>

-----------------------------------------------------------------------------
Turn == StartTurn \/ EnterStep \/ EndTurn \/ SendRequest \/ RetryRequest \/ Answer \/ FailRequest
        \/ \E n \in 1 .. MaxCalls : RequestTools(n)
Tools(c) == StartCall(c) \/ Prepare(c) \/ Dispatch(c) \/ CheckpointFails(c) \/ Finish(c) \/ Commit(c)
Step == EndStep \/ EndAborted \/ RecoverStep

Next ==
    \/ Turn \/ Abort \/ (\E c \in Call : Tools(c)) \/ Step \/ SchedulerFails
    \/ (\E n \in 1 .. Len(log) : Persist(n)) \/ Crash \/ Resume \/ Publish

Spec == Init /\ [][Next]_vars

\* The driver, the tools and the disk make progress and a series of requests ends, as
\* the retry policies are bounded; nobody has to resume.
Fairness ==
    /\ WF_vars(EnterStep \/ EndTurn) /\ WF_vars(SendRequest \/ FailRequest)
    /\ WF_vars(Answer \/ FailRequest \/ \E n \in 1 .. MaxCalls : RequestTools(n))
    /\ \A c \in Call : WF_vars(Tools(c))
    /\ WF_vars(Step) /\ WF_vars(Publish) /\ WF_vars(\E n \in 1 .. Len(log) : Persist(n))

FairSpec == Spec /\ Fairness

-----------------------------------------------------------------------------
(* Properties.                                                             *)

\* Every variable keeps its type.
TypeOK ==
    /\ log \in Seq(Event) /\ shown \in Seq(Event)
    /\ durable \in 0 .. Len(log)
    /\ stage \in Stages
    /\ slot \in [Call -> Slots] /\ need \in [Call -> Nat]
    /\ aborted \in BOOLEAN /\ failed \in BOOLEAN
    /\ nextCall \in 0 .. MaxCalls /\ crashes \in 0 .. MaxCrashes
    /\ ran \in SUBSET Call

\* A result that says its call did not run (TOOL_NOT_STARTED, or an error from before
\* the body) is never false, whatever crashed in between; one from the body says so.
ResultsTellTheTruth ==
    \A i \in DOMAIN log : Is(log, i, "tool/result") =>
        /\ log[i].outcome \in {"notStarted", "refused"} => log[i].calls \cap ran = {}
        /\ log[i].outcome = "ran" => log[i].calls \subseteq ran

\* What a model request was built from is still the beginning of the log after any
\* crash: the session never forgets what the model has been shown.
NothingForgotten == IsPrefix(shown, log)

\* The step of the event at i is closed at u.
ClosedAt(l, i, u) == i < u /\ Is(l, u, "step/end") /\ \A k \in i .. u - 1 : ~Is(l, k, "step/end")

\* A closed step holds one result for each call of its message, in the order of the calls.
Answered(l) ==
    \A i, u \in DOMAIN l : Is(l, i, "assistant/message") /\ ClosedAt(l, i, u) =>
        LET results == {j \in i .. u : Is(l, j, "tool/result")}
        IN  /\ \A j \in results : \E c \in l[i].calls : l[j].calls = {c}
            /\ \A c \in l[i].calls : \E j \in results : l[j].calls = {c}
            /\ \A j, k \in results : j < k => \A c \in l[j].calls, d \in l[k].calls : c < d

\* Once its step is closed every call of a message has exactly one result, in the order
\* of the message, over aborts, failures and crashes: providers reject anything else.
AnsweredOnce == Answered(log)

\* A whole number of turns, each step closed before its turn.
Balanced(l) ==
    /\ ~TurnOpen(l)
    /\ \A i \in DOMAIN l : Is(l, i, "step/start") =>
            \E j \in i .. Len(l) : Is(l, j, "step/end") /\ \A k \in i .. j : ~Is(l, k, "turn/end")
    /\ Answered(l)

\* Wherever the log is cut, by a crash or by a fork, the closers make it whole.
RepairCompletes ==
    \A n \in 0 .. Len(log) :
        LET cut == SubSeq(log, 1, n) IN Balanced(cut \o Closers(cut))

\* A turn that is open is closed, by its driver or by the resume, unless the process
\* stays down.
TurnCloses == TurnOpen(log) ~> (~TurnOpen(log) \/ stage = "down")
=============================================================================
