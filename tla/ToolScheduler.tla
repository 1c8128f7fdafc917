---------------------------- MODULE ToolScheduler ----------------------------
(***************************************************************************)
(* executeToolCalls and runGroup: the tool calls of one assistant message. *)
(* Exclusive calls run alone, parallel calls in a rolling pool; policy     *)
(* before and after a call runs in model order, bodies overlap.            *)
(*                                                                         *)
(* pc is where the scheduler is suspended; calls are numbered in model     *)
(* order over the whole message, so that a group is base + 1 .. GroupEnd.  *)
(***************************************************************************)
EXTENDS Integers, Sequences, FiniteSets

CONSTANTS
    Requests,     \* tool calls in the assistant message
    MaxParallel   \* maxParallelToolCalls

ASSUME SchedulerAssumption == Requests \in Nat /\ MaxParallel \in Nat \ {0}

VARIABLES
    pc,
    base, mode,         \* calls consumed by earlier groups; the group's mode
    started, committed, \* calls started; results committed in model order
    flight, settled,    \* inFlight; those of it whose promise has settled
    slot,               \* a settled call's result, and whether it needs post-execute
    failure,            \* schedulerFailure is set
    aborted, signal,    \* the scheduler's sample of the signal; the signal
    kind, startMode,    \* the registry's answer now; its answer when a call started
    calls, results,     \* tool/call and tool/result events, by call
    ran                 \* calls whose dispatch began

groupVars == <<base, mode>>
poolVars  == <<flight, settled, slot, ran>>
logVars   == <<calls, results>>
vars == <<pc, groupVars, started, committed, poolVars, failure, aborted, signal, kind,
          startMode, logVars>>

Calls == 1 .. Requests
Modes == {"parallel", "exclusive"}
GroupEnd == IF mode = "parallel" THEN Requests ELSE base + 1
\* The calls whose body has begun and not settled.
Running == flight \ settled

Init ==
    /\ pc = "top" /\ base = 0 /\ mode = "exclusive" /\ started = 0 /\ committed = 0
    /\ flight = {} /\ settled = {} /\ slot = [i \in Calls |-> "none"]
    /\ failure = FALSE /\ aborted = FALSE /\ signal \in BOOLEAN
    /\ kind \in [Calls -> Modes] /\ startMode = [i \in Calls |-> "none"]
    /\ calls = << >> /\ results = << >> /\ ran = {}

-----------------------------------------------------------------------------
(* The environment: cancellation, the registry, and the tool bodies.       *)

Active == pc \notin {"done", "failed"}
\* commitReady runs synchronously from one settled slot to the next.
Suspended == Active /\ pc # "commit"

Abort ==
    /\ Active /\ ~signal /\ signal' = TRUE
    /\ UNCHANGED <<pc, groupVars, started, committed, poolVars, failure, aborted, kind,
                   startMode, logVars>>

\* A registration or its policy changes what executionMode answers for a call.
ChangeMode(i) ==
    /\ Suspended
    /\ \E m \in Modes : kind' = [kind EXCEPT ![i] = m]
    /\ UNCHANGED <<pc, groupVars, started, committed, poolVars, failure, aborted, signal,
                   startMode, logVars>>

\* A dispatch settles: with a result, or with a failure of the pipeline itself.
Settle(i) ==
    /\ Suspended /\ i \in Running
    /\ settled' = settled \cup {i}
    /\ \/ \E r \in {"post", "final"} : slot' = [slot EXCEPT ![i] = r] /\ UNCHANGED failure
       \/ failure' = TRUE /\ UNCHANGED slot
    /\ UNCHANGED <<pc, groupVars, started, committed, flight, ran, aborted, signal, kind,
                   startMode, logVars>>

-----------------------------------------------------------------------------
(* fillPool and startCall.                                                 *)

\* startCall up to its await: the call is on the log before its policy runs.
StartCall ==
    /\ calls' = Append(calls, started + 1)
    /\ started' = started + 1
    /\ startMode' = [startMode EXCEPT ![started + 1] = kind[started + 1]]
    /\ pc' = "prepare"

\* The loop head of executeToolCalls, runGroup's entry and the pool's first call.
BeginGroup ==
    /\ pc = "top" /\ base < Requests
    /\ mode' = kind[base + 1] /\ aborted' = signal
    /\ IF signal
       THEN pc' = "exit" /\ UNCHANGED <<calls, started, startMode>>
       ELSE StartCall
    /\ UNCHANGED <<base, committed, poolVars, failure, signal, kind, results>>

\* Mutant: a prepared call is dispatched although a sibling's dispatch failed.
DispatchUnchecked == TRUE

\* throwSchedulerFailure after prepare.
MayDispatch == ~failure

\* prepare settles.  A failure seen after it, or its own, stops the scheduler.
Prepared ==
    /\ pc = "prepare"
    /\ \/ failure' = TRUE /\ pc' = "drain" /\ UNCHANGED <<flight, slot, ran>>
       \/ /\ MayDispatch /\ pc' = "started"
          /\ flight' = flight \cup {started} /\ ran' = ran \cup {started}
          /\ UNCHANGED <<failure, slot>>
       \/ /\ ~failure /\ pc' = "started"
          /\ \E r \in {"post", "final"} : slot' = [slot EXCEPT ![started] = r]
          /\ UNCHANGED <<failure, flight, ran>>
    /\ UNCHANGED <<groupVars, started, committed, settled, aborted, signal, kind, startMode, logVars>>

\* fillPool resumes after startCall.
CallStarted ==
    /\ pc = "started"
    /\ pc' = IF failure THEN "drain" ELSE "commit"
    /\ UNCHANGED <<groupVars, started, committed, poolVars, failure, aborted, signal, kind,
                   startMode, logVars>>

\* Mutant: later calls of a parallel group are not classified again.
JoinsUnchecked == started < GroupEnd /\ Cardinality(flight) < MaxParallel

\* The next call of the group starts now: it is in the pool's room and still parallel.
Joins ==
    /\ started < GroupEnd /\ Cardinality(flight) < MaxParallel
    /\ kind[started + 1] = "parallel"

\* Mutant: the signal is not sampled again after the group's first sample.
SampledAtEntry == aborted

Sampled == aborted \/ signal

\* After an ordered commit: sample the signal, then refill the pool or wait.
Refill ==
    /\ pc = "committed" /\ ~failure
    /\ aborted' = Sampled
    /\ IF ~aborted' /\ Joins
       THEN StartCall
       ELSE pc' = "race" /\ UNCHANGED <<calls, started, startMode>>
    /\ UNCHANGED <<groupVars, committed, poolVars, failure, signal, kind, results>>

StopOnFailure ==
    /\ pc = "committed" /\ failure
    /\ pc' = "drain"
    /\ UNCHANGED <<groupVars, started, committed, poolVars, failure, aborted, signal, kind,
                   startMode, logVars>>

-----------------------------------------------------------------------------
(* commitReady.                                                            *)

\* Mutant: results are recorded as they settle.
NextSettled == CHOOSE i \in Calls : slot[i] # "none" \/ \A j \in Calls : slot[j] = "none"

\* The slot commitReady looks at.
NextSlot == committed + 1

Ready == committed < GroupEnd /\ slot[NextSlot] # "none"

RecordResult ==
    /\ results' = Append(results, NextSlot)
    /\ committed' = committed + 1
    /\ pc' = "commit"

\* A final result is finished in place; one that needs post-execute is awaited.
CommitReady ==
    /\ pc = "commit"
    /\ IF ~Ready
       THEN pc' = "committed" /\ UNCHANGED <<results, committed>>
       ELSE IF slot[NextSlot] = "post"
            THEN pc' = "finalize" /\ UNCHANGED <<results, committed>>
            ELSE RecordResult
    /\ UNCHANGED <<groupVars, started, poolVars, failure, aborted, signal, kind, startMode, calls>>

\* finalize settles.
Finalized ==
    /\ pc = "finalize"
    /\ \/ RecordResult /\ UNCHANGED failure
       \/ failure' = TRUE /\ pc' = "drain" /\ UNCHANGED <<results, committed>>
    /\ UNCHANGED <<groupVars, started, poolVars, aborted, signal, kind, startMode, calls>>

-----------------------------------------------------------------------------
(* The pool's loop and the two ways out of it.                             *)

\* Promise.race: a settled call leaves the pool, then its result is committed.
CallSettled ==
    /\ pc = "race"
    /\ \E i \in settled :
          /\ flight' = flight \ {i} /\ settled' = settled \ {i}
          /\ pc' = IF failure THEN "drain" ELSE "commit"
    /\ UNCHANGED <<groupVars, started, committed, slot, ran, failure, aborted, signal, kind,
                   startMode, logVars>>

PoolEmpty == flight = {}

LeavePool ==
    /\ pc = "race" /\ PoolEmpty
    /\ pc' = "exit"
    /\ UNCHANGED <<groupVars, started, committed, poolVars, failure, aborted, signal, kind,
                   startMode, logVars>>

UpTo(n) == [i \in 1 .. n |-> i]

\* Mutant: the skipped calls start one too late.
SkippedAfterNext == [i \in 1 .. Requests - started |-> started + 1 + i]

\* Mutant: the calls an abort leaves over are not recorded.
SkippedForgotten == << >>

SkippedCalls == [i \in 1 .. Requests - started |-> started + i]

\* An aborted batch records a call and a synthetic result for what never started.
SkipRest ==
    /\ pc = "exit" /\ aborted
    /\ calls' = calls \o SkippedCalls
    /\ results' = results \o SkippedCalls
    /\ started' = Requests /\ committed' = committed + (Requests - started)
    /\ pc' = "leave"
    /\ UNCHANGED <<groupVars, poolVars, failure, aborted, signal, kind, startMode>>

\* The group consumed what it started; the code throws if something is uncommitted.
NextGroup ==
    /\ pc = "exit" /\ ~aborted
    /\ IF committed = started
       THEN pc' = "top" /\ base' = started
       ELSE pc' = "failed" /\ UNCHANGED base
    /\ UNCHANGED <<mode, started, committed, poolVars, failure, aborted, signal, kind,
                   startMode, logVars>>

Return ==
    /\ \/ pc = "leave"
       \/ pc = "top" /\ base = Requests
    /\ pc' = "done"
    /\ UNCHANGED <<groupVars, started, committed, poolVars, failure, aborted, signal, kind,
                   startMode, logVars>>

\* Mutant: the failure is rethrown at once.
RethrownAtOnce == TRUE

AllSettled == flight \subseteq settled

\* The catch block: every dispatch settles before the failure is rethrown.
Reject ==
    /\ pc = "drain" /\ AllSettled
    /\ pc' = "failed"
    /\ UNCHANGED <<groupVars, started, committed, poolVars, failure, aborted, signal, kind,
                   startMode, logVars>>

-----------------------------------------------------------------------------
Environment == Abort \/ \E i \in Calls : ChangeMode(i)

Scheduler == \/ BeginGroup \/ Prepared \/ CallStarted \/ Refill \/ StopOnFailure \/ CommitReady
             \/ Finalized \/ CallSettled \/ LeavePool \/ SkipRest \/ NextGroup \/ Return \/ Reject

Next == Environment \/ Scheduler \/ \E i \in Calls : Settle(i)

Spec == Init /\ [][Next]_vars

\* Continuations run, policy and tool bodies settle.
Fairness == WF_vars(Scheduler) /\ \A i \in Calls : WF_vars(Settle(i))

FairSpec == Spec /\ Fairness
-----------------------------------------------------------------------------
PCs == {"top", "prepare", "started", "commit", "finalize", "committed", "race", "exit", "leave",
        "drain", "done", "failed"}

TypeOK ==
    /\ pc \in PCs /\ base \in Nat /\ mode \in Modes
    /\ started \in 0 .. Requests /\ committed \in 0 .. Requests
    /\ settled \subseteq flight /\ flight \subseteq ran /\ ran \subseteq Calls
    /\ slot \in [Calls -> {"none", "post", "final"}]
    /\ failure \in BOOLEAN /\ aborted \in BOOLEAN /\ signal \in BOOLEAN
    /\ kind \in [Calls -> Modes] /\ startMode \in [Calls -> Modes \cup {"none"}]
    /\ calls \in Seq(Calls) /\ results \in Seq(Calls)

\* Calls and their results are recorded in model order, each once, whatever the
\* order in which bodies settle and wherever the batch is cut.
ModelOrder == calls = UpTo(started) /\ results = UpTo(committed)

\* A call the registry called exclusive when it started overlaps with no other body.
ExclusiveRunsAlone ==
    \A i, j \in Running : i # j => startMode[i] = "parallel"

PoolBounded == Cardinality(Running) <= MaxParallel

\* executeToolCalls settles only when no tool body of the batch is running.
SettlesQuiescent == ~Active => Running = {}

\* "unreachable: a non-aborted group commits every started call" (tool-calls.ts:244).
GroupCommitsStarted == pc = "exit" => committed = started

\* Once a dispatch or policy failed, no further body begins.
FailureStopsDispatch == [][failure => ran' = ran]_vars

\* What the owning step relies on: the batch, seen through its log.
Batch == INSTANCE ToolBatch
         WITH called <- Len(calls), answered <- Len(results),
              status <- IF pc = "done" THEN "returned"
                        ELSE IF pc = "failed" THEN "rejected" ELSE "running"
ImplementsBatch == Batch!Spec

\* The batch settles, and an aborted one does with every call answered.
BatchSettles == <>(pc = "failed" \/ (pc = "done" /\ Len(results) = Requests))
=============================================================================
