---------------------------- MODULE SessionWriter ----------------------------
(***************************************************************************)
(* The JSONL write handles of one session, over one artifact: the live     *)
(* write-behind buffer, the mutation chain, the kernel lock, torn-tail     *)
(* repair, close, process crashes and the resumption by another handle.    *)
(*                                                                         *)
(* disk is the sequence of events in complete frames; where an append left *)
(* a part of its frame at the end, in a crash or because its rollback      *)
(* failed, tail holds the events that part still yields. A frame appended  *)
(* behind such a part can no longer be read: its events are buried.        *)
(***************************************************************************)
EXTENDS Naturals, Sequences, SequencesExt, FiniteSets

CONSTANTS
    Handles, Procs,   \* write handles, used once each; processes
    NoHandle,
    MaxEvents,        \* bound on the length of a session's log
    MaxFaults,        \* bound on failing I/O operations
    RollbackFails     \* appendLines may fail and leave what it appended in the file

ASSUME WriterAssumption ==
    /\ NoHandle \notin Handles
    /\ MaxEvents \in Nat /\ MaxFaults \in Nat /\ RollbackFails \in BOOLEAN

VARIABLES
    proc,                       \* the process a handle belongs to
    disk, tail, torn, exists,   \* the artifact
    buried,                     \* events appended behind a part of a frame
    lock,                       \* holder of the kernel lock
    claim,                      \* writers: the handle a process routes events to
    stage,                      \* of a handle: see Stages
    log,                        \* the session behind a handle: its events
    buffered, timer, paused,    \* buffered, batchTimer armed, drainPaused
    chain, running, batch,      \* queued operations; the first one runs; its batch
    leased,                     \* lease is set
    cursor, materialized, tornTo, recovered,   \* StorageHandleState
    flusher, wait, failed,      \* session/flush caller; operations close awaits; drain failure
    faults,
    opened, left, target,       \* log length at open, when close left its loop, at flush
    promised, stray             \* events a flush promised; a write without the lock

artifact == <<disk, tail, torn, exists, buried>>
buffer   == <<buffered, timer, paused>>
queue    == <<chain, running, batch>>
state    == <<cursor, materialized, tornTo, recovered>>
history  == <<proc, opened, left, target, promised>>
vars == <<artifact, lock, claim, stage, log, buffer, queue, leased, state, flusher, wait, failed,
          faults, history, stray>>

Event  == [seq : 1 .. MaxEvents, by : Handles]
\* drain .. released are the awaits of close; last is its final await of the chain.
Stages == {"unused", "claimed", "locked", "open", "drain", "chain", "last", "release",
           "released", "closed", "dead"}
Closing == {"drain", "chain", "last", "release", "released"}
Alive(h) == stage[h] \notin {"unused", "dead"}
\* A session is published until its handle has closed.
Live(h) == stage[h] \in {"open"} \cup Closing

Init ==
    /\ proc \in [Handles -> Procs]
    /\ disk = << >> /\ tail = << >> /\ torn = FALSE /\ exists = FALSE
    /\ buried = {}
    /\ lock = NoHandle /\ claim = [p \in Procs |-> NoHandle]
    /\ stage = [h \in Handles |-> "unused"] /\ log = [h \in Handles |-> << >>]
    /\ buffered = [h \in Handles |-> << >>] /\ timer = [h \in Handles |-> FALSE]
    /\ paused = [h \in Handles |-> FALSE]
    /\ chain = [h \in Handles |-> << >>] /\ running = [h \in Handles |-> FALSE]
    /\ batch = [h \in Handles |-> << >>] /\ leased = [h \in Handles |-> FALSE]
    /\ cursor = [h \in Handles |-> 0] /\ materialized = [h \in Handles |-> FALSE]
    /\ tornTo = [h \in Handles |-> FALSE] /\ recovered = [h \in Handles |-> << >>]
    /\ flusher = [h \in Handles |-> "idle"] /\ wait = [h \in Handles |-> 0]
    /\ failed = [h \in Handles |-> FALSE] /\ faults = 0
    /\ opened = [h \in Handles |-> 0] /\ left = [h \in Handles |-> 0]
    /\ target = [h \in Handles |-> 0] /\ promised = {} /\ stray = FALSE

Fault == faults < MaxFaults /\ faults' = faults + 1

-----------------------------------------------------------------------------
(* create and open.                                                        *)

\* Session ids do not collide: one handle creates the session.
Create(h) ==
    /\ \A g \in Handles : stage[g] = "unused"
    /\ claim' = [claim EXCEPT ![proc[h]] = h]
    /\ stage' = [stage EXCEPT ![h] = "open"]
    /\ UNCHANGED <<artifact, lock, log, buffer, queue, leased, state, flusher, wait, failed, faults,
                   history, stray>>

Unclaimed(h) == claim[proc[h]] = NoHandle

Claim(h) ==
    /\ stage[h] = "unused" /\ exists /\ Unclaimed(h)
    /\ claim' = [claim EXCEPT ![proc[h]] = h]
    /\ stage' = [stage EXCEPT ![h] = "claimed"]
    /\ UNCHANGED <<artifact, lock, log, buffer, queue, leased, state, flusher, wait, failed, faults,
                   history, stray>>

\* Mutant: the lock is taken from a holder.
NeverContended == FALSE

Contended == lock # NoHandle

\* The kernel lock of an existing artifact; contention frees the claim.
LockForOpen(h) ==
    /\ stage[h] = "claimed"
    /\ IF ~Contended
       THEN /\ lock' = h /\ leased' = [leased EXCEPT ![h] = TRUE]
            /\ stage' = [stage EXCEPT ![h] = "locked"] /\ UNCHANGED claim
       ELSE /\ claim' = [claim EXCEPT ![proc[h]] = NoHandle]
            /\ stage' = [stage EXCEPT ![h] = "dead"] /\ UNCHANGED <<lock, leased>>
    /\ UNCHANGED <<artifact, log, buffer, queue, state, flusher, wait, failed, faults, history, stray>>

\* A log whose events are not contiguous is refused.
Contiguous(s) == \A i \in DOMAIN s : s[i].seq = i

\* Mutant: the events recovered from a torn frame are not kept for rewriting.
NothingRecovered == << >>

RecoveredTail == tail

\* The stored log, with what the torn frame still yields, is the session's log.
ReadForOpen(h) ==
    /\ stage[h] = "locked" /\ Contiguous(disk \o tail)
    /\ log' = [log EXCEPT ![h] = disk \o tail]
    /\ opened' = [opened EXCEPT ![h] = Len(disk \o tail)]
    /\ cursor' = [cursor EXCEPT ![h] = Len(disk \o tail)]
    /\ materialized' = [materialized EXCEPT ![h] = TRUE]
    /\ tornTo' = [tornTo EXCEPT ![h] = torn] /\ recovered' = [recovered EXCEPT ![h] = RecoveredTail]
    /\ stage' = [stage EXCEPT ![h] = "open"]
    /\ UNCHANGED <<artifact, lock, claim, buffer, queue, leased, flusher, wait, failed, faults, left,
                   target, promised, proc, stray>>

\* What follows a part of a frame is either taken for its end or refused as corrupt.
Readable == Contiguous(disk \o tail) /\ (torn => buried = {})

FailOpen(h) ==
    /\ stage[h] = "locked"
    /\ IF Readable THEN Fault ELSE UNCHANGED faults
    /\ lock' = NoHandle /\ leased' = [leased EXCEPT ![h] = FALSE]
    /\ claim' = [claim EXCEPT ![proc[h]] = NoHandle]
    /\ stage' = [stage EXCEPT ![h] = "dead"]
    /\ UNCHANGED <<artifact, log, buffer, queue, state, flusher, wait, failed, history, stray>>

-----------------------------------------------------------------------------
(* Live events, the batching timer and the callers of drainLive.           *)

\* Mutant: a waiting flush is trusted to take the event along.
ArmsUnlessFlushing(h) == ~timer[h] /\ ~paused[h] /\ flusher[h] = "idle"

Arms(h) == ~timer[h] /\ ~paused[h]

\* session/event: the event joins the buffer of the handle that claims the session.
Publish(h) ==
    /\ Live(h) /\ Len(log[h]) < MaxEvents
    /\ LET e == [seq |-> Len(log[h]) + 1, by |-> h]
       IN  /\ log' = [log EXCEPT ![h] = Append(@, e)]
           /\ buffered' = [buffered EXCEPT ![h] = Append(@, e)]
    /\ timer' = [timer EXCEPT ![h] = @ \/ Arms(h)]
    /\ UNCHANGED <<artifact, lock, claim, stage, paused, queue, leased, state, flusher, wait, failed,
                   faults, history, stray>>

Draining(h) == \E i \in DOMAIN chain[h] : chain[h][i] = "drain"

\* Mutant: an operation is queued even when nothing is buffered.
DrainLiveAnyway(h) ==
    IF Draining(h)
    THEN UNCHANGED <<timer, paused, chain>>
    ELSE /\ timer' = [timer EXCEPT ![h] = FALSE] /\ paused' = [paused EXCEPT ![h] = FALSE]
         /\ chain' = [chain EXCEPT ![h] = Append(@, "drain")]

\* drainLive joins a drain in flight; otherwise it starts one, if there is anything.
DrainLive(h) ==
    IF Draining(h)
    THEN UNCHANGED <<timer, paused, chain>>
    ELSE /\ timer' = [timer EXCEPT ![h] = FALSE] /\ paused' = [paused EXCEPT ![h] = FALSE]
         /\ chain' = IF buffered[h] = << >> THEN chain ELSE [chain EXCEPT ![h] = Append(@, "drain")]

\* A caller of drainLive need not wait.
Drained(h) == ~Draining(h) /\ buffered[h] = << >>

TimerFires(h) ==
    /\ Alive(h) /\ timer[h]
    /\ IF Draining(h)
       THEN timer' = [timer EXCEPT ![h] = FALSE] /\ UNCHANGED <<paused, chain>>
       ELSE DrainLive(h)
    /\ UNCHANGED <<artifact, lock, claim, stage, log, buffered, running, batch, leased, state, flusher,
                   wait, failed, faults, history, stray>>

\* session/flush: drainLive, then flush.
Flush(h) ==
    /\ Live(h) /\ flusher[h] = "idle"
    /\ target' = [target EXCEPT ![h] = Len(log[h])]
    /\ flusher' = [flusher EXCEPT ![h] = IF Drained(h) THEN "barrier" ELSE "drain"]
    /\ DrainLive(h)
    /\ UNCHANGED <<artifact, lock, claim, stage, log, buffered, running, batch, leased, state, wait,
                   failed, faults, opened, left, promised, proc, stray>>

\* A handle that is closing refuses the barrier.
FlushBarrier(h) ==
    /\ Alive(h) /\ flusher[h] = "barrier"
    /\ IF stage[h] = "open"
       THEN /\ flusher' = [flusher EXCEPT ![h] = "flush"]
            /\ chain' = [chain EXCEPT ![h] = Append(@, "flush")]
       ELSE flusher' = [flusher EXCEPT ![h] = "idle"] /\ UNCHANGED chain
    /\ UNCHANGED <<artifact, lock, claim, stage, log, buffer, running, batch, leased, state, wait,
                   failed, faults, history, stray>>

-----------------------------------------------------------------------------
(* The mutation chain.                                                     *)

\* close's continuation was registered on the chain before the next operation.
CloserFirst(h) == stage[h] \in {"chain", "last"} /\ wait[h] = 0

Pop(h, rest) ==
    /\ chain' = [chain EXCEPT ![h] = rest]
    /\ running' = [running EXCEPT ![h] = FALSE]

\* Mutant: close waits for operations queued after it.
WaitKept(h) == wait[h]

OneFewer(h) == IF wait[h] = 0 THEN 0 ELSE wait[h] - 1

Runnable(h, op) ==
    /\ Alive(h) /\ chain[h] # << >> /\ Head(chain[h]) = op
    /\ ~running[h] /\ ~CloserFirst(h)

StartDrain(h) ==
    /\ Runnable(h, "drain")
    /\ running' = [running EXCEPT ![h] = TRUE]
    /\ batch' = [batch EXCEPT ![h] = buffered[h]] /\ buffered' = [buffered EXCEPT ![h] = << >>]
    /\ UNCHANGED <<artifact, lock, claim, stage, log, timer, paused, chain, leased, state, flusher,
                   wait, failed, faults, history, stray>>

\* What a resolved flush promises: every event published to the handle before the call.
Promise(h) == promised \cup {log[h][i] : i \in opened[h] + 1 .. target[h]}

\* Appends are durable on resolution, so a materialized session has nothing to flush.
StartFlush(h) ==
    /\ Runnable(h, "flush")
    /\ IF stage[h] = "open" /\ ~materialized[h]
       THEN /\ running' = [running EXCEPT ![h] = TRUE]
            /\ UNCHANGED <<chain, flusher, wait, promised>>
       ELSE /\ Pop(h, Tail(chain[h])) /\ wait' = [wait EXCEPT ![h] = OneFewer(h)]
            /\ flusher' = [flusher EXCEPT ![h] = "idle"]
            /\ promised' = IF stage[h] = "open" THEN Promise(h) ELSE promised
    /\ UNCHANGED <<artifact, lock, claim, stage, log, buffer, batch, leased, state, failed, faults,
                   opened, left, target, proc, stray>>

\* ensureLease, before the first durable write of a created session.
EnsureLease(h) ==
    /\ Alive(h) /\ running[h] /\ ~leased[h] /\ ~Contended
    /\ lock' = h /\ leased' = [leased EXCEPT ![h] = TRUE]
    /\ UNCHANGED <<artifact, claim, stage, log, buffer, queue, state, flusher, wait, failed, faults,
                   history, stray>>

\* assertContiguous.
Continues(h) == batch[h][1].seq = cursor[h] + 1

Persisting(h) ==
    /\ Alive(h) /\ running[h] /\ leased[h]
    /\ Head(chain[h]) = "drain" /\ Continues(h)

\* A write by a handle that does not hold the kernel lock.
Strays(h) == stray' = (stray \/ lock # h)

\* Behind a part of a frame the bytes are lost to readers, who may lose what it yields too.
Buries(data) ==
    /\ torn
    /\ buried' = buried \cup Range(data)
    /\ \E k \in 0 .. Len(tail) : tail' = SubSeq(tail, 1, k)
    /\ UNCHANGED <<disk, torn>>

\* The bytes of an append reach the end of the file, all of them or a part.
AppendFrame(data) ==
    \/ Buries(data)
    \/ ~torn /\ disk' = disk \o data /\ UNCHANGED <<tail, torn, buried>>

AppendPart(data) ==
    \/ Buries(data)
    \/ /\ ~torn /\ torn' = TRUE
       /\ \E k \in 0 .. Len(data) : tail' = SubSeq(data, 1, k)
       /\ UNCHANGED <<disk, buried>>

TruncateTornTail(h) ==
    /\ Persisting(h) /\ tornTo[h]
    /\ tail' = << >> /\ torn' = FALSE /\ tornTo' = [tornTo EXCEPT ![h] = FALSE]
    /\ Strays(h)
    /\ UNCHANGED <<disk, exists, buried, lock, claim, stage, log, buffer, queue, leased, cursor,
                   materialized, recovered, flusher, wait, failed, faults, history>>

RewriteRecovered(h) ==
    /\ Persisting(h) /\ ~tornTo[h] /\ recovered[h] # << >>
    /\ AppendFrame(recovered[h]) /\ recovered' = [recovered EXCEPT ![h] = << >>]
    /\ Strays(h)
    /\ UNCHANGED <<exists, lock, claim, stage, log, buffer, queue, leased, cursor,
                   materialized, tornTo, flusher, wait, failed, faults, history>>

\* materialize refuses a log that already exists.
Writes(h) == Persisting(h) /\ ~tornTo[h] /\ recovered[h] = << >> /\ (materialized[h] \/ ~exists)

\* Mutant: the drain ends although events arrived while its batch was written.
DrainEnds(h) == TRUE

\* The drain loop goes on until the buffer stays empty.
Ends(h) == buffered[h] = << >>

WriteBatch(h) ==
    /\ Writes(h)
    /\ AppendFrame(batch[h]) /\ exists' = TRUE
    /\ batch' = [batch EXCEPT ![h] = << >>]
    /\ cursor' = [cursor EXCEPT ![h] = @ + Len(batch[h])]
    /\ materialized' = [materialized EXCEPT ![h] = TRUE]
    /\ Strays(h)
    /\ IF Ends(h)
       THEN /\ Pop(h, Tail(chain[h]))
            /\ flusher' = [flusher EXCEPT ![h] = IF @ = "drain" THEN "barrier" ELSE @]
            /\ stage' = [stage EXCEPT ![h] = IF @ = "drain" THEN "chain" ELSE @]
       ELSE /\ Pop(h, Append(Tail(chain[h]), "drain")) /\ UNCHANGED <<flusher, stage>>
    /\ wait' = [wait EXCEPT ![h] = IF stage[h] = "drain" THEN Len(chain'[h]) ELSE OneFewer(h)]
    /\ UNCHANGED <<lock, claim, log, buffer, leased, tornTo, recovered, failed, faults, history>>

\* flush of a session that was never written materializes its header.
WriteHeader(h) ==
    /\ Alive(h) /\ running[h] /\ leased[h] /\ Head(chain[h]) = "flush" /\ ~exists
    /\ exists' = TRUE /\ materialized' = [materialized EXCEPT ![h] = TRUE]
    /\ Pop(h, Tail(chain[h])) /\ wait' = [wait EXCEPT ![h] = OneFewer(h)]
    /\ flusher' = [flusher EXCEPT ![h] = "idle"] /\ promised' = Promise(h)
    /\ Strays(h)
    /\ UNCHANGED <<disk, tail, torn, buried, lock, claim, stage, log, buffer, batch, leased, cursor,
                   tornTo, recovered, failed, faults, opened, left, target, proc>>

\* Mutant: a failed batch goes behind the events that arrived meanwhile.
BatchBehind(h) == buffered[h] \o batch[h]

GivenBack(h) == batch[h] \o buffered[h]

\* The operation rejects: a drain gives its batch back and its callers fail.
Rejects(h) ==
    /\ Pop(h, Tail(chain[h]))
    /\ buffered' = [buffered EXCEPT ![h] = GivenBack(h)] /\ batch' = [batch EXCEPT ![h] = << >>]
    /\ IF Head(chain[h]) = "drain"
       THEN /\ paused' = [paused EXCEPT ![h] = TRUE]
            /\ flusher' = [flusher EXCEPT ![h] = IF @ = "drain" THEN "idle" ELSE @]
            /\ stage' = [stage EXCEPT ![h] = IF @ = "drain" THEN "last" ELSE @]
            /\ failed' = [failed EXCEPT ![h] = @ \/ stage[h] = "drain"]
            /\ wait' = [wait EXCEPT ![h] = IF stage[h] = "drain" THEN Len(chain'[h]) ELSE OneFewer(h)]
       ELSE /\ flusher' = [flusher EXCEPT ![h] = "idle"] /\ wait' = [wait EXCEPT ![h] = OneFewer(h)]
            /\ UNCHANGED <<paused, stage, failed>>
    /\ UNCHANGED <<lock, claim, log, timer, leased, state, history>>

\* Contention for the lock, a batch that does not continue the log, a log already there.
Refused(h) ==
    \/ ~leased[h] /\ Contended
    \/ leased[h] /\ Head(chain[h]) = "drain" /\ ~Continues(h)
    \/ leased[h] /\ ~materialized[h] /\ exists

Refuse(h) ==
    /\ Alive(h) /\ running[h] /\ Refused(h)
    /\ Rejects(h) /\ UNCHANGED <<artifact, faults, stray>>

\* What the next append of h holds.
Data(h) == IF recovered[h] = << >> THEN batch[h] ELSE recovered[h]

\* What an append that does not complete can leave: its whole frame, or a part of it. A new
\* log is published whole.
LeavesAppend(h) ==
    /\ Persisting(h) /\ ~tornTo[h] /\ Strays(h)
    /\ \/ (materialized[h] \/ ~exists) /\ AppendFrame(Data(h)) /\ exists' = TRUE
       \/ materialized[h] /\ AppendPart(Data(h)) /\ UNCHANGED exists

\* An I/O operation fails.  A failed append restores the size unless that fails too; a
\* truncation may fail after it took place, and a first write after the log was published.
IOFails(h) ==
    /\ Alive(h) /\ running[h] /\ ~Refused(h) /\ Fault
    /\ Rejects(h)
    /\ \/ UNCHANGED <<artifact, stray>>
       \/ /\ Persisting(h) /\ tornTo[h] /\ Strays(h)
          /\ tail' = << >> /\ torn' = FALSE /\ UNCHANGED <<disk, exists, buried>>
       \/ (materialized[h] => RollbackFails) /\ LeavesAppend(h)

-----------------------------------------------------------------------------
(* close, and the end of a process.                                        *)

Close(h) ==
    /\ stage[h] = "open"
    /\ stage' = [stage EXCEPT ![h] = IF Drained(h) THEN "chain" ELSE "drain"]
    /\ wait' = [wait EXCEPT ![h] = Len(chain[h])]
    /\ DrainLive(h)
    /\ UNCHANGED <<artifact, lock, claim, log, buffered, running, batch, leased, state, flusher,
                   failed, faults, history, stray>>

\* Mutant: close drains once.
LeavesLoopAnyway(h) == TRUE

LeavesLoop(h) == buffered[h] = << >>

\* The operations close waited for are over; it drains again unless nothing was buffered.
ChainSettled(h) ==
    /\ stage[h] = "chain" /\ wait[h] = 0
    /\ IF LeavesLoop(h)
       THEN /\ stage' = [stage EXCEPT ![h] = "last"] /\ wait' = [wait EXCEPT ![h] = Len(chain[h])]
            /\ left' = [left EXCEPT ![h] = Len(log[h])] /\ UNCHANGED <<timer, paused, chain>>
       ELSE /\ stage' = [stage EXCEPT ![h] = "drain"] /\ UNCHANGED <<wait, left>>
            /\ DrainLive(h)
    /\ UNCHANGED <<artifact, lock, claim, log, buffered, running, batch, leased, state, flusher,
                   failed, faults, opened, target, promised, proc, stray>>

LastSettled(h) ==
    /\ stage[h] = "last" /\ wait[h] = 0
    /\ stage' = [stage EXCEPT ![h] = IF leased[h] THEN "release" ELSE "released"]
    /\ UNCHANGED <<artifact, lock, claim, log, buffer, queue, leased, state, flusher, wait, failed,
                   faults, history, stray>>

\* lease.release.
Release(h) ==
    /\ stage[h] = "release"
    /\ stage' = [stage EXCEPT ![h] = "released"] /\ lock' = IF lock = h THEN NoHandle ELSE lock
    /\ UNCHANGED <<artifact, claim, log, buffer, queue, leased, state, flusher, wait, failed, faults,
                   history, stray>>

\* releaseHandle, and close settles.
Released(h) ==
    /\ stage[h] = "released"
    /\ stage' = [stage EXCEPT ![h] = "closed"]
    /\ claim' = [claim EXCEPT ![proc[h]] = NoHandle]
    /\ UNCHANGED <<artifact, lock, log, buffer, queue, leased, state, flusher, wait, failed, faults,
                   history, stray>>

Crash(p) ==
    /\ \E h \in Handles : proc[h] = p /\ Alive(h)
    /\ \/ \E h \in Handles : proc[h] = p /\ LeavesAppend(h)
       \/ UNCHANGED <<artifact, stray>>
    /\ LET Lost(f, v) == [h \in Handles |-> IF proc[h] = p THEN v ELSE f[h]]
       IN  /\ stage' = Lost(stage, "dead")
           /\ buffered' = Lost(buffered, << >>) /\ batch' = Lost(batch, << >>)
           /\ timer' = Lost(timer, FALSE) /\ paused' = Lost(paused, FALSE)
           /\ chain' = Lost(chain, << >>) /\ running' = Lost(running, FALSE)
           /\ flusher' = Lost(flusher, "idle") /\ wait' = Lost(wait, 0)
           /\ leased' = Lost(leased, FALSE) /\ cursor' = Lost(cursor, 0)
           /\ materialized' = Lost(materialized, FALSE)
           /\ tornTo' = Lost(tornTo, FALSE) /\ recovered' = Lost(recovered, << >>)
           /\ failed' = Lost(failed, FALSE) /\ left' = Lost(left, 0) /\ target' = Lost(target, 0)
    /\ log' = [h \in Handles |-> IF proc[h] = p THEN SubSeq(log[h], 1, opened[h]) ELSE log[h]]
    /\ lock' = IF lock # NoHandle /\ proc[lock] = p THEN NoHandle ELSE lock
    /\ claim' = [claim EXCEPT ![p] = NoHandle]
    /\ UNCHANGED <<faults, opened, promised, proc>>

-----------------------------------------------------------------------------
Opening(h) == Create(h) \/ Claim(h) \/ LockForOpen(h) \/ ReadForOpen(h) \/ FailOpen(h)
Callers(h) == Publish(h) \/ Flush(h) \/ Close(h)
Chained(h) == \/ StartDrain(h) \/ StartFlush(h) \/ EnsureLease(h) \/ TruncateTornTail(h)
              \/ RewriteRecovered(h) \/ WriteBatch(h) \/ WriteHeader(h) \/ Refuse(h) \/ IOFails(h)
Closer(h) == ChainSettled(h) \/ LastSettled(h) \/ Release(h) \/ Released(h)

Next == \/ \E h \in Handles : \/ Opening(h) \/ Callers(h) \/ FlushBarrier(h) \/ TimerFires(h)
                              \/ Chained(h) \/ Closer(h)
        \/ \E p \in Procs : Crash(p)

Spec == Init /\ [][Next]_vars

\* Timers fire, I/O settles and continuations run.
Fairness == \A h \in Handles : /\ WF_vars(TimerFires(h)) /\ WF_vars(FlushBarrier(h))
                               /\ WF_vars(Chained(h)) /\ WF_vars(Closer(h))

FairSpec == Spec /\ Fairness
-----------------------------------------------------------------------------
Log == Seq(Event)

TypeOK ==
    /\ disk \in Log /\ tail \in Log /\ torn \in BOOLEAN /\ exists \in BOOLEAN
    /\ buried \subseteq Event
    /\ lock \in Handles \cup {NoHandle} /\ claim \in [Procs -> Handles \cup {NoHandle}]
    /\ stage \in [Handles -> Stages]
    /\ log \in [Handles -> Log] /\ buffered \in [Handles -> Log] /\ batch \in [Handles -> Log]
    /\ recovered \in [Handles -> Log]
    /\ chain \in [Handles -> Seq({"drain", "flush"})]
    /\ flusher \in [Handles -> {"idle", "drain", "barrier", "flush"}]
    /\ \A h \in Handles : running[h] => chain[h] # << >>
    /\ \A h \in Handles : running[h] /\ Head(chain[h]) = "drain" <=> batch[h] # << >>
    /\ {timer, paused, running, leased, materialized, tornTo, failed} \subseteq [Handles -> BOOLEAN]
    /\ {cursor, wait, opened, left, target} \subseteq [Handles -> Nat]
    /\ proc \in [Handles -> Procs]
    /\ faults \in 0 .. MaxFaults /\ promised \subseteq Event /\ stray \in BOOLEAN

\* Events are contiguous from seq 0 and none is written twice, across failed
\* writes, retries, crashes and resumptions.
LogContiguous == ~stray => Contiguous(disk \o tail)

\* What a resolved flush promised survives every later crash and repair.
PromiseKept == ~stray => \A e \in promised : e.seq \in DOMAIN disk /\ disk[e.seq] = e

\* A live handle has written, is writing or still buffers every published event, in order.
NothingLost ==
    \A h \in Handles : Live(h) /\ ~failed[h] =>
       /\ SubSeq(log[h], cursor[h] + 1, Len(log[h])) = batch[h] \o buffered[h]
       /\ lock = h /\ materialized[h] /\ ~stray => log[h] = disk \o recovered[h] \o batch[h] \o buffered[h]

\* Once a handle has closed, what was published to it until close left its loop is in
\* the log for good, and so is what came before.
CloseDrains ==
    \A h \in Handles : stage[h] = "closed" /\ ~failed[h] /\ ~stray /\ left[h] > opened[h] =>
       IsPrefix(SubSeq(log[h], 1, left[h]), disk)

\* Until it releases it, the handle that opened the session holds the lock, and its process
\* routes the session's events to it.
OwnerHolds ==
    \A h \in Handles :
       /\ leased[h] /\ stage[h] \in {"open", "drain", "chain", "last"} => lock = h
       /\ Live(h) => claim[proc[h]] = h

\* Buffered events of a live process are written, or their failure is on record.
BufferSettles ==
    \A h \in Handles : buffered[h] # << >> ~> (buffered[h] = << >> \/ paused[h] \/ ~Alive(h))

\* close terminates, although it drains again while events arrive, or its drain fails.
CloseTerminates == \A h \in Handles : stage[h] \in Closing ~> stage[h] \in {"closed", "dead"}

-----------------------------------------------------------------------------
(* What the documents say and the code does not do.                        *)

\* "a write handle is its session's single mutator" (storage.ts:63): no handle writes
\* without the kernel lock.
SingleMutator == ~stray

\* "only the incomplete fragment of a torn physical tail ... is discarded": the log a
\* handle opened is in the artifact, or a live handle still has to rewrite its end.
OnlyFragmentDiscarded ==
    ~stray => \A h \in Handles :
       LET found == SubSeq(log[h], 1, opened[h])
       IN  \/ IsPrefix(found, disk \o tail)
           \/ \E g \in Handles : Alive(g) /\ IsPrefix(found, disk \o recovered[g])
=============================================================================
