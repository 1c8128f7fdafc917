------------------------------ MODULE Schedule ------------------------------
(***************************************************************************)
(* The schedule service: Host-wide reminders in a durable table, changed   *)
(* by management calls and by the deliveries of one Host timer, all in one *)
(* FIFO; the sessions that receive the reminders; the wall clock and its   *)
(* adjustments; failing restorations, flushes and writes; crashes.         *)
(*                                                                         *)
(* Time is counted in ticks. Of the recurring rules only the series they   *)
(* resolve to is kept, one of a fixed interval.                            *)
(***************************************************************************)
EXTENDS Integers, Sequences, FiniteSets

CONSTANTS
    Tasks,       \* identities the service may issue (a random UUID each)
    Sessions,
    SessionOf,   \* the session a reminder is bound to
    Intervals,   \* rules a caller may ask for: 0 rings once
    MaxNow,      \* bound on the wall clock
    MaxDelay,    \* MAX_TIMER_DELAY_MS
    Records,     \* deliveryHistoryRecords
    Budget       \* bound on calls, faults, adjustments of the clock and restarts, together

ASSUME ScheduleAssumption ==
    /\ SessionOf \in [Tasks -> Sessions]
    /\ Intervals \subseteq Nat
    /\ MaxNow \in Nat \ {0} /\ MaxDelay \in Nat \ {0}
    /\ Records \in Nat \ {0}
    /\ Budget \in Nat

VARIABLES
    now,         \* Date.now()
    rows,        \* the tasks table: durable, then in memory
    log,         \* per session: the messages appended, each a set of <<reminder, occurrence>>
    stored,      \* per session: how many of them are durable
    host,        \* up, unloading, stopping, closed, down
    chain,       \* the FIFO; its head is at work
    slot,        \* what the management call at the head still has to write
    drive,       \* the locals of drive()
    run,         \* runtime.running: idle, looping, or settled before its finally
    requested,   \* runtime.requested
    timer,       \* ticks until the Host timer fires
    excused,     \* reminders an occurrence of which may be told again
    shifted,     \* the wall clock was adjusted
    spent        \* of the Budget

queue == <<chain, slot>>
world == <<shifted, spent>>
runtime == <<run, requested, timer>>
sessions == <<log, stored>>
vars == <<now, rows, sessions, host, queue, drive, runtime, excused, world>>

Unwritten == [status |-> "unwritten"]
Deleted == [status |-> "deleted"]
NoRow == {Unwritten, Deleted}

\* The reminder of a row, without what records its deliveries.
Reminder(row) ==
    IF row \in NoRow THEN row
    ELSE [status |-> row.status, every |-> row.every, target |-> row.target]

book == [t \in Tasks |-> Reminder(rows[t])]
told == UNION {UNION {log[s][m] : m \in 1 .. stored[s]} : s \in Sessions}

\* What the management call at work has still to write.
edit ==
    [of |-> slot.todo,
     as |-> IF slot.todo = {} THEN Unwritten ELSE Reminder(slot.row)]

Book == INSTANCE ReminderBook

Active(t) == rows[t].status = "active"
Due(t) == Active(t) /\ rows[t].target <= now

Off == -1
Max(i, j) == IF i >= j THEN i ELSE j
Min(i, j) == IF i <= j THEN i ELSE j

\* What a row holds of a task; an update leaves the receipts alone.
Row(every, target) ==
    [status |-> "active", every |-> every, target |-> target, receipts |-> <<>>]

DriveJob == [op |-> "drive"]
Nothing == [t \in {} |-> 0]
Idle ==
    [step |-> "none", seen |-> Nothing, left |-> {}, batch |-> {}, occurs |-> Nothing,
     failed |-> {}]
Free == [op |-> "none", todo |-> {}, row |-> Unwritten, changed |-> FALSE]

\* A Host that starts over the rows of earlier lives: its first drive is requested.
Init ==
    /\ now = 1
    /\ rows \in [Tasks -> {Unwritten} \cup {Row(e, n) : e \in Intervals, n \in {1}}]
    /\ log = [s \in Sessions |-> <<>>] /\ stored = [s \in Sessions |-> 0]
    /\ host = "up" /\ chain = <<DriveJob>> /\ slot = Free /\ drive = Idle
    /\ run = "looping" /\ requested = FALSE /\ timer = Off
    /\ excused = {}
    /\ shifted = FALSE /\ spent = 0

Spend == spent < Budget /\ spent' = spent + 1

\* Restorations, flushes and writes fail now and then.
Fault == Spend /\ UNCHANGED shifted

-----------------------------------------------------------------------------
\* The runtime.

\* withoutInitiator runs the loop up to its first slot, or throws: agents are closing.
Launch(jobs) ==
    /\ requested' = FALSE
    /\ timer' = Off
    /\ IF host = "up"
       THEN run' = "looping" /\ chain' = Append(jobs, DriveJob)
       ELSE run' = "idle" /\ chain' = jobs

\* Mutant: a request made while a run is under way is dropped.
RequestUnlessRunning(jobs) ==
    IF run = "idle" /\ host \in {"up", "unloading"} THEN Launch(jobs)
    ELSE chain' = jobs /\ UNCHANGED runtime

\* requestDrive(), as the FIFO becomes jobs.
RequestDrive(jobs) ==
    IF host \notin {"up", "unloading"}
    THEN chain' = jobs /\ UNCHANGED runtime
    ELSE IF run = "idle" THEN Launch(jobs)
    ELSE /\ requested' = TRUE
         /\ timer' = Off
         /\ chain' = jobs
         /\ UNCHANGED run

\* The drive the loop waits for is over.
Driven == run = "looping" /\ ~ \E i \in DOMAIN chain : chain[i] = DriveJob

\* No continuation of the loop is ready: timers fire, and time passes, in between.
Quiet == run # "settled" /\ ~ Driven

\* The loop after a drive, and again while one was requested meanwhile.
Loop ==
    /\ Driven
    /\ IF requested /\ host # "stopping"
       THEN requested' = FALSE /\ chain' = Append(chain, DriveJob) /\ UNCHANGED run
       ELSE run' = "settled" /\ UNCHANGED <<chain, requested>>
    /\ UNCHANGED <<now, rows, sessions, host, slot, drive, timer, excused, world>>

\* Mutant: the finally does not look for a request made after the loop's last check.
SettleOnly ==
    /\ run = "settled"
    /\ run' = "idle"
    /\ UNCHANGED <<now, rows, sessions, host, slot, drive, chain, requested, timer, excused, world>>

\* The finally of the run: a request made after the last check of the loop starts it again.
Settle ==
    /\ run = "settled"
    /\ IF requested /\ host \in {"up", "unloading"}
       THEN Launch(chain)
       ELSE run' = "idle" /\ UNCHANGED <<chain, requested, timer>>
    /\ UNCHANGED <<now, rows, sessions, host, slot, drive, excused, world>>

TimerFires ==
    /\ timer = 0 /\ Quiet
    /\ RequestDrive(chain)
    /\ UNCHANGED <<now, rows, sessions, host, slot, drive, excused, world>>

-----------------------------------------------------------------------------
\* One drive, in its slot of the FIFO.

\* The FIFO when the job at its head is over.
Rest == SubSeq(chain, 2, Len(chain))

\* Mutant: a drive does not wait for the management calls before it.
DriveAnyTurn == \E i \in DOMAIN chain : chain[i] = DriveJob

DriveTurn == chain # <<>> /\ Head(chain) = DriveJob

At(step) == DriveTurn /\ drive.step = step

Waits(table, failed) ==
    {Max(0, table[t].target - now) : t \in {t \in Tasks \ failed : table[t].status = "active"}}

\* Mutant: the delay is not clamped.
ArmedUnclamped(table, failed) ==
    LET waits == Waits(table, failed)
    IN  IF waits = {} THEN {Off} ELSE {d \in waits : \A w \in waits : d <= w}

\* The nearest target still to be served arms the one timer, clamped to what it can hold.
Armed(table, failed) ==
    LET waits == Waits(table, failed)
    IN  IF waits = {} THEN {Off}
        ELSE {d \in waits \cup {MaxDelay} : d <= MaxDelay /\ \A w \in waits : d <= w}

\* A due reminder with, if it recurs, the other due recurring ones of its session.
Batch(t, left, seen) ==
    {t} \cup {u \in left : /\ seen[t].every > 0 /\ seen[u].every > 0
                           /\ SessionOf[u] = SessionOf[t]}

\* The loop over what was due: on to the next group and the restoration of its session; with
\* none left the timer is armed over the table; a service that stops leaves all to its teardown.
Onward(table, seen, left, failed) ==
    IF left = {} \/ host = "stopping"
    THEN /\ timer' \in IF host = "stopping" THEN {Off} ELSE Armed(table, failed)
         /\ drive' = [Idle EXCEPT !.failed = failed]
         /\ chain' = Rest
    ELSE /\ \E t \in left :
                LET batch == Batch(t, left, seen)
                IN  drive' = [step |-> "resolve", seen |-> seen, left |-> left \ batch,
                              batch |-> batch, occurs |-> Nothing, failed |-> failed]
         /\ timer' = Off
         /\ UNCHANGED chain

\* It looks at the rows once.
Scan ==
    /\ At("none")
    /\ Onward(rows, rows, {t \in Tasks : Due(t)}, {})
    /\ UNCHANGED <<now, rows, sessions, host, slot, run, requested, excused, world>>

Recurs(t) == drive.seen[t].every > 0
Receiver == SessionOf[CHOOSE t \in drive.batch : TRUE]

\* resolveEveryOccurrence: the latest occurrence of the series that is due.
Occurrence(t) ==
    LET r == drive.seen[t]
    IN  IF Recurs(t) THEN r.target + ((now - r.target) \div r.every) * r.every ELSE r.target

\* The session is back. Reminders that became future meanwhile keep their timer; one
\* message tells the others.
Restored ==
    /\ At("resolve")
    /\ LET admitted == {t \in drive.batch : drive.seen[t].target <= now}
       IN  IF host = "stopping" \/ admitted = {}
           THEN Onward(rows, drive.seen, drive.left, drive.failed) /\ UNCHANGED log
           ELSE /\ drive' = [drive EXCEPT !.step = "flush", !.batch = admitted,
                                          !.occurs = [t \in admitted |-> Occurrence(t)]]
                /\ log' = [log EXCEPT ![Receiver] =
                            Append(@, {<<t, Occurrence(t)>> : t \in admitted})]
                /\ UNCHANGED <<chain, timer>>
    /\ UNCHANGED <<now, rows, stored, host, slot, run, requested, excused, world>>

\* Mutant: a flush that nothing acknowledged counts.
FlushUnchecked ==
    /\ At("flush")
    /\ stored' \in {stored, [stored EXCEPT ![Receiver] = Len(log[Receiver])]}
    /\ drive' = [drive EXCEPT !.step = "commit"]
    /\ UNCHANGED <<now, rows, log, host, queue, runtime, excused, world>>

Flushed ==
    /\ At("flush")
    /\ stored' = [stored EXCEPT ![Receiver] = Len(log[Receiver])]
    /\ drive' = [drive EXCEPT !.step = "commit"]
    /\ UNCHANGED <<now, rows, log, host, queue, runtime, excused, world>>

\* appendDelivery: the cap prunes the oldest receipts.
Appended(receipts, receipt) ==
    LET all == Append(receipts, receipt)
    IN  SubSeq(all, Max(1, Len(all) - Records + 1), Len(all))

\* Mutant: the next target follows the old one, not the occurrence that was told.
DeliveredOne(t) ==
    LET r == drive.seen[t]
    IN  [r EXCEPT
            !.status = IF Recurs(t) THEN @ ELSE "inactive",
            !.target = IF Recurs(t) THEN @ + r.every ELSE @,
            !.receipts =
                Appended(@, [occ |-> drive.occurs[t], msg |-> Len(log[Receiver])])]

\* The row after an acknowledged delivery, from the row the drive saw.
Delivered(t) ==
    LET r == drive.seen[t]
        occ == drive.occurs[t]
    IN  [r EXCEPT
            !.status = IF Recurs(t) THEN @ ELSE "inactive",
            !.target = IF Recurs(t) THEN occ + r.every ELSE @,
            !.receipts = Appended(@, [occ |-> occ, msg |-> Len(log[Receiver])])]

\* Members are written one by one.
Commit(t) ==
    /\ At("commit")
    /\ t \in drive.batch
    /\ rows' = [rows EXCEPT ![t] = Delivered(t)]
    /\ IF drive.batch = {t}
       THEN Onward(rows', drive.seen, drive.left, drive.failed)
       ELSE drive' = [drive EXCEPT !.batch = @ \ {t}] /\ UNCHANGED <<chain, timer>>
    /\ UNCHANGED <<now, sessions, host, slot, run, requested, excused, world>>

\* A restoration, flush or write that fails gives up what is left of the batch: what is
\* still due waits for another request of a drive.
GiveUp ==
    /\ \E step \in {"resolve", "flush", "commit"} : At(step)
    /\ Fault
    /\ Onward(rows, drive.seen, drive.left,
              drive.failed \cup {t \in drive.batch : drive.seen[t].target <= now})
    /\ excused' = IF drive.step = "resolve" THEN excused ELSE excused \cup drive.batch
    /\ UNCHANGED <<now, rows, sessions, host, slot, run, requested>>

-----------------------------------------------------------------------------
\* Management calls: each waits for its slot in the FIFO.

Ask(job) ==
    /\ host \in {"up", "unloading"}
    /\ Spend
    /\ chain' = Append(chain, job)
    /\ UNCHANGED <<now, rows, sessions, host, slot, drive, runtime, excused, shifted>>

\* The target of a rule asked for at this moment; one that rings once names its instant.
Targets(every) == IF every > 0 THEN {now + every} ELSE now + 1 .. MaxNow

\* The record of a create is built before it joins the FIFO.
AskCreate(t) ==
    /\ rows[t] = Unwritten
    /\ ~ \E i \in DOMAIN chain : chain[i].op = "create" /\ chain[i].task = t
    /\ \E e \in Intervals : \E n \in Targets(e) :
          Ask([op |-> "create", task |-> t, row |-> Row(e, n)])

\* An update carries the record its caller observed; its instant is checked in the slot.
AskUpdate(t) ==
    /\ Active(t)
    /\ \E e \in Intervals : \E n \in Targets(e) :
          Ask([op |-> "update", task |-> t, every |-> e, target |-> n,
               expected |-> <<rows[t].every, rows[t].target>>])

AskDelete(t) == rows[t] \notin NoRow /\ Ask([op |-> "delete", task |-> t])
AskClear == Ask([op |-> "clear"])
AskStop(s) == Ask([op |-> "stop", session |-> s])

CallTurn == chain # <<>> /\ Head(chain) # DriveJob /\ slot = Free

\* A call that cannot or need not write answers and leaves the FIFO to the next.
Answer ==
    /\ chain' = Rest
    /\ UNCHANGED <<now, rows, sessions, host, slot, drive, runtime, excused, world>>

\* A cancelled signal, or a session that belongs to a delegated child.
Refuse == CallTurn /\ Head(chain).op \in {"create", "update", "delete"} /\ Answer

\* What the call at the head writes: row, over the rows of todo.
Takes(todo, row) ==
    IF todo = {} THEN Answer
    ELSE /\ slot' = [op |-> Head(chain).op, todo |-> todo, row |-> row, changed |-> FALSE]
         /\ UNCHANGED <<now, rows, sessions, host, chain, drive, runtime, excused, world>>

Create == LET job == Head(chain) IN
    CallTurn /\ job.op = "create" /\ Takes({job.task}, job.row)

\* The record must be the one the caller observed; an equivalent rule changes nothing,
\* another one is anchored at this moment, and its instant must be to come.
Update == LET job == Head(chain) IN
    /\ CallTurn /\ job.op = "update"
    /\ LET r == rows[job.task]
           target == IF job.every > 0 THEN now + job.every ELSE job.target
           same == job.every = r.every /\ (job.every = 0 => job.target = r.target)
           accepted == /\ r.status = "active"
                       /\ <<r.every, r.target>> = job.expected
                       /\ ~ same
                       /\ target > now
       IN  Takes(IF accepted THEN {job.task} ELSE {},
                 IF accepted THEN [r EXCEPT !.every = job.every, !.target = target] ELSE r)

Delete == LET job == Head(chain) IN
    /\ CallTurn /\ job.op = "delete"
    /\ Takes({job.task} \ {t \in Tasks : rows[t] \in NoRow}, Deleted)

\* deleteInactive: the ended rows of every session.
Clear ==
    /\ CallTurn /\ Head(chain).op = "clear"
    /\ Takes({t \in Tasks : rows[t].status = "inactive"}, Deleted)

\* An archive that stops its session's reminders.
StopSession ==
    /\ CallTurn /\ Head(chain).op = "stop"
    /\ Takes({t \in Tasks : Active(t) /\ SessionOf[t] = Head(chain).session}, Deleted)

\* Each row is written on its own, also after one that failed; the last ends the call. A
\* timing that changed is looked at by a drive.
Wrote(t, changed) ==
    LET todo == slot.todo \ {t}
    IN  IF todo # {}
        THEN /\ slot' = [slot EXCEPT !.todo = todo, !.changed = changed]
             /\ UNCHANGED <<chain, runtime>>
        ELSE /\ slot' = Free
             /\ IF changed /\ slot.op # "clear"
                THEN RequestDrive(Rest)
                ELSE chain' = Rest /\ UNCHANGED runtime

\* The occurrences of a reminder its session was sent.
Sent(t) ==
    LET messages == log[SessionOf[t]]
    IN  {p[2] : p \in {q \in UNION {messages[m] : m \in DOMAIN messages} : q[1] = t}}

\* A reminder set back to an instant it rang at may ring there again.
SetsBack(t) == slot.row.status = "active" /\ \E o \in Sent(t) : slot.row.target <= o

Write(t) ==
    /\ t \in slot.todo
    /\ rows' = [rows EXCEPT ![t] = slot.row]
    /\ Wrote(t, TRUE)
    /\ excused' = IF SetsBack(t) THEN excused \cup {t} ELSE excused
    /\ UNCHANGED <<now, sessions, host, drive, world>>

WriteFails(t) ==
    /\ t \in slot.todo
    /\ Fault
    /\ Wrote(t, slot.changed)
    /\ UNCHANGED <<now, rows, sessions, host, drive, excused>>

-----------------------------------------------------------------------------
\* The Host, its sessions and its clock.

\* An ancestor that unloads closes initiator admission before the service stops.
Unload ==
    /\ host = "up"
    /\ host' = "unloading"
    /\ UNCHANGED <<now, rows, sessions, queue, drive, runtime, excused, world>>

\* The cleanup: no new call, no new timer.
Stop ==
    /\ host \in {"up", "unloading"}
    /\ host' = "stopping"
    /\ timer' = Off
    /\ UNCHANGED <<now, rows, sessions, queue, drive, run, requested, excused, world>>

\* It waits for the run and for the FIFO before it closes the table.
Close ==
    /\ host = "stopping"
    /\ run # "looping" /\ chain = <<>>
    /\ host' = "closed"
    /\ UNCHANGED <<now, rows, sessions, queue, drive, runtime, excused, world>>

\* A session may have stored on its own account what no flush acknowledged; the rest of
\* its messages is lost.
Keeps ==
    /\ \E n \in [Sessions -> UNION {stored[s] .. Len(log[s]) : s \in Sessions}] :
          /\ \A s \in Sessions : n[s] \in stored[s] .. Len(log[s])
          /\ stored' = n
    /\ log' = [s \in Sessions |-> SubSeq(log[s], 1, stored'[s])]

\* What was told and not recorded may be told again.
Crash ==
    /\ host \notin {"closed", "down"}
    /\ spent < Budget
    /\ host' = "down"
    /\ excused' = IF drive.step \in {"flush", "commit"} THEN excused \cup drive.batch ELSE excused
    /\ Keeps
    /\ chain' = <<>> /\ slot' = Free /\ drive' = Idle
    /\ run' = "idle" /\ requested' = FALSE /\ timer' = Off
    /\ UNCHANGED <<now, rows, world>>

Restart ==
    /\ host \in {"closed", "down"}
    /\ Spend
    /\ host' = "up"
    /\ Keeps
    /\ chain' = <<DriveJob>> /\ slot' = Free /\ drive' = Idle
    /\ run' = "looping" /\ requested' = FALSE /\ timer' = Off
    /\ UNCHANGED <<now, rows, excused, shifted>>

Tick ==
    /\ Quiet
    /\ now' = Min(now + 1, MaxNow)
    /\ timer' = IF timer > 0 THEN timer - 1 ELSE timer
    /\ <<now, timer>>' # <<now, timer>>
    /\ UNCHANGED <<rows, sessions, host, queue, drive, run, requested, excused, world>>

\* The wall clock is set forward or back; timers count elapsed time.
Shift ==
    /\ Spend /\ shifted' = TRUE
    /\ now' \in {now - 1, now + 1} \cap (0 .. MaxNow)
    /\ UNCHANGED <<rows, sessions, host, queue, drive, runtime, excused>>

-----------------------------------------------------------------------------
Calls ==
    \/ \E t \in Tasks : AskCreate(t) \/ AskUpdate(t) \/ AskDelete(t)
    \/ AskClear
    \/ \E s \in Sessions : AskStop(s)

Slots ==
    \/ Refuse \/ Create \/ Update \/ Delete \/ Clear \/ StopSession
    \/ \E t \in Tasks : Write(t) \/ WriteFails(t)

Drives ==
    \/ Scan \/ Restored \/ Flushed \/ GiveUp
    \/ \E t \in Tasks : Commit(t)

Environment == Unload \/ Stop \/ Crash \/ Restart \/ Shift

Next == Calls \/ Slots \/ Drives \/ Loop \/ Settle \/ TimerFires \/ Close \/ Tick \/ Environment

Spec == Init /\ [][Next]_vars

\* Restorations, flushes and writes settle, the event loop goes round and time passes.
Fairness ==
    /\ WF_vars(Slots) /\ WF_vars(Drives)
    /\ WF_vars(Loop) /\ WF_vars(Settle) /\ WF_vars(TimerFires) /\ WF_vars(Close)
    /\ WF_vars(Tick)

FairSpec == Spec /\ Fairness

-----------------------------------------------------------------------------
\* Every variable keeps its shape, and there is one timer within what it can hold.
TypeOK ==
    /\ now \in 0 .. MaxNow
    /\ \A t \in Tasks : rows[t] \in NoRow \/
          /\ rows[t].status \in {"active", "inactive"}
          /\ rows[t].every \in Nat /\ rows[t].target \in Int
          /\ Len(rows[t].receipts) <= Records
    /\ \A s \in Sessions : stored[s] \in 0 .. Len(log[s])
    /\ host \in {"up", "unloading", "stopping", "closed", "down"}
    /\ drive.step \in {"none", "resolve", "flush", "commit"}
    /\ drive.left \subseteq Tasks /\ drive.batch \subseteq Tasks /\ drive.failed \subseteq Tasks
    /\ slot.todo \subseteq Tasks
    /\ run \in {"idle", "looping", "settled"} /\ requested \in BOOLEAN
    /\ timer \in {Off} \cup 0 .. MaxDelay
    /\ excused \subseteq Tasks

\* A receipt is written only after Session durability (runtime.ts:124-131): whatever crashes,
\* each saved delivery of a reminder names a durable message of its session that holds the
\* very occurrence.
ReceiptsAreDurable ==
    \A t \in Tasks : rows[t] \notin NoRow =>
        \A i \in DOMAIN rows[t].receipts :
            LET r == rows[t].receipts[i]
            IN  /\ r.msg \in 1 .. stored[SessionOf[t]]
                /\ <<t, r.occ>> \in log[SessionOf[t]][r.msg]

\* While the Host is up and no run of the runtime is under way, the timer is set for every
\* active reminder that the last drive did not give up, and no later than its target as long
\* as nobody adjusted the wall clock (runtime.ts:44-70, 154-164).
TimerCovers ==
    host = "up" /\ run = "idle" =>
        \A t \in Tasks : Active(t) /\ t \notin drive.failed =>
            /\ timer # Off
            /\ ~ shifted => timer <= Max(0, rows[t].target - now)

\* At least once, and more only where it is documented: a session is told an occurrence of a
\* reminder again, or an older one, only after a flush or a write of its delivery failed or
\* was cut by a crash, or after an update set the reminder back to an instant it rang at.
RepeatsAreExcused ==
    \A s \in Sessions : \A i, j \in DOMAIN log[s] : i < j =>
        \A p \in log[s][i], q \in log[s][j] : p[1] = q[1] /\ p[2] >= q[2] => p[1] \in excused

\* A delivery never overwrites an update or a deletion, nor falls between one's check and its
\* writes, and it moves a target only past what its session durably holds; whatever else
\* changes a reminder is the call that was accepted for it: the service implements the book.
KeepsBook == Book!Spec

\* A reminder that is due is delivered, changed or removed, unless the drive it got gave it up
\* or the Host goes away.
DueIsServed ==
    \A t \in Tasks :
        host = "up" /\ Due(t) ~> ~Due(t) \/ t \in drive.failed \/ host # "up"
=============================================================================
