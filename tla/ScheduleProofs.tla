--------------------------- MODULE ScheduleProofs ---------------------------
(***************************************************************************)
(* Proofs about the schedule service: the shapes of its state, receipts    *)
(* that name durable messages, a timer that covers what is to be served,   *)
(* and the book of reminders it implements.                                *)
(***************************************************************************)
EXTENDS Schedule, TLAPS

-----------------------------------------------------------------------------
(* The inductive invariant.                                                *)

Receipt == [occ : Int, msg : Int]
RowSet == [status : {"active", "inactive"}, every : Nat, target : Int, receipts : Seq(Receipt)]
Entry == NoRow \cup {r \in RowSet : Len(r.receipts) <= Records}

\* The record a create brings.
NewRow == {r \in RowSet : r.status = "active" /\ r.receipts = <<>>}

Creates == [op : {"create"}, task : Tasks, row : NewRow]
Updates == [op : {"update"}, task : Tasks, every : Nat, target : Int, expected : Nat \X Int]
Deletes == [op : {"delete"}, task : Tasks]
Stops == [op : {"stop"}, session : Sessions]
Jobs == {DriveJob, [op |-> "clear"]} \cup Creates \cup Updates \cup Deletes \cup Stops

Messages == SUBSET (Tasks \X Int)
Occasions == UNION {[S -> Int] : S \in SUBSET Tasks}
Ops == {"none", "create", "update", "delete", "clear", "stop"}
Slot == [op : Ops, todo : SUBSET Tasks, row : Entry, changed : BOOLEAN]
Drive ==
    [step : {"none", "resolve", "flush", "commit"}, seen : [Tasks -> Entry] \cup {Nothing},
     left : SUBSET Tasks, batch : SUBSET Tasks, occurs : Occasions, failed : SUBSET Tasks]

Types ==
    /\ now \in 0 .. MaxNow
    /\ rows \in [Tasks -> Entry]
    /\ log \in [Sessions -> Seq(Messages)]
    /\ stored \in [Sessions -> Nat] /\ \A s \in Sessions : stored[s] <= Len(log[s])
    /\ host \in {"up", "unloading", "stopping", "closed", "down"}
    /\ chain \in Seq(Jobs) /\ slot \in Slot /\ drive \in Drive
    /\ run \in {"idle", "looping", "settled"} /\ requested \in BOOLEAN
    /\ timer \in {Off} \cup 0 .. MaxDelay
    /\ excused \subseteq Tasks /\ shifted \in BOOLEAN

\* A drive at work has the FIFO to itself: what it read is what the table holds.
Reading ==
    drive.step # "none" =>
        /\ chain # <<>> /\ Head(chain) = DriveJob
        /\ drive.seen \in [Tasks -> Entry]
        /\ drive.batch # {} /\ drive.batch \cap drive.left = {}
        /\ \A t \in drive.left \cup drive.batch : drive.seen[t] = rows[t] /\ Active(t)
        /\ \A t, u \in drive.batch : SessionOf[t] = SessionOf[u]

\* occ belongs to the series of r, not before its target.
Rings(r, occ) ==
    /\ occ \in Int
    /\ r.every > 0 => \E k \in 0 .. occ - r.target : occ = r.target + k * r.every
    /\ r.every = 0 => occ = r.target

\* The last message of the session tells every member of the batch.
Told(t) ==
    LET messages == log[SessionOf[t]]
    IN  /\ Rings(drive.seen[t], drive.occurs[t])
        /\ Len(messages) > 0
        /\ <<t, drive.occurs[t]>> \in messages[Len(messages)]
        /\ drive.step = "commit" => stored[SessionOf[t]] = Len(messages)

Telling == drive.step \in {"flush", "commit"} => \A t \in drive.batch : Told(t)

\* What a management call is about to write to t.
Creating(t) ==
    /\ slot.row \in NewRow /\ rows[t] = Unwritten
    /\ Head(chain).op = "create" /\ Head(chain).task = t
Updating(t) ==
    /\ slot.row \in RowSet /\ slot.row.status = "active"
    /\ Active(t) /\ slot.row.receipts = rows[t].receipts

\* Nothing but the call at the head writes the rows it is to write; several only to
\* remove them.
Writing ==
    slot.todo # {} =>
        /\ chain # <<>> /\ Head(chain) # DriveJob
        /\ \/ slot.row = Deleted /\ \A t \in slot.todo : rows[t] \notin NoRow
           \/ /\ slot.op # "clear"
              /\ \E t \in Tasks : slot.todo = {t} /\ (Creating(t) \/ Updating(t))

\* Reminders to be created have no row, and each is created once.
Pending ==
    \A i \in DOMAIN chain : chain[i].op = "create" =>
        /\ rows[chain[i].task] = Unwritten
        /\ \A j \in DOMAIN chain :
              chain[j].op = "create" /\ chain[j].task = chain[i].task => i = j

DriveQueued == \E i \in DOMAIN chain : chain[i] = DriveJob

\* Only a loop has a drive in the FIFO.
LoopOnly == DriveQueued => run = "looping"

\* The timer covers what was not given up, as TimerCovers says of an idle runtime.
Covered ==
    \A t \in Tasks : Active(t) /\ t \notin drive.failed =>
        /\ timer # Off
        /\ ~shifted => timer <= Max(0, rows[t].target - now)

\* It does so whenever no drive is under way or due.
Cover == host = "up" /\ (run = "idle" \/ (~requested /\ ~DriveQueued)) => Covered

Inv ==
    /\ Types /\ Reading /\ Telling /\ Writing /\ Pending /\ LoopOnly /\ Cover
    /\ ReceiptsAreDurable

-----------------------------------------------------------------------------
(* Facts about the operators.                                              *)

LEMMA ScheduleConstants ==
    /\ SessionOf \in [Tasks -> Sessions]
    /\ Intervals \subseteq Nat /\ MaxNow \in Nat /\ MaxNow >= 1
    /\ MaxDelay \in Nat /\ MaxDelay >= 1 /\ Records \in Nat /\ Records >= 1
BY ScheduleAssumption

\* A row is one of a reminder, or says why there is none.
LEMMA RowKinds ==
    /\ \A r \in RowSet : r \notin NoRow /\ r.status \notin {"unwritten", "deleted"}
    /\ Unwritten # Deleted /\ Unwritten.status = "unwritten" /\ Deleted.status = "deleted"
    /\ \A r \in Entry : r \notin NoRow => r \in RowSet /\ Len(r.receipts) <= Records
BY DEF RowSet, NoRow, Unwritten, Deleted, Entry

\* A row with a status of a reminder is one.
LEMMA ActiveRow ==
    ASSUME NEW r \in Entry, r.status \in {"active", "inactive"}
    PROVE  /\ r \in RowSet /\ r \notin NoRow /\ Len(r.receipts) <= Records
           /\ r.every \in Nat /\ r.target \in Int /\ r.receipts \in Seq(Receipt)
<1>1. r \notin NoRow
  BY DEF NoRow, Unwritten, Deleted
<1>2. r \in RowSet /\ Len(r.receipts) <= Records
  BY <1>1 DEF Entry
<1> QED BY <1>1, <1>2 DEF RowSet

\* The kinds of jobs exclude one another.
LEMMA JobKinds ==
    /\ \A j \in Jobs : j.op = "create" => j \in Creates
    /\ \A j \in Jobs : j.op = "update" => j \in Updates
    /\ \A j \in Jobs : j.op = "delete" => j \in Deletes
    /\ \A j \in Jobs : j.op = "stop" => j \in Stops
    /\ \A j \in Jobs : j.op = "drive" => j = DriveJob
    /\ DriveJob \in Jobs /\ DriveJob.op = "drive"
BY DEF Jobs, Creates, Updates, Deletes, Stops, DriveJob

LEMMA TheRest ==
    ASSUME chain \in Seq(Jobs), chain # <<>>
    PROVE  /\ Rest \in Seq(Jobs) /\ Len(Rest) = Len(chain) - 1
           /\ \A i \in DOMAIN Rest : i + 1 \in DOMAIN chain /\ Rest[i] = chain[i + 1]
           /\ Head(chain) = chain[1] /\ 1 \in DOMAIN chain /\ chain[1] \in Jobs
<1>1. Len(chain) \in Nat \ {0} /\ DOMAIN chain = 1 .. Len(chain)
  OBVIOUS
<1>2. \A i \in 1 .. Len(chain) : chain[i] \in Jobs
  OBVIOUS
<1>3. /\ Rest \in Seq(Jobs) /\ Len(Rest) = Len(chain) - 1
      /\ \A i \in DOMAIN Rest : Rest[i] = chain[i + 1]
  BY <1>1 DEF Rest
<1>4. Head(chain) = chain[1]
  BY <1>1
<1> QED BY <1>1, <1>2, <1>3, <1>4

\* What Armed sets covers the table.
LEMMA ArmedCovers ==
    ASSUME now \in Int, NEW table \in [Tasks -> Entry], NEW failed \in SUBSET Tasks,
           NEW d \in Armed(table, failed)
    PROVE  /\ d \in {Off} \cup 0 .. MaxDelay
           /\ \A t \in Tasks \ failed : table[t].status = "active" =>
                  d # Off /\ d <= Max(0, table[t].target - now)
<1> DEFINE W == Waits(table, failed)
<1> USE ScheduleConstants
<1>1. \A w \in W : w \in Nat
  <2> SUFFICES ASSUME NEW t \in Tasks \ failed, table[t].status = "active"
               PROVE  Max(0, table[t].target - now) \in Nat
    BY DEF Waits
  <2>1. table[t] \in RowSet
    BY RowKinds DEF NoRow
  <2>2. table[t].target \in Int
    BY <2>1 DEF RowSet
  <2> QED BY <2>2 DEF Max
<1>2. \A t \in Tasks \ failed : table[t].status = "active" => Max(0, table[t].target - now) \in W
  BY DEF Waits
<1> HIDE DEF W
<1>3. CASE W = {}
  BY <1>2, <1>3 DEF Armed, W
<1>4. CASE W # {}
  <2>1. d \in W \cup {MaxDelay} /\ d <= MaxDelay /\ \A w \in W : d <= w
    BY <1>4 DEF Armed, W
  <2> QED BY <2>1, <1>1, <1>2 DEF Off
<1> QED BY <1>3, <1>4

-----------------------------------------------------------------------------
(* Initial states.                                                         *)

LEMMA InitInv == Init => Inv
<1> SUFFICES ASSUME Init PROVE Inv
  OBVIOUS
<1> USE ScheduleConstants DEF Init
<1>1. \A t \in Tasks : rows[t] \in Entry /\ (rows[t] \notin NoRow => rows[t].receipts = <<>>)
  <2> SUFFICES ASSUME NEW t \in Tasks
               PROVE  rows[t] \in Entry /\ (rows[t] \notin NoRow => rows[t].receipts = <<>>)
    OBVIOUS
  <2>1. CASE rows[t] = Unwritten
    BY <2>1 DEF Entry, NoRow
  <2>2. CASE \E e \in Intervals : rows[t] = Row(e, 1)
    <3>1. rows[t] \in RowSet /\ rows[t].receipts = <<>> /\ Len(rows[t].receipts) = 0
      BY <2>2 DEF Row, RowSet
    <3> QED BY <3>1 DEF Entry
  <2> QED BY <2>1, <2>2
<1>2. Types
  <2>1. rows \in [Tasks -> Entry]
    BY <1>1
  <2>2. log \in [Sessions -> Seq(Messages)] /\ stored \in [Sessions -> Nat]
        /\ \A s \in Sessions : stored[s] <= Len(log[s])
    OBVIOUS
  <2>3. chain \in Seq(Jobs)
    BY JobKinds
  <2>4. slot \in Slot
    BY DEF Slot, Ops, Free, Entry, NoRow
  <2>5. Nothing \in Occasions
    <3>1. Nothing \in [{} -> Int]
      BY DEF Nothing
    <3> QED BY <3>1 DEF Occasions
  <2>6. drive \in Drive
    <3>1. Idle \in Drive
      BY ONLY <2>5 DEF Drive, Idle
    <3>2. drive = Idle
      OBVIOUS
    <3> QED BY ONLY <3>1, <3>2
  <2>7. /\ now \in 0 .. MaxNow /\ timer \in {Off} \cup 0 .. MaxDelay
        /\ host \in {"up", "unloading", "stopping", "closed", "down"}
        /\ run \in {"idle", "looping", "settled"} /\ requested \in BOOLEAN
        /\ excused \subseteq Tasks /\ shifted \in BOOLEAN
    <3>1. now \in 0 .. MaxNow
      OBVIOUS
    <3>2. excused \subseteq Tasks /\ timer \in {Off} \cup 0 .. MaxDelay
      OBVIOUS
    <3>3. /\ host \in {"up", "unloading", "stopping", "closed", "down"}
          /\ run \in {"idle", "looping", "settled"} /\ requested \in BOOLEAN
          /\ shifted \in BOOLEAN
      OBVIOUS
    <3> QED BY ONLY <3>1, <3>2, <3>3
  <2> QED BY ONLY <2>1, <2>2, <2>3, <2>4, <2>6, <2>7 DEF Types
<1>3. Reading /\ Telling /\ Writing
  BY DEF Reading, Telling, Writing, Idle, Free
<1>4. Pending /\ LoopOnly /\ DriveQueued
  BY JobKinds DEF Pending, LoopOnly, DriveQueued
<1>5. Cover
  BY <1>4 DEF Cover
<1>6. ReceiptsAreDurable
  BY <1>1 DEF ReceiptsAreDurable
<1> QED BY <1>2, <1>3, <1>4, <1>5, <1>6 DEF Inv

-----------------------------------------------------------------------------
(* Steps that leave the table, the sessions and the work at the head of    *)
(* the FIFO alone.                                                         *)

\* The job at the head stays there.
LEMMA AppendFacts ==
    ASSUME NEW S, NEW s \in Seq(S), NEW e \in S, NEW r \in {s, Append(s, e)}
    PROVE  /\ r \in Seq(S)
           /\ s # <<>> => r # <<>> /\ Head(r) = Head(s)
           /\ \A i \in DOMAIN r : (i \in DOMAIN s /\ r[i] = s[i]) \/ (i = Len(s) + 1 /\ r[i] = e)
           /\ \A i \in DOMAIN s : i \in DOMAIN r /\ r[i] = s[i]
<1>1. CASE r = s
  BY <1>1
<1>2. CASE r = Append(s, e)
  BY <1>2
<1> QED BY <1>1, <1>2

LEMMA HeadStays ==
    ASSUME Types, NEW j \in Jobs, chain' \in {chain, Append(chain, j)}
    PROVE  /\ chain' \in Seq(Jobs)
           /\ chain # <<>> => chain' # <<>> /\ Head(chain') = Head(chain)
           /\ \A i \in DOMAIN chain' : \/ i \in DOMAIN chain /\ chain'[i] = chain[i]
                                       \/ i = Len(chain) + 1 /\ chain'[i] = j
           /\ \A i \in DOMAIN chain : i \in DOMAIN chain' /\ chain'[i] = chain[i]
<1> DEFINE s == chain
           r == chain'
<1>1. s \in Seq(Jobs) /\ r \in {s, Append(s, j)}
  BY DEF Types
<1> HIDE DEF s, r
<1>2. /\ r \in Seq(Jobs)
      /\ s # <<>> => r # <<>> /\ Head(r) = Head(s)
      /\ \A i \in DOMAIN r : (i \in DOMAIN s /\ r[i] = s[i]) \/ (i = Len(s) + 1 /\ r[i] = j)
      /\ \A i \in DOMAIN s : i \in DOMAIN r /\ r[i] = s[i]
  BY <1>1, AppendFacts
<1> QED BY <1>2 DEF s, r

LEMMA WorkStays ==
    ASSUME Inv, UNCHANGED <<rows, sessions, slot, drive>>, NEW j \in Jobs,
           chain' \in {chain, Append(chain, j)},
           j.op = "create" =>
              /\ rows[j.task] = Unwritten
              /\ \A i \in DOMAIN chain : ~(chain[i].op = "create" /\ chain[i].task = j.task)
    PROVE  Reading' /\ Telling' /\ Writing' /\ Pending' /\ ReceiptsAreDurable'
<1> USE DEF Inv, sessions
<1>0. /\ chain # <<>> => chain' # <<>> /\ Head(chain') = Head(chain)
      /\ \A i \in DOMAIN chain' : \/ i \in DOMAIN chain /\ chain'[i] = chain[i]
                                  \/ i = Len(chain) + 1 /\ chain'[i] = j
  BY HeadStays
<1>1. Reading'
  BY <1>0 DEF Reading, Active
<1>2. Telling'
  BY DEF Telling, Told
<1>3. Writing'
  BY <1>0 DEF Writing, Creating, Updating, Active
<1>4. Pending'
  BY <1>0 DEF Pending
<1>5. ReceiptsAreDurable'
  BY DEF ReceiptsAreDurable
<1> QED BY <1>1, <1>2, <1>3, <1>4, <1>5

\* A loop that starts is covered by the drive it queues.
LEMMA LaunchCovers ==
    ASSUME Types, LoopOnly, run # "looping", NEW jobs \in Seq(Jobs), Launch(jobs),
           \A i \in DOMAIN jobs : jobs[i] # DriveJob, UNCHANGED host
    PROVE  /\ LoopOnly' /\ Cover' /\ chain' \in {jobs, Append(jobs, DriveJob)}
           /\ run' \in {"idle", "looping"} /\ requested' = FALSE /\ timer' = Off
<1>1. CASE host = "up"
  <2>1. chain' = Append(jobs, DriveJob) /\ run' = "looping"
    BY <1>1 DEF Launch
  <2>2. Len(jobs) + 1 \in DOMAIN chain' /\ chain'[Len(jobs) + 1] = DriveJob
    BY <2>1, JobKinds
  <2> QED BY <1>1, <2>1, <2>2 DEF Launch, LoopOnly, Cover, DriveQueued
<1>2. CASE host # "up"
  BY <1>2 DEF Launch, LoopOnly, Cover, DriveQueued
<1> QED BY <1>1, <1>2

\* A request of a drive covers, whatever changed in the table.
LEMMA RequestCovers ==
    ASSUME Types, LoopOnly, NEW jobs \in Seq(Jobs), RequestDrive(jobs), UNCHANGED host,
           (\E i \in DOMAIN jobs : jobs[i] = DriveJob) => DriveQueued
    PROVE  /\ LoopOnly' /\ Cover' /\ chain' \in {jobs, Append(jobs, DriveJob)}
           /\ run' \in {"idle", "looping", "settled"} /\ requested' \in BOOLEAN
           /\ timer' \in {Off} \cup 0 .. MaxDelay
<1> USE DEF Types
<1>1. CASE host \notin {"up", "unloading"}
  BY <1>1 DEF RequestDrive, runtime, LoopOnly, DriveQueued, Cover
<1>2. CASE host \in {"up", "unloading"} /\ run = "idle"
  <2>1. Launch(jobs)
    BY <1>2 DEF RequestDrive
  <2>2. \A i \in DOMAIN jobs : jobs[i] # DriveJob
    BY <1>2 DEF LoopOnly
  <2> QED BY <1>2, <2>1, <2>2, LaunchCovers
<1>3. CASE host \in {"up", "unloading"} /\ run # "idle"
  <2>1. requested' = TRUE /\ timer' = Off /\ chain' = jobs /\ run' = run
    BY <1>3 DEF RequestDrive
  <2> QED BY <1>3, <2>1 DEF LoopOnly, DriveQueued, Cover
<1> QED BY <1>1, <1>2, <1>3

\* A step of the runtime, the Host or the clock.
LEMMA QuietKeeps ==
    ASSUME Inv, UNCHANGED <<rows, sessions, slot, drive>>,
           chain' \in {chain, Append(chain, DriveJob)},
           now' \in 0 .. MaxNow, LoopOnly', Cover',
           host' \in {"up", "unloading", "stopping", "closed", "down"},
           run' \in {"idle", "looping", "settled"}, requested' \in BOOLEAN,
           timer' \in {Off} \cup 0 .. MaxDelay, excused' = excused, shifted' \in BOOLEAN
    PROVE  Inv'
<1>1. Types
  BY DEF Inv
<1>2. chain' \in Seq(Jobs)
  BY <1>1, HeadStays, JobKinds
<1>3. Types'
  BY <1>1, <1>2 DEF Types, sessions
<1>4. Reading' /\ Telling' /\ Writing' /\ Pending' /\ ReceiptsAreDurable'
  BY WorkStays, JobKinds
<1> QED BY <1>3, <1>4 DEF Inv

LEMMA LoopKeeps == Inv /\ Loop => Inv'
<1> SUFFICES ASSUME Inv, Loop PROVE Inv'
  OBVIOUS
<1> USE DEF Loop, Inv, Types
<1>1. UNCHANGED <<rows, sessions, slot, drive, now, host, timer, excused, shifted>>
  BY DEF world
<1>2. run = "looping" /\ ~DriveQueued
  BY DEF Driven, DriveQueued
<1>3. CASE requested /\ host # "stopping"
  <2>1. /\ chain' = Append(chain, DriveJob) /\ run' = run /\ requested' = FALSE
    BY <1>3
  <2>2. Len(chain) + 1 \in DOMAIN chain' /\ chain'[Len(chain) + 1] = DriveJob
    BY <2>1, JobKinds
  <2>3. LoopOnly' /\ Cover'
    BY <1>2, <2>1, <2>2 DEF LoopOnly, Cover, DriveQueued
  <2> QED BY <1>1, <2>1, <2>3, QuietKeeps
<1>4. CASE ~(requested /\ host # "stopping")
  <2>1. chain' = chain /\ run' = "settled" /\ requested' = requested
    BY <1>4
  <2>2. LoopOnly' /\ Cover'
    BY <1>1, <1>2, <1>4, <2>1 DEF LoopOnly, Cover, DriveQueued, Covered, Active
  <2> QED BY <1>1, <2>1, <2>2, QuietKeeps
<1> QED BY <1>3, <1>4

LEMMA SettleKeeps == Inv /\ Settle => Inv'
<1> SUFFICES ASSUME Inv, Settle PROVE Inv'
  OBVIOUS
<1> USE DEF Settle, Inv, Types
<1>1. UNCHANGED <<rows, sessions, slot, drive, now, host, excused, shifted>>
  BY DEF world
<1>2. run = "settled" /\ ~DriveQueued
  BY DEF LoopOnly
<1>3. CASE requested /\ host \in {"up", "unloading"}
  <2>1. Launch(chain) /\ \A i \in DOMAIN chain : chain[i] # DriveJob
    BY <1>2, <1>3 DEF DriveQueued
  <2>2. /\ LoopOnly' /\ Cover' /\ chain' \in {chain, Append(chain, DriveJob)}
        /\ run' \in {"idle", "looping"} /\ requested' = FALSE /\ timer' = Off
    BY <1>1, <1>2, <2>1, LaunchCovers
  <2> QED BY <1>1, <2>2, QuietKeeps
<1>4. CASE ~(requested /\ host \in {"up", "unloading"})
  <2>1. chain' = chain /\ run' = "idle" /\ requested' = requested /\ timer' = timer
    BY <1>4
  <2>2. LoopOnly' /\ Cover'
    BY <1>1, <1>2, <1>4, <2>1 DEF LoopOnly, Cover, DriveQueued, Covered, Active
  <2> QED BY <1>1, <2>1, <2>2, QuietKeeps
<1> QED BY <1>3, <1>4

LEMMA TimerKeeps == Inv /\ TimerFires => Inv'
<1> SUFFICES ASSUME Inv, TimerFires PROVE Inv'
  OBVIOUS
<1>1. /\ UNCHANGED <<rows, sessions, slot, drive, now, host, excused, shifted>>
      /\ RequestDrive(chain)
  BY DEF TimerFires, world
<1>2. Types /\ LoopOnly /\ chain \in Seq(Jobs)
  BY DEF Inv, Types
<1>3. /\ LoopOnly' /\ Cover' /\ chain' \in {chain, Append(chain, DriveJob)}
      /\ run' \in {"idle", "looping", "settled"} /\ requested' \in BOOLEAN
      /\ timer' \in {Off} \cup 0 .. MaxDelay
  BY <1>1, <1>2, RequestCovers DEF DriveQueued
<1> QED BY <1>1, <1>2, <1>3, QuietKeeps DEF Types

LEMMA HostKeeps == Inv /\ (Unload \/ Stop \/ Close) => Inv'
<1> SUFFICES ASSUME Inv, Unload \/ Stop \/ Close PROVE Inv'
  OBVIOUS
<1>1. /\ UNCHANGED <<rows, sessions, slot, drive, now, chain, run, requested, excused, shifted>>
      /\ host' \in {"unloading", "stopping", "closed"} /\ timer' \in {timer, Off}
  BY DEF Unload, Stop, Close, queue, runtime, world
<1>2. LoopOnly' /\ Cover'
  BY <1>1 DEF Inv, LoopOnly, Cover, DriveQueued
<1> QED BY <1>1, <1>2, QuietKeeps DEF Inv, Types

LEMMA ClockKeeps == Inv /\ (Tick \/ Shift) => Inv'
<1> SUFFICES ASSUME Inv, Tick \/ Shift PROVE Inv'
  OBVIOUS
<1> USE ScheduleConstants DEF Inv
<1>1. UNCHANGED <<rows, sessions, slot, drive, host, chain, run, requested, excused>>
  BY DEF Tick, Shift, queue, runtime, world
<1>2. Types
  OBVIOUS
<1>3. LoopOnly'
  BY <1>1 DEF LoopOnly, DriveQueued
<1>4. CASE Tick
  <2>1. /\ now' = Min(now + 1, MaxNow) /\ shifted' = shifted
        /\ timer' = IF timer > 0 THEN timer - 1 ELSE timer
    BY <1>4 DEF Tick, world
  <2>2. /\ now' \in 0 .. MaxNow /\ now' \in {now, now + 1}
        /\ timer' \in {Off} \cup 0 .. MaxDelay /\ shifted' \in BOOLEAN
    BY <1>2, <2>1 DEF Types, Min, Off
  <2>3. ASSUME Covered PROVE Covered'
    <3> SUFFICES ASSUME NEW t \in Tasks, Active(t)', t \notin drive'.failed
                 PROVE  timer' # Off /\ (~shifted' => timer' <= Max(0, rows'[t].target - now'))
      BY DEF Covered
    <3>1. timer # Off /\ (~shifted => timer <= Max(0, rows[t].target - now))
      BY <1>1, <2>3 DEF Covered, Active
    <3>2. rows[t].target \in Int
      <4>1. rows[t] \in Entry /\ rows[t].status = "active"
        BY <1>1, <1>2 DEF Types, Active
      <4> QED BY <4>1, ActiveRow
    <3> QED BY <1>1, <1>2, <2>1, <2>2, <3>1, <3>2 DEF Types, Max, Off
  <2>4. Cover'
    BY <1>1, <2>3 DEF Cover, DriveQueued
  <2> QED BY <1>1, <1>2, <1>3, <2>2, <2>4, QuietKeeps DEF Types
<1>5. CASE Shift
  <2>1. now' \in 0 .. MaxNow /\ timer' = timer /\ shifted' = TRUE
    BY <1>5 DEF Shift, runtime
  <2>2. Cover'
    BY <1>1, <2>1 DEF Cover, Covered, Active, DriveQueued
  <2> QED BY <1>1, <1>2, <1>3, <2>1, <2>2, QuietKeeps DEF Types
<1> QED BY <1>4, <1>5

\* A call that asks for its slot.
LEMMA AskKeeps ==
    ASSUME Inv, NEW j \in Jobs, j # DriveJob, Ask(j),
           j.op = "create" =>
              /\ rows[j.task] = Unwritten
              /\ \A i \in DOMAIN chain : ~(chain[i].op = "create" /\ chain[i].task = j.task)
    PROVE  Inv'
<1>1. /\ UNCHANGED <<rows, sessions, slot, drive, now, host, runtime, excused, shifted>>
      /\ chain' = Append(chain, j)
  BY DEF Ask
<1>2. Types /\ chain \in Seq(Jobs)
  BY DEF Inv, Types
<1>8. chain' \in {chain, Append(chain, j)}
  BY DEF Ask
<1>3. chain' \in Seq(Jobs)
  BY <1>1, <1>2
<1>4. Types'
  BY <1>1, <1>2, <1>3 DEF Types, sessions, runtime
<1>5. Reading' /\ Telling' /\ Writing' /\ Pending' /\ ReceiptsAreDurable'
  BY <1>1, WorkStays
<1>6. DriveQueued' <=> DriveQueued
  <2>1. /\ \A i \in DOMAIN chain' : \/ i \in DOMAIN chain /\ chain'[i] = chain[i]
                                    \/ i = Len(chain) + 1 /\ chain'[i] = j
        /\ \A i \in DOMAIN chain : i \in DOMAIN chain' /\ chain'[i] = chain[i]
    BY ONLY <1>2, <1>8, j \in Jobs, HeadStays
  <2> QED BY <2>1 DEF DriveQueued
<1>7. LoopOnly' /\ Cover'
  BY <1>1, <1>6 DEF Inv, LoopOnly, Cover, Covered, Active, runtime
<1> QED BY <1>4, <1>5, <1>7 DEF Inv

LEMMA CallsKeep == Inv /\ Calls => Inv'
<1> SUFFICES ASSUME Inv, Calls PROVE Inv'
  OBVIOUS
<1>0. Types
  BY DEF Inv
<1>1. ASSUME NEW t \in Tasks, AskCreate(t) PROVE Inv'
  <2>1. PICK e \in Intervals : \E n \in Targets(e) :
              Ask([op |-> "create", task |-> t, row |-> Row(e, n)])
    BY <1>1 DEF AskCreate
  <2>2. PICK n \in Targets(e) : Ask([op |-> "create", task |-> t, row |-> Row(e, n)])
    BY <2>1
  <2>3. e \in Nat /\ n \in Int
    BY <1>0, ScheduleConstants DEF Targets, Types
  <2>4. Row(e, n) \in NewRow
    BY <2>3 DEF Row, NewRow, RowSet
  <2> DEFINE j == [op |-> "create", task |-> t, row |-> Row(e, n)]
  <2>5. j \in Jobs /\ j # DriveJob /\ j.task = t
    BY <2>4 DEF Jobs, Creates, DriveJob
  <2>6. /\ rows[t] = Unwritten
        /\ \A i \in DOMAIN chain : ~(chain[i].op = "create" /\ chain[i].task = t)
    BY <1>1 DEF AskCreate
  <2> QED BY <2>2, <2>5, <2>6, AskKeeps
<1>2. ASSUME NEW t \in Tasks, AskUpdate(t) PROVE Inv'
  <2>1. PICK e \in Intervals : \E n \in Targets(e) :
              Ask([op |-> "update", task |-> t, every |-> e, target |-> n,
                   expected |-> <<rows[t].every, rows[t].target>>])
    BY <1>2 DEF AskUpdate
  <2>2. PICK n \in Targets(e) :
              Ask([op |-> "update", task |-> t, every |-> e, target |-> n,
                   expected |-> <<rows[t].every, rows[t].target>>])
    BY <2>1
  <2>3. e \in Nat /\ n \in Int
    BY <1>0, ScheduleConstants DEF Targets, Types
  <2>4. rows[t].every \in Nat /\ rows[t].target \in Int
    <3>1. rows[t] \in Entry /\ rows[t].status = "active"
      BY <1>0, <1>2 DEF Types, AskUpdate, Active
    <3> QED BY <3>1, ActiveRow
  <2> DEFINE j == [op |-> "update", task |-> t, every |-> e, target |-> n,
                   expected |-> <<rows[t].every, rows[t].target>>]
  <2>5. j \in Updates /\ j.op = "update"
    BY <2>3, <2>4 DEF Updates
  <2>6. j \in Jobs /\ j # DriveJob /\ j.op # "create"
    BY <2>5, JobKinds DEF Jobs
  <2> HIDE DEF j
  <2> QED BY <2>2, <2>6, AskKeeps DEF j
<1>3. ASSUME NEW t \in Tasks, AskDelete(t) PROVE Inv'
  <2> DEFINE j == [op |-> "delete", task |-> t]
  <2>1. j \in Jobs /\ j # DriveJob /\ j.op # "create"
    BY DEF Jobs, Deletes, DriveJob
  <2>2. Ask(j)
    BY <1>3 DEF AskDelete
  <2> HIDE DEF j
  <2> QED BY <2>1, <2>2, AskKeeps
<1>4. CASE AskClear
  <2> DEFINE j == [op |-> "clear"]
  <2>1. j \in Jobs /\ j # DriveJob /\ j.op # "create"
    BY DEF Jobs, DriveJob
  <2>2. Ask(j)
    BY <1>4 DEF AskClear
  <2> HIDE DEF j
  <2> QED BY <2>1, <2>2, AskKeeps
<1>5. ASSUME NEW s \in Sessions, AskStop(s) PROVE Inv'
  <2> DEFINE j == [op |-> "stop", session |-> s]
  <2>1. j \in Jobs /\ j # DriveJob /\ j.op # "create"
    BY DEF Jobs, Stops, DriveJob
  <2>2. Ask(j)
    BY <1>5 DEF AskStop
  <2> HIDE DEF j
  <2> QED BY <2>1, <2>2, AskKeeps
<1> QED BY <1>1, <1>2, <1>3, <1>4, <1>5 DEF Calls

-----------------------------------------------------------------------------
(* Management calls, in their slots.                                       *)

Calling == chain # <<>> /\ Head(chain) # DriveJob

LEMMA CallsName ==
    /\ \A j \in Jobs : j # DriveJob => j.op \in Ops
    /\ \A j \in Jobs : j.op \in {"create", "update", "delete"} => j.task \in Tasks
BY JobKinds DEF Jobs, Creates, Updates, Deletes, Stops, DriveJob, Ops

\* No drive is at work while a call is.
LEMMA NoDrive ==
    ASSUME Reading, Calling PROVE drive.step = "none"
BY DEF Reading, Calling

\* When the job at the head is over, the reminders still to be created have no row.
LEMMA JobOver ==
    ASSUME Inv, chain # <<>>, chain' \in {Rest, Append(Rest, DriveJob)},
           \A u \in Tasks : \/ rows'[u] = rows[u]
                            \/ rows[u] \notin NoRow
                            \/ Head(chain).op = "create" /\ Head(chain).task = u
    PROVE  Pending' /\ chain' \in Seq(Jobs)
<1>1. chain \in Seq(Jobs) /\ chain # <<>> /\ Pending
  BY DEF Inv, Types
<1>2. /\ Rest \in Seq(Jobs) /\ Len(Rest) = Len(chain) - 1
      /\ \A i \in DOMAIN Rest : i + 1 \in DOMAIN chain /\ Rest[i] = chain[i + 1]
      /\ Head(chain) = chain[1] /\ 1 \in DOMAIN chain /\ chain[1] \in Jobs
  BY <1>1, TheRest
<1> DEFINE s == Rest
           r == chain'
<1>3. s \in Seq(Jobs) /\ r \in {s, Append(s, DriveJob)} /\ DriveJob \in Jobs
  BY <1>2, JobKinds
<1> HIDE DEF s, r
<1>4. /\ r \in Seq(Jobs)
      /\ \A i \in DOMAIN r : (i \in DOMAIN s /\ r[i] = s[i]) \/ (i = Len(s) + 1 /\ r[i] = DriveJob)
  BY <1>3, AppendFacts
<1>5. ASSUME NEW i \in DOMAIN r, r[i].op = "create"
      PROVE  i + 1 \in DOMAIN chain /\ r[i] = chain[i + 1]
  BY <1>4, <1>5, <1>2, JobKinds DEF s
<1>6. \A i \in DOMAIN r : i \in Nat /\ i >= 1
  BY <1>4
<1>7. ASSUME NEW i \in DOMAIN r, r[i].op = "create"
      PROVE  rows'[r[i].task] = Unwritten
  <2>1. i + 1 \in DOMAIN chain /\ r[i] = chain[i + 1] /\ i + 1 # 1
    BY <1>5, <1>6, <1>7
  <2>2. rows[r[i].task] = Unwritten /\ rows[r[i].task] \in NoRow
    BY <1>1, <1>7, <2>1 DEF Pending, NoRow
  <2>3. ~(Head(chain).op = "create" /\ Head(chain).task = r[i].task)
    BY <1>1, <1>2, <1>7, <2>1 DEF Pending
  <2>4. r[i].task \in Tasks
    BY <1>4, <1>7, CallsName
  <2> QED BY <2>2, <2>3, <2>4
<1>8. ASSUME NEW i \in DOMAIN r, r[i].op = "create",
             NEW j \in DOMAIN r, r[j].op = "create", r[j].task = r[i].task
      PROVE  i = j
  <2>1. /\ i + 1 \in DOMAIN chain /\ r[i] = chain[i + 1]
        /\ j + 1 \in DOMAIN chain /\ r[j] = chain[j + 1]
    BY <1>5, <1>8
  <2>2. i + 1 = j + 1
    BY <1>1, <1>8, <2>1 DEF Pending
  <2> QED BY <2>2, <1>6
<1>9. Pending'
  BY <1>7, <1>8 DEF Pending, r
<1> QED BY <1>4, <1>9 DEF r

\* A call at the head is no drive, and neither is what follows it now.
LEMMA RestDrives ==
    ASSUME Types, Calling
    PROVE  /\ Rest \in Seq(Jobs)
           /\ (\E i \in DOMAIN Rest : Rest[i] = DriveJob) <=> DriveQueued
<1>1. chain \in Seq(Jobs) /\ chain # <<>> /\ Head(chain) # DriveJob
  BY DEF Types, Calling
<1>2. /\ Rest \in Seq(Jobs) /\ Len(Rest) = Len(chain) - 1
      /\ \A i \in DOMAIN Rest : i + 1 \in DOMAIN chain /\ Rest[i] = chain[i + 1]
      /\ Head(chain) = chain[1]
  BY <1>1, TheRest
<1>3. DOMAIN chain = 1 .. Len(chain) /\ DOMAIN Rest = 1 .. Len(chain) - 1 /\ Len(chain) \in Nat
  BY <1>1, <1>2
<1>4. ASSUME NEW i \in DOMAIN chain, chain[i] = DriveJob
      PROVE  \E k \in DOMAIN Rest : Rest[k] = DriveJob
  <2>1. i # 1
    BY <1>1, <1>2, <1>4
  <2>2. i - 1 \in DOMAIN Rest /\ (i - 1) + 1 = i
    BY <1>3, <2>1
  <2>3. Rest[i - 1] = chain[i]
    BY <1>2, <2>2
  <2> QED BY <1>4, <2>2, <2>3
<1> QED BY <1>2, <1>4 DEF DriveQueued

\* A call that ends without a request leaves what covers the table.
LEMMA EndsQuietly ==
    ASSUME Types, LoopOnly, Cover, Calling, chain' = Rest,
           UNCHANGED <<run, requested, timer, host, drive, now, shifted>>,
           \A u \in Tasks : Active(u)' => Active(u) /\ rows'[u] = rows[u]
    PROVE  LoopOnly' /\ Cover'
<1>1. DriveQueued' <=> DriveQueued
  BY RestDrives DEF DriveQueued
<1>2. Covered => Covered'
  BY DEF Covered
<1> QED BY <1>1, <1>2 DEF LoopOnly, Cover

LEMMA AnswerKeeps == Inv /\ CallTurn /\ Answer => Inv'
<1> SUFFICES ASSUME Inv, CallTurn, Answer PROVE Inv'
  OBVIOUS
<1>1. /\ UNCHANGED <<rows, log, stored, slot, drive, now, host, excused, shifted>>
      /\ UNCHANGED <<run, requested, timer>> /\ chain' = Rest
  BY DEF Answer, sessions, runtime, world
<1>2. Calling /\ slot.todo = {} /\ drive.step = "none" /\ Types
  BY NoDrive DEF CallTurn, Calling, Free, Inv
<1>3. Pending' /\ chain' \in Seq(Jobs)
  BY <1>1, <1>2, JobOver DEF Calling
<1>4. LoopOnly' /\ Cover'
  BY <1>1, <1>2, EndsQuietly DEF Inv, Active
<1>5. Types'
  BY <1>1, <1>2, <1>3 DEF Types
<1>6. Reading' /\ Telling' /\ Writing'
  BY <1>1, <1>2 DEF Reading, Telling, Writing
<1>7. ReceiptsAreDurable'
  BY <1>1 DEF Inv, ReceiptsAreDurable
<1> QED BY <1>3, <1>4, <1>5, <1>6, <1>7 DEF Inv

LEMMA TakesKeeps ==
    ASSUME Inv, CallTurn, NEW todo \in SUBSET Tasks, NEW row \in Entry, Takes(todo, row),
           todo # {} =>
              \/ row = Deleted /\ \A t \in todo : rows[t] \notin NoRow
              \/ /\ Head(chain).op # "clear"
                 /\ \E t \in Tasks : todo = {t} /\
                       \/ /\ row \in NewRow /\ rows[t] = Unwritten
                          /\ Head(chain).op = "create" /\ Head(chain).task = t
                       \/ /\ row \in RowSet /\ row.status = "active"
                          /\ Active(t) /\ row.receipts = rows[t].receipts
    PROVE  Inv'
<1>1. CASE todo = {}
  BY <1>1, AnswerKeeps DEF Takes
<1>2. CASE todo # {}
  <2>1. /\ UNCHANGED <<rows, log, stored, chain, drive, now, host, excused, shifted>>
        /\ UNCHANGED <<run, requested, timer>>
        /\ slot' = [op |-> Head(chain).op, todo |-> todo, row |-> row, changed |-> FALSE]
    BY <1>2 DEF Takes, sessions, runtime, world
  <2>2. Calling /\ drive.step = "none" /\ Types
    BY NoDrive DEF CallTurn, Calling, Inv
  <2>3. Head(chain) \in Jobs /\ Head(chain) # DriveJob
    BY <2>2, TheRest DEF Types, Calling
  <2>4. slot' \in Slot
    BY <2>1, <2>3, CallsName DEF Slot
  <2>5. Types'
    BY <2>1, <2>2, <2>4 DEF Types
  <2>6. Reading' /\ Telling'
    BY <2>1, <2>2 DEF Reading, Telling
  <2>7. Writing'
    BY <1>2, <2>1, <2>2 DEF Writing, Calling, Creating, Updating, Active
  <2>8. Pending' /\ LoopOnly' /\ Cover' /\ ReceiptsAreDurable'
    BY <2>1 DEF Inv, Pending, LoopOnly, Cover, Covered, Active, DriveQueued, ReceiptsAreDurable
  <2> QED BY <2>5, <2>6, <2>7, <2>8 DEF Inv
<1> QED BY <1>1, <1>2

LEMMA AtHead ==
    ASSUME Inv, CallTurn
    PROVE  /\ Head(chain) \in Jobs /\ 1 \in DOMAIN chain /\ Head(chain) = chain[1]
           /\ rows \in [Tasks -> Entry] /\ now \in Int
           /\ Unwritten \in Entry /\ Deleted \in Entry /\ Deleted \notin RowSet
BY TheRest, RowKinds, ScheduleConstants DEF Inv, Types, CallTurn, Entry, NoRow

LEMMA CreateKeeps == Inv /\ Create => Inv'
<1> SUFFICES ASSUME Inv, Create PROVE Inv'
  OBVIOUS
<1> DEFINE job == Head(chain)
<1>1. CallTurn /\ job.op = "create" /\ Takes({job.task}, job.row)
  BY DEF Create
<1>2. job \in Creates /\ 1 \in DOMAIN chain /\ job = chain[1]
  BY <1>1, AtHead, JobKinds
<1>3. job.task \in Tasks /\ job.row \in NewRow
  BY <1>2 DEF Creates
<1>4. job.row \in Entry
  <2>1. job.row \in RowSet /\ Len(job.row.receipts) = 0
    BY <1>3 DEF NewRow
  <2> QED BY <2>1, ScheduleConstants DEF Entry
<1>5. rows[job.task] = Unwritten
  BY <1>1, <1>2 DEF Inv, Pending
<1> HIDE DEF job
<1> QED BY <1>1, <1>3, <1>4, <1>5, TakesKeeps DEF job

LEMMA UpdateKeeps == Inv /\ Update => Inv'
<1> SUFFICES ASSUME Inv, Update PROVE Inv'
  OBVIOUS
<1> DEFINE job == Head(chain)
           r == rows[job.task]
           target == IF job.every > 0 THEN now + job.every ELSE job.target
           same == job.every = r.every /\ (job.every = 0 => job.target = r.target)
           accepted == /\ r.status = "active"
                       /\ <<r.every, r.target>> = job.expected
                       /\ ~ same
                       /\ target > now
           new == [r EXCEPT !.every = job.every, !.target = target]
<1>1. CallTurn /\ job.op = "update"
      /\ Takes(IF accepted THEN {job.task} ELSE {}, IF accepted THEN new ELSE r)
  BY DEF Update
<1>2. job \in Updates
  BY <1>1, AtHead, JobKinds
<1>3. job.task \in Tasks /\ job.every \in Nat /\ job.target \in Int
  BY <1>2 DEF Updates
<1>4. r \in Entry /\ now \in Int
  BY <1>1, <1>3, AtHead
<1>5. CASE ~accepted
  BY <1>1, <1>4, <1>5, TakesKeeps
<1>6. CASE accepted
  <2>1. r \in RowSet /\ Len(r.receipts) <= Records
    BY <1>4, <1>6, ActiveRow
  <2>2. target \in Int
    BY <1>3, <1>4
  <2> HIDE DEF r, target, accepted
  <2>3. /\ new \in RowSet /\ new.receipts = r.receipts /\ new.status = r.status
    BY <1>3, <2>1, <2>2 DEF RowSet
  <2>4. new \in Entry
    BY <2>1, <2>3 DEF Entry
  <2>5. Active(job.task) /\ new.status = "active" /\ new.receipts = rows[job.task].receipts
    BY <1>6, <2>3 DEF accepted, r, Active
  <2>6. Takes({job.task}, new)
    BY <1>1, <1>6
  <2> HIDE DEF new
  <2> QED BY <1>1, <1>3, <2>3, <2>4, <2>5, <2>6, TakesKeeps
<1> QED BY <1>5, <1>6

LEMMA RemovalsKeep == Inv /\ (Delete \/ Clear \/ StopSession \/ Refuse) => Inv'
<1> SUFFICES ASSUME Inv, Delete \/ Clear \/ StopSession \/ Refuse PROVE Inv'
  OBVIOUS
<1>1. ASSUME NEW todo \in SUBSET Tasks, CallTurn, Takes(todo, Deleted),
             \A t \in todo : rows[t] \notin NoRow
      PROVE  Inv'
  BY <1>1, AtHead, TakesKeeps
<1>2. CASE Delete
  <2> DEFINE job == Head(chain)
             todo == {job.task} \ {t \in Tasks : rows[t] \in NoRow}
  <2>1. CallTurn /\ job.op = "delete" /\ Takes(todo, Deleted)
    BY <1>2 DEF Delete
  <2>2. job.task \in Tasks
    BY <2>1, AtHead, CallsName
  <2> QED BY <1>1, <2>1, <2>2
<1>3. CASE Clear
  <2> DEFINE todo == {t \in Tasks : rows[t].status = "inactive"}
  <2>1. CallTurn /\ Takes(todo, Deleted)
    BY <1>3 DEF Clear
  <2>2. \A t \in todo : rows[t] \notin NoRow
    BY RowKinds DEF NoRow
  <2> QED BY <1>1, <2>1, <2>2
<1>4. CASE StopSession
  <2> DEFINE todo == {t \in Tasks : Active(t) /\ SessionOf[t] = Head(chain).session}
  <2>1. CallTurn /\ Takes(todo, Deleted)
    BY <1>4 DEF StopSession
  <2>2. \A t \in todo : rows[t] \notin NoRow
    BY RowKinds DEF Active, NoRow
  <2> QED BY <1>1, <2>1, <2>2
<1>5. CASE Refuse
  BY <1>5, AnswerKeeps DEF Refuse
<1> QED BY <1>2, <1>3, <1>4, <1>5

LEMMA FreeSlot == Free \in Slot /\ Free.todo = {}
BY DEF Free, Slot, Ops, Entry, NoRow

\* The row a call writes is that of a reminder, or says it is deleted; its receipts are those
\* of the row it replaces.
LEMMA WrittenRow ==
    ASSUME Inv, NEW t \in slot.todo
    PROVE  /\ Calling /\ t \in Tasks /\ slot.row \in Entry /\ drive.step = "none"
           /\ slot.row = Deleted \/ (slot.op # "clear" /\ slot.todo = {t})
           /\ rows[t] \notin NoRow \/ (Head(chain).op = "create" /\ Head(chain).task = t)
           /\ slot.row \notin NoRow =>
                 slot.row.receipts = <<>>
                 \/ (rows[t] \notin NoRow /\ slot.row.receipts = rows[t].receipts)
<1>1. Writing /\ Reading /\ slot \in Slot
  BY DEF Inv, Types
<1>2. Calling /\ drive.step = "none" /\ t \in Tasks /\ slot.row \in Entry
  BY <1>1, NoDrive DEF Writing, Calling, Slot
<1>3. Active(t) => rows[t] \notin NoRow
  BY DEF Active, NoRow, Unwritten, Deleted
<1> QED BY <1>1, <1>2, <1>3 DEF Writing, Creating, Updating, NewRow, NoRow

LEMMA WriteKeeps == Inv /\ (\E t \in Tasks : Write(t)) => Inv'
<1> SUFFICES ASSUME Inv, NEW t \in Tasks, Write(t) PROVE Inv'
  OBVIOUS
<1>0. /\ t \in slot.todo /\ rows' = [rows EXCEPT ![t] = slot.row] /\ Wrote(t, TRUE)
      /\ excused' = IF SetsBack(t) THEN excused \cup {t} ELSE excused
      /\ UNCHANGED <<now, log, stored, host, drive, shifted>>
  BY DEF Write, sessions, world
<1>1. Types /\ LoopOnly /\ Cover /\ Writing
  BY DEF Inv
<1>2. /\ Calling /\ slot.row \in Entry /\ drive.step = "none"
      /\ slot.row = Deleted \/ (slot.op # "clear" /\ slot.todo = {t})
      /\ rows[t] \notin NoRow \/ (Head(chain).op = "create" /\ Head(chain).task = t)
      /\ slot.row \notin NoRow =>
            slot.row.receipts = <<>>
            \/ (rows[t] \notin NoRow /\ slot.row.receipts = rows[t].receipts)
  BY <1>0, WrittenRow
<1>3. /\ rows' \in [Tasks -> Entry] /\ rows'[t] = slot.row
      /\ \A u \in Tasks \ {t} : rows'[u] = rows[u]
  BY <1>0, <1>1, <1>2 DEF Types
<1>4. excused' \subseteq Tasks
  BY <1>0, <1>1 DEF Types
<1>5. ReceiptsAreDurable'
  <2>1. ASSUME NEW u \in Tasks, rows'[u] \notin NoRow, NEW i \in DOMAIN rows'[u].receipts
        PROVE  LET r == rows'[u].receipts[i]
               IN  r.msg \in 1 .. stored[SessionOf[u]] /\ <<u, r.occ>> \in log[SessionOf[u]][r.msg]
    <3>1. rows[u] \notin NoRow /\ rows'[u].receipts = rows[u].receipts
      BY <1>2, <1>3, <2>1
    <3> QED BY <2>1, <3>1 DEF Inv, ReceiptsAreDurable
  <2> QED BY <1>0, <2>1 DEF ReceiptsAreDurable
<1>6. Reading' /\ Telling'
  BY <1>0, <1>2 DEF Reading, Telling
<1>7. CASE slot.todo # {t}
  <2>1. /\ slot' = [slot EXCEPT !.todo = slot.todo \ {t}, !.changed = TRUE]
        /\ UNCHANGED <<chain, run, requested, timer>> /\ slot.row = Deleted
    BY <1>0, <1>2, <1>7 DEF Wrote, runtime
  <2>2. slot' \in Slot /\ slot'.todo = slot.todo \ {t} /\ slot'.row = slot.row
    BY <1>1, <2>1 DEF Types, Slot
  <2>3. Types'
    BY <1>0, <1>1, <1>3, <1>4, <2>1, <2>2 DEF Types
  <2>4. \A u \in slot.todo : rows[u] \notin NoRow
    BY <1>0, <1>1, <1>7 DEF Writing
  <2>5. Writing'
    BY <1>2, <1>3, <2>1, <2>2, <2>4, <1>1 DEF Writing, Calling, Types, Slot
  <2>6. Pending'
    <3>1. ASSUME NEW i \in DOMAIN chain, chain[i].op = "create"
          PROVE  rows'[chain[i].task] = Unwritten
      <4>1. rows[chain[i].task] = Unwritten /\ chain[i] \in Jobs
        BY <3>1, <1>1 DEF Inv, Pending, Types
      <4>2. chain[i].task # t /\ chain[i].task \in Tasks
        BY <1>0, <2>4, <3>1, <4>1, CallsName DEF NoRow
      <4> QED BY <1>3, <4>1, <4>2
    <3> QED BY <2>1, <3>1 DEF Inv, Pending
  <2>7. LoopOnly' /\ Cover'
    <3>1. Covered => Covered'
      BY <1>0, <1>3, <2>1 DEF Covered, Active, Deleted
    <3> QED BY <1>0, <1>1, <2>1, <3>1 DEF LoopOnly, Cover, DriveQueued
  <2> QED BY <1>5, <1>6, <2>3, <2>5, <2>6, <2>7 DEF Inv
<1>8. CASE slot.todo = {t}
  <2>1. slot' = Free /\ slot' \in Slot /\ Writing'
    BY <1>0, <1>8, FreeSlot DEF Wrote, Writing
  <2>2. Rest \in Seq(Jobs) /\ ((\E i \in DOMAIN Rest : Rest[i] = DriveJob) <=> DriveQueued)
    BY <1>1, <1>2, RestDrives
  <2>3. /\ LoopOnly' /\ Cover' /\ chain' \in {Rest, Append(Rest, DriveJob)}
        /\ run' \in {"idle", "looping", "settled"} /\ requested' \in BOOLEAN
        /\ timer' \in {Off} \cup 0 .. MaxDelay
    <3>1. CASE slot.op # "clear"
      <4>1. RequestDrive(Rest)
        BY <1>0, <1>8, <3>1 DEF Wrote
      <4> QED BY <1>0, <1>1, <2>2, <4>1, RequestCovers
    <3>2. CASE slot.op = "clear"
      <4>1. chain' = Rest /\ UNCHANGED <<run, requested, timer>> /\ slot.row = Deleted
        BY <1>0, <1>2, <1>8, <3>2 DEF Wrote, runtime
      <4>2. \A u \in Tasks : Active(u)' => Active(u) /\ rows'[u] = rows[u]
        BY <1>3, <4>1 DEF Active, Deleted
      <4>3. LoopOnly' /\ Cover'
        BY <1>0, <1>1, <1>2, <4>1, <4>2, EndsQuietly
      <4> QED BY <1>1, <4>1, <4>3 DEF Types
    <3> QED BY <3>1, <3>2
  <2>4. Pending' /\ chain' \in Seq(Jobs)
    <3>1. \A u \in Tasks : \/ rows'[u] = rows[u]
                           \/ rows[u] \notin NoRow
                           \/ Head(chain).op = "create" /\ Head(chain).task = u
      BY <1>2, <1>3
    <3> QED BY <1>2, <2>3, <3>1, JobOver DEF Calling
  <2>5. Types'
    BY <1>0, <1>1, <1>3, <1>4, <2>1, <2>3, <2>4 DEF Types
  <2> QED BY <1>5, <1>6, <2>1, <2>3, <2>4, <2>5 DEF Inv
<1> QED BY <1>7, <1>8

LEMMA WriteFailsKeeps == Inv /\ (\E t \in Tasks : WriteFails(t)) => Inv'
<1> SUFFICES ASSUME Inv, NEW t \in Tasks, WriteFails(t) PROVE Inv'
  OBVIOUS
<1>0. /\ t \in slot.todo /\ Wrote(t, slot.changed)
      /\ UNCHANGED <<rows, now, log, stored, host, drive, shifted, excused>>
  BY DEF WriteFails, Fault, sessions
<1>1. Types /\ LoopOnly /\ Cover /\ Writing
  BY DEF Inv
<1>2. Calling /\ drive.step = "none"
  BY <1>0, WrittenRow
<1>5. ReceiptsAreDurable' /\ Reading' /\ Telling'
  BY <1>0, <1>2 DEF Inv, ReceiptsAreDurable, Reading, Telling
<1>7. CASE slot.todo # {t}
  <2>1. /\ slot' = [slot EXCEPT !.todo = slot.todo \ {t}, !.changed = slot.changed]
        /\ UNCHANGED <<chain, run, requested, timer>>
    BY <1>0, <1>7 DEF Wrote, runtime
  <2>2. slot' \in Slot /\ slot'.todo = slot.todo \ {t} /\ slot'.row = slot.row
    BY <1>1, <2>1 DEF Types, Slot
  <2>3. Types'
    BY <1>0, <1>1, <2>1, <2>2 DEF Types
  <2>4. Writing'
    BY <1>0, <1>1, <1>7, <2>1, <2>2 DEF Writing
  <2>5. Pending' /\ LoopOnly' /\ Cover'
    BY <1>0, <2>1 DEF Inv, Pending, LoopOnly, Cover, Covered, Active, DriveQueued
  <2> QED BY <1>5, <2>3, <2>4, <2>5 DEF Inv
<1>8. CASE slot.todo = {t}
  <2>1. slot' = Free /\ slot' \in Slot /\ Writing'
    BY <1>0, <1>8, FreeSlot DEF Wrote, Writing
  <2>2. Rest \in Seq(Jobs) /\ ((\E i \in DOMAIN Rest : Rest[i] = DriveJob) <=> DriveQueued)
    BY <1>1, <1>2, RestDrives
  <2>3. /\ LoopOnly' /\ Cover' /\ chain' \in {Rest, Append(Rest, DriveJob)}
        /\ run' \in {"idle", "looping", "settled"} /\ requested' \in BOOLEAN
        /\ timer' \in {Off} \cup 0 .. MaxDelay
    <3>1. CASE slot.changed /\ slot.op # "clear"
      <4>1. RequestDrive(Rest)
        BY <1>0, <1>8, <3>1 DEF Wrote
      <4> QED BY <1>0, <1>1, <2>2, <4>1, RequestCovers
    <3>2. CASE ~(slot.changed /\ slot.op # "clear")
      <4>1. chain' = Rest /\ UNCHANGED <<run, requested, timer>>
        BY <1>0, <1>2, <1>8, <3>2 DEF Wrote, runtime
      <4>3. LoopOnly' /\ Cover'
        BY <1>0, <1>1, <1>2, <4>1, EndsQuietly DEF Active
      <4> QED BY <1>1, <4>1, <4>3 DEF Types
    <3> QED BY <3>1, <3>2
  <2>4. Pending' /\ chain' \in Seq(Jobs)
    BY <1>0, <1>2, <2>3, JobOver DEF Calling
  <2>5. Types'
    BY <1>0, <1>1, <2>1, <2>3, <2>4 DEF Types
  <2> QED BY <1>5, <2>1, <2>3, <2>4, <2>5 DEF Inv
<1> QED BY <1>7, <1>8

-----------------------------------------------------------------------------
(* The drive.                                                              *)

\* Its batch is of one session.
LEMMA OneReceiver ==
    ASSUME Inv, drive.step # "none"
    PROVE  /\ Receiver \in Sessions /\ \A t \in drive.batch : SessionOf[t] = Receiver
           /\ \A t \in drive.batch : t \in Tasks
<1>1. /\ drive.batch # {} /\ drive.batch \subseteq Tasks
      /\ \A t, u \in drive.batch : SessionOf[t] = SessionOf[u]
  BY DEF Inv, Reading, Types, Drive
<1>2. (CHOOSE t \in drive.batch : TRUE) \in drive.batch
  BY <1>1
<1> QED BY <1>1, <1>2, ScheduleConstants DEF Receiver

\* A drive at work, or about to scan, is at the head of the FIFO and of a loop.
LEMMA DriveAlone ==
    ASSUME Inv, DriveTurn
    PROVE  /\ chain # <<>> /\ slot.todo = {} /\ DriveQueued /\ run = "looping"
           /\ 1 \in DOMAIN chain
<1>1. chain \in Seq(Jobs) /\ chain # <<>> /\ Head(chain) = DriveJob
  BY DEF Inv, Types, DriveTurn
<1>2. 1 \in DOMAIN chain /\ chain[1] = DriveJob
  BY <1>1, TheRest
<1> QED BY <1>1, <1>2 DEF Inv, Writing, LoopOnly, DriveQueued

LEMMA IdleDrive ==
    ASSUME NEW failed \in SUBSET Tasks
    PROVE  /\ Nothing \in Occasions
           /\ [Idle EXCEPT !.failed = failed] \in Drive
           /\ [Idle EXCEPT !.failed = failed].step = "none"
           /\ [Idle EXCEPT !.failed = failed].failed = failed
<1>1. Nothing \in [{} -> Int]
  BY DEF Nothing
<1>2. Nothing \in Occasions
  BY <1>1 DEF Occasions
<1> QED BY <1>2 DEF Idle, Drive

\* On to the next group, or to the end of the drive.
LEMMA OnwardKeeps ==
    ASSUME Inv, DriveTurn, NEW seen \in [Tasks -> Entry], NEW left \in SUBSET Tasks,
           NEW failed \in SUBSET Tasks,
           rows' \in [Tasks -> Entry], Onward(rows', seen, left, failed),
           \A t \in left : seen[t] = rows'[t] /\ rows'[t].status = "active",
           \A u \in Tasks : rows'[u] = rows[u] \/ rows[u] \notin NoRow,
           log' \in [Sessions -> Seq(Messages)], stored' \in [Sessions -> Nat],
           \A s \in Sessions : stored'[s] <= Len(log'[s]),
           UNCHANGED <<now, host, slot, run, requested, shifted>>, excused' \subseteq Tasks,
           ReceiptsAreDurable'
    PROVE  Inv'
<1>1. /\ Types /\ LoopOnly /\ chain # <<>> /\ slot.todo = {} /\ DriveQueued /\ run = "looping"
      /\ slot \in Slot /\ now \in Int
  BY DriveAlone, ScheduleConstants DEF Inv, Types
<1>2. Writing'
  BY <1>1 DEF Writing
<1>3. CASE left = {} \/ host = "stopping"
  <2>1. /\ timer' \in IF host = "stopping" THEN {Off} ELSE Armed(rows', failed)
        /\ drive' = [Idle EXCEPT !.failed = failed] /\ chain' = Rest
    BY <1>3 DEF Onward
  <2>2. drive' \in Drive /\ drive'.step = "none" /\ drive'.failed = failed
    BY <2>1, IdleDrive
  <2>3. Pending' /\ chain' \in Seq(Jobs)
    BY <1>1, <2>1, JobOver
  <2>4. ASSUME host # "stopping"
        PROVE  timer' \in {Off} \cup 0 .. MaxDelay /\ Covered'
    <3>1. timer' \in Armed(rows', failed)
      BY <2>1, <2>4
    <3>2. /\ timer' \in {Off} \cup 0 .. MaxDelay
          /\ \A t \in Tasks \ failed : rows'[t].status = "active" =>
                timer' # Off /\ timer' <= Max(0, rows'[t].target - now)
      BY <1>1, <3>1, ArmedCovers
    <3> QED BY <2>2, <3>2 DEF Covered, Active
  <2>5. timer' \in {Off} \cup 0 .. MaxDelay /\ Cover'
    BY <2>1, <2>4 DEF Cover
  <2>6. Types'
    BY <1>1, <2>2, <2>3, <2>5 DEF Types
  <2>7. Reading' /\ Telling' /\ LoopOnly'
    BY <1>1, <2>2 DEF Reading, Telling, LoopOnly
  <2> QED BY <1>2, <2>3, <2>5, <2>6, <2>7 DEF Inv
<1>4. CASE ~(left = {} \/ host = "stopping")
  <2>1. PICK t \in left :
            drive' = [step |-> "resolve", seen |-> seen, left |-> left \ Batch(t, left, seen),
                      batch |-> Batch(t, left, seen), occurs |-> Nothing, failed |-> failed]
    BY <1>4 DEF Onward
  <2>2. timer' = Off /\ chain' = chain
    BY <1>4 DEF Onward
  <2>3. /\ t \in Batch(t, left, seen) /\ Batch(t, left, seen) \subseteq left
        /\ \A u \in Batch(t, left, seen) : SessionOf[u] = SessionOf[t]
    BY DEF Batch
  <2> DEFINE batch == Batch(t, left, seen)
  <2> HIDE DEF batch
  <2>4. /\ drive'.step = "resolve" /\ drive'.seen = seen /\ drive'.left = left \ batch
        /\ drive'.batch = batch /\ drive' \in Drive
    BY <2>1, <2>3, IdleDrive DEF batch, Drive
  <2>5. Types'
    BY <1>1, <2>2, <2>4 DEF Types
  <2>6. Reading'
    BY <1>1, <2>2, <2>3, <2>4 DEF Reading, Active, DriveTurn, batch
  <2>7. Telling' /\ LoopOnly' /\ Cover'
    BY <1>1, <2>2, <2>4 DEF Telling, LoopOnly, Cover, DriveQueued
  <2>8. Pending'
    <3>1. ASSUME NEW i \in DOMAIN chain, chain[i].op = "create"
          PROVE  rows'[chain[i].task] = Unwritten
      <4>1. rows[chain[i].task] = Unwritten /\ chain[i] \in Jobs
        BY <3>1, <1>1 DEF Inv, Pending, Types
      <4>2. chain[i].task \in Tasks
        BY <3>1, <4>1, CallsName
      <4> QED BY <4>1, <4>2 DEF NoRow
    <3> QED BY <2>2, <3>1 DEF Inv, Pending
  <2> QED BY <1>2, <2>5, <2>6, <2>7, <2>8 DEF Inv
<1> QED BY <1>3, <1>4

LEMMA ScanKeeps == Inv /\ Scan => Inv'
<1> SUFFICES ASSUME Inv, Scan PROVE Inv'
  OBVIOUS
<1> DEFINE due == {t \in Tasks : Due(t)}
<1>1. /\ DriveTurn /\ Onward(rows, rows, due, {})
      /\ UNCHANGED <<now, rows, log, stored, host, slot, run, requested, excused, shifted>>
  BY DEF Scan, At, sessions, world
<1>2. rows' = rows /\ Onward(rows', rows, due, {})
  BY <1>1
<1>3. \A t \in due : rows[t] = rows'[t] /\ rows'[t].status = "active"
  BY <1>1 DEF Due, Active
<1>4. ReceiptsAreDurable'
  BY <1>1 DEF Inv, ReceiptsAreDurable
<1> HIDE DEF due
<1>5. due \in SUBSET Tasks /\ {} \in SUBSET Tasks
  BY DEF due
<1> QED BY <1>1, <1>2, <1>3, <1>4, <1>5, OnwardKeeps DEF Inv, Types

\* What a drive at work has read.
LEMMA WhatItRead ==
    ASSUME Inv, drive.step # "none"
    PROVE  /\ DriveTurn /\ drive.seen \in [Tasks -> Entry] /\ drive \in Drive
           /\ drive.left \in SUBSET Tasks /\ drive.failed \in SUBSET Tasks
           /\ drive.batch \in SUBSET Tasks /\ drive.batch \cap drive.left = {}
           /\ \A t \in drive.left \cup drive.batch :
                 drive.seen[t] = rows[t] /\ rows[t].status = "active"
           /\ \A t \in drive.batch : drive.seen[t] \in RowSet /\ rows[t] \notin NoRow
<1>1. /\ DriveTurn /\ drive.seen \in [Tasks -> Entry] /\ drive \in Drive
      /\ drive.left \in SUBSET Tasks /\ drive.failed \in SUBSET Tasks
      /\ drive.batch \in SUBSET Tasks /\ drive.batch \cap drive.left = {}
      /\ \A t \in drive.left \cup drive.batch :
            drive.seen[t] = rows[t] /\ rows[t].status = "active"
  BY DEF Inv, Types, Reading, Drive, DriveTurn, Active
<1>2. \A t \in drive.batch : drive.seen[t] \in RowSet /\ rows[t] \notin NoRow
  <2> SUFFICES ASSUME NEW t \in drive.batch
               PROVE  drive.seen[t] \in RowSet /\ rows[t] \notin NoRow
    OBVIOUS
  <2>1. drive.seen[t] \in Entry /\ drive.seen[t].status = "active" /\ rows[t] = drive.seen[t]
    BY <1>1
  <2> QED BY <2>1, ActiveRow
<1> QED BY <1>1, <1>2

\* A restoration, flush or write that gives up the batch.
LEMMA GiveUpKeeps == Inv /\ GiveUp => Inv'
<1> SUFFICES ASSUME Inv, GiveUp PROVE Inv'
  OBVIOUS
<1> DEFINE given == drive.failed \cup {t \in drive.batch : drive.seen[t].target <= now}
<1>1. /\ drive.step # "none"
      /\ Onward(rows, drive.seen, drive.left, given)
      /\ excused' = IF drive.step = "resolve" THEN excused ELSE excused \cup drive.batch
      /\ UNCHANGED <<now, rows, log, stored, host, slot, run, requested, shifted>>
  BY DEF GiveUp, At, Fault, sessions
<1>2. /\ DriveTurn /\ drive.seen \in [Tasks -> Entry]
      /\ drive.left \in SUBSET Tasks /\ given \in SUBSET Tasks
      /\ excused' \subseteq Tasks
      /\ \A t \in drive.left : drive.seen[t] = rows'[t] /\ rows'[t].status = "active"
  BY <1>1, WhatItRead DEF Inv, Types
<1>3. rows' = rows /\ Onward(rows', drive.seen, drive.left, given)
  BY <1>1
<1>4. ReceiptsAreDurable'
  BY <1>1 DEF Inv, ReceiptsAreDurable
<1> HIDE DEF given
<1> QED BY <1>1, <1>2, <1>3, <1>4, OnwardKeeps DEF Inv, Types

LEMMA Multiples == ASSUME NEW q \in Nat, NEW b \in Nat \ {0} PROVE q * b \in Nat /\ q <= q * b
OBVIOUS

LEMMA Quotients ==
    ASSUME NEW a \in Nat, NEW b \in Nat \ {0}
    PROVE  a \div b \in Nat
OBVIOUS

\* resolveEveryOccurrence stays in the series, from a target that is due.
LEMMA OccurrenceRings ==
    ASSUME NEW t, drive.seen[t] \in RowSet, now \in Int, drive.seen[t].target <= now
    PROVE  Rings(drive.seen[t], Occurrence(t))
<1> DEFINE r == drive.seen[t]
           q == (now - r.target) \div r.every
<1>1. r.every \in Nat /\ r.target \in Int
  BY DEF RowSet
<1>2. CASE r.every = 0
  BY <1>1, <1>2 DEF Rings, Occurrence, Recurs
<1>3. CASE r.every > 0
  <2>1. q \in Nat /\ now - r.target \in Nat
    BY <1>1, <1>3, Quotients
  <2>2. Occurrence(t) = r.target + q * r.every
    BY <1>3 DEF Occurrence, Recurs
  <2> HIDE DEF q
  <2>3. q * r.every \in Nat /\ q <= q * r.every
    BY <1>1, <1>3, <2>1, Multiples
  <2> DEFINE p == q * r.every
  <2> HIDE DEF p
  <2>4. p \in Nat /\ q <= p /\ Occurrence(t) = r.target + p
    BY <2>2, <2>3 DEF p
  <2>5. q \in 0 .. Occurrence(t) - r.target /\ Occurrence(t) \in Int
    BY <1>1, <2>1, <2>4
  <2> QED BY <1>1, <1>3, <2>2, <2>5 DEF Rings
<1> QED BY <1>1, <1>2, <1>3

LEMMA RestoredKeeps == Inv /\ Restored => Inv'
<1> SUFFICES ASSUME Inv, Restored PROVE Inv'
  OBVIOUS
<1> DEFINE admitted == {t \in drive.batch : drive.seen[t].target <= now}
<1>1. /\ drive.step = "resolve"
      /\ UNCHANGED <<now, rows, stored, host, slot, run, requested, excused, shifted>>
  BY DEF Restored, At, world
<1>2. /\ DriveTurn /\ drive.seen \in [Tasks -> Entry] /\ drive \in Drive
      /\ drive.left \in SUBSET Tasks /\ drive.failed \in SUBSET Tasks
      /\ drive.batch \in SUBSET Tasks /\ drive.batch \cap drive.left = {}
      /\ \A t \in drive.left \cup drive.batch :
            drive.seen[t] = rows[t] /\ rows[t].status = "active"
      /\ \A t \in drive.batch : drive.seen[t] \in RowSet
  BY <1>1, WhatItRead
<1>3. Types /\ now \in Int
  BY ScheduleConstants DEF Inv, Types
<1>4. CASE host = "stopping" \/ admitted = {}
  <2>1. Onward(rows, drive.seen, drive.left, drive.failed) /\ log' = log
    BY <1>4 DEF Restored
  <2>2. Onward(rows', drive.seen, drive.left, drive.failed) /\ rows' = rows
    BY <1>1, <2>1
  <2>3. ReceiptsAreDurable'
    <3>1. rows' = rows /\ stored' = stored /\ log' = log
      BY <1>1, <2>1
    <3> QED BY ONLY Inv, <3>1 DEF Inv, ReceiptsAreDurable
  <2>4. /\ log' \in [Sessions -> Seq(Messages)] /\ stored' \in [Sessions -> Nat]
        /\ \A s \in Sessions : stored'[s] <= Len(log'[s])
        /\ rows' \in [Tasks -> Entry] /\ excused' \subseteq Tasks
        /\ \A t \in drive.left : drive.seen[t] = rows'[t] /\ rows'[t].status = "active"
    BY <1>1, <1>2, <1>3, <2>1 DEF Types
  <2>5. /\ \A u \in Tasks : rows'[u] = rows[u] \/ rows[u] \notin NoRow
        /\ UNCHANGED <<now, host, slot, run, requested, shifted>>
    BY <1>1
  <2> QED BY <1>2, <2>2, <2>3, <2>4, <2>5, OnwardKeeps
<1>5. CASE ~(host = "stopping" \/ admitted = {})
  <2> DEFINE batch == {<<t, Occurrence(t)>> : t \in admitted}
             occurs == [t \in admitted |-> Occurrence(t)]
  <2>1. /\ drive' = [drive EXCEPT !.step = "flush", !.batch = admitted, !.occurs = occurs]
        /\ log' = [log EXCEPT ![Receiver] = Append(@, batch)]
        /\ chain' = chain /\ timer' = timer
    BY <1>5 DEF Restored
  <2>2. /\ Receiver \in Sessions /\ \A t \in drive.batch : SessionOf[t] = Receiver
        /\ log \in [Sessions -> Seq(Messages)] /\ stored \in [Sessions -> Nat]
        /\ \A s \in Sessions : stored[s] <= Len(log[s])
    BY <1>1, <1>3, OneReceiver DEF Types
  <2>3. ASSUME NEW t \in admitted
        PROVE  Rings(drive.seen[t], Occurrence(t)) /\ Occurrence(t) \in Int
    <3>1. Rings(drive.seen[t], Occurrence(t))
      BY <1>2, <1>3, OccurrenceRings
    <3> QED BY <3>1 DEF Rings
  <2>4. admitted # {} /\ admitted \subseteq drive.batch /\ admitted \in SUBSET Tasks
    BY <1>2, <1>5
  <2>5. batch \in Messages /\ occurs \in Occasions
    <3>1. batch \in Messages
      BY <2>3, <2>4 DEF Messages
    <3>2. occurs \in [admitted -> Int]
      BY <2>3
    <3> QED BY <2>4, <3>1, <3>2 DEF Occasions
  <2>6. \A t \in admitted : occurs[t] = Occurrence(t) /\ <<t, Occurrence(t)>> \in batch
    OBVIOUS
  <2> HIDE DEF admitted, batch, occurs
  <2>7. /\ drive' \in Drive /\ drive'.step = "flush" /\ drive'.batch = admitted
        /\ drive'.occurs = occurs /\ drive'.seen = drive.seen /\ drive'.left = drive.left
        /\ drive'.failed = drive.failed
    BY <1>2, <2>1, <2>4, <2>5 DEF Drive
  <2>8. /\ log'[Receiver] = Append(log[Receiver], batch)
        /\ \A s \in Sessions \ {Receiver} : log'[s] = log[s]
        /\ log' \in [Sessions -> Seq(Messages)]
    BY <2>1, <2>2, <2>5
  <2>9. /\ Len(log'[Receiver]) = Len(log[Receiver]) + 1
        /\ log'[Receiver][Len(log[Receiver]) + 1] = batch
        /\ \A i \in 1 .. Len(log[Receiver]) : log'[Receiver][i] = log[Receiver][i]
        /\ Len(log[Receiver]) \in Nat
    BY <2>2, <2>5, <2>8
  <2>10. \A s \in Sessions : /\ stored'[s] <= Len(log'[s])
                             /\ \A i \in 1 .. Len(log[s]) : log'[s][i] = log[s][i]
    <3> SUFFICES ASSUME NEW s \in Sessions
                 PROVE  /\ stored[s] <= Len(log'[s])
                        /\ \A i \in 1 .. Len(log[s]) : log'[s][i] = log[s][i]
      BY <1>1
    <3>1. stored[s] \in Nat /\ stored[s] <= Len(log[s])
      BY <2>2
    <3>2. CASE s = Receiver
      BY <2>9, <3>1, <3>2
    <3>3. CASE s # Receiver
      BY <2>8, <3>1, <3>3
    <3> QED BY <3>2, <3>3
  <2>11. Types'
    BY <1>1, <1>3, <2>1, <2>7, <2>8, <2>10 DEF Types
  <2>12. Reading'
    BY <1>1, <1>2, <2>1, <2>2, <2>4, <2>7 DEF Reading, Active, DriveTurn, Inv
  <2>13. Telling'
    <3> SUFFICES ASSUME NEW t \in admitted PROVE Told(t)'
      BY <2>7 DEF Telling
    <3>1. SessionOf[t] = Receiver /\ drive'.occurs[t] = Occurrence(t)
      BY <2>2, <2>4, <2>6, <2>7
    <3>2. Rings(drive'.seen[t], drive'.occurs[t])
      BY <2>3, <2>7, <3>1
    <3>3. /\ Len(log'[SessionOf[t]]) > 0
          /\ <<t, drive'.occurs[t]>> \in log'[SessionOf[t]][Len(log'[SessionOf[t]])]
      BY <2>6, <2>9, <3>1
    <3> QED BY <2>7, <3>2, <3>3 DEF Told, Rings
  <2>14. Writing' /\ Pending' /\ LoopOnly' /\ Cover'
    BY <1>1, <2>1, <2>7 DEF Inv, Writing, Creating, Updating, Pending, LoopOnly, Cover, Covered,
                            Active, DriveQueued
  <2>15. ReceiptsAreDurable'
    <3>1. ASSUME NEW u \in Tasks, rows[u] \notin NoRow, NEW i \in DOMAIN rows[u].receipts
          PROVE  LET r == rows[u].receipts[i]
                 IN  /\ r.msg \in 1 .. stored[SessionOf[u]]
                     /\ <<u, r.occ>> \in log'[SessionOf[u]][r.msg]
      <4>1. SessionOf[u] \in Sessions
        BY ScheduleConstants
      <4>2. /\ rows[u].receipts[i].msg \in 1 .. stored[SessionOf[u]]
            /\ <<u, rows[u].receipts[i].occ>> \in log[SessionOf[u]][rows[u].receipts[i].msg]
        BY <3>1 DEF Inv, ReceiptsAreDurable
      <4>3. rows[u].receipts[i].msg \in 1 .. Len(log[SessionOf[u]])
        BY <2>2, <4>1, <4>2
      <4> QED BY <2>10, <4>1, <4>2, <4>3
    <3> QED BY <1>1, <3>1 DEF ReceiptsAreDurable
  <2> QED BY <2>11, <2>12, <2>13, <2>14, <2>15 DEF Inv
<1> QED BY <1>4, <1>5

LEMMA FlushedKeeps == Inv /\ Flushed => Inv'
<1> SUFFICES ASSUME Inv, Flushed PROVE Inv'
  OBVIOUS
<1>1. /\ drive.step = "flush" /\ drive' = [drive EXCEPT !.step = "commit"]
      /\ stored' = [stored EXCEPT ![Receiver] = Len(log[Receiver])]
      /\ UNCHANGED <<now, rows, log, host, chain, slot, run, requested, timer, excused, shifted>>
  BY DEF Flushed, At, queue, runtime, world
<1>2. /\ Receiver \in Sessions /\ \A t \in drive.batch : SessionOf[t] = Receiver
      /\ Types
  BY <1>1, OneReceiver DEF Inv
<1>3. /\ drive' \in Drive /\ drive'.step = "commit" /\ drive'.batch = drive.batch
      /\ drive'.seen = drive.seen /\ drive'.left = drive.left
      /\ drive'.occurs = drive.occurs /\ drive'.failed = drive.failed
  BY <1>1, <1>2 DEF Types, Drive
<1>4. /\ stored' \in [Sessions -> Nat]
      /\ \A s \in Sessions : stored[s] <= stored'[s] /\ stored'[s] <= Len(log[s])
      /\ stored'[Receiver] = Len(log[Receiver])
  <2>1. Len(log[Receiver]) \in Nat
    BY <1>2 DEF Types
  <2> QED BY <1>1, <1>2, <2>1 DEF Types
<1>5. Types'
  BY <1>1, <1>2, <1>3, <1>4 DEF Types
<1>6. Reading'
  BY <1>1, <1>3 DEF Inv, Reading, Active
<1>7. Telling'
  <2> SUFFICES ASSUME NEW t \in drive.batch PROVE Told(t)'
    BY <1>3 DEF Telling
  <2>1. Told(t) /\ SessionOf[t] = Receiver
    BY <1>1, <1>2 DEF Inv, Telling
  <2> QED BY <1>1, <1>3, <1>4, <2>1 DEF Told, Rings
<1>8. Writing' /\ Pending' /\ LoopOnly' /\ Cover'
  BY <1>1, <1>3 DEF Inv, Writing, Creating, Updating, Pending, LoopOnly, Cover, Covered,
                    Active, DriveQueued
<1>9. ReceiptsAreDurable'
  <2>1. ASSUME NEW u \in Tasks, rows[u] \notin NoRow, NEW i \in DOMAIN rows[u].receipts
        PROVE  rows[u].receipts[i].msg \in 1 .. stored'[SessionOf[u]]
    <3>1. rows[u].receipts[i].msg \in 1 .. stored[SessionOf[u]] /\ SessionOf[u] \in Sessions
      BY <2>1, ScheduleConstants DEF Inv, ReceiptsAreDurable
    <3>2. stored[SessionOf[u]] \in Nat /\ stored'[SessionOf[u]] \in Nat
      BY <1>2, <1>4, <3>1 DEF Types
    <3> QED BY <1>4, <3>1, <3>2
  <2> QED BY <1>1, <2>1 DEF Inv, ReceiptsAreDurable
<1> QED BY <1>5, <1>6, <1>7, <1>8, <1>9 DEF Inv

\* appendDelivery keeps at most its number of receipts, each of them old or the new one.
LEMMA AppendedReceipts ==
    ASSUME NEW receipts \in Seq(Receipt), NEW receipt \in Receipt
    PROVE  /\ Appended(receipts, receipt) \in Seq(Receipt)
           /\ Len(Appended(receipts, receipt)) <= Records
           /\ \A i \in DOMAIN Appended(receipts, receipt) :
                 \/ Appended(receipts, receipt)[i] = receipt
                 \/ \E k \in DOMAIN receipts : Appended(receipts, receipt)[i] = receipts[k]
<1> DEFINE all == Append(receipts, receipt)
           from == Max(1, Len(all) - Records + 1)
           result == SubSeq(all, from, Len(all))
<1>1. all \in Seq(Receipt) /\ Len(all) = Len(receipts) + 1 /\ Len(receipts) \in Nat
  OBVIOUS
<1>2. \A k \in 1 .. Len(all) : all[k] = receipt \/ \E n \in DOMAIN receipts : all[k] = receipts[n]
  OBVIOUS
<1>3. Records \in Nat /\ Records >= 1
  BY ScheduleConstants
<1> HIDE DEF all
<1>4. from \in Nat /\ from >= 1 /\ from <= Len(all) /\ Len(all) - from + 1 <= Records
  BY <1>1, <1>3 DEF Max
<1> HIDE DEF from
<1>5. result \in Seq(Receipt) /\ Len(result) = Len(all) - from + 1
  BY <1>1, <1>4
<1>6. \A i \in 1 .. Len(result) : result[i] = all[from + i - 1] /\ from + i - 1 \in 1 .. Len(all)
  BY <1>1, <1>4, <1>5
<1>7. Appended(receipts, receipt) = result
  BY DEF Appended, all, from
<1> HIDE DEF result
<1>8. DOMAIN result = 1 .. Len(result)
  BY <1>5
<1> QED BY <1>2, <1>4, <1>5, <1>6, <1>7, <1>8

\* The row a delivery commits.
LEMMA DeliveredRow ==
    ASSUME Inv, drive.step = "commit", NEW t \in drive.batch
    PROVE  LET r == drive.seen[t]
               n == Delivered(t)
           IN  /\ n \in Entry /\ n \in RowSet /\ n.every = r.every
               /\ r.every = 0 => n.status = "inactive" /\ n.target = r.target
               /\ r.every > 0 => n.status = r.status /\ n.target = drive.occurs[t] + r.every
               /\ \A i \in DOMAIN n.receipts :
                     /\ n.receipts[i].msg \in 1 .. stored[SessionOf[t]]
                     /\ <<t, n.receipts[i].occ>> \in log[SessionOf[t]][n.receipts[i].msg]
<1> DEFINE r == drive.seen[t]
           occ == drive.occurs[t]
           s == SessionOf[t]
           receipt == [occ |-> occ, msg |-> Len(log[Receiver])]
           new == Appended(r.receipts, receipt)
           n == Delivered(t)
<1>1. /\ r \in RowSet /\ r = rows[t] /\ rows[t] \notin NoRow /\ Types
      /\ s = Receiver /\ s \in Sessions /\ t \in Tasks
  BY WhatItRead, OneReceiver DEF Inv
<1>2. /\ Rings(r, occ) /\ stored[s] = Len(log[s]) /\ Len(log[s]) > 0
      /\ <<t, occ>> \in log[s][Len(log[s])]
  BY DEF Inv, Telling, Told
<1>3. occ \in Int /\ Len(log[s]) \in Nat /\ r.every \in Nat /\ r.target \in Int
      /\ r.receipts \in Seq(Receipt)
  BY <1>1, <1>2 DEF Rings, Types, RowSet
<1>4. receipt \in Receipt /\ receipt.occ = occ /\ receipt.msg = Len(log[s])
  BY <1>1, <1>3 DEF Receipt
<1>5. /\ n = [r EXCEPT !.status = IF r.every > 0 THEN @ ELSE "inactive",
                       !.target = IF r.every > 0 THEN occ + r.every ELSE @,
                       !.receipts = new]
  BY DEF Delivered, Recurs
<1> HIDE DEF n, receipt, occ
<1>6. /\ new \in Seq(Receipt) /\ Len(new) <= Records
      /\ \A i \in DOMAIN new : new[i] = receipt \/ \E k \in DOMAIN r.receipts : new[i] = r.receipts[k]
  BY <1>3, <1>4, AppendedReceipts
<1> HIDE DEF new, r
<1>7. /\ n \in RowSet /\ n.receipts = new /\ n.every = r.every
      /\ r.every = 0 => n.status = "inactive" /\ n.target = r.target
      /\ r.every > 0 => n.status = r.status /\ n.target = occ + r.every
  <2>1. r \in RowSet /\ r.every \in Nat /\ occ \in Int /\ new \in Seq(Receipt)
    BY <1>1, <1>3, <1>6 DEF r
  <2> DEFINE status == IF r.every > 0 THEN r.status ELSE "inactive"
             target == IF r.every > 0 THEN occ + r.every ELSE r.target
  <2>2. status \in {"active", "inactive"} /\ target \in Int
    BY <2>1 DEF RowSet
  <2>3. n = [r EXCEPT !.status = status, !.target = target, !.receipts = new]
    BY <1>5
  <2> HIDE DEF status, target
  <2>4. /\ n \in RowSet /\ n.receipts = new /\ n.every = r.every
        /\ n.status = status /\ n.target = target
    BY ONLY <2>1, <2>2, <2>3 DEF RowSet
  <2> QED BY <2>1, <2>4 DEF status, target
<1>8. ASSUME NEW i \in DOMAIN new
      PROVE  new[i].msg \in 1 .. stored[s] /\ <<t, new[i].occ>> \in log[s][new[i].msg]
  <2>1. CASE new[i] = receipt
    BY <1>2, <1>3, <1>4, <2>1
  <2>2. CASE \E k \in DOMAIN r.receipts : new[i] = r.receipts[k]
    BY <1>1, <2>2 DEF Inv, ReceiptsAreDurable
  <2> QED BY <1>6, <2>1, <2>2
<1> QED BY <1>6, <1>7, <1>8 DEF Entry, n, r, occ

LEMMA CommitKeeps == Inv /\ (\E t \in Tasks : Commit(t)) => Inv'
<1> SUFFICES ASSUME Inv, NEW t \in Tasks, Commit(t) PROVE Inv'
  OBVIOUS
<1>1. /\ drive.step = "commit" /\ t \in drive.batch
      /\ rows' = [rows EXCEPT ![t] = Delivered(t)]
      /\ UNCHANGED <<now, log, stored, host, slot, run, requested, excused, shifted>>
  BY DEF Commit, At, sessions, world
<1>2. /\ DriveTurn /\ drive.seen \in [Tasks -> Entry] /\ drive \in Drive
      /\ drive.left \in SUBSET Tasks /\ drive.failed \in SUBSET Tasks
      /\ drive.batch \in SUBSET Tasks /\ drive.batch \cap drive.left = {}
      /\ \A u \in drive.left \cup drive.batch :
            drive.seen[u] = rows[u] /\ rows[u].status = "active"
      /\ rows[t] \notin NoRow
  BY <1>1, WhatItRead
<1>3. Types /\ Delivered(t) \in Entry
  BY <1>1, DeliveredRow DEF Inv
<1>4. /\ rows' \in [Tasks -> Entry] /\ rows'[t] = Delivered(t)
      /\ \A u \in Tasks \ {t} : rows'[u] = rows[u]
      /\ \A u \in Tasks : rows'[u] = rows[u] \/ rows[u] \notin NoRow
  BY <1>1, <1>2, <1>3 DEF Types
<1>5. ReceiptsAreDurable'
  <2>1. ASSUME NEW u \in Tasks, rows'[u] \notin NoRow, NEW i \in DOMAIN rows'[u].receipts
        PROVE  LET r == rows'[u].receipts[i]
               IN  r.msg \in 1 .. stored[SessionOf[u]] /\ <<u, r.occ>> \in log[SessionOf[u]][r.msg]
    <3>1. CASE u = t
      BY <1>1, <1>4, <2>1, <3>1, DeliveredRow
    <3>2. CASE u # t
      BY <1>4, <2>1, <3>2 DEF Inv, ReceiptsAreDurable
    <3> QED BY <3>1, <3>2
  <2> QED BY <1>1, <2>1 DEF ReceiptsAreDurable
<1>6. CASE drive.batch = {t}
  <2>1. Onward(rows', drive.seen, drive.left, drive.failed)
    BY <1>6 DEF Commit
  <2>2. \A u \in drive.left : drive.seen[u] = rows'[u] /\ rows'[u].status = "active"
    BY <1>1, <1>2, <1>4
  <2>3. /\ log' \in [Sessions -> Seq(Messages)] /\ stored' \in [Sessions -> Nat]
        /\ \A s \in Sessions : stored'[s] <= Len(log'[s])
        /\ excused' \subseteq Tasks
    BY <1>1, <1>3 DEF Types
  <2>4. UNCHANGED <<now, host, slot, run, requested, shifted>>
    BY <1>1
  <2> QED BY <1>2, <1>4, <1>5, <2>1, <2>2, <2>3, <2>4, OnwardKeeps
<1>7. CASE drive.batch # {t}
  <2>1. /\ drive' = [drive EXCEPT !.batch = drive.batch \ {t}] /\ chain' = chain /\ timer' = timer
    BY <1>7 DEF Commit
  <2>2. /\ drive' \in Drive /\ drive'.step = "commit" /\ drive'.batch = drive.batch \ {t}
        /\ drive'.seen = drive.seen /\ drive'.left = drive.left
        /\ drive'.occurs = drive.occurs /\ drive'.failed = drive.failed
    BY <1>1, <1>2, <2>1 DEF Drive
  <2>3. Types'
    BY <1>1, <1>3, <1>4, <2>1, <2>2 DEF Types
  <2>4. \A u \in drive'.left \cup drive'.batch : drive'.seen[u] = rows'[u] /\ Active(u)'
    BY <1>1, <1>2, <1>4, <2>2 DEF Active
  <2>5. Reading'
    BY <1>1, <1>2, <1>7, <2>1, <2>2, <2>4 DEF Inv, Reading
  <2>6. Telling'
    BY <1>1, <2>2 DEF Inv, Telling, Told, Rings
  <2>7. slot.todo = {} /\ DriveQueued /\ run = "looping"
    BY <1>2, DriveAlone
  <2>8. Writing' /\ LoopOnly' /\ Cover'
    BY <1>1, <2>1, <2>7 DEF Writing, LoopOnly, Cover, DriveQueued
  <2>9. Pending'
    <3>1. ASSUME NEW i \in DOMAIN chain, chain[i].op = "create"
          PROVE  rows'[chain[i].task] = Unwritten
      <4>1. rows[chain[i].task] = Unwritten /\ chain[i] \in Jobs
        BY <3>1, <1>3 DEF Inv, Pending, Types
      <4>2. chain[i].task \in Tasks
        BY <3>1, <4>1, CallsName
      <4> QED BY <1>4, <4>1, <4>2 DEF NoRow
    <3> QED BY <2>1, <3>1 DEF Inv, Pending
  <2> QED BY <1>5, <2>3, <2>5, <2>6, <2>8, <2>9 DEF Inv
<1> QED BY <1>6, <1>7

-----------------------------------------------------------------------------
(* Another life of the Host.                                               *)

\* Sessions keep what is stored.
LEMMA WhatIsKept ==
    ASSUME Types, Keeps
    PROVE  /\ stored' \in [Sessions -> Nat] /\ log' \in [Sessions -> Seq(Messages)]
           /\ \A s \in Sessions :
                 /\ stored[s] <= stored'[s] /\ Len(log'[s]) = stored'[s]
                 /\ \A i \in 1 .. stored'[s] : i \in 1 .. Len(log[s]) /\ log'[s][i] = log[s][i]
<1>1. PICK n \in [Sessions -> UNION {stored[s] .. Len(log[s]) : s \in Sessions}] :
          (\A s \in Sessions : n[s] \in stored[s] .. Len(log[s])) /\ stored' = n
  BY DEF Keeps
<1>2. \A s \in Sessions : /\ log[s] \in Seq(Messages) /\ Len(log[s]) \in Nat /\ stored[s] \in Nat
                          /\ stored'[s] \in stored[s] .. Len(log[s]) /\ stored'[s] \in Nat
  <2> SUFFICES ASSUME NEW s \in Sessions
               PROVE  /\ log[s] \in Seq(Messages) /\ Len(log[s]) \in Nat /\ stored[s] \in Nat
                      /\ stored'[s] \in stored[s] .. Len(log[s]) /\ stored'[s] \in Nat
    OBVIOUS
  <2>1. log[s] \in Seq(Messages) /\ stored[s] \in Nat
    BY DEF Types
  <2>2. Len(log[s]) \in Nat
    BY <2>1
  <2>3. stored'[s] \in stored[s] .. Len(log[s])
    BY <1>1
  <2> QED BY <2>1, <2>2, <2>3
<1>3. stored' \in [Sessions -> Nat]
  BY <1>1, <1>2
<1>4. \A s \in Sessions : log'[s] = SubSeq(log[s], 1, stored'[s])
  BY DEF Keeps
<1>5. ASSUME NEW s \in Sessions
      PROVE  /\ log'[s] \in Seq(Messages) /\ Len(log'[s]) = stored'[s] /\ stored[s] <= stored'[s]
             /\ \A i \in 1 .. stored'[s] : i \in 1 .. Len(log[s]) /\ log'[s][i] = log[s][i]
  <2> DEFINE l == log[s]
             k == stored'[s]
  <2>1. l \in Seq(Messages) /\ k \in Nat /\ k <= Len(l) /\ stored[s] \in Nat /\ stored[s] <= k
        /\ Len(l) \in Nat
    BY <1>2
  <2>2. log'[s] = SubSeq(l, 1, k)
    BY <1>4
  <2> HIDE DEF l, k
  <2>3. /\ SubSeq(l, 1, k) \in Seq(Messages) /\ Len(SubSeq(l, 1, k)) = k
        /\ \A i \in 1 .. k : i \in 1 .. Len(l) /\ SubSeq(l, 1, k)[i] = l[i]
    BY <2>1
  <2> QED BY <2>1, <2>2, <2>3 DEF l, k
<1>6. log' = [s \in Sessions |-> log'[s]]
  BY DEF Keeps
<1>7. log' \in [Sessions -> Seq(Messages)]
  BY <1>5, <1>6
<1> QED BY <1>3, <1>5, <1>7

\* A Host that went down, or starts again.
LEMMA LifeKeeps ==
    ASSUME Inv, Keeps, slot' = Free, drive' = Idle, UNCHANGED <<now, rows, shifted>>,
           excused' \subseteq Tasks, timer' = Off, requested' = FALSE,
           \/ host' = "down" /\ chain' = <<>> /\ run' = "idle"
           \/ host' = "up" /\ chain' = <<DriveJob>> /\ run' = "looping"
    PROVE  Inv'
<1>1. /\ stored' \in [Sessions -> Nat] /\ log' \in [Sessions -> Seq(Messages)] /\ Types
      /\ \A s \in Sessions :
            /\ stored[s] <= stored'[s] /\ Len(log'[s]) = stored'[s]
            /\ \A i \in 1 .. stored'[s] : i \in 1 .. Len(log[s]) /\ log'[s][i] = log[s][i]
  BY WhatIsKept DEF Inv
<1>2. \A s \in Sessions : stored'[s] <= Len(log'[s])
  BY <1>1
<1>3. slot' \in Slot /\ slot'.todo = {} /\ Idle \in Drive /\ Idle.step = "none"
  <2>1. Nothing \in Occasions
    BY IdleDrive
  <2> QED BY <2>1, FreeSlot DEF Idle, Drive
<1>4. chain' \in Seq(Jobs) /\ DriveJob.op # "create"
  <2>1. DriveJob \in Jobs /\ DriveJob.op # "create"
    BY JobKinds
  <2>2. << >> \in Seq(Jobs) /\ <<DriveJob>> \in Seq(Jobs)
    BY <2>1
  <2> QED BY <2>1, <2>2
<1>5. Types'
  BY <1>1, <1>2, <1>3, <1>4 DEF Types
<1>6. Reading' /\ Telling' /\ Writing'
  BY <1>3 DEF Reading, Telling, Writing
<1>7. Pending' /\ LoopOnly' /\ Cover'
  <2>1. CASE host' = "down" /\ chain' = <<>> /\ run' = "idle"
    BY <2>1 DEF Pending, LoopOnly, Cover, DriveQueued
  <2>2. CASE host' = "up" /\ chain' = <<DriveJob>> /\ run' = "looping"
    <3>1. /\ 1 \in DOMAIN chain' /\ chain'[1] = DriveJob
          /\ \A i \in DOMAIN chain' : chain'[i] = DriveJob
      BY <2>2
    <3> QED BY <1>4, <2>2, <3>1 DEF Pending, LoopOnly, Cover, DriveQueued
  <2> QED BY <2>1, <2>2
<1>8. ReceiptsAreDurable'
  <2>1. ASSUME NEW u \in Tasks, rows[u] \notin NoRow, NEW i \in DOMAIN rows[u].receipts
        PROVE  LET r == rows[u].receipts[i]
               IN  /\ r.msg \in 1 .. stored'[SessionOf[u]]
                   /\ <<u, r.occ>> \in log'[SessionOf[u]][r.msg]
    <3>1. /\ rows[u].receipts[i].msg \in 1 .. stored[SessionOf[u]] /\ SessionOf[u] \in Sessions
          /\ <<u, rows[u].receipts[i].occ>> \in log[SessionOf[u]][rows[u].receipts[i].msg]
      BY <2>1, ScheduleConstants DEF Inv, ReceiptsAreDurable
    <3>2. stored[SessionOf[u]] \in Nat /\ stored'[SessionOf[u]] \in Nat
      BY <1>1, <3>1 DEF Types
    <3>3. rows[u].receipts[i].msg \in 1 .. stored'[SessionOf[u]]
      BY <1>1, <3>1, <3>2
    <3> QED BY <1>1, <3>1, <3>3
  <2> QED BY <2>1 DEF ReceiptsAreDurable
<1> QED BY <1>5, <1>6, <1>7, <1>8 DEF Inv

LEMMA CrashKeeps == Inv /\ (Crash \/ Restart) => Inv'
<1> SUFFICES ASSUME Inv, Crash \/ Restart PROVE Inv'
  OBVIOUS
<1>1. CASE Crash
  <2>1. /\ Keeps /\ slot' = Free /\ drive' = Idle /\ UNCHANGED <<now, rows, shifted>>
        /\ timer' = Off /\ requested' = FALSE
        /\ host' = "down" /\ chain' = <<>> /\ run' = "idle"
    BY <1>1 DEF Crash, world
  <2>2. excused' \subseteq Tasks
    BY <1>1 DEF Crash, Inv, Types, Drive
  <2> QED BY <2>1, <2>2, LifeKeeps
<1>2. CASE Restart
  <2>1. /\ Keeps /\ slot' = Free /\ drive' = Idle /\ UNCHANGED <<now, rows, shifted>>
        /\ timer' = Off /\ requested' = FALSE /\ excused' = excused
        /\ host' = "up" /\ chain' = <<DriveJob>> /\ run' = "looping"
    BY <1>2 DEF Restart
  <2>2. excused' \subseteq Tasks
    BY <2>1 DEF Inv, Types
  <2> QED BY <2>1, <2>2, LifeKeeps
<1> QED BY <1>1, <1>2

-----------------------------------------------------------------------------
(* The invariant, and what follows from it.                                *)

LEMMA StutterKeeps == Inv /\ UNCHANGED vars => Inv'
<1> SUFFICES ASSUME Inv, UNCHANGED vars PROVE Inv'
  OBVIOUS
<1>1. /\ UNCHANGED <<now, rows, log, stored, host, chain, slot, drive, run, requested, timer>>
      /\ UNCHANGED <<excused, shifted>>
  BY DEF vars, sessions, queue, runtime, world
<1> QED BY <1>1, QuietKeeps DEF Inv, Types, sessions, LoopOnly, Cover, Covered, Active, DriveQueued

LEMMA NextKeeps == Inv /\ [Next]_vars => Inv'
<1> SUFFICES ASSUME Inv, [Next]_vars PROVE Inv'
  OBVIOUS
<1>1. CASE Calls
  BY <1>1, CallsKeep
<1>2. CASE Slots
  BY <1>2, CreateKeeps, UpdateKeeps, RemovalsKeep, WriteKeeps, WriteFailsKeeps DEF Slots
<1>3. CASE Drives
  BY <1>3, ScanKeeps, RestoredKeeps, FlushedKeeps, GiveUpKeeps, CommitKeeps DEF Drives
<1>4. CASE Loop \/ Settle \/ TimerFires \/ Close \/ Tick
  BY <1>4, LoopKeeps, SettleKeeps, TimerKeeps, HostKeeps, ClockKeeps
<1>5. CASE Environment
  BY <1>5, HostKeeps, CrashKeeps, ClockKeeps DEF Environment
<1>6. CASE UNCHANGED vars
  BY <1>6, StutterKeeps
<1> QED BY <1>1, <1>2, <1>3, <1>4, <1>5, <1>6 DEF Next

LEMMA Invariant == Spec => []Inv
<1>1. Init => Inv
  BY InitInv
<1>2. Inv /\ [Next]_vars => Inv'
  BY NextKeeps
<1> QED BY <1>1, <1>2, PTL DEF Spec

\* Every variable keeps its shape; the timer is within what it can hold (runtime.ts:160).
THEOREM TypeCorrect == Spec => []TypeOK
<1>1. Inv => TypeOK
  <2> SUFFICES ASSUME Inv PROVE TypeOK
    OBVIOUS
  <2>1. Types
    BY DEF Inv
  <2>2. ASSUME NEW t \in Tasks, rows[t] \notin NoRow
        PROVE  /\ rows[t].status \in {"active", "inactive"}
               /\ rows[t].every \in Nat /\ rows[t].target \in Int
               /\ Len(rows[t].receipts) <= Records
    BY <2>1, <2>2, RowKinds DEF Types, RowSet
  <2>3. ASSUME NEW s \in Sessions PROVE stored[s] \in 0 .. Len(log[s])
    <3>1. stored[s] \in Nat /\ stored[s] <= Len(log[s]) /\ log[s] \in Seq(Messages)
      BY <2>1 DEF Types
    <3>2. Len(log[s]) \in Nat
      BY <3>1
    <3> QED BY <3>1, <3>2
  <2>4. /\ drive.step \in {"none", "resolve", "flush", "commit"}
        /\ drive.left \subseteq Tasks /\ drive.batch \subseteq Tasks
        /\ drive.failed \subseteq Tasks /\ slot.todo \subseteq Tasks
    BY <2>1 DEF Types, Drive, Slot
  <2> QED BY <2>1, <2>2, <2>3, <2>4 DEF TypeOK, Types
<1> QED BY <1>1, Invariant, PTL

\* Whatever crashes, a saved receipt of a reminder names a durable message of its session
\* with that occurrence: the row is written after the flush (runtime.ts:124-131).
THEOREM ReceiptsNameMessages == Spec => []ReceiptsAreDurable
<1>1. Inv => ReceiptsAreDurable
  BY DEF Inv
<1> QED BY <1>1, Invariant, PTL

\* An idle runtime of a Host that is up has its timer set for all it has to serve, however a
\* request, a drive's end and the finally of its run fall together (runtime.ts:44-70).
THEOREM TimerAlwaysCovers == Spec => []TimerCovers
<1>1. Inv => TimerCovers
  BY DEF Inv, Cover, Covered, TimerCovers
<1> QED BY <1>1, Invariant, PTL

-----------------------------------------------------------------------------
(* The service implements the book.                                        *)

LEMMA Reminders ==
    /\ \A r \in NoRow : Reminder(r) = r
    /\ \A r \in RowSet :
          /\ Reminder(r) = [status |-> r.status, every |-> r.every, target |-> r.target]
          /\ r.status = "active" => Reminder(r) \in Book!Active
          /\ r.status = "inactive" => Reminder(r) \in Book!Ended
BY RowKinds DEF Reminder, Book!Active, Book!Ended, RowSet

\* What is stored stays told.
LEMMA ToldGrows ==
    ASSUME Types, Types',
           \A s \in Sessions : /\ stored[s] <= stored'[s]
                               /\ \A m \in 1 .. stored[s] : log'[s][m] = log[s][m]
    PROVE  told \subseteq told' /\ told' \subseteq Tasks \X Int
<1>1. ASSUME NEW p \in told PROVE p \in told'
  <2>1. PICK s \in Sessions : \E m \in 1 .. stored[s] : p \in log[s][m]
    BY <1>1 DEF told
  <2>2. PICK m \in 1 .. stored[s] : p \in log[s][m]
    BY <2>1
  <2>3. stored[s] \in Nat /\ stored'[s] \in Nat
    BY DEF Types
  <2>4. m \in 1 .. stored'[s] /\ p \in log'[s][m]
    BY <2>2, <2>3
  <2> QED BY <2>4 DEF told
<1>2. ASSUME NEW p \in told' PROVE p \in Tasks \X Int
  <2>1. PICK s \in Sessions : \E m \in 1 .. stored'[s] : p \in log'[s][m]
    BY <1>2 DEF told
  <2>2. PICK m \in 1 .. stored'[s] : p \in log'[s][m]
    BY <2>1
  <2>3. stored'[s] \in Nat /\ stored'[s] <= Len(log'[s]) /\ log'[s] \in Seq(Messages)
    BY DEF Types
  <2>4. m \in 1 .. Len(log'[s])
    BY <2>2, <2>3
  <2>5. log'[s][m] \in Messages
    BY <2>3, <2>4
  <2> QED BY <2>2, <2>5 DEF Messages
<1> QED BY <1>1, <1>2

\* Nothing is to be written while no call is at work.
LEMMA EditFacts ==
    /\ slot.todo = {} => edit = Book!NoEdit
    /\ slot.todo # {} => edit = [of |-> slot.todo, as |-> Reminder(slot.row)]
    /\ slot' = slot => edit' = edit
    /\ slot' = Free => edit' = Book!NoEdit
<1>1. slot.todo = {} => edit = Book!NoEdit
  BY DEF edit, Book!NoEdit, Book!Unwritten, Unwritten
<1>2. slot.todo # {} => edit = [of |-> slot.todo, as |-> Reminder(slot.row)]
  BY DEF edit
<1>3. slot' = slot => edit' = edit
  BY DEF edit
<1>4. slot' = Free => edit' = Book!NoEdit
  BY DEF edit, Free, Book!NoEdit, Book!Unwritten, Unwritten
<1> QED BY <1>1, <1>2, <1>3, <1>4

LEMMA TellStep ==
    ASSUME Types, Types', rows' = rows, slot' = slot \/ slot' = Free,
           \A s \in Sessions : /\ stored[s] <= stored'[s]
                               /\ \A m \in 1 .. stored[s] : log'[s][m] = log[s][m]
    PROVE  Book!Next
<1>1. Book!TellsMore
  BY ToldGrows DEF Book!TellsMore
<1>2. book' = book
  BY DEF book
<1>3. edit' = edit \/ edit' = Book!NoEdit
  BY EditFacts
<1> QED BY <1>1, <1>2, <1>3 DEF Book!Next, Book!Tell, Book!Crash

\* Steps that leave table, sessions and the call at work alone.
LEMMA QuietTell ==
    ASSUME Types, Types', rows' = rows, log' = log, stored' = stored, slot' = slot
    PROVE  Book!Next
<1>1. \A s \in Sessions : stored[s] <= stored'[s]
  BY DEF Types
<1> QED BY <1>1, TellStep

\* A call that is to write something was accepted for what its reminders are.
LEMMA AcceptStep ==
    ASSUME Inv, Inv', slot = Free, slot'.todo # {},
           rows' = rows, log' = log, stored' = stored
    PROVE  Book!Next
<1> DEFINE row == slot'.row
           of == slot'.todo
<1>1. book' = book /\ told' = told /\ edit = Book!NoEdit
  BY FreeSlot, EditFacts DEF book, told
<1>2. edit' = [of |-> of, as |-> Reminder(row)]
  BY DEF edit
<1>3. of \in (SUBSET Tasks) \ {{}} /\ rows \in [Tasks -> Entry] /\ row \in Entry
  <2>1. rows \in [Tasks -> Entry] /\ slot' \in Slot
    BY DEF Inv, Types
  <2>2. slot'.todo \in SUBSET Tasks /\ slot'.row \in Entry
    BY <2>1 DEF Slot
  <2> QED BY <2>1, <2>2
<1>4. \A t \in Tasks : book[t] = Reminder(rows[t])
  BY DEF book
<1>5. \/ row = Deleted /\ \A t \in of : rows[t] \notin NoRow
      \/ \E t \in Tasks : of = {t} /\ row \in NewRow /\ rows[t] = Unwritten
      \/ \E t \in Tasks : /\ of = {t} /\ row \in RowSet /\ row.status = "active"
                          /\ rows[t].status = "active"
  BY DEF Inv, Writing, Creating, Updating, Active
<1> HIDE DEF row, of
<1>6. CASE row = Deleted /\ \A t \in of : rows[t] \notin NoRow
  <2>1. ASSUME NEW t \in of PROVE book[t] \in Book!Active \cup Book!Ended
    <3>1. rows[t] \in RowSet
      BY <1>3, <1>6, RowKinds
    <3> QED BY <1>3, <1>4, <3>1, Reminders DEF RowSet
  <2>2. edit'.of = of /\ edit'.as = Book!Deleted
    BY <1>2, <1>6, Reminders DEF Book!Deleted, Deleted, NoRow
  <2> QED BY <1>1, <1>2, <1>3, <2>1, <2>2 DEF Book!Next, Book!Accept
<1>7. ASSUME NEW t \in Tasks, of = {t}, row \in RowSet, row.status = "active",
             book[t] \in {Book!Unwritten} \cup Book!Active
      PROVE  Book!Next
  <2>1. Reminder(row) \in Book!Active
    BY <1>7, Reminders
  <2>2. edit'.of = {t} /\ edit'.as \in Book!Active
    BY <1>2, <1>7, <2>1
  <2> QED BY <1>1, <1>2, <1>7, <2>2 DEF Book!Next, Book!Accept
<1>8. CASE \E t \in Tasks : of = {t} /\ row \in NewRow /\ rows[t] = Unwritten
  <2>1. PICK t \in Tasks : of = {t} /\ row \in NewRow /\ rows[t] = Unwritten
    BY <1>8
  <2>2. book[t] = Book!Unwritten
    BY <1>4, <2>1, Reminders DEF Book!Unwritten, Unwritten, NoRow
  <2> QED BY <1>7, <2>1, <2>2 DEF NewRow
<1>9. CASE \E t \in Tasks : /\ of = {t} /\ row \in RowSet /\ row.status = "active"
                           /\ rows[t].status = "active"
  <2>1. PICK t \in Tasks : of = {t} /\ row \in RowSet /\ row.status = "active"
                          /\ rows[t].status = "active"
    BY <1>9
  <2>2. rows[t] \in RowSet
    BY <1>3, <2>1, ActiveRow
  <2>3. book[t] \in Book!Active
    BY <1>4, <2>1, <2>2, Reminders
  <2> QED BY <1>7, <2>1, <2>3
<1> QED BY <1>5, <1>6, <1>8, <1>9

LEMMA RowStep ==
    ASSUME Types, NEW t \in Tasks, NEW n \in Entry, rows' = [rows EXCEPT ![t] = n],
           log' = log, stored' = stored
    PROVE  /\ book' = [book EXCEPT ![t] = book'[t]] /\ told' = told
           /\ book[t] = Reminder(rows[t]) /\ book'[t] = Reminder(n)
<1>1. rows'[t] = n /\ \A u \in Tasks \ {t} : rows'[u] = rows[u]
  BY DEF Types
<1>2. told' = told
  BY DEF told
<1>3. book[t] = Reminder(rows[t]) /\ book'[t] = Reminder(n)
  BY <1>1 DEF book
<1>4. book' = [book EXCEPT ![t] = book'[t]]
  <2>1. \A u \in Tasks \ {t} : book'[u] = book[u]
    BY <1>1 DEF book
  <2>2. /\ book = [u \in Tasks |-> book[u]] /\ book' = [u \in Tasks |-> book'[u]]
    BY DEF book
  <2> DEFINE b == book
             c == book'
  <2> HIDE DEF b, c
  <2>3. c = [b EXCEPT ![t] = c[t]]
    <3>1. /\ b = [u \in Tasks |-> b[u]] /\ c = [u \in Tasks |-> c[u]]
          /\ \A u \in Tasks \ {t} : c[u] = b[u]
      BY <2>1, <2>2 DEF b, c
    <3> QED BY <3>1
  <2> QED BY <2>3 DEF b, c
<1> QED BY <1>2, <1>3, <1>4

\* A write of a call, done or failed, leaves it the others.
LEMMA WroteStep ==
    ASSUME Types, NEW t \in slot.todo, NEW changed, Wrote(t, changed) PROVE edit' = Book!Without(t)
<1> DEFINE rest == slot.todo \ {t}
<1>1. edit = [of |-> slot.todo, as |-> Reminder(slot.row)]
  BY EditFacts
<1>2. CASE rest # {}
  <2>1. slot' = [slot EXCEPT !.todo = rest, !.changed = changed]
    BY <1>2 DEF Wrote
  <2>2. slot'.todo = rest /\ slot'.row = slot.row
    BY <2>1 DEF Types, Slot
  <2>3. edit' = [of |-> rest, as |-> Reminder(slot.row)]
    BY <1>2, <2>2 DEF edit
  <2>4. edit.of # {t}
    BY <1>1, <1>2
  <2>5. [edit EXCEPT !.of = @ \ {t}] = [of |-> rest, as |-> Reminder(slot.row)]
    BY <1>1
  <2> QED BY <2>3, <2>4, <2>5 DEF Book!Without
<1>3. CASE rest = {}
  <2>1. slot' = Free /\ edit.of = {t}
    BY <1>1, <1>3 DEF Wrote
  <2> QED BY <2>1, EditFacts DEF Book!Without
<1> QED BY <1>2, <1>3

LEMMA WriteStep ==
    ASSUME Inv, NEW t \in Tasks, Write(t) PROVE Book!Next
<1>1. /\ t \in slot.todo /\ rows' = [rows EXCEPT ![t] = slot.row] /\ log' = log
      /\ stored' = stored /\ Wrote(t, TRUE)
  BY DEF Write, sessions
<1>2. Types /\ slot.row \in Entry
  BY <1>1, WrittenRow DEF Inv, Types
<1>3. /\ book' = [book EXCEPT ![t] = book'[t]] /\ told' = told
      /\ book'[t] = Reminder(slot.row)
  BY <1>1, <1>2, RowStep
<1>4. edit' = Book!Without(t)
  BY <1>1, <1>2, WroteStep
<1>5. t \in edit.of /\ edit.as = Reminder(slot.row)
  BY <1>1, EditFacts
<1>6. book' = [book EXCEPT ![t] = edit.as]
  BY <1>3, <1>5
<1> QED BY <1>3, <1>4, <1>5, <1>6 DEF Book!Next, Book!Write

LEMMA FailStep ==
    ASSUME Inv, NEW t \in Tasks, WriteFails(t) PROVE Book!Next
<1>1. /\ t \in slot.todo /\ rows' = rows /\ log' = log /\ stored' = stored
      /\ Wrote(t, slot.changed)
  BY DEF WriteFails, sessions
<1>2. book' = book /\ told' = told
  BY <1>1 DEF book, told
<1>3. edit' = Book!Without(t)
  BY <1>1, WroteStep DEF Inv
<1>4. t \in edit.of
  BY <1>1, EditFacts
<1> QED BY <1>2, <1>3, <1>4 DEF Book!Next, Book!Fail

LEMMA CommitStep ==
    ASSUME Inv, NEW t \in Tasks, Commit(t) PROVE Book!Next
<1> DEFINE r == drive.seen[t]
           n == Delivered(t)
           occ == drive.occurs[t]
           s == SessionOf[t]
<1>1. /\ drive.step = "commit" /\ t \in drive.batch /\ rows' = [rows EXCEPT ![t] = n]
      /\ log' = log /\ stored' = stored /\ slot' = slot /\ chain # <<>> /\ Head(chain) = DriveJob
  BY DEF Commit, At, DriveTurn, sessions
<1>2. r = rows[t] /\ r.status = "active" /\ r \in RowSet
  BY <1>1, WhatItRead
<1>3. /\ n \in Entry /\ n \in RowSet /\ n.every = r.every
      /\ r.every = 0 => n.status = "inactive" /\ n.target = r.target
      /\ r.every > 0 => n.status = r.status /\ n.target = occ + r.every
  BY <1>1, DeliveredRow
<1>4. /\ Rings(r, occ) /\ Len(log[s]) > 0 /\ <<t, occ>> \in log[s][Len(log[s])]
      /\ stored[s] = Len(log[s])
  BY <1>1 DEF Inv, Telling, Told
<1>5. <<t, occ>> \in told
  <2>1. s \in Sessions /\ stored[s] \in Nat /\ stored[s] > 0
    BY <1>4, ScheduleConstants DEF Inv, Types
  <2>2. stored[s] \in 1 .. stored[s] /\ <<t, occ>> \in log[s][stored[s]]
    BY <1>4, <2>1
  <2> QED BY <2>1, <2>2 DEF told
<1> HIDE DEF n, r, occ
<1>6. /\ book' = [book EXCEPT ![t] = book'[t]] /\ told' = told
      /\ book[t] = Reminder(rows[t]) /\ book'[t] = Reminder(n)
  BY <1>1, <1>3, RowStep DEF Inv
<1>7. /\ book[t] = [status |-> "active", every |-> r.every, target |-> r.target]
      /\ book[t] \in Book!Active
      /\ book'[t] = [status |-> n.status, every |-> n.every, target |-> n.target]
  BY <1>2, <1>3, <1>6, Reminders
<1>8. Book!Delivers(t)
  <2>1. slot.todo = {}
    BY <1>1 DEF Inv, Writing
  <2>2. edit = Book!NoEdit /\ edit' = edit
    BY <1>1, <2>1, EditFacts
  <2> QED BY <1>6, <1>7, <2>2 DEF Book!Delivers
<1>9. occ \in Int /\ r.every \in Nat /\ r.target \in Int
  BY <1>2, <1>4 DEF Rings, RowSet
<1>10. CASE r.every = 0
  <2>1. occ = r.target
    BY <1>4, <1>10 DEF Rings
  <2>2. book'[t] = [book[t] EXCEPT !.status = "inactive"]
    BY <1>3, <1>7, <1>10
  <2>3. book[t].every = 0 /\ <<t, book[t].target>> \in told
    BY <1>5, <1>7, <1>10, <2>1
  <2> QED BY <1>8, <2>2, <2>3 DEF Book!Next, Book!End
<1>11. CASE r.every > 0
  <2>1. \E k \in 0 .. occ - r.target : occ = r.target + k * r.every
    BY <1>4, <1>11 DEF Rings
  <2>2. /\ book[t].every = r.every /\ book[t].target = r.target
        /\ book'[t].target = occ + r.every
    BY <1>3, <1>7, <1>11
  <2> DEFINE last == book'[t].target - book[t].every
  <2>3. last = occ
    BY <1>9, <2>2
  <2>4. book'[t] = [book[t] EXCEPT !.target = occ + r.every]
    BY <1>2, <1>3, <1>7, <1>11
  <2> HIDE DEF last
  <2>5. /\ \E k \in 0 .. last - book[t].target : last = book[t].target + k * book[t].every
        /\ <<t, last>> \in told /\ book[t].every > 0
        /\ book'[t] = [book[t] EXCEPT !.target = last + book[t].every]
    BY <1>5, <1>11, <2>1, <2>2, <2>3, <2>4
  <2> QED BY <1>8, <2>5 DEF Book!Next, Book!Advance, last
<1> QED BY <1>9, <1>10, <1>11

LEMMA BookInit == Init => Book!Init
<1> SUFFICES ASSUME Init PROVE Book!Init
  OBVIOUS
<1>1. ASSUME NEW t \in Tasks PROVE book[t] \in {Book!Unwritten} \cup Book!Active
  <2>1. CASE rows[t] = Unwritten
    BY <2>1, Reminders DEF book, Book!Unwritten, Unwritten, NoRow
  <2>2. CASE \E e \in Intervals : rows[t] = Row(e, 1)
    <3>1. rows[t] \in RowSet /\ rows[t].status = "active"
      BY <2>2, ScheduleConstants DEF Row, RowSet
    <3> QED BY <3>1, Reminders DEF book
  <2> QED BY <2>1, <2>2 DEF Init
<1>2. told = {}
  BY DEF Init, told
<1>3. book = [t \in Tasks |-> book[t]]
  BY DEF book
<1>4. edit = Book!NoEdit
  BY FreeSlot, EditFacts DEF Init
<1> QED BY <1>1, <1>2, <1>3, <1>4 DEF Book!Init

\* Flushes, and what a session stores on its own account.
LEMMA StoreStep ==
    ASSUME Inv, Types', Flushed \/ Keeps, rows' = rows, slot' = slot \/ slot' = Free
    PROVE  Book!Next
<1>1. CASE Flushed
  <2>1. /\ drive.step = "flush" /\ log' = log
        /\ stored' = [stored EXCEPT ![Receiver] = Len(log[Receiver])]
    BY <1>1 DEF Flushed, At
  <2>2. Receiver \in Sessions /\ Types
    BY <2>1, OneReceiver DEF Inv
  <2>3. \A s \in Sessions : stored[s] <= stored'[s]
    BY <2>1, <2>2 DEF Types
  <2> QED BY <2>1, <2>2, <2>3, TellStep
<1>2. CASE Keeps
  <2>1. \A s \in Sessions :
            /\ stored[s] <= stored'[s] /\ stored[s] \in Nat /\ stored'[s] \in Nat
            /\ \A i \in 1 .. stored'[s] : log'[s][i] = log[s][i]
    BY <1>2, WhatIsKept DEF Inv, Types
  <2>2. \A s \in Sessions : /\ stored[s] <= stored'[s]
                            /\ \A m \in 1 .. stored[s] : log'[s][m] = log[s][m]
    BY <2>1
  <2> QED BY <2>2, TellStep DEF Inv
<1> QED BY <1>1, <1>2

LEMMA RestoredStep ==
    ASSUME Inv, Types', Restored PROVE Book!Next
<1> DEFINE batch == {<<t, Occurrence(t)>> : t \in {u \in drive.batch : drive.seen[u].target <= now}}
<1>1. /\ rows' = rows /\ stored' = stored /\ slot' = slot
      /\ log' = log \/ log' = [log EXCEPT ![Receiver] = Append(@, batch)]
  BY DEF Restored
<1> HIDE DEF batch
<1>2. ASSUME NEW s \in Sessions
      PROVE  stored[s] <= stored'[s] /\ \A m \in 1 .. stored[s] : log'[s][m] = log[s][m]
  <2>1. stored[s] \in Nat /\ stored[s] <= Len(log[s]) /\ log[s] \in Seq(Messages)
        /\ log \in [Sessions -> Seq(Messages)]
    BY DEF Inv, Types
  <2>2. log'[s] = log[s] \/ log'[s] = Append(log[s], batch)
    BY <1>1, <2>1
  <2>3. \A m \in 1 .. Len(log[s]) : log'[s][m] = log[s][m]
    BY <2>1, <2>2
  <2>4. Len(log[s]) \in Nat
    BY <2>1
  <2> QED BY <1>1, <2>1, <2>3, <2>4
<1> QED BY <1>1, <1>2, TellStep DEF Inv

LEMMA BookNext == Inv /\ [Next]_vars => [Book!Next]_(Book!vars)
<1> SUFFICES ASSUME Inv, [Next]_vars PROVE [Book!Next]_(Book!vars)
  OBVIOUS
<1>0. Inv' /\ Types /\ Types'
  BY NextKeeps DEF Inv
<1> DEFINE Quietly == rows' = rows /\ log' = log /\ stored' = stored /\ slot' = slot
<1>1. Quietly => Book!Next
  BY <1>0, QuietTell
<1>2. CASE Calls
  <2>1. Quietly
    BY <1>2 DEF Calls, AskCreate, AskUpdate, AskDelete, AskClear, AskStop, Ask, sessions
  <2> QED BY <1>1, <2>1
<1>3. CASE Slots
  <2>1. CASE \E t \in Tasks : Write(t)
    BY <2>1, WriteStep
  <2>2. CASE \E t \in Tasks : WriteFails(t)
    BY <2>2, FailStep
  <2>3. CASE Refuse \/ Create \/ Update \/ Delete \/ Clear \/ StopSession
    <3> DEFINE Accepts == /\ slot = Free /\ slot'.todo # {}
                          /\ rows' = rows /\ log' = log /\ stored' = stored
    <3>1. ASSUME NEW todo, NEW row, CallTurn, Takes(todo, row) PROVE Quietly \/ Accepts
      BY <3>1 DEF Takes, Answer, CallTurn, sessions, queue
    <3>2. Refuse => Quietly
      BY DEF Refuse, Answer, sessions
    <3>3. Quietly \/ Accepts
      BY <2>3, <3>1, <3>2 DEF Create, Update, Delete, Clear, StopSession
    <3> QED BY <1>0, <1>1, <3>3, AcceptStep
  <2> QED BY <1>3, <2>1, <2>2, <2>3 DEF Slots
<1>4. CASE Drives
  <2>1. CASE Scan \/ GiveUp
    <3>1. Quietly
      BY <2>1 DEF Scan, GiveUp, sessions
    <3> QED BY <1>1, <3>1
  <2>2. CASE Restored
    BY <1>0, <2>2, RestoredStep
  <2>3. CASE Flushed
    <3>1. rows' = rows /\ slot' = slot
      BY <2>3 DEF Flushed, queue
    <3> QED BY <1>0, <2>3, <3>1, StoreStep
  <2>4. CASE \E t \in Tasks : Commit(t)
    BY <2>4, CommitStep
  <2> QED BY <1>4, <2>1, <2>2, <2>3, <2>4 DEF Drives
<1>5. CASE Loop \/ Settle \/ TimerFires \/ Close \/ Tick \/ Unload \/ Stop \/ Shift
  <2>1. Quietly
    BY <1>5 DEF Loop, Settle, TimerFires, Close, Tick, Unload, Stop, Shift, sessions, queue
  <2> QED BY <1>1, <2>1
<1>6. CASE Crash \/ Restart
  <2>1. Keeps /\ rows' = rows /\ slot' = Free
    BY <1>6 DEF Crash, Restart
  <2> QED BY <1>0, <2>1, StoreStep
<1>7. CASE UNCHANGED vars
  <2>1. Quietly
    BY <1>7 DEF vars, sessions, queue
  <2> QED BY <1>1, <2>1
<1> QED BY <1>2, <1>3, <1>4, <1>5, <1>6, <1>7 DEF Next, Environment

\* A delivery never undoes an edit or a removal, of a reminder that rings once or of one that
\* recurs, nor falls between an edit's check and its writes; and it leaves an occurrence behind
\* only when its session durably holds that one or a later one of the reminder's series
\* (runtime.ts:122-142, index.ts:500-505).
THEOREM ImplementsBook == Spec => KeepsBook
<1>1. Init => Book!Init
  BY BookInit
<1>2. Inv /\ [Next]_vars => [Book!Next]_(Book!vars)
  BY BookNext
<1> QED BY <1>1, <1>2, Invariant, PTL DEF Spec, KeepsBook, Book!Spec
=============================================================================
