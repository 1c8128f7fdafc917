------------------------ MODULE ScheduleRepeatProofs ------------------------
(***************************************************************************)
(* Proof that a session is told an occurrence of a reminder again, or an   *)
(* older one, only where it is documented.                                 *)
(*                                                                         *)
(* The reason is the target of the row: it runs ahead of all the session   *)
(* was told, but for the message whose delivery is being recorded. What    *)
(* cuts a delivery short, or sets a target back, excuses the reminder.     *)
(***************************************************************************)
EXTENDS ScheduleProofs

-----------------------------------------------------------------------------
(* The inductive invariant, on top of the one of the service.              *)

\* A service that is gone has nothing under way.
Gone == host \in {"closed", "down"} => chain = <<>> /\ run # "looping"

\* A delivery is told, and not yet recorded.
Delivering(t) == drive.step \in {"flush", "commit"} /\ t \in drive.batch

\* Whatever the session was told of an active reminder is behind its target, or is the
\* occurrence that is being recorded.
Ahead ==
    \A t \in Tasks : Active(t) /\ t \notin excused =>
        \A m \in DOMAIN log[SessionOf[t]] : \A p \in log[SessionOf[t]][m] : p[1] = t =>
            p[2] < rows[t].target \/ (Delivering(t) /\ p[2] = drive.occurs[t])

Once == Gone /\ Ahead /\ RepeatsAreExcused

LEMMA InitOnce == Init => Once
<1> SUFFICES ASSUME Init PROVE Once
  OBVIOUS
<1>1. \A s \in Sessions : log[s] = <<>>
  BY DEF Init
<1>2. \A t \in Tasks : SessionOf[t] \in Sessions
  BY ScheduleConstants
<1> QED BY <1>1, <1>2 DEF Once, Gone, Ahead, RepeatsAreExcused, Init

-----------------------------------------------------------------------------
(* The Host.                                                               *)

LEMMA GoneStays == Inv /\ Gone /\ [Next]_vars => Gone'
<1> SUFFICES ASSUME Inv, Gone, [Next]_vars PROVE Gone'
  OBVIOUS
<1>1. CASE Calls
  BY <1>1 DEF Calls, AskCreate, AskUpdate, AskDelete, AskClear, AskStop, Ask, Gone
<1>2. CASE Slots
  <2>1. host' = host
    BY <1>2 DEF Slots, Refuse, Create, Update, Delete, Clear, StopSession, Takes, Answer,
                Write, WriteFails
  <2>2. chain # <<>>
    <3>1. ASSUME NEW t \in slot.todo PROVE chain # <<>>
      BY DEF Inv, Writing
    <3> QED BY <1>2, <3>1 DEF Slots, Refuse, Create, Update, Delete, Clear, StopSession,
                              CallTurn, Write, WriteFails
  <2> QED BY <2>1, <2>2 DEF Gone
<1>3. CASE Drives
  BY <1>3 DEF Drives, Scan, Restored, Flushed, GiveUp, Commit, At, DriveTurn, Gone
<1>4. CASE Loop \/ Settle \/ TimerFires
  BY <1>4 DEF Loop, Driven, Settle, Launch, TimerFires, RequestDrive, runtime, Gone
<1>5. CASE Close \/ Tick \/ Environment
  BY <1>5 DEF Close, Tick, Environment, Unload, Stop, Crash, Restart, Shift, queue, runtime, Gone
<1>6. CASE UNCHANGED vars
  BY <1>6 DEF vars, queue, runtime, Gone
<1> QED BY <1>1, <1>2, <1>3, <1>4, <1>5, <1>6 DEF Next

-----------------------------------------------------------------------------
(* Steps that tell nothing new.                                            *)

\* Sessions are told nothing new.
Quieter ==
    \A s \in Sessions : \A m \in DOMAIN log'[s] : m \in DOMAIN log[s] /\ log'[s][m] = log[s][m]

\* What is known of t stays.
Stays(t) ==
    /\ Active(t) /\ rows'[t].target = rows[t].target
    /\ Delivering(t) => Delivering(t)' /\ drive'.occurs[t] = drive.occurs[t]

LEMMA RepeatsStay ==
    ASSUME RepeatsAreExcused, Quieter, excused \subseteq excused'
    PROVE  RepeatsAreExcused'
<1> SUFFICES ASSUME NEW s \in Sessions, NEW i \in DOMAIN log'[s], NEW j \in DOMAIN log'[s], i < j,
                    NEW p \in log'[s][i], NEW q \in log'[s][j], p[1] = q[1], p[2] >= q[2]
             PROVE  p[1] \in excused'
  BY DEF RepeatsAreExcused
<1>1. i \in DOMAIN log[s] /\ j \in DOMAIN log[s] /\ p \in log[s][i] /\ q \in log[s][j]
  BY DEF Quieter
<1> QED BY <1>1 DEF RepeatsAreExcused

\* So a step that leaves the targets keeps them ahead.
LEMMA AheadStays ==
    ASSUME Ahead, RepeatsAreExcused, Quieter, excused \subseteq excused',
           \A t \in Tasks : Active(t)' /\ t \notin excused' => Stays(t)
    PROVE  Ahead' /\ RepeatsAreExcused'
<1>1. ASSUME NEW t \in Tasks, Active(t)', t \notin excused',
             NEW m \in DOMAIN log'[SessionOf[t]], NEW p \in log'[SessionOf[t]][m], p[1] = t
      PROVE  p[2] < rows'[t].target \/ (Delivering(t)' /\ p[2] = drive'.occurs[t])
  <2>1. SessionOf[t] \in Sessions
    BY ScheduleConstants
  <2>2. m \in DOMAIN log[SessionOf[t]] /\ p \in log[SessionOf[t]][m]
    BY <2>1 DEF Quieter
  <2>3. Stays(t) /\ t \notin excused
    BY <1>1
  <2>4. p[2] < rows[t].target \/ (Delivering(t) /\ p[2] = drive.occurs[t])
    BY <1>1, <2>2, <2>3 DEF Ahead, Stays
  <2> QED BY <2>3, <2>4 DEF Stays
<1> QED BY <1>1, RepeatsStay DEF Ahead

LEMMA SameLog == ASSUME log' = log PROVE Quieter
BY DEF Quieter

\* Most steps change neither the table nor the drive.
LEMMA OthersKeep ==
    ASSUME Ahead, RepeatsAreExcused, UNCHANGED <<rows, log, drive, excused>>
    PROVE  Ahead' /\ RepeatsAreExcused'
<1>1. \A t \in Tasks : Active(t)' => Stays(t)
  BY DEF Stays, Active, Delivering
<1> QED BY <1>1, SameLog, AheadStays

\* On to the next group, or to the end of the drive: nothing is being recorded.
LEMMA OnwardRecords ==
    ASSUME NEW table, NEW seen, NEW left, NEW failed, Onward(table, seen, left, failed)
    PROVE  drive'.step \in {"none", "resolve"}
BY DEF Onward, Idle

-----------------------------------------------------------------------------
(* Management calls.                                                       *)

\* A write moves a target; set back to an instant told, it excuses the reminder.
LEMMA WriteOnce ==
    ASSUME Inv, Ahead, RepeatsAreExcused, NEW t \in Tasks, Write(t), Inv'
    PROVE  Ahead' /\ RepeatsAreExcused'
<1>1. /\ t \in slot.todo /\ rows' = [rows EXCEPT ![t] = slot.row]
      /\ excused' = IF SetsBack(t) THEN excused \cup {t} ELSE excused
      /\ UNCHANGED <<log, drive>>
  BY DEF Write, sessions
<1>2. drive.step = "none" /\ rows' \in [Tasks -> Entry] /\ log \in [Sessions -> Seq(Messages)]
  BY <1>1, WrittenRow DEF Inv, Types
<1>3. rows'[t] = slot.row /\ \A u \in Tasks \ {t} : rows'[u] = rows[u]
  BY <1>1 DEF Inv, Types
<1>4. excused \subseteq excused' /\ Quieter
  BY <1>1, SameLog
<1>5. ASSUME Active(t)', t \notin excused',
             NEW m \in DOMAIN log[SessionOf[t]], NEW p \in log[SessionOf[t]][m], p[1] = t
      PROVE  p[2] < rows'[t].target
  <2>1. SessionOf[t] \in Sessions
    BY ScheduleConstants
  <2>2. p \in Tasks \X Int
    BY <1>2, <2>1 DEF Messages
  <2>3. rows'[t].target \in Int
    BY <1>2, <1>5, ActiveRow DEF Active
  <2>4. p[2] \in Sent(t)
    BY <1>5 DEF Sent
  <2>5. slot.row.status = "active" /\ ~SetsBack(t)
    BY <1>1, <1>3, <1>5 DEF Active
  <2>6. ~(rows'[t].target <= p[2])
    BY <1>3, <2>4, <2>5 DEF SetsBack
  <2> QED BY <2>2, <2>3, <2>6
<1>6. ASSUME NEW u \in Tasks \ {t}, Active(u)', u \notin excused',
             NEW m \in DOMAIN log[SessionOf[u]], NEW p \in log[SessionOf[u]][m], p[1] = u
      PROVE  p[2] < rows'[u].target
  BY <1>2, <1>3, <1>4, <1>6 DEF Ahead, Active, Delivering
<1>7. ASSUME NEW u \in Tasks, Active(u)', u \notin excused',
             NEW m \in DOMAIN log'[SessionOf[u]], NEW p \in log'[SessionOf[u]][m], p[1] = u
      PROVE  p[2] < rows'[u].target
  BY <1>1, <1>5, <1>6, <1>7
<1> QED BY <1>4, <1>7, RepeatsStay DEF Ahead

LEMMA SlotsOnce ==
    ASSUME Inv, Ahead, RepeatsAreExcused, Slots, Inv' PROVE Ahead' /\ RepeatsAreExcused'
<1>1. CASE \E t \in Tasks : Write(t)
  BY <1>1, WriteOnce
<1>2. CASE ~ \E t \in Tasks : Write(t)
  <2>1. UNCHANGED <<rows, log, drive, excused>>
    BY <1>2 DEF Slots, Refuse, Create, Update, Delete, Clear, StopSession, Takes, Answer,
                WriteFails, sessions
  <2> QED BY <2>1, OthersKeep
<1> QED BY <1>1, <1>2

-----------------------------------------------------------------------------
(* The drive.                                                              *)

\* An occurrence that rings is not before the target.
LEMMA RingsLater ==
    ASSUME NEW r \in RowSet, NEW occ, Rings(r, occ)
    PROVE  occ \in Int /\ r.target \in Int /\ r.target <= occ
BY DEF Rings, RowSet

\* The message of a restoration tells each member an occurrence the session did not have.
LEMMA RestoredOnce ==
    ASSUME Inv, Ahead, RepeatsAreExcused, Restored PROVE Ahead' /\ RepeatsAreExcused'
<1> DEFINE admitted == {t \in drive.batch : drive.seen[t].target <= now}
           news == {<<t, Occurrence(t)>> : t \in admitted}
<1>1. drive.step = "resolve" /\ UNCHANGED <<rows, excused>>
  BY DEF Restored, At
<1>2. /\ \A t \in drive.batch : /\ t \in Tasks /\ SessionOf[t] = Receiver
                                /\ drive.seen[t] = rows[t] /\ drive.seen[t] \in RowSet
                                /\ Active(t)
      /\ Receiver \in Sessions
  BY <1>1, OneReceiver, WhatItRead DEF Active
<1>3. now \in Int /\ log \in [Sessions -> Seq(Messages)]
  BY ScheduleConstants DEF Inv, Types
<1>4. CASE host = "stopping" \/ admitted = {}
  <2>1. drive'.step \in {"none", "resolve"} /\ log' = log
    BY <1>4, OnwardRecords DEF Restored
  <2>2. \A t \in Tasks : Active(t)' => Stays(t)
    BY <1>1, <2>1 DEF Stays, Active, Delivering
  <2> QED BY <1>1, <2>1, <2>2, SameLog, AheadStays
<1>5. CASE ~(host = "stopping" \/ admitted = {})
  <2>1. /\ drive' = [drive EXCEPT !.step = "flush", !.batch = admitted,
                                  !.occurs = [t \in admitted |-> Occurrence(t)]]
        /\ log' = [log EXCEPT ![Receiver] = Append(@, news)]
    BY <1>5 DEF Restored
  <2>2. /\ drive'.step = "flush" /\ drive'.batch = admitted
        /\ \A t \in admitted : drive'.occurs[t] = Occurrence(t)
    BY <1>1, <2>1 DEF Inv, Types, Drive
  <2>3. \A t \in admitted : /\ Occurrence(t) \in Int /\ rows[t].target \in Int
                            /\ rows[t].target <= Occurrence(t) /\ t \in drive.batch
    BY <1>2, <1>3, OccurrenceRings, RingsLater
  <2>4. ASSUME NEW p \in news
        PROVE  p[1] \in admitted /\ p[2] = Occurrence(p[1])
    OBVIOUS
  <2> HIDE DEF news, admitted
  <2>5. ASSUME NEW s \in Sessions, NEW m \in DOMAIN log'[s]
        PROVE  \/ m \in DOMAIN log[s] /\ log'[s][m] = log[s][m]
               \/ s = Receiver /\ m = Len(log[s]) + 1 /\ log'[s][m] = news
    <3>1. log[s] \in Seq(Messages)
      BY <1>3
    <3>2. log'[s] = log[s] \/ (s = Receiver /\ log'[s] = Append(log[s], news))
      BY <1>3, <2>1
    <3> QED BY <3>1, <3>2
  <2>6. ASSUME NEW t \in Tasks, Active(t), t \notin excused,
               NEW m \in DOMAIN log[SessionOf[t]], NEW p \in log[SessionOf[t]][m], p[1] = t
        PROVE  p[2] < rows[t].target /\ p[2] \in Int
    <3>1. SessionOf[t] \in Sessions
      BY ScheduleConstants
    <3>2. p \in Tasks \X Int
      BY <1>3, <3>1 DEF Messages
    <3> QED BY <1>1, <2>6, <3>2 DEF Ahead, Delivering
  <2>7. Ahead'
    <3>1. ASSUME NEW t \in Tasks, Active(t), t \notin excused,
                 NEW m \in DOMAIN log'[SessionOf[t]], NEW p \in log'[SessionOf[t]][m], p[1] = t
          PROVE  p[2] < rows[t].target \/ (Delivering(t)' /\ p[2] = drive'.occurs[t])
      <4>1. SessionOf[t] \in Sessions
        BY ScheduleConstants
      <4>2. CASE m \in DOMAIN log[SessionOf[t]] /\ p \in log[SessionOf[t]][m]
        BY <2>6, <3>1, <4>2
      <4>3. CASE p \in news
        BY <2>2, <2>4, <3>1, <4>3 DEF Delivering
      <4> QED BY <2>5, <4>1, <4>2, <4>3
    <3> QED BY <1>1, <3>1 DEF Ahead, Active
  <2>8. RepeatsAreExcused'
    <3> SUFFICES ASSUME NEW s \in Sessions, NEW i \in DOMAIN log'[s], NEW j \in DOMAIN log'[s],
                        i < j, NEW p \in log'[s][i], NEW q \in log'[s][j],
                        p[1] = q[1], p[2] >= q[2]
                 PROVE  p[1] \in excused
      BY <1>1 DEF RepeatsAreExcused
    <3>1. i \in DOMAIN log[s] /\ p \in log[s][i]
      <4>1. DOMAIN log'[s] = 1 .. Len(log'[s]) /\ Len(log[s]) \in Nat
            /\ DOMAIN log[s] = 1 .. Len(log[s]) /\ Len(log'[s]) <= Len(log[s]) + 1
            /\ Len(log'[s]) \in Nat
        <5>1. log[s] \in Seq(Messages)
          BY <1>3
        <5>2. log'[s] = log[s] \/ log'[s] = Append(log[s], news)
          BY <1>3, <2>1
        <5> QED BY <5>1, <5>2
      <4>2. i # Len(log[s]) + 1
        BY <4>1
      <4> QED BY <2>5, <4>2
    <3>2. CASE j \in DOMAIN log[s] /\ q \in log[s][j]
      BY <3>1, <3>2 DEF RepeatsAreExcused
    <3>3. CASE s = Receiver /\ q \in news
      <4>1. /\ q[1] \in admitted /\ q[2] = Occurrence(q[1])
            /\ q[1] \in Tasks /\ SessionOf[q[1]] = s /\ Active(q[1])
        BY <1>2, <2>3, <2>4, <3>3
      <4>2. ASSUME q[1] \notin excused PROVE FALSE
        <5>1. p[2] < rows[q[1]].target /\ p[2] \in Int
          BY <2>6, <3>1, <4>1, <4>2
        <5> QED BY <2>3, <4>1, <5>1
      <4> QED BY <4>2
    <3> QED BY <2>5, <3>2, <3>3
  <2> QED BY <2>7, <2>8
<1> QED BY <1>4, <1>5

\* A recorded delivery moves the target past all the session was told, or ends the reminder.
LEMMA CommitOnce ==
    ASSUME Inv, Ahead, RepeatsAreExcused, NEW t \in Tasks, Commit(t)
    PROVE  Ahead' /\ RepeatsAreExcused'
<1> DEFINE r == drive.seen[t]
           occ == drive.occurs[t]
<1>1. /\ drive.step = "commit" /\ t \in drive.batch
      /\ rows' = [rows EXCEPT ![t] = Delivered(t)] /\ UNCHANGED <<log, excused>>
  BY DEF Commit, At, sessions
<1>2. /\ rows'[t] = Delivered(t) /\ \A u \in Tasks \ {t} : rows'[u] = rows[u]
      /\ log \in [Sessions -> Seq(Messages)]
  BY <1>1 DEF Inv, Types
<1>3. /\ r \in RowSet /\ r = rows[t] /\ Active(t) /\ Rings(r, occ)
  BY <1>1, WhatItRead DEF Inv, Telling, Told, Active
<1>4. occ \in Int /\ r.target \in Int /\ r.target <= occ /\ r.every \in Nat
  BY <1>3, RingsLater DEF RowSet
<1>5. /\ r.every = 0 => rows'[t].status = "inactive"
      /\ r.every > 0 => rows'[t].target = occ + r.every
  BY <1>1, <1>2, DeliveredRow
<1> HIDE DEF r, occ
<1>6. ASSUME Active(t)', t \notin excused,
             NEW m \in DOMAIN log[SessionOf[t]], NEW p \in log[SessionOf[t]][m], p[1] = t
      PROVE  p[2] < rows'[t].target
  <2>1. SessionOf[t] \in Sessions
    BY ScheduleConstants
  <2>2. p[2] \in Int
    BY <1>2, <2>1 DEF Messages
  <2>3. p[2] < r.target \/ p[2] = occ
    BY <1>3, <1>6 DEF Ahead, occ
  <2>4. r.every # 0
    BY <1>5, <1>6 DEF Active
  <2>5. rows'[t].target = occ + r.every /\ r.every > 0
    BY <1>4, <1>5, <2>4
  <2> QED BY <1>4, <2>2, <2>3, <2>5
<1>7. \A u \in drive.batch \ {t} : Delivering(u)' /\ drive'.occurs[u] = drive.occurs[u]
  <2>1. CASE drive.batch = {t}
    BY <2>1
  <2>2. CASE drive.batch # {t}
    <3>1. drive' = [drive EXCEPT !.batch = drive.batch \ {t}] /\ drive \in Drive
      BY <2>2 DEF Commit, Inv, Types
    <3>2. /\ drive'.step = "commit" /\ drive'.batch = drive.batch \ {t}
          /\ drive'.occurs = drive.occurs
      BY <1>1, <3>1 DEF Drive
    <3> QED BY <3>2 DEF Delivering
  <2> QED BY <2>1, <2>2
<1>8. ASSUME NEW u \in Tasks \ {t}, Active(u)', u \notin excused,
             NEW m \in DOMAIN log[SessionOf[u]], NEW p \in log[SessionOf[u]][m], p[1] = u
      PROVE  p[2] < rows'[u].target \/ (Delivering(u)' /\ p[2] = drive'.occurs[u])
  <2>1. rows'[u] = rows[u] /\ Active(u)
    BY <1>2, <1>8 DEF Active
  <2>2. p[2] < rows[u].target \/ (Delivering(u) /\ p[2] = drive.occurs[u])
    BY <1>8, <2>1 DEF Ahead
  <2> QED BY <1>7, <2>1, <2>2 DEF Delivering
<1>9. ASSUME NEW u \in Tasks, Active(u)', u \notin excused',
             NEW m \in DOMAIN log'[SessionOf[u]], NEW p \in log'[SessionOf[u]][m], p[1] = u
      PROVE  p[2] < rows'[u].target \/ (Delivering(u)' /\ p[2] = drive'.occurs[u])
  BY <1>1, <1>6, <1>8, <1>9
<1>10. Ahead'
  BY <1>9 DEF Ahead
<1> QED BY <1>1, <1>10, SameLog, RepeatsStay

\* Giving up a message that was told excuses those it told.
LEMMA GiveUpOnce ==
    ASSUME Ahead, RepeatsAreExcused, GiveUp PROVE Ahead' /\ RepeatsAreExcused'
<1>1. /\ drive.step \in {"resolve", "flush", "commit"} /\ UNCHANGED <<rows, log>>
      /\ excused' = IF drive.step = "resolve" THEN excused ELSE excused \cup drive.batch
  BY DEF GiveUp, At, sessions
<1>2. \A t \in Tasks : Active(t)' /\ t \notin excused' => Stays(t)
  BY <1>1 DEF Stays, Active, Delivering
<1> QED BY <1>1, <1>2, SameLog, AheadStays

LEMMA ScanOnce ==
    ASSUME Ahead, RepeatsAreExcused, Scan PROVE Ahead' /\ RepeatsAreExcused'
<1>1. drive.step = "none" /\ UNCHANGED <<rows, log, excused>>
  BY DEF Scan, At, sessions
<1>2. \A t \in Tasks : Active(t)' => Stays(t)
  BY <1>1 DEF Stays, Active, Delivering
<1> QED BY <1>1, <1>2, SameLog, AheadStays

LEMMA FlushedOnce ==
    ASSUME Inv, Ahead, RepeatsAreExcused, Flushed PROVE Ahead' /\ RepeatsAreExcused'
<1>1. drive' = [drive EXCEPT !.step = "commit"] /\ UNCHANGED <<rows, log, excused>>
  BY DEF Flushed
<1>2. /\ drive'.step = "commit" /\ drive'.batch = drive.batch /\ drive'.occurs = drive.occurs
  BY <1>1 DEF Inv, Types, Drive
<1>3. \A t \in Tasks : Active(t)' => Stays(t)
  BY <1>1, <1>2 DEF Stays, Active, Delivering
<1> QED BY <1>1, <1>3, SameLog, AheadStays

-----------------------------------------------------------------------------
(* Another life of the Host.                                               *)

\* A crash excuses what was being recorded; a session never remembers more than it was told.
LEMMA LifeOnce ==
    ASSUME Inv, Gone, Ahead, RepeatsAreExcused, Crash \/ Restart
    PROVE  Ahead' /\ RepeatsAreExcused'
<1>1. Keeps /\ rows' = rows
  BY DEF Crash, Restart
<1>2. Quieter
  <2> SUFFICES ASSUME NEW s \in Sessions, NEW m \in DOMAIN log'[s]
               PROVE  m \in DOMAIN log[s] /\ log'[s][m] = log[s][m]
    BY DEF Quieter
  <2>1. /\ log' \in [Sessions -> Seq(Messages)] /\ Len(log'[s]) = stored'[s]
        /\ \A i \in 1 .. stored'[s] : i \in 1 .. Len(log[s]) /\ log'[s][i] = log[s][i]
    BY <1>1, WhatIsKept DEF Inv
  <2>2. log[s] \in Seq(Messages) /\ log'[s] \in Seq(Messages)
    BY <2>1 DEF Inv, Types
  <2>3. m \in 1 .. stored'[s] /\ DOMAIN log[s] = 1 .. Len(log[s])
    BY <2>1, <2>2
  <2> QED BY <2>1, <2>3
<1>3. CASE Crash
  <2>1. excused' = IF drive.step \in {"flush", "commit"} THEN excused \cup drive.batch
                                                          ELSE excused
    BY <1>3 DEF Crash
  <2>2. \A t \in Tasks : Active(t)' /\ t \notin excused' => Stays(t)
    BY <1>1, <2>1 DEF Stays, Active, Delivering
  <2> QED BY <1>2, <2>1, <2>2, AheadStays
<1>4. CASE Restart
  <2>1. host \in {"closed", "down"} /\ excused' = excused
    BY <1>4 DEF Restart
  <2>2. drive.step = "none"
    BY <2>1 DEF Inv, Reading, Gone
  <2>3. \A t \in Tasks : Active(t)' => Stays(t)
    BY <1>1, <2>2 DEF Stays, Active, Delivering
  <2> QED BY <1>2, <2>1, <2>3, AheadStays
<1> QED BY <1>3, <1>4

-----------------------------------------------------------------------------
(* The invariant, and what follows from it.                                *)

LEMMA NextOnce == Inv /\ Once /\ [Next]_vars => Once'
<1> SUFFICES ASSUME Inv, Once, [Next]_vars PROVE Once'
  OBVIOUS
<1>1. Gone /\ Ahead /\ RepeatsAreExcused /\ Gone' /\ Inv'
  BY GoneStays, NextKeeps DEF Once
<1>2. CASE Slots
  BY <1>1, <1>2, SlotsOnce DEF Once
<1>3. CASE Drives
  BY <1>1, <1>3, ScanOnce, RestoredOnce, FlushedOnce, GiveUpOnce, CommitOnce DEF Drives, Once
<1>4. CASE Crash \/ Restart
  BY <1>1, <1>4, LifeOnce DEF Once
<1>5. CASE Calls
  <2>1. UNCHANGED <<rows, log, drive, excused>>
    BY <1>5 DEF Calls, AskCreate, AskUpdate, AskDelete, AskClear, AskStop, Ask, sessions
  <2> QED BY <1>1, <2>1, OthersKeep DEF Once
<1>6. CASE Loop \/ Settle \/ TimerFires \/ Close \/ Tick \/ Unload \/ Stop \/ Shift
  <2>1. UNCHANGED <<rows, log, drive, excused>>
    BY <1>6 DEF Loop, Settle, TimerFires, Close, Tick, Unload, Stop, Shift, sessions
  <2> QED BY <1>1, <2>1, OthersKeep DEF Once
<1>7. CASE UNCHANGED vars
  <2>1. UNCHANGED <<rows, log, drive, excused>>
    BY <1>7 DEF vars, sessions
  <2> QED BY <1>1, <2>1, OthersKeep DEF Once
<1> QED BY <1>2, <1>3, <1>4, <1>5, <1>6, <1>7 DEF Next, Environment

\* At least once, and more only where it is documented: whatever calls, crashes, faults and
\* adjustments of the clock come in between, a session is told an occurrence again, or an
\* older one, only after a delivery was cut short or an update set the reminder back
\* (runtime.ts:106-138).
THEOREM RepeatsAlwaysExcused == Spec => []RepeatsAreExcused
<1>1. Init => Inv /\ Once
  BY InitInv, InitOnce
<1>2. Inv /\ Once /\ [Next]_vars => (Inv /\ Once)'
  BY NextKeeps, NextOnce
<1>3. Once => RepeatsAreExcused
  BY DEF Once
<1> QED BY <1>1, <1>2, <1>3, PTL DEF Spec
=============================================================================
