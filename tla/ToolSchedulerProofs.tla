------------------------- MODULE ToolSchedulerProofs -------------------------
(***************************************************************************)
(* The scheduler's properties for every number of calls and every pool     *)
(* size.  The inductive invariant says where each started call is: in      *)
(* flight, in a slot, or about to be dispatched; and that once a commit    *)
(* pass is over, the first uncommitted call is still in flight.            *)
(***************************************************************************)
EXTENDS ToolScheduler, TLAPS, FiniteSetTheorems, SequenceTheorems

\* What has been recorded, and how far a group may go.
Ordered ==
    /\ ModelOrder
    /\ base <= committed /\ committed <= started
    /\ pc = "top" => base = started /\ committed = started
    /\ pc \in {"prepare", "started", "commit", "finalize", "committed", "race"} => base < started
    /\ pc \in {"prepare", "started", "commit", "finalize", "committed", "race", "exit"}
          => started <= GroupEnd
    /\ pc \in {"prepare", "finalize"} => committed < started
    /\ pc \in {"leave", "done"} => committed = Requests

\* Which calls the pool and the slots hold.
Held ==
    /\ \A i \in ran : i <= started
    /\ \A i \in Calls : slot[i] # "none" => i <= started
    /\ \A i \in settled : failure \/ slot[i] # "none"
    /\ pc \in {"top", "exit", "leave", "done"} => flight = {}
    /\ pc = "failed" => flight \subseteq settled
    /\ pc = "prepare" => started \notin ran

\* No started call is forgotten: none waits outside the pool once slots are committed.
Covered ==
    /\ pc \in {"top", "prepare", "started", "commit", "finalize", "committed", "race", "exit"} =>
          \A i \in committed + 1 .. started :
             i \in flight \/ slot[i] # "none" \/ (pc = "prepare" /\ i = started)
    /\ pc \in {"prepare", "committed", "race", "exit"} /\ committed < started =>
          committed + 1 \in flight \/ (pc = "prepare" /\ committed + 1 = started)

\* Every call in flight started under its group's mode; an exclusive group has one call.
Barrier ==
    /\ \A i \in flight : startMode[i] = mode
    /\ pc = "prepare" => startMode[started] = mode
    /\ mode = "exclusive" => flight \subseteq {base + 1}

Room ==
    /\ Cardinality(flight) <= MaxParallel
    /\ pc = "prepare" => Cardinality(flight) < MaxParallel

\* The sample of the signal is never ahead of it.
Latched == aborted => signal

Inv == TypeOK /\ Ordered /\ Held /\ Covered /\ Barrier /\ Room /\ Latched
-----------------------------------------------------------------------------
(* The log: numbering the calls in order.                                  *)

\* Recording one more call keeps the log the numbers in order.
LEMMA UpToAppend ==
    ASSUME NEW n \in Nat
    PROVE  Append(UpTo(n), n + 1) = UpTo(n + 1)
BY DEF UpTo

\* Recording every call that is left completes it.
LEMMA UpToSkip ==
    ASSUME NEW n \in 0 .. Requests
    PROVE  UpTo(n) \o [i \in 1 .. Requests - n |-> n + i] = UpTo(Requests)
BY SchedulerAssumption DEF UpTo

LEMMA UpToSeq ==
    ASSUME NEW n \in 0 .. Requests
    PROVE  UpTo(n) \in Seq(Calls) /\ Len(UpTo(n)) = n
BY SchedulerAssumption DEF UpTo, Calls

-----------------------------------------------------------------------------
(* Every step preserves each part of the invariant.                        *)

FlagsOK == failure \in BOOLEAN /\ aborted \in BOOLEAN /\ signal \in BOOLEAN

PlaceOK ==
    /\ pc \in PCs /\ base \in Nat /\ mode \in Modes
    /\ started \in 0 .. Requests /\ committed \in 0 .. Requests
    /\ kind \in [Calls -> Modes] /\ startMode \in [Calls -> Modes \cup {"none"}]

PoolOK ==
    /\ settled \subseteq flight /\ flight \subseteq ran /\ ran \subseteq Calls
    /\ slot \in [Calls -> {"none", "post", "final"}]

LEMMA CountersInRange ==
    ASSUME Inv
    PROVE  started \in Nat /\ committed \in Nat /\ base \in Nat
BY SchedulerAssumption DEF Inv, TypeOK

\* The flags stay Boolean.
LEMMA FlagsStep ==
    ASSUME Inv, [Next]_vars
    PROVE  FlagsOK'
<1> USE DEF vars, groupVars, poolVars, logVars
<1>0. TypeOK
  BY DEF Inv
<1>1. CASE Abort
  BY <1>0, <1>1 DEF Abort, FlagsOK, TypeOK
<1>2. ASSUME NEW c \in Calls, ChangeMode(c) PROVE FlagsOK'
  BY <1>0, <1>2 DEF ChangeMode, FlagsOK, TypeOK
<1>3. ASSUME NEW c \in Calls, Settle(c) PROVE FlagsOK'
  BY <1>0, <1>3, SchedulerAssumption DEF Settle, Suspended, Active, Running, FlagsOK, TypeOK
<1>4. CASE BeginGroup
  BY <1>0, <1>4 DEF BeginGroup, FlagsOK, TypeOK
<1>5. CASE Prepared
  BY <1>0, <1>5, SchedulerAssumption DEF Prepared, MayDispatch, FlagsOK, TypeOK
<1>6. CASE Refill
  BY <1>0, <1>6 DEF Refill, Sampled, FlagsOK, TypeOK
<1>7. CASE CommitReady
  BY <1>0, <1>7 DEF CommitReady, FlagsOK, TypeOK
<1>8. CASE Finalized
  BY <1>0, <1>8, SchedulerAssumption DEF Finalized, NextSlot, RecordResult, FlagsOK, TypeOK
<1>9. CASE CallSettled
  BY <1>0, <1>9 DEF CallSettled, FlagsOK, TypeOK
<1>10. CASE SkipRest
  BY <1>0, <1>10 DEF SkipRest, FlagsOK, TypeOK
<1>11. CASE NextGroup
  BY <1>0, <1>11 DEF NextGroup, FlagsOK, TypeOK
<1>12. CASE CallStarted \/ StopOnFailure \/ LeavePool \/ Return \/ Reject
  BY <1>0, <1>12 DEF CallStarted, StopOnFailure, LeavePool, Return, Reject, FlagsOK, TypeOK
<1>13. CASE UNCHANGED vars
  BY <1>0, <1>13 DEF FlagsOK, TypeOK
<1> QED
  BY <1>1, <1>2, <1>3, <1>4, <1>5, <1>6, <1>7, <1>8, <1>9, <1>10, <1>11, <1>12, <1>13
     DEF Next, Environment, Scheduler

\* The counters stay within the batch.
LEMMA PlaceStep ==
    ASSUME Inv, [Next]_vars
    PROVE  PlaceOK'
<1> USE DEF vars, groupVars, poolVars, logVars
<1>0. TypeOK /\ Ordered
  BY DEF Inv
<1>1. CASE Abort
  BY <1>0, <1>1 DEF Abort, PlaceOK, TypeOK
<1>2. ASSUME NEW c \in Calls, ChangeMode(c) PROVE PlaceOK'
  BY <1>0, <1>2 DEF ChangeMode, PlaceOK, TypeOK
<1>3. ASSUME NEW c \in Calls, Settle(c) PROVE PlaceOK'
  BY <1>0, <1>3 DEF Settle, PlaceOK, TypeOK
<1>4. CASE BeginGroup
  <2>1. CASE signal
    BY <1>0, <1>4, <2>1, SchedulerAssumption DEF BeginGroup, PlaceOK, PCs, Calls, TypeOK
  <2>2. CASE ~signal
    <3>1. started + 1 \in Calls /\ base + 1 \in Calls
      BY <1>0, <1>4, SchedulerAssumption DEF BeginGroup, Ordered, TypeOK, Calls
    <3>2. StartCall /\ mode' = kind[base + 1] /\ UNCHANGED <<base, committed, kind>>
      BY <1>4, <2>2 DEF BeginGroup
    <3>3. startMode' \in [Calls -> Modes \cup {"none"}]
      BY <1>0, <3>1, <3>2 DEF StartCall, TypeOK
    <3> QED
      BY <1>0, <3>1, <3>2, <3>3 DEF StartCall, PlaceOK, PCs, Calls, TypeOK
  <2> QED
    BY <2>1, <2>2
<1>5. CASE Prepared
  BY <1>0, <1>5 DEF Prepared, PlaceOK, PCs, TypeOK
<1>6. CASE Refill
  <2>1. CASE ~aborted' /\ Joins
    <3>1. started + 1 \in Calls
      BY <1>0, <1>6, <2>1, SchedulerAssumption DEF Refill, Joins, Ordered, TypeOK, Calls, GroupEnd
    <3>2. StartCall /\ UNCHANGED <<base, mode, committed, kind>>
      BY <1>6, <2>1 DEF Refill
    <3>3. startMode' \in [Calls -> Modes \cup {"none"}]
      BY <1>0, <3>1, <3>2 DEF StartCall, TypeOK
    <3> QED
      BY <1>0, <3>1, <3>2 DEF StartCall, PlaceOK, PCs, Calls, TypeOK
  <2>2. CASE ~(~aborted' /\ Joins)
    BY <1>0, <1>6, <2>2 DEF Refill, PlaceOK, PCs, TypeOK
  <2> QED
    BY <2>1, <2>2
<1>7. CASE CommitReady
  BY <1>0, <1>7, SchedulerAssumption
     DEF CommitReady, Ready, RecordResult, PlaceOK, PCs, Ordered, TypeOK, GroupEnd
<1>8. CASE Finalized
  BY <1>0, <1>8, SchedulerAssumption DEF Finalized, RecordResult, PlaceOK, PCs, Ordered, TypeOK
<1>9. CASE CallSettled
  BY <1>0, <1>9 DEF CallSettled, PlaceOK, PCs, TypeOK
<1>10. CASE SkipRest
  BY <1>0, <1>10, SchedulerAssumption DEF SkipRest, PlaceOK, PCs, Ordered, TypeOK
<1>11. CASE NextGroup
  BY <1>0, <1>11 DEF NextGroup, PlaceOK, PCs, TypeOK
<1>12. CASE CallStarted \/ StopOnFailure \/ LeavePool \/ Return \/ Reject
  BY <1>0, <1>12 DEF CallStarted, StopOnFailure, LeavePool, Return, Reject, PlaceOK, PCs, TypeOK
<1>13. CASE UNCHANGED vars
  BY <1>0, <1>13 DEF PlaceOK, TypeOK
<1> QED
  BY <1>1, <1>2, <1>3, <1>4, <1>5, <1>6, <1>7, <1>8, <1>9, <1>10, <1>11, <1>12, <1>13
     DEF Next, Environment, Scheduler

\* The pool holds calls that ran and whose slots are typed.
LEMMA PoolStep ==
    ASSUME Inv, [Next]_vars
    PROVE  PoolOK'
<1> USE DEF vars, groupVars, poolVars, logVars
<1>0. TypeOK /\ Ordered
  BY DEF Inv
<1>1. CASE Abort
  BY <1>0, <1>1 DEF Abort, PoolOK, TypeOK
<1>2. ASSUME NEW c \in Calls, ChangeMode(c) PROVE PoolOK'
  BY <1>0, <1>2 DEF ChangeMode, PoolOK, TypeOK
<1>3. ASSUME NEW c \in Calls, Settle(c) PROVE PoolOK'
  BY <1>0, <1>3 DEF Settle, Running, PoolOK, TypeOK
<1>4. CASE BeginGroup
  BY <1>0, <1>4 DEF BeginGroup, PoolOK, TypeOK
<1>5. CASE Prepared
  <2>1. CASE failure' = TRUE /\ pc' = "drain" /\ UNCHANGED <<flight, slot, ran>>
    BY <1>0, <1>5, <2>1 DEF Prepared, PoolOK, TypeOK
  <2>2. CASE MayDispatch /\ pc' = "started" /\ flight' = flight \cup {started}
            /\ ran' = ran \cup {started} /\ UNCHANGED <<failure, slot>>
    BY <1>0, <1>5, <2>2 DEF Prepared, PoolOK, TypeOK, Ordered, Calls
  <2>3. CASE ~failure /\ pc' = "started" /\ UNCHANGED <<failure, flight, ran>>
            /\ \E r \in {"post", "final"} : slot' = [slot EXCEPT ![started] = r]
    BY <1>0, <1>5, <2>3 DEF Prepared, PoolOK, TypeOK, Ordered, Calls
  <2> QED
    BY <1>5, <2>1, <2>2, <2>3 DEF Prepared
<1>6. CASE Refill
  BY <1>0, <1>6 DEF Refill, PoolOK, TypeOK
<1>7. CASE CommitReady
  BY <1>0, <1>7 DEF CommitReady, PoolOK, TypeOK
<1>8. CASE Finalized
  BY <1>0, <1>8 DEF Finalized, PoolOK, TypeOK
<1>9. CASE CallSettled
  BY <1>0, <1>9 DEF CallSettled, PoolOK, TypeOK
<1>10. CASE SkipRest
  BY <1>0, <1>10 DEF SkipRest, PoolOK, TypeOK
<1>11. CASE NextGroup
  BY <1>0, <1>11 DEF NextGroup, PoolOK, TypeOK
<1>12. CASE CallStarted \/ StopOnFailure \/ LeavePool \/ Return \/ Reject
  BY <1>0, <1>12 DEF CallStarted, StopOnFailure, LeavePool, Return, Reject, PoolOK, TypeOK
<1>13. CASE UNCHANGED vars
  BY <1>0, <1>13 DEF PoolOK, TypeOK
<1> QED
  BY <1>1, <1>2, <1>3, <1>4, <1>5, <1>6, <1>7, <1>8, <1>9, <1>10, <1>11, <1>12, <1>13
     DEF Next, Environment, Scheduler

\* The log stays in model order.
LEMMA OrderStep ==
    ASSUME Inv, [Next]_vars
    PROVE  Ordered'
<1> USE DEF vars, groupVars, poolVars, logVars
<1>0. TypeOK /\ Ordered /\ Held /\ Covered
  BY DEF Inv
<1>1. CASE Abort
  BY <1>0, <1>1 DEF Abort, Ordered, ModelOrder, GroupEnd
<1>2. ASSUME NEW c \in Calls, ChangeMode(c) PROVE Ordered'
  BY <1>0, <1>2 DEF ChangeMode, Ordered, ModelOrder, GroupEnd
<1>3. ASSUME NEW c \in Calls, Settle(c) PROVE Ordered'
  BY <1>0, <1>3 DEF Settle, Ordered, ModelOrder, GroupEnd
<1>4. CASE BeginGroup
  <2>1. CASE signal
    BY <1>0, <1>4, <2>1 DEF BeginGroup, ModelOrder, Ordered, TypeOK, GroupEnd
  <2>2. CASE ~signal
    <3>1. ModelOrder'
      BY <1>0, <1>4, <2>2, UpToAppend DEF BeginGroup, StartCall, Ordered, ModelOrder, TypeOK
    <3>2. base' = base /\ committed' = committed /\ started' = started + 1 /\ pc' = "prepare"
          /\ mode' = kind[base + 1] /\ base = started /\ base < Requests /\ committed = started
      BY <1>0, <1>4, <2>2 DEF BeginGroup, StartCall, Ordered
    <3> QED
      BY <1>0, <3>1, <3>2, SchedulerAssumption DEF Ordered, TypeOK, GroupEnd
  <2> QED
    BY <2>1, <2>2
<1>5. CASE Prepared
  BY <1>0, <1>5 DEF Prepared, Ordered, ModelOrder, GroupEnd
<1>6. CASE Refill
  <2>1. CASE ~aborted' /\ Joins
    <3>1. ModelOrder'
      BY <1>0, <1>6, <2>1, UpToAppend, CountersInRange DEF Refill, StartCall, ModelOrder, Ordered
    <3> QED
      BY <1>0, <1>6, <3>1, SchedulerAssumption
         DEF Refill, Joins, StartCall, Ordered, TypeOK, GroupEnd
  <2>2. CASE ~(~aborted' /\ Joins)
    BY <1>0, <1>6, <2>2 DEF Refill, ModelOrder, Ordered, GroupEnd
  <2> QED
    BY <2>1, <2>2
<1>7. CASE CommitReady
  <2>1. CASE ~Ready
    BY <1>0, <1>7, <2>1 DEF CommitReady, ModelOrder, Ordered, GroupEnd
  <2>2. CASE Ready
    <3>1. NextSlot \in Calls /\ NextSlot <= started
      BY <1>0, <1>7, <2>2, SchedulerAssumption
         DEF CommitReady, Ready, NextSlot, Ordered, Held, TypeOK, Calls, GroupEnd
    <3>2. CASE slot[NextSlot] = "post"
      BY <1>0, <1>7, <3>1, <3>2 DEF CommitReady, NextSlot, ModelOrder, Ordered, TypeOK, GroupEnd
    <3>3. CASE slot[NextSlot] # "post"
      <4>1. ModelOrder'
        BY <1>0, <1>7, <2>2, <3>3, UpToAppend, CountersInRange
           DEF CommitReady, RecordResult, NextSlot, ModelOrder, Ordered
      <4> QED
        BY <1>0, <1>7, <3>1, <4>1
           DEF CommitReady, RecordResult, NextSlot, Ordered, TypeOK, GroupEnd
    <3> QED
      BY <3>2, <3>3
  <2> QED
    BY <2>1, <2>2
<1>8. CASE Finalized
  <2>1. CASE RecordResult
    <3>1. ModelOrder'
      BY <1>0, <1>8, <2>1, UpToAppend, CountersInRange
         DEF Finalized, RecordResult, NextSlot, ModelOrder, Ordered
    <3> QED
      BY <1>0, <1>8, <3>1 DEF Finalized, RecordResult, Ordered, TypeOK, GroupEnd
  <2>2. CASE pc' = "drain" /\ UNCHANGED <<results, committed>>
    BY <1>0, <1>8, <2>2 DEF Finalized, ModelOrder, Ordered
  <2> QED
    BY <1>8, <2>1, <2>2 DEF Finalized
<1>9. CASE CallSettled
  BY <1>0, <1>9 DEF CallSettled, Ordered, ModelOrder, GroupEnd
<1>10. CASE SkipRest
  <2>1. committed = started /\ started \in 0 .. Requests
    BY <1>0, <1>10 DEF SkipRest, Ordered, Held, Covered, TypeOK
  <2>2. started' = Requests /\ committed' = Requests
    BY <1>10, <2>1, SchedulerAssumption DEF SkipRest
  <2>3. calls' = UpTo(started) \o SkippedCalls /\ results' = UpTo(started) \o SkippedCalls
    BY <1>0, <1>10, <2>1 DEF SkipRest, Ordered, ModelOrder
  <2>4. UpTo(started) \o SkippedCalls = UpTo(Requests)
    BY <2>1, UpToSkip DEF SkippedCalls
  <2>5. ModelOrder'
    BY <2>2, <2>3, <2>4 DEF ModelOrder
  <2> QED
    BY <1>0, <1>10, <2>2, <2>5 DEF SkipRest, Ordered, TypeOK
<1>11. CASE NextGroup
  BY <1>0, <1>11 DEF NextGroup, Ordered, ModelOrder
<1>12. CASE CallStarted \/ StopOnFailure \/ LeavePool \/ Return \/ Reject
  BY <1>0, <1>12
     DEF CallStarted, StopOnFailure, LeavePool, Return, Reject, Ordered, ModelOrder, GroupEnd
<1>13. CASE UNCHANGED vars
  BY <1>0, <1>13 DEF Ordered, ModelOrder, GroupEnd
<1> QED
  BY <1>1, <1>2, <1>3, <1>4, <1>5, <1>6, <1>7, <1>8, <1>9, <1>10, <1>11, <1>12, <1>13
     DEF Next, Environment, Scheduler

\* Slots and the pool hold started calls only.
LEMMA HeldStep ==
    ASSUME Inv, [Next]_vars
    PROVE  Held'
<1> USE DEF vars, groupVars, poolVars, logVars
<1>0. TypeOK /\ Ordered /\ Held /\ Covered
  BY DEF Inv
<1>1. CASE Abort
  BY <1>0, <1>1 DEF Abort, Held
<1>2. ASSUME NEW c \in Calls, ChangeMode(c) PROVE Held'
  BY <1>0, <1>2 DEF ChangeMode, Held
<1>3. ASSUME NEW c \in Calls, Settle(c) PROVE Held'
  <2>1. CASE UNCHANGED failure /\ \E r \in {"post", "final"} : slot' = [slot EXCEPT ![c] = r]
    BY <1>0, <1>3 DEF Settle, Running, Held, TypeOK
  <2>2. CASE failure' = TRUE /\ UNCHANGED slot
    BY <1>0, <1>3, <2>2 DEF Settle, Held
  <2> QED
    BY <1>3, <2>1, <2>2 DEF Settle
<1>4. CASE BeginGroup
  BY <1>0, <1>4 DEF BeginGroup, StartCall, Held, TypeOK, Calls
<1>5. CASE Prepared
  <2>1. CASE failure' = TRUE /\ pc' = "drain" /\ UNCHANGED <<flight, slot, ran>>
    BY <1>0, <1>5, <2>1 DEF Prepared, Held
  <2>2. CASE MayDispatch /\ pc' = "started" /\ flight' = flight \cup {started}
            /\ ran' = ran \cup {started} /\ UNCHANGED <<failure, slot>>
    BY <1>0, <1>5 DEF Prepared, Held, TypeOK
  <2>3. CASE ~failure /\ pc' = "started" /\ UNCHANGED <<failure, flight, ran>>
            /\ \E r \in {"post", "final"} : slot' = [slot EXCEPT ![started] = r]
    BY <1>0, <1>5 DEF Prepared, Held, TypeOK
  <2> QED
    BY <1>5, <2>1, <2>2, <2>3 DEF Prepared
<1>6. CASE Refill
  BY <1>0, <1>6 DEF Refill, StartCall, Held, TypeOK, Calls
<1>7. CASE CommitReady
  BY <1>0, <1>7 DEF CommitReady, RecordResult, Held
<1>8. CASE Finalized
  BY <1>0, <1>8 DEF Finalized, RecordResult, Held
<1>9. CASE CallSettled
  BY <1>0, <1>9 DEF CallSettled, Held
<1>10. CASE SkipRest
  BY <1>0, <1>10 DEF SkipRest, Held, TypeOK, Calls
<1>11. CASE NextGroup
  BY <1>0, <1>11 DEF NextGroup, Held
<1>12. CASE CallStarted \/ StopOnFailure \/ LeavePool \/ Return \/ Reject
  BY <1>0, <1>12
     DEF CallStarted, StopOnFailure, LeavePool, PoolEmpty, Return, Reject, AllSettled, Held, PCs,
         Covered
<1>13. CASE UNCHANGED vars
  BY <1>0, <1>13 DEF Held
<1> QED
  BY <1>1, <1>2, <1>3, <1>4, <1>5, <1>6, <1>7, <1>8, <1>9, <1>10, <1>11, <1>12, <1>13
     DEF Next, Environment, Scheduler

\* No started call is forgotten.
LEMMA CoverStep ==
    ASSUME Inv, [Next]_vars
    PROVE  Covered'
<1> USE DEF vars, groupVars, poolVars, logVars
<1>0. TypeOK /\ Ordered /\ Held /\ Covered
  BY DEF Inv
<1>1. CASE Abort
  BY <1>0, <1>1 DEF Abort, Covered
<1>2. ASSUME NEW c \in Calls, ChangeMode(c) PROVE Covered'
  BY <1>0, <1>2 DEF ChangeMode, Covered
<1>3. ASSUME NEW c \in Calls, Settle(c) PROVE Covered'
  <2>1. CASE UNCHANGED failure /\ \E r \in {"post", "final"} : slot' = [slot EXCEPT ![c] = r]
    BY <1>0, <1>3, <2>1 DEF Settle, Covered
  <2>2. CASE failure' = TRUE /\ UNCHANGED slot
    BY <1>0, <1>3, <2>2 DEF Settle, Covered
  <2> QED
    BY <1>3, <2>1, <2>2 DEF Settle
<1>4. CASE BeginGroup
  BY <1>0, <1>4 DEF BeginGroup, StartCall, Covered, Ordered, TypeOK
<1>5. CASE Prepared
  <2>1. CASE failure' = TRUE /\ pc' = "drain" /\ UNCHANGED <<flight, slot, ran>>
    BY <2>1 DEF Covered
  <2>2. CASE MayDispatch /\ pc' = "started" /\ flight' = flight \cup {started}
            /\ ran' = ran \cup {started} /\ UNCHANGED <<failure, slot>>
    BY <1>0, <1>5, <2>2 DEF Prepared, Covered
  <2>3. CASE ~failure /\ pc' = "started" /\ UNCHANGED <<failure, flight, ran>>
            /\ \E r \in {"post", "final"} : slot' = [slot EXCEPT ![started] = r]
    BY <1>0, <1>5, <2>3 DEF Prepared, Covered, TypeOK, Calls
  <2> QED
    BY <1>5, <2>1, <2>2, <2>3 DEF Prepared
<1>6. CASE Refill
  <2>1. CASE ~aborted' /\ Joins
    BY <1>0, <1>6 DEF Refill, StartCall, Covered, TypeOK
  <2>2. CASE ~(~aborted' /\ Joins)
    BY <1>0, <1>6, <2>2 DEF Refill, Covered
  <2> QED
    BY <1>6, <2>1, <2>2
<1>7. CASE CommitReady
  BY <1>0, <1>7, SchedulerAssumption
     DEF CommitReady, Ready, NextSlot, RecordResult, Covered, Ordered, TypeOK, GroupEnd
<1>8. CASE Finalized
  BY <1>0, <1>8 DEF Finalized, RecordResult, Covered, TypeOK
<1>9. CASE CallSettled
  BY <1>0, <1>9 DEF CallSettled, Covered, Held
<1>10. CASE SkipRest
  BY <1>10 DEF SkipRest, Covered
<1>11. CASE NextGroup
  BY <1>0, <1>11 DEF NextGroup, Covered
<1>12. CASE CallStarted \/ StopOnFailure \/ LeavePool \/ Return \/ Reject
  BY <1>0, <1>12 DEF CallStarted, StopOnFailure, LeavePool, Return, Reject, Covered
<1>13. CASE UNCHANGED vars
  BY <1>0, <1>13 DEF Covered
<1> QED
  BY <1>1, <1>2, <1>3, <1>4, <1>5, <1>6, <1>7, <1>8, <1>9, <1>10, <1>11, <1>12, <1>13
     DEF Next, Environment, Scheduler

\* The pool holds calls of one mode.
LEMMA BarrierStep ==
    ASSUME Inv, [Next]_vars
    PROVE  Barrier'
<1> USE DEF vars, groupVars, poolVars, logVars
<1>0. TypeOK /\ Ordered /\ Held /\ Barrier
  BY DEF Inv
<1>1. CASE Abort
  BY <1>0, <1>1 DEF Abort, Barrier
<1>2. ASSUME NEW c \in Calls, ChangeMode(c) PROVE Barrier'
  BY <1>0, <1>2 DEF ChangeMode, Barrier
<1>3. ASSUME NEW c \in Calls, Settle(c) PROVE Barrier'
  BY <1>0, <1>3 DEF Settle, Barrier
<1>4. CASE BeginGroup
  BY <1>0, <1>4, SchedulerAssumption
     DEF BeginGroup, StartCall, Barrier, Held, Ordered, TypeOK, Calls
<1>5. CASE Prepared
  <2>1. CASE failure' = TRUE /\ pc' = "drain" /\ UNCHANGED <<flight, slot, ran>>
    BY <1>0, <1>5, <2>1 DEF Prepared, Barrier
  <2>2. CASE MayDispatch /\ pc' = "started" /\ flight' = flight \cup {started}
            /\ ran' = ran \cup {started} /\ UNCHANGED <<failure, slot>>
    BY <1>0, <1>5 DEF Prepared, Barrier, Ordered, TypeOK, GroupEnd
  <2>3. CASE ~failure /\ pc' = "started" /\ UNCHANGED <<failure, flight, ran>>
            /\ \E r \in {"post", "final"} : slot' = [slot EXCEPT ![started] = r]
    BY <1>0, <1>5, <2>3 DEF Prepared, Barrier
  <2> QED
    BY <1>5, <2>1, <2>2, <2>3 DEF Prepared
<1>6. CASE Refill
  BY <1>0, <1>6, SchedulerAssumption
     DEF Refill, Joins, StartCall, Barrier, Held, Ordered, TypeOK, Calls, GroupEnd
<1>7. CASE CommitReady
  BY <1>0, <1>7 DEF CommitReady, RecordResult, Barrier
<1>8. CASE Finalized
  BY <1>0, <1>8 DEF Finalized, RecordResult, Barrier
<1>9. CASE CallSettled
  BY <1>0, <1>9 DEF CallSettled, Barrier
<1>10. CASE SkipRest
  BY <1>0, <1>10 DEF SkipRest, Barrier
<1>11. CASE NextGroup
  BY <1>0, <1>11 DEF NextGroup, Barrier, Held
<1>12. CASE CallStarted \/ StopOnFailure \/ LeavePool \/ Return \/ Reject
  BY <1>0, <1>12
     DEF CallStarted, StopOnFailure, LeavePool, Return, Reject, Barrier, GroupEnd, Modes, PCs
<1>13. CASE UNCHANGED vars
  BY <1>0, <1>13 DEF Barrier
<1> QED
  BY <1>1, <1>2, <1>3, <1>4, <1>5, <1>6, <1>7, <1>8, <1>9, <1>10, <1>11, <1>12, <1>13
     DEF Next, Environment, Scheduler

\* A pool is a finite set of calls.
LEMMA FlightFinite ==
    ASSUME Inv
    PROVE  IsFiniteSet(flight) /\ IsFiniteSet(Running)
           /\ Cardinality(flight) \in Nat /\ Cardinality(Running) <= Cardinality(flight)
<1>1. flight \subseteq 1 .. Requests /\ Running \subseteq flight
  BY DEF Inv, TypeOK, Calls, Running
<1>2. IsFiniteSet(1 .. Requests)
  BY FS_Interval, SchedulerAssumption
<1>3. IsFiniteSet(flight)
  BY <1>1, <1>2, FS_Subset
<1> QED
  BY <1>1, <1>3, FS_Subset, FS_CardinalityType

\* The pool keeps its bound.
LEMMA RoomStep ==
    ASSUME Inv, [Next]_vars
    PROVE  Room'
<1> USE DEF vars, groupVars, poolVars, logVars
<1>0. TypeOK /\ Ordered /\ Held /\ Room
  BY DEF Inv
<1>1. CASE Abort
  BY <1>0, <1>1 DEF Abort, Room
<1>2. ASSUME NEW c \in Calls, ChangeMode(c) PROVE Room'
  BY <1>0, <1>2 DEF ChangeMode, Room
<1>3. ASSUME NEW c \in Calls, Settle(c) PROVE Room'
  BY <1>0, <1>3 DEF Settle, Room
<1>4. CASE BeginGroup
  <2>1. flight = {} /\ flight' = flight
    BY <1>0, <1>4 DEF BeginGroup, Held
  <2> QED
    BY <2>1, FS_EmptySet, SchedulerAssumption DEF Room
<1>5. CASE Prepared
  <2>1. CASE flight' = flight
    BY <1>0, <1>5, <2>1 DEF Prepared, Room
  <2>2. CASE flight' = flight \cup {started}
    <3>1. Cardinality(flight') \in Nat /\ Cardinality(flight') <= Cardinality(flight) + 1
      <4>1. IsFiniteSet(flight) /\ Cardinality(flight) \in Nat
        BY FlightFinite
      <4>2. Cardinality(flight \cup {started}) \in {Cardinality(flight), Cardinality(flight) + 1}
        BY <4>1, FS_AddElement
      <4> QED
        BY <2>2, <4>1, <4>2
    <3>2. Cardinality(flight) < MaxParallel /\ pc' # "prepare"
      BY <1>0, <1>5 DEF Prepared, Room
    <3> QED
      BY <3>1, <3>2, FlightFinite, SchedulerAssumption DEF Room
  <2> QED
    BY <1>5, <2>1, <2>2 DEF Prepared
<1>6. CASE Refill
  BY <1>0, <1>6 DEF Refill, Joins, Room
<1>7. CASE CommitReady
  BY <1>0, <1>7 DEF CommitReady, RecordResult, Room
<1>8. CASE Finalized
  BY <1>0, <1>8 DEF Finalized, RecordResult, Room
<1>9. CASE CallSettled
  <2>1. flight' \subseteq flight
    BY <1>9 DEF CallSettled
  <2>2. Cardinality(flight') \in Nat /\ Cardinality(flight') <= Cardinality(flight)
    BY <2>1, FlightFinite, FS_Subset, FS_CardinalityType
  <2>3. pc' # "prepare" /\ Cardinality(flight) <= MaxParallel
    BY <1>0, <1>9 DEF CallSettled, Room
  <2> QED
    BY <2>2, <2>3, FlightFinite, SchedulerAssumption DEF Room
<1>10. CASE SkipRest
  BY <1>0, <1>10 DEF SkipRest, Room
<1>11. CASE NextGroup
  BY <1>0, <1>11 DEF NextGroup, Room
<1>12. CASE CallStarted \/ StopOnFailure \/ LeavePool \/ Return \/ Reject
  BY <1>0, <1>12 DEF CallStarted, StopOnFailure, LeavePool, Return, Reject, Room
<1>13. CASE UNCHANGED vars
  BY <1>0, <1>13 DEF Room
<1> QED
  BY <1>1, <1>2, <1>3, <1>4, <1>5, <1>6, <1>7, <1>8, <1>9, <1>10, <1>11, <1>12, <1>13
     DEF Next, Environment, Scheduler

\* Sampling reads the signal, which is never cleared.
LEMMA LatchStep ==
    ASSUME Inv, [Next]_vars
    PROVE  Latched'
<1> USE DEF vars, groupVars, poolVars, logVars
<1>0. Latched
  BY DEF Inv
<1>1. CASE Abort
  BY <1>1 DEF Abort, Latched
<1>2. ASSUME NEW c \in Calls, ChangeMode(c) PROVE Latched'
  BY <1>0, <1>2 DEF ChangeMode, Latched
<1>3. ASSUME NEW c \in Calls, Settle(c) PROVE Latched'
  BY <1>0, <1>3 DEF Settle, Latched
<1>4. CASE BeginGroup
  BY <1>4 DEF BeginGroup, Latched
<1>5. CASE Prepared
  BY <1>0, <1>5 DEF Prepared, Latched
<1>6. CASE Refill
  BY <1>0, <1>6, SchedulerAssumption DEF Refill, Joins, StartCall, Sampled, Latched
<1>7. CASE CommitReady
  BY <1>0, <1>7 DEF CommitReady, Latched
<1>8. CASE Finalized
  BY <1>0, <1>8 DEF Finalized, Latched
<1>9. CASE CallSettled
  BY <1>0, <1>9 DEF CallSettled, Latched
<1>10. CASE SkipRest
  BY <1>0, <1>10 DEF SkipRest, Latched
<1>11. CASE NextGroup
  BY <1>11 DEF NextGroup, Latched
<1>12. CASE CallStarted \/ StopOnFailure \/ LeavePool \/ Return \/ Reject
  BY <1>0, <1>12, SchedulerAssumption
     DEF CallStarted, StopOnFailure, LeavePool, PoolEmpty, Return, Reject, AllSettled, Latched
<1>13. CASE UNCHANGED vars
  BY <1>0, <1>13 DEF Latched
<1> QED
  BY <1>1, <1>2, <1>3, <1>4, <1>5, <1>6, <1>7, <1>8, <1>9, <1>10, <1>11, <1>12, <1>13
     DEF Next, Environment, Scheduler

LEMMA InitInv == Init => Inv
<1> SUFFICES ASSUME Init PROVE Inv
  OBVIOUS
<1>1. calls = UpTo(0) /\ results = UpTo(0)
  BY DEF Init, UpTo
<1>2. TypeOK
  <2>1. FlagsOK
    BY DEF Init, FlagsOK
  <2>2. PlaceOK /\ PoolOK
    BY SchedulerAssumption DEF Init, PlaceOK, PoolOK, PCs, Modes, Calls
  <2> QED
    BY <2>1, <2>2 DEF Init, FlagsOK, PlaceOK, PoolOK, TypeOK
<1>3. Ordered /\ Held /\ Covered /\ Barrier /\ Latched
  BY <1>1 DEF Init, Ordered, ModelOrder, Held, Covered, Barrier, Latched, Calls
<1>4. Room
  BY FS_EmptySet, SchedulerAssumption DEF Init, Room
<1> QED
  BY <1>2, <1>3, <1>4 DEF Inv

LEMMA NextInv ==
    ASSUME Inv, [Next]_vars
    PROVE  Inv'
<1>1. FlagsOK' /\ PlaceOK' /\ PoolOK' /\ Ordered'
  BY FlagsStep, PlaceStep, PoolStep, OrderStep
<1>2. started' \in 0 .. Requests /\ committed' \in 0 .. Requests
      /\ calls' = UpTo(started') /\ results' = UpTo(committed')
  BY <1>1 DEF PlaceOK, Ordered, ModelOrder
<1>3. calls' \in Seq(Calls) /\ results' \in Seq(Calls)
  BY <1>2, UpToSeq
<1>4. TypeOK'
  BY <1>1, <1>3 DEF FlagsOK, PlaceOK, PoolOK, TypeOK
<1> QED
  BY <1>1, <1>4, HeldStep, CoverStep, BarrierStep, RoomStep, LatchStep DEF Inv

LEMMA SpecInv == Spec => []Inv
  BY InitInv, NextInv, PTL DEF Spec

-----------------------------------------------------------------------------
(* What the invariant says.                                                *)

\* Every variable of the scheduler keeps its type, whatever settles when.
THEOREM TypeCorrect == Spec => []TypeOK
<1>1. Inv => TypeOK
  BY DEF Inv
<1> QED
  BY <1>1, SpecInv, PTL

\* tool/call and tool/result events are recorded in model order, each once.
THEOREM RecordedInModelOrder == Spec => []ModelOrder
<1>1. Inv => ModelOrder
  BY DEF Inv, Ordered
<1> QED
  BY <1>1, SpecInv, PTL

\* Two bodies overlap only if both calls were parallel when they started.
THEOREM ExclusiveCallsRunAlone == Spec => []ExclusiveRunsAlone
<1>1. ASSUME Inv, NEW i \in Running, NEW j \in Running, i # j
      PROVE  startMode[i] = "parallel"
  <2>1. i \in flight /\ j \in flight /\ startMode[i] = mode
    BY <1>1 DEF Inv, Barrier, Running
  <2>2. mode # "exclusive"
    BY <1>1, <2>1 DEF Inv, Barrier
  <2> QED
    BY <1>1, <2>1, <2>2 DEF Inv, TypeOK, Modes
<1>2. Inv => ExclusiveRunsAlone
  BY <1>1 DEF ExclusiveRunsAlone
<1> QED
  BY <1>2, SpecInv, PTL

\* No more bodies run at once than the parallel limit allows.
THEOREM PoolStaysBounded == Spec => []PoolBounded
<1>1. ASSUME Inv PROVE PoolBounded
  <2>1. Cardinality(Running) <= Cardinality(flight) /\ Cardinality(flight) \in Nat
        /\ IsFiniteSet(Running)
    BY <1>1, FlightFinite
  <2>2. Cardinality(Running) \in Nat
    BY <2>1, FS_CardinalityType
  <2>3. Cardinality(flight) <= MaxParallel
    BY <1>1 DEF Inv, Room
  <2> QED
    BY <2>1, <2>2, <2>3, SchedulerAssumption DEF PoolBounded
<1> QED
  BY <1>1, SpecInv, PTL

\* executeToolCalls returns or throws only when no body of the batch runs.
THEOREM SettlesWhenQuiescent == Spec => []SettlesQuiescent
<1>1. Inv => SettlesQuiescent
  BY DEF Inv, Held, SettlesQuiescent, Active, Running
<1> QED
  BY <1>1, SpecInv, PTL

LEMMA GroupCommits ==
    ASSUME Inv
    PROVE  GroupCommitsStarted
BY DEF Inv, TypeOK, Ordered, Held, Covered, GroupCommitsStarted

\* The throw of tool-calls.ts:245 is unreachable, as its comment says.
THEOREM GroupCommitsWhatItStarted == Spec => []GroupCommitsStarted
  BY GroupCommits, SpecInv, PTL

\* Once the pipeline failed, no step begins another body.
THEOREM FailureEndsDispatch == Spec => FailureStopsDispatch
<1>1. ASSUME [Next]_vars PROVE [failure => ran' = ran]_vars
  BY <1>1
     DEF Next, Environment, Scheduler, Abort, ChangeMode, Settle, BeginGroup, Prepared,
         MayDispatch, CallStarted, Refill, StopOnFailure, CommitReady, Finalized, CallSettled,
         LeavePool, SkipRest, NextGroup, Return, Reject, vars, poolVars
<1> QED
  BY <1>1, PTL DEF Spec, FailureStopsDispatch

-----------------------------------------------------------------------------
(* The scheduler implements the batch its caller relies on.                *)

BatchStep == Batch!Next \/ UNCHANGED Batch!batchVars

\* The mapped log is as long as its counters say.
LEMMA LogLength ==
    ASSUME Inv
    PROVE  Len(calls) = started /\ Len(results) = committed
BY UpToSeq DEF Inv, TypeOK, Ordered, ModelOrder

LEMMA InitBatch == Init => Batch!Init
BY DEF Init, Batch!Init

\* One step of the scheduler is one step of the batch, or none.
LEMMA StepBatch ==
    ASSUME Inv, [Next]_vars
    PROVE  BatchStep
<1>0. /\ Inv' /\ TypeOK /\ Ordered /\ Latched
      /\ Len(calls) = started /\ Len(results) = committed
      /\ Len(calls)' = started' /\ Len(results)' = committed'
      /\ Len(calls)' = Len(calls') /\ Len(results)' = Len(results')
  <2>1. Inv'
    BY NextInv
  <2>2. Len(calls') = started' /\ Len(results') = committed'
    BY <2>1, UpToSeq DEF Inv, TypeOK, Ordered, ModelOrder
  <2> QED
    BY <2>1, <2>2, LogLength DEF Inv
<1>1. CASE Abort
  BY <1>1 DEF Abort, BatchStep, Batch!Next, Batch!Abort, logVars
<1>2. ASSUME NEW c \in Calls, ChangeMode(c) \/ Settle(c) PROVE BatchStep
  BY <1>2 DEF ChangeMode, Settle, BatchStep, Batch!batchVars, logVars
<1>3. CASE BeginGroup
  <2>1. CASE signal
    BY <1>3, <2>1 DEF BeginGroup, BatchStep, Batch!batchVars
  <2>2. CASE ~signal
    <3>1. StartCall /\ pc = "top" /\ UNCHANGED <<signal, results>> /\ started < Requests
      BY <1>0, <1>3, <2>2 DEF BeginGroup, Ordered
    <3> QED
      BY <1>0, <2>2, <3>1 DEF StartCall, BatchStep, Batch!Next, Batch!Start
  <2> QED
    BY <2>1, <2>2
<1>4. CASE Refill
  <2>1. CASE ~aborted' /\ Joins
    <3>1. StartCall /\ pc = "committed" /\ UNCHANGED <<signal, results>> /\ ~signal
      BY <1>4, <2>1 DEF Refill, Sampled
    <3>2. started < Requests
      BY <1>0, <2>1, <3>1 DEF Joins, Ordered, TypeOK, Modes, GroupEnd
    <3> QED
      BY <1>0, <3>1, <3>2 DEF StartCall, BatchStep, Batch!Next, Batch!Start
  <2>2. CASE ~(~aborted' /\ Joins)
    BY <1>4, <2>2 DEF Refill, BatchStep, Batch!batchVars
  <2> QED
    BY <2>1, <2>2
<1>5. CASE CommitReady \/ Finalized
  <2>1. CASE RecordResult
    <3>1. pc \in {"commit", "finalize"} /\ UNCHANGED <<signal, calls, started>>
      BY <1>5 DEF CommitReady, Finalized
    <3>2. committed' = committed + 1 /\ committed < started
      BY <1>0, <2>1, <3>1 DEF RecordResult, Inv, TypeOK, Ordered
    <3> QED
      BY <1>0, <2>1, <3>1, <3>2 DEF RecordResult, BatchStep, Batch!Next, Batch!Commit
  <2>2. CASE UNCHANGED <<results, calls, signal>> /\ pc \notin {"done", "failed"} /\ pc' \notin {"done", "failed"}
    BY <2>2 DEF BatchStep, Batch!batchVars
  <2> QED
    BY <1>5, <2>1, <2>2 DEF CommitReady, Finalized
<1>6. CASE SkipRest
  <2>1. pc = "exit" /\ signal /\ pc' = "leave" /\ UNCHANGED signal /\ started' = Requests
    BY <1>0, <1>6 DEF SkipRest, Latched
  <2>2. committed = started /\ committed' = Requests
    BY <1>0, <1>6, GroupCommits DEF GroupCommitsStarted, SkipRest, TypeOK
  <2>3. CASE started < Requests
    BY <1>0, <2>1, <2>2, <2>3 DEF BatchStep, Batch!Next, Batch!Skip
  <2>4. CASE started = Requests
    BY <1>0, <2>1, <2>2, <2>4 DEF BatchStep, Batch!batchVars
  <2> QED
    BY <1>0, <2>3, <2>4, SchedulerAssumption DEF TypeOK
<1>7. CASE NextGroup \/ Reject
  <2>1. pc \notin {"done", "failed"} /\ pc' # "done" /\ UNCHANGED <<calls, results, signal>>
    BY <1>7 DEF NextGroup, Reject, logVars
  <2>2. CASE pc' = "failed"
    BY <2>1, <2>2 DEF BatchStep, Batch!Next, Batch!Reject
  <2>3. CASE pc' # "failed"
    BY <2>1, <2>3 DEF BatchStep, Batch!batchVars
  <2> QED
    BY <2>2, <2>3
<1>8. CASE Return
  <2>1. committed = Requests /\ pc \in {"leave", "top"} /\ pc' = "done"
        /\ UNCHANGED <<calls, results, signal>>
    BY <1>0, <1>8 DEF Return, Ordered, logVars
  <2> QED
    BY <1>0, <2>1 DEF BatchStep, Batch!Next, Batch!Return
<1>9. CASE Prepared \/ CallStarted \/ StopOnFailure \/ CallSettled \/ LeavePool
  BY <1>9
     DEF Prepared, CallStarted, StopOnFailure, CallSettled, LeavePool, BatchStep,
         Batch!batchVars, logVars
<1>10. CASE UNCHANGED vars
  BY <1>10 DEF vars, logVars, BatchStep, Batch!batchVars
<1> QED
  BY <1>1, <1>2, <1>3, <1>4, <1>5, <1>6, <1>7, <1>8, <1>9, <1>10 DEF Next, Environment, Scheduler

\* The scheduler implements ToolBatch: in particular no call starts after the
\* signal, and an aborted batch that returns has answered every call.
THEOREM SchedulerImplementsBatch == Spec => ImplementsBatch
<1>1. Inv /\ [Next]_vars => [Batch!Next]_(Batch!batchVars)
  BY StepBatch DEF BatchStep
<1> QED
  BY <1>1, InitBatch, SpecInv, PTL DEF Spec, ImplementsBatch, Batch!Spec
=============================================================================
