------------------------ MODULE SessionRecoveryProofs ------------------------
(***************************************************************************)
(* Proofs about what a session's log says after a crash: a result that     *)
(* denies its call ran is true, because a body waits for its recorded call *)
(* to be stored; and a crash leaves what a model request was built from.   *)
(***************************************************************************)
EXTENDS SessionRecovery, FiniteSetTheorems, SequenceTheorems, TLAPS

-----------------------------------------------------------------------------
(* The inductive invariant.                                                *)

\* Ids of later calls are not in the log.
Ids == \A i \in DOMAIN log : \A c \in log[i].calls : c < nextCall

\* A call is started after the message that asks for it.
CallsFollow ==
    \A i, j \in DOMAIN log : Is(log, i, "tool/call") /\ Is(log, j, "assistant/message") =>
        \A c \in log[i].calls \cap log[j].calls : j < i

\* The start of a call is among the first n events.
Started(c, n) == \E i \in 1 .. n : i \in DOMAIN log /\ Is(log, i, "tool/call") /\ c \in log[i].calls

\* A call whose body was invoked was stored before.
Recorded == \A c \in ran : Started(c, durable)

\* No result in the log is about c.
Unanswered(c) == \A i \in DOMAIN log : Is(log, i, "tool/result") => c \notin log[i].calls

\* What the state of a call's slot says of it.
SlotOK(c) ==
    /\ slot[c] # "none" => c < nextCall /\ stage # "down"
    /\ slot[c] = "called" => Started(c, Len(log))
    /\ slot[c] = "barrier" => need[c] <= Len(log) /\ Started(c, need[c])
    /\ slot[c] \in {"requested", "called", "barrier"} => Unanswered(c)
    /\ slot[c] \in {"requested", "called", "barrier", "refused"} => c \notin ran
    /\ slot[c] \in {"running", "ran"} => c \in ran

\* The request's prefix is stored.
ShownStored == Len(shown) <= durable /\ \A i \in DOMAIN shown : shown[i] = log[i]

LogInv == Ids /\ CallsFollow /\ Recorded /\ ResultsTellTheTruth /\ ShownStored
SlotInv == \A c \in Call : SlotOK(c)
Inv == TypeOK /\ LogInv /\ SlotInv

-----------------------------------------------------------------------------
(* Appending to the log.                                                   *)

\* The fields of an event.
LEMMA EventTypes ==
    ASSUME NEW e \in Event
    PROVE  e.calls \in SUBSET Call /\ e.calls \subseteq Nat
  BY RecoveryAssumption DEF Event, Call

\* Events stay where they are and others follow them.
Grows ==
    /\ Len(log') >= Len(log)
    /\ \A i \in DOMAIN log : i \in DOMAIN log' /\ log'[i] = log[i]

\* An event that may be appended when the next id will be next.
Fits(e, next) ==
    /\ e \in Event
    /\ \A c \in e.calls : c < next
    /\ e.type = "assistant/message" => \A c \in e.calls : ~(c < nextCall)
    /\ e.type = "tool/call" => \A c \in e.calls : c < nextCall
    /\ e.type = "tool/result" =>
           /\ e.outcome \in {"notStarted", "refused"} => e.calls \cap ran = {}
           /\ e.outcome = "ran" => e.calls \subseteq ran

FitAll(s, next) == s \in Seq(Event) /\ \A k \in DOMAIN s : Fits(s[k], next)

LEMMA FitOne == ASSUME NEW e, NEW next, Fits(e, next) PROVE FitAll(<<e>>, next)
<1>1. e \in Event
  BY DEF Fits
<1>2. <<e>> \in Seq(Event) /\ DOMAIN <<e>> = {1} /\ <<e>>[1] = e
  BY <1>1
<1> QED BY <1>2 DEF FitAll

\* What follows a sequence that fits fits if its events do.
LEMMA FitConcat ==
    ASSUME NEW s, NEW t, NEW next, FitAll(s, next), FitAll(t, next)
    PROVE  FitAll(s \o t, next)
<1>1. s \in Seq(Event) /\ t \in Seq(Event)
  BY DEF FitAll
<1>2. /\ s \o t \in Seq(Event) /\ Len(s \o t) = Len(s) + Len(t)
      /\ \A i \in 1 .. Len(s) + Len(t) : (s \o t)[i] = IF i <= Len(s) THEN s[i] ELSE t[i - Len(s)]
  BY <1>1, ConcatProperties
<1>3. ASSUME NEW k \in DOMAIN (s \o t) PROVE Fits((s \o t)[k], next)
  <2>1. k \in 1 .. Len(s) + Len(t)
    BY <1>1, <1>2
  <2>2. CASE k <= Len(s)
    BY <1>1, <1>2, <2>1, <2>2 DEF FitAll
  <2>3. CASE ~(k <= Len(s))
    <3>1. k - Len(s) \in DOMAIN t
      BY <1>1, <2>1, <2>3
    <3> QED BY <1>2, <2>1, <2>3, <3>1 DEF FitAll
  <2> QED BY <2>2, <2>3
<1> QED BY <1>2, <1>3 DEF FitAll

\* A log that grows by events that fit keeps what is known about it.
LEMMA GrowKeeps ==
    ASSUME TypeOK, LogInv, NEW s, FitAll(s, nextCall'), log' = log \o s,
           nextCall' \in Nat, nextCall <= nextCall', UNCHANGED <<ran, durable, shown>>
    PROVE  /\ LogInv' /\ log' \in Seq(Event) /\ durable' \in 0 .. Len(log') /\ Grows
           /\ \A i \in DOMAIN log' \ DOMAIN log : \E k \in DOMAIN s : log'[i] = s[k]
<1> DEFINE n == Len(log)
<1>1. log \in Seq(Event) /\ s \in Seq(Event) /\ n \in Nat /\ durable \in 0 .. n /\ nextCall \in Nat
  BY DEF TypeOK, FitAll
<1>2. /\ log' \in Seq(Event) /\ Len(log') = n + Len(s)
      /\ \A i \in 1 .. n + Len(s) : log'[i] = IF i <= n THEN log[i] ELSE s[i - n]
  BY <1>1, ConcatProperties
<1>3. /\ DOMAIN log = 1 .. n /\ DOMAIN log' = 1 .. Len(log')
      /\ \A i \in DOMAIN log : i \in DOMAIN log' /\ log'[i] = log[i]
  BY <1>1, <1>2
<1>10. \A i \in DOMAIN log' : i \in DOMAIN log \/ (i > n /\ \E k \in DOMAIN s : log'[i] = s[k])
  BY <1>1, <1>2, <1>3
<1>4. \A i \in DOMAIN log' : i \in DOMAIN log \/ (i > n /\ Fits(log'[i], nextCall'))
  BY <1>10 DEF FitAll
<1>5. Ids'
  <2>1. \A i \in DOMAIN log : \A c \in log[i].calls : c < nextCall'
    <3>1. ASSUME NEW i \in DOMAIN log PROVE log[i].calls \subseteq Nat
      BY <1>1, <3>1, EventTypes, ElementOfSeq
    <3> QED BY <1>1, <3>1 DEF LogInv, Ids
  <2> QED BY <1>3, <1>4, <2>1 DEF Ids, Fits
<1>6. CallsFollow'
  <2> SUFFICES ASSUME NEW i \in DOMAIN log', NEW j \in DOMAIN log',
                      Is(log', i, "tool/call"), Is(log', j, "assistant/message"),
                      NEW c \in log'[i].calls \cap log'[j].calls
               PROVE  j < i
    BY DEF CallsFollow
  <2>1. CASE i \in DOMAIN log /\ j \in DOMAIN log
    BY <1>3, <2>1 DEF LogInv, CallsFollow, Is
  <2>2. CASE i \in DOMAIN log /\ j \notin DOMAIN log
    <3>1. c < nextCall
      BY <1>3, <2>2 DEF LogInv, Ids
    <3> QED BY <1>4, <2>2, <3>1 DEF Fits, Is
  <2>3. CASE i \notin DOMAIN log /\ j \in DOMAIN log
    BY <1>3, <1>4, <2>3, <1>1
  <2>4. CASE i \notin DOMAIN log /\ j \notin DOMAIN log
    BY <1>4, <2>4 DEF Fits, Is
  <2> QED BY <2>1, <2>2, <2>3, <2>4
<1>7. Recorded'
  <2> SUFFICES ASSUME NEW c \in ran PROVE Started(c, durable)'
    BY DEF Recorded
  <2>1. PICK i \in 1 .. durable :
            i \in DOMAIN log /\ Is(log, i, "tool/call") /\ c \in log[i].calls
    BY DEF LogInv, Recorded, Started
  <2> QED BY <1>3, <2>1 DEF Started, Is
<1>8. ResultsTellTheTruth'
  BY <1>3, <1>4 DEF LogInv, ResultsTellTheTruth, Fits, Is
<1>9. ShownStored'
  <2>1. DOMAIN shown \subseteq DOMAIN log
    BY <1>1, <1>3 DEF LogInv, ShownStored, TypeOK
  <2> QED BY <1>3, <2>1 DEF LogInv, ShownStored
<1> QED BY <1>1, <1>2, <1>3, <1>5, <1>6, <1>7, <1>8, <1>9, <1>10 DEF LogInv, Grows

\* The same for one event.
LEMMA AppendKeeps ==
    ASSUME TypeOK, LogInv, NEW e, Fits(e, nextCall'), log' = Append(log, e),
           nextCall' \in Nat, nextCall <= nextCall', UNCHANGED <<ran, durable, shown>>
    PROVE  /\ LogInv' /\ log' \in Seq(Event) /\ durable' \in 0 .. Len(log') /\ Grows
           /\ \A i \in DOMAIN log' \ DOMAIN log : log'[i] = e
<1>1. log \in Seq(Event) /\ e \in Event
  BY DEF TypeOK, Fits
<1>2. log' = log \o <<e>>
  BY <1>1, AppendIsConcat
<1>3. FitAll(<<e>>, nextCall')
  BY FitOne
<1>4. /\ LogInv' /\ log' \in Seq(Event) /\ durable' \in 0 .. Len(log') /\ Grows
      /\ \A i \in DOMAIN log' \ DOMAIN log : \E k \in DOMAIN <<e>> : log'[i] = <<e>>[k]
  <2> HIDE DEF Fits, FitAll
  <2> QED BY <1>2, <1>3, GrowKeeps
<1>5. \A k \in DOMAIN <<e>> : <<e>>[k] = e
  OBVIOUS
<1> QED BY <1>4, <1>5
\* A call the step does not concern keeps what is known of it.
LEMMA SlotKept ==
    ASSUME TypeOK, NEW c \in Call, SlotOK(c), Grows, slot'[c] = slot[c], need'[c] = need[c],
           c \in ran' <=> c \in ran, nextCall' \in Nat, nextCall <= nextCall', stage' # "down",
           \A i \in DOMAIN log' \ DOMAIN log :
               Is(log', i, "tool/result") => c \notin log'[i].calls
    PROVE  SlotOK(c)'
<1>1. /\ log \in Seq(Event) /\ Len(log) \in Nat /\ Len(log') >= Len(log)
      /\ need[c] \in Nat /\ nextCall \in Nat /\ c \in Nat
  BY RecoveryAssumption DEF TypeOK, Grows, Call
<1>2. Unanswered(c) => Unanswered(c)'
  BY DEF Unanswered, Grows, Is
<1>3. Started(c, Len(log)) => Started(c, Len(log))'
  <2> SUFFICES ASSUME NEW i \in 1 .. Len(log), i \in DOMAIN log,
                      Is(log, i, "tool/call"), c \in log[i].calls
               PROVE  i \in 1 .. Len(log') /\ i \in DOMAIN log' /\ Is(log', i, "tool/call")
                      /\ c \in log'[i].calls
    BY DEF Started
  <2>1. Len(log') \in Nat
    BY <1>1 DEF Grows
  <2> QED BY <1>1, <2>1 DEF Grows, Is
<1>4. need[c] <= Len(log) /\ Started(c, need[c]) => need'[c] <= Len(log') /\ Started(c, need[c])'
  BY <1>1 DEF Grows, Started, Is
<1> QED BY <1>1, <1>2, <1>3, <1>4 DEF SlotOK

-----------------------------------------------------------------------------
(* What the steps append.                                                  *)

LEMMA MarksFit == ASSUME NEW type \in Types, type \in Boundary \cup {"step/start"}, NEW next
                  PROVE  Fits(Mark(type), next)
  BY DEF Fits, Mark, Event, Types, Boundary

LEMMA FitTwo == ASSUME NEW d, NEW e, NEW next, Fits(d, next), Fits(e, next)
                PROVE  FitAll(<<d, e>>, next)
<1>1. d \in Event /\ e \in Event
  BY DEF Fits
<1>2. <<d, e>> \in Seq(Event) /\ DOMAIN <<d, e>> = {1, 2} /\ <<d, e>>[1] = d /\ <<d, e>>[2] = e
  BY <1>1
<1> QED BY <1>2 DEF FitAll

\* The results a recovery appends are about calls of the log, and one that denies its
\* call ran is about a call the log does not start, so one whose body was not invoked.
LEMMA ResultsFit == ASSUME TypeOK, LogInv PROVE FitAll(Results(log), nextCall)
<1> DEFINE P == PendingCalls(log)
<1>1. log \in Seq(Event) /\ nextCall \in Nat
  BY DEF TypeOK
<1>2. P \subseteq CallsOf(log, "assistant/message")
  BY DEF PendingCalls
<1>3. ASSUME NEW c \in P
      PROVE  c < nextCall /\ c \in Call /\ (c \in ran => c \in CallsOf(log, "tool/call"))
  <2>1. PICK j \in Open(log) : Is(log, j, "assistant/message") /\ c \in log[j].calls
    BY <1>2 DEF CallsOf
  <2>2. j \in DOMAIN log /\ \A k \in j .. Len(log) : log[k].type \notin Boundary
    BY <2>1 DEF Open
  <2>3. c < nextCall /\ c \in Call
    BY <1>1, <2>1, <2>2, EventTypes, ElementOfSeq DEF LogInv, Ids
  <2>4. ASSUME c \in ran PROVE c \in CallsOf(log, "tool/call")
    <3>1. PICK i \in DOMAIN log : Is(log, i, "tool/call") /\ c \in log[i].calls
      BY <2>4 DEF LogInv, Recorded, Started
    <3>2. j < i
      BY <2>1, <2>2, <3>1 DEF LogInv, CallsFollow
    <3>3. i \in Open(log)
      BY <1>1, <2>2, <3>2 DEF Open
    <3> QED BY <3>1, <3>3 DEF CallsOf
  <2> QED BY <2>3, <2>4
<1>4. IsFiniteSet(P) /\ Cardinality(P) \in Nat
  <2>1. IsFiniteSet(Call)
    BY FS_Interval, RecoveryAssumption DEF Call
  <2>2. P \subseteq Call
    BY <1>3
  <2> QED BY <2>1, <2>2, FS_Subset, FS_CardinalityType
<1>5. ASSUME NEW k \in 1 .. Cardinality(P) PROVE Fits(Results(log)[k], nextCall)
  <2> DEFINE calls == Nth(P, k)
  <2>1. calls \subseteq P
    BY DEF Nth
  <2>2. Results(log)[k] = Result(calls, RecoveredOutcome(log, calls))
    BY DEF Results
  <2>3. RecoveredOutcome(log, calls) \in {"notStarted", "unknown"}
        /\ (RecoveredOutcome(log, calls) = "notStarted" => calls \cap ran = {})
    BY <1>3, <2>1 DEF RecoveredOutcome
  <2>4. calls \in SUBSET Call /\ \A c \in calls : c < nextCall
    BY <1>3, <2>1
  <2> HIDE DEF calls
  <2> QED BY <2>2, <2>3, <2>4 DEF Fits, Result, Event, Types, Outcomes
<1>6. Len(Results(log)) = Cardinality(P) /\ DOMAIN Results(log) = 1 .. Cardinality(P)
      /\ Results(log) \in Seq(Event)
  BY <1>4, <1>5 DEF Results, Fits
<1> QED BY <1>5, <1>6 DEF FitAll

\* The pairs of the skipped calls, none of which started.
LEMMA SkippedFit == ASSUME TypeOK, SlotInv PROVE FitAll(SkippedPairs, nextCall)
<1>1. Skipped \subseteq Call /\ \A c \in Skipped : c < nextCall /\ c \notin ran
  BY DEF Skipped, SlotInv, SlotOK
<1>2. IsFiniteSet(Skipped) /\ Cardinality(Skipped) \in Nat
  <2>1. IsFiniteSet(Call)
    BY FS_Interval, RecoveryAssumption DEF Call
  <2> QED BY <1>1, <2>1, FS_Subset, FS_CardinalityType
<1>3. ASSUME NEW k \in 1 .. 2 * Cardinality(Skipped) PROVE Fits(SkippedPairs[k], nextCall)
  <2>1. ASSUME NEW n PROVE Nth(Skipped, n) \subseteq Skipped
    BY DEF Nth
  <2>2. ASSUME NEW calls \in SUBSET Skipped
        PROVE  Fits(Called(calls), nextCall) /\ Fits(Result(calls, "refused"), nextCall)
    BY <1>1 DEF Fits, Called, Result, Event, Types, Outcomes
  <2>3. SkippedPairs[k] = Called(Nth(Skipped, (k + 1) \div 2))
        \/ SkippedPairs[k] = Result(Nth(Skipped, k \div 2), "refused")
    BY DEF SkippedPairs
  <2> QED BY <2>1, <2>2, <2>3
<1>4. SkippedPairs \in Seq(Event) /\ DOMAIN SkippedPairs = 1 .. 2 * Cardinality(Skipped)
  BY <1>2, <1>3 DEF SkippedPairs, Fits
<1> QED BY <1>3, <1>4 DEF FitAll

LEMMA EndingsFit == FitAll(<<Mark("step/end"), Mark("turn/end")>>, nextCall)
  BY MarksFit, FitTwo DEF Types, Boundary

-----------------------------------------------------------------------------
(* The steps of a turn.                                                    *)

\* No slot is taken or left and no body is invoked.
SlotsKept ==
    /\ UNCHANGED <<slot, need, ran, nextCall>> /\ stage' # "down"

\* A step that appends events that are not results.
LEMMA PlainStep ==
    ASSUME Inv, NEW s, FitAll(s, nextCall), log' = log \o s, SlotsKept,
           \A k \in DOMAIN s : s[k].type # "tool/result",
           UNCHANGED <<durable, crashes, shown>>,
           stage' \in Stages, aborted' \in BOOLEAN, failed' \in BOOLEAN
    PROVE  Inv'
<1>1. nextCall' = nextCall /\ nextCall \in Nat
  BY RecoveryAssumption DEF SlotsKept, Inv, TypeOK
<1>2. /\ LogInv' /\ log' \in Seq(Event) /\ durable' \in 0 .. Len(log') /\ Grows
      /\ \A i \in DOMAIN log' \ DOMAIN log : \E k \in DOMAIN s : log'[i] = s[k]
  BY <1>1, GrowKeeps DEF Inv, SlotsKept
<1>3. TypeOK'
  BY <1>2 DEF Inv, TypeOK, SlotsKept
<1>4. SlotInv'
  <2> SUFFICES ASSUME NEW c \in Call PROVE SlotOK(c)'
    BY DEF SlotInv
  <2>1. \A i \in DOMAIN log' \ DOMAIN log : ~Is(log', i, "tool/result")
    BY <1>2 DEF Is
  <2>2. SlotOK(c) /\ TypeOK /\ slot'[c] = slot[c] /\ need'[c] = need[c] /\ stage' # "down"
        /\ (c \in ran' <=> c \in ran)
    BY DEF Inv, SlotInv, SlotsKept
  <2> QED BY <1>1, <1>2, <2>1, <2>2, SlotKept
<1> QED BY <1>2, <1>3, <1>4 DEF Inv

\* A step that leaves the log and the slots alone.
LEMMA StillStep ==
    ASSUME Inv, UNCHANGED log, SlotsKept, UNCHANGED crashes,
           durable' \in durable .. Len(log), ShownStored',
           stage' \in Stages, aborted' \in BOOLEAN, failed' \in BOOLEAN, shown' \in Seq(Event)
    PROVE  Inv'
<1>1. TypeOK'
  BY DEF Inv, TypeOK, SlotsKept
<1>2. Recorded'
  BY <1>1 DEF Inv, TypeOK, LogInv, Recorded, Started, Is, SlotsKept
<1>3. LogInv'
  BY <1>2 DEF Inv, LogInv, Ids, CallsFollow, ResultsTellTheTruth, Is, SlotsKept
<1>4. SlotInv'
  BY DEF Inv, SlotInv, SlotOK, Started, Unanswered, Is, SlotsKept
<1> QED BY <1>1, <1>3, <1>4 DEF Inv

\* A mark of the turn or the step is appended.
LEMMA MarkStep ==
    ASSUME Inv, NEW type \in Boundary \cup {"step/start"}, log' = Append(log, Mark(type)),
           SlotsKept, UNCHANGED <<durable, crashes, shown>>,
           stage' \in Stages, aborted' \in BOOLEAN, failed' \in BOOLEAN
    PROVE  Inv'
<1>1. Fits(Mark(type), nextCall) /\ Mark(type) \in Event /\ Mark(type).type # "tool/result"
  BY MarksFit DEF Types, Boundary, Fits, Mark
<1>2. log' = log \o <<Mark(type)>>
  BY <1>1, AppendIsConcat DEF Inv, TypeOK
<1>3. \A k \in DOMAIN <<Mark(type)>> : <<Mark(type)>>[k].type # "tool/result"
  BY <1>1
<1>4. FitAll(<<Mark(type)>>, nextCall)
  BY <1>1, FitOne
<1> QED BY <1>2, <1>3, <1>4, PlainStep

LEMMA TurnKeeps ==
    ASSUME Inv, StartTurn \/ EnterStep \/ EndTurn \/ SendRequest \/ RetryRequest \/ Answer
                \/ FailRequest \/ Abort \/ SchedulerFails
    PROVE  Inv'
<1>1. CASE StartTurn
  BY <1>1, MarkStep DEF StartTurn, SlotsKept, Boundary, Stages
<1>2. CASE EnterStep
  BY <1>2, MarkStep DEF EnterStep, SlotsKept, Boundary, Stages, Inv, TypeOK
<1>3. CASE EndTurn
  BY <1>3, MarkStep DEF EndTurn, SlotsKept, Boundary, Stages, Inv, TypeOK
<1>4. CASE SendRequest
  <2>1. ShownStored'
    BY <1>4 DEF SendRequest, RequestFlushed, Flushed, ShownStored
  <2> QED BY <1>4, <2>1, StillStep DEF SendRequest, SlotsKept, Stages, Inv, TypeOK
<1>5. CASE RetryRequest \/ Abort \/ SchedulerFails
  <2>2. durable' \in durable .. Len(log)
    BY <1>5 DEF RetryRequest, Abort, SchedulerFails, Inv, TypeOK
  <2>1. ShownStored'
    BY <1>5 DEF RetryRequest, Abort, SchedulerFails, Inv, LogInv, ShownStored
  <2>3. stage' \in Stages \ {"down"}
    BY <1>5 DEF RetryRequest, Abort, SchedulerFails, Stages, Up, Inv, TypeOK
  <2> QED BY <1>5, <2>1, <2>2, <2>3, StillStep
        DEF RetryRequest, Abort, SchedulerFails, SlotsKept, Stages, Up, Inv, TypeOK
<1>6. Fits(Message({}), nextCall) /\ FitAll(<<Message({})>>, nextCall) /\ FitAll(<< >>, nextCall)
  <2>1. Fits(Message({}), nextCall)
    BY DEF Fits, Message, Event, Types
  <2> QED BY <2>1, FitOne DEF FitAll
<1>7. CASE Answer
  <2> DEFINE s == <<Message({}), Mark("step/end")>>
  <2>1. FitAll(s, nextCall)
    BY <1>6, MarksFit, FitTwo DEF Types, Boundary
  <2>3. \A k \in DOMAIN s : s[k].type # "tool/result"
    BY DEF Message, Mark
  <2>2. log' = log \o s /\ SlotsKept /\ UNCHANGED <<durable, crashes, shown>>
        /\ stage' \in Stages /\ aborted' \in BOOLEAN /\ failed' \in BOOLEAN
    BY <1>7 DEF Answer, SlotsKept, Stages, Inv, TypeOK
  <2> HIDE DEF s
  <2> QED BY <2>1, <2>2, <2>3, PlainStep
<1>8. CASE FailRequest
  <2> DEFINE e == <<Mark("step/end"), Mark("turn/end")>>
  <2>1. PICK kept \in Interrupted : log' = (log \o kept) \o e
    BY <1>8 DEF FailRequest
  <2>2. FitAll(kept, nextCall) /\ (kept = << >> \/ kept = <<Message({})>>)
    BY <1>6 DEF Interrupted
  <2>3. FitAll(e, nextCall)
    BY EndingsFit
  <2>4. log' = log \o (kept \o e)
    <3>1. log \in Seq(Event) /\ kept \in Seq(Event) /\ e \in Seq(Event)
      BY <2>2, <2>3 DEF FitAll, Inv, TypeOK
    <3> HIDE DEF e
    <3> QED BY <2>1, <3>1, ConcatAssociative
  <2>5. FitAll(kept \o e, nextCall)
    BY <2>2, <2>3, FitConcat
  <2>6. \A k \in DOMAIN (kept \o e) : (kept \o e)[k].type # "tool/result"
    BY <2>2 DEF Message, Mark
  <2>7. SlotsKept /\ UNCHANGED <<durable, crashes, shown>>
        /\ stage' \in Stages /\ aborted' \in BOOLEAN /\ failed' \in BOOLEAN
    BY <1>8 DEF FailRequest, SlotsKept, Stages, Inv, TypeOK
  <2> HIDE DEF e
  <2> QED BY <2>4, <2>5, <2>6, <2>7, PlainStep
<1> QED BY <1>1, <1>2, <1>3, <1>4, <1>5, <1>7, <1>8

\* The calls of a message take the next ids: nothing is known of them yet.
LEMMA RequestToolsKeeps == ASSUME Inv, NEW n \in 1 .. MaxCalls, RequestTools(n) PROVE Inv'
<1> DEFINE calls == nextCall .. nextCall + n - 1
<1>1. nextCall \in Nat /\ nextCall' = nextCall + n /\ nextCall' \in 0 .. MaxCalls
      /\ calls \subseteq Call /\ log \in Seq(Event)
  BY RecoveryAssumption DEF RequestTools, Inv, TypeOK, Call
<1>2. Fits(Message(calls), nextCall')
  BY <1>1 DEF Fits, Message, Event, Types
<1>3. log' = Append(log, Message(calls)) /\ UNCHANGED <<ran, durable, shown>>
  BY DEF RequestTools
<1>4. /\ LogInv' /\ log' \in Seq(Event) /\ durable' \in 0 .. Len(log') /\ Grows
      /\ \A i \in DOMAIN log' \ DOMAIN log : log'[i] = Message(calls)
  <2> HIDE DEF calls
  <2> QED BY <1>1, <1>2, <1>3, AppendKeeps DEF Inv
<1>5. slot' = [c \in Call |-> IF c \in calls THEN "requested" ELSE "none"]
      /\ stage' = "tools" /\ need' = need
  BY DEF RequestTools
<1>6. TypeOK'
  BY <1>1, <1>3, <1>4, <1>5 DEF RequestTools, Inv, TypeOK, Slots, Stages
<1>7. SlotInv'
  <2> SUFFICES ASSUME NEW c \in Call PROVE SlotOK(c)'
    BY DEF SlotInv
  <2>1. CASE c \in calls
    <3>1. ~(c < nextCall) /\ c < nextCall'
      BY <1>1, <2>1
    <3>2. c \notin ran
      BY <3>1, <1>1 DEF Inv, LogInv, Recorded, Started, Ids
    <3>3. Unanswered(c)'
      BY <3>1, <1>1, <1>4 DEF Unanswered, Grows, Inv, LogInv, Ids, Message, Is
    <3> QED BY <1>3, <1>5, <2>1, <3>1, <3>2, <3>3 DEF SlotOK
  <2>2. CASE c \notin calls
    BY <1>5, <2>2 DEF SlotOK
  <2> QED BY <2>1, <2>2
<1> QED BY <1>4, <1>6, <1>7 DEF Inv

\* A step of one call that leaves the log alone.
LEMMA CallStep ==
    ASSUME Inv, NEW c \in Call, NEW state \in Slots, SlotOK(c)',
           slot' = [slot EXCEPT ![c] = state],
           need' \in [Call -> Nat], \A d \in Call \ {c} : need'[d] = need[d],
           ran \subseteq ran', ran' \subseteq ran \cup {c}, LogInv', stage # "down",
           UNCHANGED <<log, durable, stage, aborted, failed, nextCall, crashes, shown>>
    PROVE  Inv'
<1>1. TypeOK'
  BY DEF Inv, TypeOK
<1>2. Grows
  BY DEF Grows, Inv, TypeOK
<1>3. SlotInv'
  <2> SUFFICES ASSUME NEW d \in Call PROVE SlotOK(d)'
    BY DEF SlotInv
  <2>1. CASE d # c
    <3>1. SlotOK(d) /\ TypeOK /\ slot'[d] = slot[d] /\ need'[d] = need[d] /\ stage' # "down"
          /\ (d \in ran' <=> d \in ran) /\ nextCall' \in Nat /\ nextCall <= nextCall'
      BY <2>1, RecoveryAssumption DEF Inv, TypeOK, SlotInv
    <3> QED BY <1>2, <3>1, SlotKept
  <2> QED BY <2>1
<1> QED BY <1>1, <1>3 DEF Inv

LEMMA PrepareKeeps == ASSUME Inv, NEW c \in Call, Prepare(c) PROVE Inv'
<1>1. slot[c] = "called" /\ Started(c, Len(log)) /\ Unanswered(c) /\ c \notin ran
      /\ c < nextCall /\ stage # "down"
  BY DEF Prepare, Inv, SlotInv, SlotOK
<1>2. LogInv'
  BY DEF Prepare, Inv, LogInv, Ids, CallsFollow, Recorded, Started, ResultsTellTheTruth, ShownStored, Is
<1>3. Len(log) \in Nat /\ slot \in [Call -> Slots] /\ need \in [Call -> Nat]
  BY DEF Inv, TypeOK
<1>4. SlotOK(c)' /\ need' \in [Call -> Nat] /\ \A d \in Call \ {c} : need'[d] = need[d]
  BY <1>1, <1>3 DEF Prepare, SlotOK, Started, Unanswered, Is
<1> QED BY <1>1, <1>2, <1>4, CallStep DEF Prepare, Slots

LEMMA DispatchKeeps == ASSUME Inv, NEW c \in Call, Dispatch(c) PROVE Inv'
<1>1. slot[c] = "barrier" /\ need[c] <= durable /\ Started(c, need[c]) /\ Unanswered(c)
      /\ c \notin ran /\ c < nextCall /\ stage # "down"
  BY DEF Dispatch, CallFlushed, Flushed, Inv, SlotInv, SlotOK
<1>2. durable \in Nat /\ slot \in [Call -> Slots] /\ need \in [Call -> Nat]
  BY DEF Inv, TypeOK
<1>3. Started(c, durable)
  BY <1>1, <1>2 DEF Started
<1>4. LogInv'
  <2>1. Recorded'
    BY <1>3 DEF Dispatch, Inv, LogInv, Recorded, Started, Is
  <2>2. ResultsTellTheTruth'
    BY <1>1 DEF Dispatch, Inv, LogInv, ResultsTellTheTruth, Unanswered, Is
  <2> QED BY <2>1, <2>2 DEF Dispatch, Inv, LogInv, Ids, CallsFollow, ShownStored, Is
<1>5. CASE aborted
  <2>1. SlotOK(c)'
    BY <1>1, <1>2, <1>5 DEF Dispatch, SlotOK
  <2> QED BY <1>1, <1>2, <1>4, <1>5, <2>1, CallStep DEF Dispatch, Slots
<1>6. CASE ~aborted
  <2>1. SlotOK(c)'
    BY <1>1, <1>2, <1>6 DEF Dispatch, SlotOK
  <2> QED BY <1>1, <1>2, <1>4, <1>6, <2>1, CallStep DEF Dispatch, Slots
<1> QED BY <1>5, <1>6

LEMMA SettleKeeps == ASSUME Inv, NEW c \in Call, CheckpointFails(c) \/ Finish(c) PROVE Inv'
<1>1. slot \in [Call -> Slots] /\ need \in [Call -> Nat] /\ SlotOK(c) /\ stage # "down"
  BY DEF CheckpointFails, Finish, Inv, TypeOK, SlotInv, SlotOK
<1>2. LogInv'
  BY DEF CheckpointFails, Finish, Inv, LogInv, Ids, CallsFollow, Recorded, Started,
         ResultsTellTheTruth, ShownStored, Is
<1>3. SlotOK(c)'
  BY <1>1 DEF CheckpointFails, Finish, SlotOK
<1> QED BY <1>1, <1>2, <1>3, CallStep DEF CheckpointFails, Finish, Slots

\* A step of one call that appends an event about it.
LEMMA CallEvent ==
    ASSUME Inv, NEW c \in Call, NEW state \in Slots, NEW e, SlotOK(c)',
           Fits(e, nextCall), e.calls = {c}, log' = Append(log, e),
           slot' = [slot EXCEPT ![c] = state], stage # "down",
           UNCHANGED <<durable, stage, need, aborted, failed, nextCall, crashes, ran, shown>>
    PROVE  Inv'
<1>1. nextCall \in Nat
  BY RecoveryAssumption DEF Inv, TypeOK
<1>2. /\ LogInv' /\ log' \in Seq(Event) /\ durable' \in 0 .. Len(log') /\ Grows
      /\ \A i \in DOMAIN log' \ DOMAIN log : log'[i] = e
  <2>1. Fits(e, nextCall') /\ nextCall' \in Nat /\ nextCall <= nextCall'
    BY <1>1
  <2> QED BY <2>1, AppendKeeps DEF Inv
<1>3. TypeOK'
  BY <1>2 DEF Inv, TypeOK
<1>4. SlotInv'
  <2> SUFFICES ASSUME NEW d \in Call PROVE SlotOK(d)'
    BY DEF SlotInv
  <2>1. CASE d # c
    <3>1. SlotOK(d) /\ TypeOK /\ slot'[d] = slot[d] /\ need'[d] = need[d] /\ stage' # "down"
          /\ (d \in ran' <=> d \in ran) /\ nextCall' \in Nat /\ nextCall <= nextCall'
      BY <1>1, <2>1 DEF Inv, TypeOK, SlotInv
    <3> QED BY <1>2, <2>1, <3>1, SlotKept
  <2> QED BY <2>1
<1> QED BY <1>2, <1>3, <1>4 DEF Inv

LEMMA StartCallKeeps == ASSUME Inv, NEW c \in Call, StartCall(c) PROVE Inv'
<1>1. slot[c] = "requested" /\ c < nextCall /\ Unanswered(c) /\ c \notin ran /\ stage = "tools"
      /\ slot \in [Call -> Slots] /\ log \in Seq(Event)
  BY DEF StartCall, Inv, TypeOK, SlotInv, SlotOK
<1>2. Fits(Called({c}), nextCall) /\ Called({c}).calls = {c} /\ Called({c}) \in Event
  BY <1>1 DEF Fits, Called, Event, Types
<1>3. /\ log' = Append(log, Called({c})) /\ slot' = [slot EXCEPT ![c] = "called"]
      /\ UNCHANGED <<durable, stage, need, aborted, failed, nextCall, crashes, ran, shown>>
  BY DEF StartCall
<1>4. /\ DOMAIN log' = 1 .. Len(log) + 1 /\ Len(log') = Len(log) + 1
      /\ \A i \in DOMAIN log : log'[i] = log[i]
      /\ log'[Len(log) + 1] = Called({c})
  BY <1>1, <1>2, <1>3, AppendProperties
<1>5. Started(c, Len(log))'
  BY <1>1, <1>4 DEF Started, Is, Called
<1>6. Unanswered(c)'
  BY <1>1, <1>4 DEF Unanswered, Is, Called
<1>7. SlotOK(c)'
  BY <1>1, <1>3, <1>5, <1>6 DEF SlotOK
<1> QED BY <1>1, <1>2, <1>3, <1>7, CallEvent DEF Slots

LEMMA CommitKeeps == ASSUME Inv, NEW c \in Call, Commit(c) PROVE Inv'
<1>1. /\ slot[c] \in {"ran", "refused"} /\ stage = "tools" /\ slot \in [Call -> Slots]
      /\ c < nextCall /\ (slot[c] = "ran" => c \in ran) /\ (slot[c] = "refused" => c \notin ran)
  BY DEF Commit, Commits, Inv, TypeOK, SlotInv, SlotOK
<1>2. Fits(Result({c}, slot[c]), nextCall) /\ Result({c}, slot[c]).calls = {c}
  BY <1>1 DEF Fits, Result, Event, Types, Outcomes
<1>3. SlotOK(c)'
  BY <1>1 DEF Commit, SlotOK
<1> QED BY <1>1, <1>2, <1>3, CallEvent DEF Commit, Slots

-----------------------------------------------------------------------------
(* The end of a step, and repair.                                          *)

\* A step that extends the log and leaves no slot taken.
LEMMA CloseStep ==
    ASSUME Inv, NEW s, FitAll(s, nextCall), log' = log \o s, Cleared,
           UNCHANGED <<durable, need, nextCall, crashes, ran, shown>>,
           stage' \in Stages, aborted' \in BOOLEAN, failed' \in BOOLEAN
    PROVE  Inv'
<1>1. nextCall' = nextCall /\ nextCall \in Nat
  BY RecoveryAssumption DEF Inv, TypeOK
<1>2. LogInv' /\ log' \in Seq(Event) /\ durable' \in 0 .. Len(log')
  BY <1>1, GrowKeeps DEF Inv
<1>3. TypeOK' /\ SlotInv'
  BY <1>2 DEF Inv, TypeOK, SlotInv, SlotOK, Cleared, Slots
<1> QED BY <1>2, <1>3 DEF Inv

\* What is appended before the marks that end the turn.
LEMMA EndTurnKeeps ==
    ASSUME Inv, NEW s, FitAll(s, nextCall), Cleared,
           log' = log \o s \o <<Mark("step/end"), Mark("turn/end")>>,
           UNCHANGED <<durable, need, nextCall, crashes, ran, shown>>,
           stage' \in Stages, aborted' \in BOOLEAN, failed' \in BOOLEAN
    PROVE  Inv'
<1> DEFINE e == <<Mark("step/end"), Mark("turn/end")>>
<1>1. FitAll(e, nextCall)
  BY EndingsFit
<1>2. log' = log \o (s \o e)
  <2>1. log \in Seq(Event) /\ s \in Seq(Event) /\ e \in Seq(Event)
    BY <1>1 DEF FitAll, Inv, TypeOK
  <2>2. (log \o s) \o e = log \o (s \o e)
    <3> HIDE DEF e
    <3> QED BY <2>1, ConcatAssociative
  <2> QED BY <2>2
<1>3. FitAll(s \o e, nextCall)
  BY <1>1, FitConcat
<1> HIDE DEF e
<1> QED BY <1>2, <1>3, CloseStep

LEMMA StepKeeps == ASSUME Inv, Step PROVE Inv'
<1>1. CASE EndStep
  <2>1. log' = log \o <<Mark("step/end")>>
    <3>1. Mark("step/end") \in Event
      BY DEF Mark, Event, Types
    <3> QED BY <1>1, <3>1, AppendIsConcat DEF EndStep, Inv, TypeOK
  <2>2. FitAll(<<Mark("step/end")>>, nextCall)
    BY MarksFit, FitOne DEF Types, Boundary
  <2> QED BY <1>1, <2>1, <2>2, CloseStep DEF EndStep, Stages, Inv, TypeOK
<1>2. CASE EndAborted
  BY <1>2, SkippedFit, EndTurnKeeps DEF EndAborted, Stages, Inv, TypeOK
<1>3. CASE RecoverStep
  BY <1>3, ResultsFit, EndTurnKeeps DEF RecoverStep, Stages, Inv, TypeOK
<1> QED BY <1>1, <1>2, <1>3 DEF Step

LEMMA ResumeKeeps == ASSUME Inv, Resume PROVE Inv'
<1>1. FitAll(Closers(log), nextCall)
  <2>1. FitAll(Endings(log), nextCall)
    <3>1. FitAll(<<Mark("turn/end")>>, nextCall)
      BY MarksFit, FitOne DEF Types, Boundary
    <3> QED BY <3>1, EndingsFit DEF Endings
  <2>2. FitAll(<< >>, nextCall)
    BY DEF FitAll
  <2> QED BY <2>1, <2>2, ResultsFit, FitConcat DEF Closers, Inv
<1>2. Cleared
  <2> SUFFICES slot' = [c \in Call |-> "none"]
    BY DEF Cleared
  <2>1. \A c \in Call : slot[c] = "none"
    BY DEF Resume, Inv, SlotInv, SlotOK
  <2> QED BY <2>1 DEF Resume, Inv, TypeOK
<1> QED BY <1>1, <1>2, CloseStep DEF Resume, Stages, Inv, TypeOK

-----------------------------------------------------------------------------
(* Storage and crashes.                                                    *)

LEMMA PersistKeeps == ASSUME Inv, NEW n \in 1 .. Len(log), Persist(n) PROVE Inv'
<1>1. durable' \in durable .. Len(log) /\ durable \in Nat
  BY DEF Persist, Inv, TypeOK
<1>2. ShownStored'
  BY <1>1 DEF Persist, Inv, TypeOK, LogInv, ShownStored
<1> QED BY <1>1, <1>2, StillStep DEF Persist, SlotsKept, Inv, TypeOK

LEMMA PublishKeeps == ASSUME Inv, Publish PROVE Inv'
<1>1. durable' \in durable .. Len(log)
  BY DEF Publish, Inv, TypeOK
<1>2. ShownStored'
  BY DEF Publish, Inv, LogInv, ShownStored
<1> QED BY <1>1, <1>2, StillStep DEF Publish, SlotsKept, Stages, Inv, TypeOK

\* What is stored holds every recorded call that ran and what the model was shown.
LEMMA CrashKeeps == ASSUME Inv, Crash PROVE Inv'
<1>1. log \in Seq(Event) /\ durable \in 0 .. Len(log) /\ Len(log) \in Nat
  BY DEF Inv, TypeOK
<1>2. \A i \in 1 .. durable : log[i] \in Event
  BY <1>1, ElementOfSeq
<1>3. /\ log' \in Seq(Event) /\ Len(log') = durable /\ DOMAIN log' = 1 .. durable
      /\ \A i \in 1 .. durable : log'[i] = log[i] /\ i \in DOMAIN log
  <2>1. log' = SubSeq(log, 1, durable)
    BY DEF Crash, Stored
  <2> QED BY <1>1, <1>2, <2>1, SubSeqProperties
<1>4. UNCHANGED <<durable, need, nextCall, ran, shown>>
  BY DEF Crash
<1>5. TypeOK'
  <2>1. crashes' \in 0 .. MaxCrashes
    <3>1. crashes \in 0 .. MaxCrashes /\ crashes < MaxCrashes /\ crashes' = crashes + 1
      BY DEF Crash, Inv, TypeOK
    <3> QED BY <3>1, RecoveryAssumption
  <2>2. log' \in Seq(Event) /\ shown' \in Seq(Event) /\ durable' \in 0 .. Len(log')
    BY <1>1, <1>3, <1>4 DEF Inv, TypeOK
  <2>3. stage' \in Stages /\ slot' \in [Call -> Slots] /\ aborted' \in BOOLEAN /\ failed' \in BOOLEAN
    BY DEF Crash, Cleared, Slots, Stages
  <2> QED BY <1>4, <2>1, <2>2, <2>3 DEF Inv, TypeOK
<1>6. LogInv'
  <2>1. Ids' /\ CallsFollow' /\ ResultsTellTheTruth'
    BY <1>3, <1>4 DEF Inv, LogInv, Ids, CallsFollow, ResultsTellTheTruth, Is
  <2>2. Recorded'
    BY <1>3, <1>4 DEF Inv, LogInv, Recorded, Started, Is
  <2>3. ShownStored'
    <3>1. DOMAIN shown = 1 .. Len(shown)
      BY DEF Inv, TypeOK
    <3> QED BY <1>1, <1>3, <1>4, <3>1 DEF Inv, LogInv, ShownStored
  <2> QED BY <2>1, <2>2, <2>3 DEF LogInv
<1>7. SlotInv'
  BY DEF Crash, Cleared, SlotInv, SlotOK
<1> QED BY <1>5, <1>6, <1>7 DEF Inv

-----------------------------------------------------------------------------
(* The theorems.                                                           *)

LEMMA InitInv == Init => Inv
<1> SUFFICES ASSUME Init PROVE Inv
  OBVIOUS
<1>1. << >> \in Seq(Event) /\ Len(<< >>) = 0 /\ DOMAIN << >> = {}
  OBVIOUS
<1>2. TypeOK
  <2>1. 0 \in 0 .. MaxCalls /\ 0 \in 0 .. MaxCrashes /\ 0 \in 0 .. Len(<< >>)
    BY <1>1, RecoveryAssumption
  <2>2. log \in Seq(Event) /\ shown \in Seq(Event) /\ durable \in 0 .. Len(log)
    BY <1>1, <2>1 DEF Init
  <2> QED BY <2>1, <2>2 DEF Init, TypeOK, Stages, Slots
<1>3. LogInv
  BY <1>1 DEF Init, LogInv, Ids, CallsFollow, Recorded, ResultsTellTheTruth, ShownStored
<1>4. SlotInv
  BY DEF Init, SlotInv, SlotOK
<1> QED BY <1>2, <1>3, <1>4 DEF Inv

LEMMA NextInv == Inv /\ [Next]_vars => Inv'
<1> SUFFICES ASSUME Inv, [Next]_vars PROVE Inv'
  OBVIOUS
<1>1. CASE Turn \/ Abort \/ SchedulerFails
  BY <1>1, TurnKeeps, RequestToolsKeeps DEF Turn
<1>2. ASSUME NEW c \in Call, Tools(c) PROVE Inv'
  BY <1>2, StartCallKeeps, PrepareKeeps, DispatchKeeps, SettleKeeps, CommitKeeps DEF Tools
<1>3. CASE Step
  BY <1>3, StepKeeps
<1>4. CASE (\E n \in 1 .. Len(log) : Persist(n)) \/ Crash \/ Resume \/ Publish
  BY <1>4, PersistKeeps, CrashKeeps, ResumeKeeps, PublishKeeps
<1>5. CASE UNCHANGED vars
  BY <1>5 DEF vars, Inv, TypeOK, LogInv, SlotInv, SlotOK, Ids, CallsFollow, Recorded, Started,
              Unanswered, ResultsTellTheTruth, ShownStored, Is
<1> QED BY <1>1, <1>2, <1>3, <1>4, <1>5 DEF Next

THEOREM Invariance == Spec => []Inv
  BY InitInv, NextInv, PTL DEF Spec

\* Every variable keeps its type, whatever the bounds.
THEOREM TypeCorrect == Spec => []TypeOK
<1>1. Inv => TypeOK
  BY DEF Inv
<1> QED BY <1>1, Invariance, PTL

\* For any number of turns, calls and crashes, a result that denies its call ran is true.
THEOREM ResultsAreTrue == Spec => []ResultsTellTheTruth
<1>1. Inv => ResultsTellTheTruth
  BY DEF Inv, LogInv
<1> QED BY <1>1, Invariance, PTL

\* For any number of crashes, what a model request was built from begins the log.
THEOREM RequestsAreStored == Spec => []NothingForgotten
<1>1. Inv => NothingForgotten
  <2> SUFFICES ASSUME Inv PROVE NothingForgotten
    OBVIOUS
  <2>1. /\ shown \in Seq(Event) /\ log \in Seq(Event)
        /\ Len(shown) <= Len(log) /\ \A i \in 1 .. Len(shown) : shown[i] = log[i]
    BY DEF Inv, TypeOK, LogInv, ShownStored
  <2>2. SubSeq(shown, 1, Len(shown)) = SubSeq(log, 1, Len(shown))
    BY <2>1
  <2> QED BY <2>1, <2>2 DEF NothingForgotten, IsPrefix
<1> QED BY <1>1, Invariance, PTL
=============================================================================
