--------------------------- MODULE AgentDriverProofs ---------------------------
(***************************************************************************)
(* Proofs about AgentDriver, for every set of messages and every bound.    *)
(*                                                                         *)
(* The inductive invariant locates the driver on the session log (Located),*)
(* accounts for the open step's tool calls (Accounted), and keeps every    *)
(* message in one place (Placed, Unadmitted).                              *)
(***************************************************************************)
EXTENDS AgentDriver, TLAPS, SequenceTheorems

\* The windows between step/start and step/end.
InStep == {"entered", "request", "admitting", "streaming", "recovering", "answered",
           "tools", "stepped", "failed"}
\* The windows between turn/start and turn/end.
InTurn == InStep \cup {"opened", "preStep", "decided", "closedStep", "unwound",
                       "stopping", "reporting", "closing"}

\* Where the driver is suspended says which boundaries are open on the log.
Located ==
    /\ phase = "running" <=> pc # "off"
    /\ turnOpen <=> pc \in InTurn
    /\ stepOpen <=> pc \in InStep
    /\ pc \in {"closing", "reporting", "stopping"} => ends # "none"

\* The windows of a step that has no assistant message yet.
Asking == {"entered", "request", "admitting", "streaming", "recovering"}

\* The open step's calls are recorded before they are answered.
Accounted ==
    /\ pc \in Asking => requests = 0
    /\ pc \in Asking \cup {"answered"} => called = 0 /\ answered = 0
    /\ pc \in InStep => answered <= called /\ called <= requests
    /\ pc \notin InStep \/ pc = "stepped" => answered = requests

Elements(s) == {s[i] : i \in 1 .. Len(s)}
Distinct(s) == \A i, j \in 1 .. Len(s) : s[i] = s[j] => i = j

\* A message is in one place: unsent, queued once, or in the claimed batch.
Placed ==
    /\ Distinct(nextTurn)
    /\ Elements(nextTurn) \cap (nextStep \cup unsent \cup batch) = {}
    /\ nextStep \cap (unsent \cup batch) = {}
    /\ unsent \cap batch = {}

\* The step's first request has not begun.
BeforeAdmission == pc \in {"preStep", "decided", "entered"} \/ (pc = "request" /\ attempt = 0)

\* What is not yet claimed, claimed for a step still to ask, or still to be appended by
\* the admission under way is not in the history.
Unadmitted ==
    /\ \A m \in Messages : admissions[m] <= 1
    /\ \A m \in unsent \cup nextStep \cup Elements(nextTurn) : admissions[m] = 0
    /\ BeforeAdmission => \A m \in batch : admissions[m] = 0
    /\ \A m \in toAdmit : m \in batch /\ admissions[m] = 0
    /\ toAdmit # {} => pc = "admitting"
    /\ pc \in {"admitting", "streaming", "recovering"} => attempt > 0

\* The turn's first claim is the only one that takes a prompt.
Prompted == prompts <= 1 /\ (pc = "opened" => prompts = 0)
-----------------------------------------------------------------------------
(* Sequences and frames.                                                   *)

\* Cutting one element out of a sequence keeps the others in order.
LEMMA CutAtType ==
  ASSUME NEW S, NEW s \in Seq(S), NEW i \in 1 .. Len(s)
  PROVE  /\ CutAt(s, i) \in Seq(S)
         /\ Len(CutAt(s, i)) = Len(s) - 1
         /\ \A j \in 1 .. Len(s) - 1 : CutAt(s, i)[j] = IF j < i THEN s[j] ELSE s[j + 1]
<1> DEFINE front == SubSeq(s, 1, i - 1)
           back == SubSeq(s, i + 1, Len(s))
<1>0. Len(s) \in Nat /\ i \in Nat
  BY LenProperties
<1>1. /\ front \in Seq(S) /\ Len(front) = i - 1
      /\ \A j \in 1 .. i - 1 : front[j] = s[j]
  <2>1. \A j \in 1 .. i - 1 : s[j] \in S
    BY <1>0, ElementOfSeq
  <2>2. /\ front \in Seq(S)
        /\ Len(front) = IF 1 <= i - 1 THEN i - 1 - 1 + 1 ELSE 0
        /\ \A j \in 1 .. i - 1 - 1 + 1 : front[j] = s[1 + j - 1]
    BY <1>0, <2>1, SubSeqProperties, 1 \in Int, i - 1 \in Int
  <2> QED BY <1>0, <2>2
<1>2. /\ back \in Seq(S) /\ Len(back) = Len(s) - i
      /\ \A j \in 1 .. Len(s) - i : back[j] = s[j + i]
  <2>1. \A j \in i + 1 .. Len(s) : s[j] \in S
    BY <1>0, ElementOfSeq
  <2>2. /\ back \in Seq(S)
        /\ Len(back) = IF i + 1 <= Len(s) THEN Len(s) - (i + 1) + 1 ELSE 0
        /\ \A j \in 1 .. Len(s) - (i + 1) + 1 : back[j] = s[i + 1 + j - 1]
    BY <1>0, <2>1, SubSeqProperties, i + 1 \in Int
  <2> QED BY <1>0, <2>2
<1>3. /\ front \o back \in Seq(S)
      /\ Len(front \o back) = Len(front) + Len(back)
      /\ \A j \in 1 .. Len(front) + Len(back) :
            (front \o back)[j] = IF j <= Len(front) THEN front[j] ELSE back[j - Len(front)]
  BY <1>1, <1>2, ConcatProperties
<1> HIDE DEF front, back
<1>4. CutAt(s, i) = front \o back
  BY DEF CutAt, front, back
<1>5. Len(front) = i - 1 /\ Len(back) = Len(s) - i /\ Len(front) + Len(back) = Len(s) - 1
  BY <1>0, <1>1, <1>2
<1>6. ASSUME NEW j \in 1 .. Len(s) - 1
      PROVE  (front \o back)[j] = IF j < i THEN s[j] ELSE s[j + 1]
  <2>1. CASE j < i
    BY <2>1, <1>0, <1>1, <1>3, <1>5
  <2>2. CASE ~(j < i)
    <3>1. j - (i - 1) \in 1 .. Len(s) - i /\ (j - (i - 1)) + i = j + 1
      BY <2>2, <1>0
    <3> QED BY <2>2, <3>1, <1>0, <1>2, <1>3, <1>5
  <2> QED BY <2>1, <2>2
<1> QED BY <1>3, <1>4, <1>5, <1>6

\* Renaming elements in place keeps a sequence a sequence.
LEMMA RenamedType ==
  ASSUME NEW S, NEW s \in Seq(S), NEW m, NEW n \in S
  PROVE  LET t == [i \in DOMAIN s |-> IF s[i] = m THEN n ELSE s[i]]
         IN  /\ t \in Seq(S) /\ Len(t) = Len(s)
             /\ \A i \in 1 .. Len(s) : t[i] = IF s[i] = m THEN n ELSE s[i]
<1> DEFINE t == [i \in DOMAIN s |-> IF s[i] = m THEN n ELSE s[i]]
<1>1. Len(s) \in Nat /\ s \in [1 .. Len(s) -> S] /\ DOMAIN s = 1 .. Len(s)
  BY LenProperties
<1>2. t \in [1 .. Len(s) -> S]
  BY <1>1
<1>3. t \in Seq(S)
  BY <1>1, <1>2, SeqDef
<1>4. Len(t) = Len(s)
  BY <1>1, <1>2, <1>3, LenProperties
<1> QED BY <1>1, <1>2, <1>3, <1>4

\* What a frame of the synchronous stack carries.
LEMMA FrameFields ==
  ASSUME NEW f \in Frames
  PROVE  /\ f.op = "wake" => f.late \in BOOLEAN
         /\ f.op \in {"clear", "abort"} => f.cause \in Causes
BY DEF Frames

LEMMA FrameTypes ==
  /\ \A late \in BOOLEAN : [op |-> "wake", late |-> late] \in Frames
  /\ \A c \in Causes : /\ [op |-> "clear", cause |-> c] \in Frames
                        /\ [op |-> "abort", cause |-> c] \in Frames
  /\ [op |-> "drive"] \in Frames /\ [op |-> "replay"] \in Frames
BY DEF Frames

\* Pushing a frame, and popping one.
LEMMA StackTypes ==
  ASSUME NEW s \in Seq(Frames)
  PROVE  /\ \A f \in Frames : <<f>> \o s \in Seq(Frames)
         /\ s # << >> => Head(s) \in Frames /\ Tail(s) \in Seq(Frames)
<1>1. ASSUME NEW f \in Frames PROVE <<f>> \o s \in Seq(Frames)
  <2>1. <<f>> \in Seq(Frames)
    OBVIOUS
  <2> QED BY <2>1, ConcatProperties
<1> QED BY <1>1, HeadTailProperties
-----------------------------------------------------------------------------
(* Type correctness.  Located is needed for the reason of a turn/end.      *)

LEMMA LoopData ==
  ASSUME DataOK, Located, TurnLoop
  PROVE  DataOK'
<1> USE DEF DataOK, Located, Causes, Reasons, Observing, Awaiting, PCs, phaseVars, inboxVars,
        loopVars, logVars, toolVars, callerVars, lifeVars, Aborted, Unwound, InPrefix
<1>0. PopDrive \in Seq(Frames)
  BY StackTypes DEF PopDrive, Top
<1>1. ASSUME NEW list, Claim(list)
      PROVE  /\ batch' \subseteq Messages /\ nextStep' \subseteq Messages
             /\ nextTurn' \in Seq(Messages) /\ prompts' \in Nat /\ pc' = "preStep"
  BY <1>1, HeadTailProperties DEF Claim, TakesPrompt
<1>2. CASE OpenTurn
  BY <1>0, <1>2 DEF OpenTurn
<1>3. CASE FirstClaim
  BY <1>0, <1>1, <1>3 DEF FirstClaim, Catch
<1>4. CASE DecidePreStep
  BY <1>4 DEF DecidePreStep
<1>5. CASE EnterStep
  BY <1>5 DEF EnterStep, LeaveTurn, OpenStep, Catch, EntersStep
<1>6. CASE CloseStep
  BY <1>6 DEF CloseStep, Ending, StepEnd
<1>7. CASE UnwindStep
  BY <1>7 DEF UnwindStep, RecoverResults
<1>8. CASE CatchStepFailure
  BY <1>8 DEF CatchStepFailure, Catch
<1>9. CASE AfterStep
  BY <1>1, <1>9 DEF AfterStep, Catch
<1>10. CASE AfterStopping
  BY <1>1, <1>10 DEF AfterStopping, Catch
<1>11. CASE CloseTurn
  BY <1>11 DEF CloseTurn
<1>12. CASE NextTurn
  BY <1>0, <1>12 DEF NextTurn
<1>13. CASE Converge
  BY <1>13, StackTypes, FrameTypes DEF Converge
<1> QED
  BY <1>2, <1>3, <1>4, <1>5, <1>6, <1>7, <1>8, <1>9, <1>10, <1>11, <1>12, <1>13 DEF TurnLoop

LEMMA StepData ==
  ASSUME DataOK, StepLoop
  PROVE  DataOK'
<1> USE BoundsAssumption
    DEF DataOK, Causes, Reasons, Observing, Awaiting, PCs, phaseVars, inboxVars, loopVars, logVars,
        toolVars, callerVars, lifeVars, Aborted, Unwound, StepUnchanged, Fail
<1>1. CASE BeginRequest
  BY <1>1 DEF BeginRequest
<1>2. CASE BeginAdmission
  BY <1>2 DEF BeginAdmission
<1>3. CASE OpenStream
  BY <1>3 DEF OpenStream
<1>4. CASE SettleStream
  BY <1>4 DEF SettleStream
<1>5. CASE RecoverRequest
  BY <1>5 DEF RecoverRequest
<1>6. CASE UseAnswer
  BY <1>6 DEF UseAnswer
<1>7. CASE StartCall
  BY <1>7 DEF StartCall
<1>8. CASE CommitResult
  BY <1>8 DEF CommitResult
<1>9. CASE SkipCalls
  BY <1>9 DEF SkipCalls
<1>10. CASE FinishTools
  BY <1>10 DEF FinishTools
<1>11. CASE AdmitMessage
  BY <1>11 DEF AdmitMessage
<1> QED
  BY <1>1, <1>2, <1>3, <1>4, <1>5, <1>6, <1>7, <1>8, <1>9, <1>10, <1>11 DEF StepLoop

\* wakeDriver and cancel, whichever frames they leave behind.
LEMMA WakeData ==
  ASSUME NEW rest \in Seq(Frames), NEW late, StartDriver(rest) \/ LatchWake(late, rest)
  PROVE  /\ stack' \in Seq(Frames) /\ turn' = turn
         /\ \/ phase' = "running" /\ step' = 0 /\ cause' = "none" /\ pc' = "woken"
            \/ UNCHANGED <<phase, step, cause, pc>>
<1>1. CASE StartDriver(rest)
  <2>1. stack' \in Seq(Frames)
    BY <1>1, StackTypes, FrameTypes DEF StartDriver
  <2> QED BY <1>1, <2>1 DEF StartDriver
<1>2. CASE LatchWake(late, rest)
  BY <1>2 DEF LatchWake
<1> QED BY <1>1, <1>2

LEMMA AbortData ==
  ASSUME DataOK, NEW rest \in Seq(Frames), NEW c \in Causes, AbortCleared(c, rest)
  PROVE  /\ stack' \in Seq(Frames) /\ cause' \in Causes \cup {"none"}
         /\ UNCHANGED <<phase, turn, step>>
BY DEF AbortCleared, Abort, DataOK

LEMMA ClearData ==
  ASSUME DataOK, NEW rest \in Seq(Frames), NEW c \in Causes, ClearTurn(c, rest)
  PROVE  /\ stack' \in Seq(Frames) /\ cause' \in Causes \cup {"none"}
         /\ nextTurn' \in Seq(Messages) /\ UNCHANGED <<phase, turn, step>>
<1>1. CASE nextTurn # << >>
  <2>1. << >> \in Seq(Messages)
    BY EmptySeq
  <2>2. <<[op |-> "abort", cause |-> c]>> \o rest \in Seq(Frames)
    BY StackTypes, FrameTypes
  <2> QED BY <1>1, <2>1, <2>2 DEF ClearTurn, DataOK, phaseVars
<1>2. CASE nextTurn = << >>
  BY <1>2, AbortData DEF ClearTurn, DataOK
<1> QED BY <1>1, <1>2

LEMMA SynchronousData ==
  ASSUME DataOK, Synchronous
  PROVE  DataOK'
<1> DEFINE rest == Tail(stack)
<1>0. ASSUME NEW op, Top(op)
      PROVE  /\ rest \in Seq(Frames) /\ Head(stack) \in Frames /\ Head(stack).op = op
             /\ op \in {"clear", "abort"} => Head(stack).cause \in Causes
  BY <1>0, StackTypes, FrameFields DEF Top, DataOK
<1> HIDE DEF rest
<1> USE DEF PCs, Awaiting, phaseVars, inboxVars, loopVars, logVars, toolVars, callerVars, lifeVars
<1>1. CASE Wake
  <2>1. rest \in Seq(Frames)
    BY <1>0, <1>1 DEF Wake
  <2>2. StartDriver(rest) \/ LatchWake(Head(stack).late, rest)
    BY <1>1 DEF Wake, rest
  <2>3. /\ stack' \in Seq(Frames) /\ turn' = turn
        /\ \/ phase' = "running" /\ step' = 0 /\ cause' = "none" /\ pc' = "woken"
           \/ UNCHANGED <<phase, step, cause, pc>>
    BY <2>1, <2>2, WakeData
  <2> QED BY <1>1, <2>3 DEF Wake, DataOK
<1>2. CASE ContinueClear
  <2>1. rest \in Seq(Frames) /\ Head(stack).cause \in Causes
    BY <1>0, <1>2 DEF ContinueClear
  <2>2. ClearTurn(Head(stack).cause, rest)
    BY <1>2 DEF ContinueClear, rest
  <2>3. /\ stack' \in Seq(Frames) /\ cause' \in Causes \cup {"none"}
        /\ nextTurn' \in Seq(Messages) /\ UNCHANGED <<phase, turn, step>>
    BY <2>1, <2>2, ClearData DEF DataOK
  <2> QED BY <1>2, <2>3 DEF ContinueClear, DataOK
<1>3. CASE ContinueAbort
  <2>1. rest \in Seq(Frames) /\ Head(stack).cause \in Causes
    BY <1>0, <1>3 DEF ContinueAbort
  <2>2. AbortCleared(Head(stack).cause, rest)
    BY <1>3 DEF ContinueAbort, rest
  <2>3. /\ stack' \in Seq(Frames) /\ cause' \in Causes \cup {"none"}
        /\ UNCHANGED <<phase, turn, step>>
    BY <2>1, <2>2, AbortData DEF DataOK
  <2> QED BY <1>3, <2>3 DEF ContinueAbort, DataOK
<1>4. CASE Replay
  <2>1. rest \in Seq(Frames)
    BY <1>0, <1>4 DEF Replay
  <2>2. \/ StartDriver(rest)
        \/ LatchWake(FALSE, rest)
        \/ stack' = rest /\ UNCHANGED <<phaseVars, pc>>
    BY <1>4 DEF Replay, rest
  <2>3. /\ stack' \in Seq(Frames) /\ turn' = turn
        /\ \/ phase' = "running" /\ step' = 0 /\ cause' = "none" /\ pc' = "woken"
           \/ UNCHANGED <<phase, step, cause, pc>>
    BY <2>1, <2>2, WakeData
  <2> QED BY <1>4, <2>3 DEF Replay, DataOK
<1> QED BY <1>1, <1>2, <1>3, <1>4 DEF Synchronous

LEMMA CallersData ==
  ASSUME DataOK, Callers
  PROVE  DataOK'
<1> USE DEF phaseVars, inboxVars, loopVars, logVars, toolVars, callerVars, lifeVars
<1>1. ASSUME NEW m \in Messages, NEW list, NEW front, Put(m, list, front)
      PROVE  nextTurn' \in Seq(Messages) /\ nextStep' \subseteq Messages
  <2>0. nextTurn \in Seq(Messages) /\ nextStep \subseteq Messages
    BY DEF DataOK
  <2>1. <<m>> \in Seq(Messages)
    OBVIOUS
  <2>2. <<m>> \o nextTurn \in Seq(Messages)
    BY <2>0, <2>1, ConcatProperties
  <2>3. Append(nextTurn, m) \in Seq(Messages)
    BY <2>0
  <2>4. CASE list = "next-turn"
    BY <1>1, <2>0, <2>2, <2>3, <2>4 DEF Put
  <2>5. CASE list # "next-turn"
    BY <1>1, <2>0, <2>5 DEF Put
  <2> QED BY <2>4, <2>5
<1>2. ASSUME NEW m \in Messages, NEW list, Send(m, list) PROVE DataOK'
  <2>1. PICK late \in BOOLEAN :
          /\ Put(m, IF late THEN "next-turn" ELSE list, FALSE)
          /\ stack' = <<[op |-> "wake", late |-> late]>> \o stack
    BY <1>2 DEF Send
  <2>2. stack' \in Seq(Frames)
    BY <2>1, StackTypes, FrameTypes DEF DataOK
  <2>3. nextTurn' \in Seq(Messages) /\ nextStep' \subseteq Messages
    BY <1>1, <2>1
  <2> QED BY <1>2, <2>2, <2>3 DEF Send, DataOK
<1>3. ASSUME NEW m \in Messages, NEW list, NEW front, Insert(m, list, front) PROVE DataOK'
  <2>1. nextTurn' \in Seq(Messages) /\ nextStep' \subseteq Messages
    BY <1>1, <1>3 DEF Insert
  <2> QED BY <1>3, <2>1 DEF Insert, DataOK
<1>4. ASSUME NEW m \in Messages, Remove(m) PROVE DataOK'
  <2>1. nextTurn' \in Seq(Messages)
    BY <1>4, CutAtType, LenProperties DEF Remove, DataOK
  <2> QED BY <1>4, <2>1 DEF Remove, DataOK
<1>5. ASSUME NEW m \in Messages, NEW n \in Messages, Replace(m, n) PROVE DataOK'
  <2>1. nextTurn' \in Seq(Messages)
    <3>1. nextTurn' = [i \in DOMAIN nextTurn |-> IF nextTurn[i] = m THEN n ELSE nextTurn[i]]
      BY <1>5 DEF Replace
    <3>2. nextTurn \in Seq(Messages)
      BY DEF DataOK
    <3> QED BY <3>1, <3>2, RenamedType
  <2> QED BY <1>5, <2>1 DEF Replace, DataOK
<1>6. ASSUME NEW c \in Causes, ClearAndCancel(c), life' \in {"live", "draining", "closed"},
             interrupted' \in {"idle", "maintenance", "running"}
      PROVE  DataOK'
  <2>1. CASE nextStep # {}
    <3>1. stack' \in Seq(Frames)
      <4>1. stack' = <<[op |-> "clear", cause |-> c]>> \o stack
        BY <1>6, <2>1 DEF ClearAndCancel
      <4> QED BY <1>6, <4>1, StackTypes, FrameTypes DEF DataOK
    <3> QED BY <1>6, <2>1, <3>1 DEF ClearAndCancel, DataOK
  <2>2. CASE nextStep = {}
    <3>1. ClearTurn(c, stack)
      BY <1>6, <2>2 DEF ClearAndCancel
    <3>2. /\ stack' \in Seq(Frames) /\ cause' \in Causes \cup {"none"}
          /\ nextTurn' \in Seq(Messages) /\ UNCHANGED <<phase, turn, step>>
      BY <1>6, <3>1, ClearData DEF DataOK
    <3> QED BY <1>6, <2>2, <3>2 DEF ClearAndCancel, DataOK
  <2> QED BY <2>1, <2>2
<1>7. ASSUME NEW c \in CancelCauses, Cancel(c) \/ CancelKeeping(c) PROVE DataOK'
  <2>1. c \in Causes
    BY DEF Causes
  <2>2. CASE Cancel(c)
    BY <1>6, <2>1, <2>2 DEF Cancel, DataOK
  <2>3. CASE CancelKeeping(c)
    BY <2>1, <2>3 DEF CancelKeeping, Abort, DataOK
  <2> QED BY <1>7, <2>2, <2>3
<1>8. CASE Dispose
  BY <1>6, <1>8 DEF Dispose, Causes, DataOK
<1>9. CASE StartMaintenance
  BY <1>9 DEF StartMaintenance, DataOK
<1> QED BY <1>2, <1>3, <1>4, <1>5, <1>7, <1>8, <1>9 DEF Callers

LEMMA FlagsStep ==
  ASSUME TypeOK, [Next]_vars
  PROVE  FlagsOK'
<1> USE DEF FlagsOK, phaseVars, inboxVars, loopVars, logVars, toolVars, callerVars, lifeVars
<1>0. FlagsOK /\ DataOK
  BY DEF TypeOK
<1>1. CASE Callers
  <2>1. \/ UNCHANGED wakeRequested
        \/ wakeRequested' = FALSE
    BY <1>1 DEF Callers, Send, Insert, Remove, Replace, Cancel, CancelKeeping, ClearAndCancel,
         ClearTurn, AbortCleared, Dispose, StartMaintenance
  <2>2. UNCHANGED <<truncated, drained, turnOpen, stepOpen, concluded>>
    BY <1>1 DEF Callers, Send, Insert, Remove, Replace, Cancel, CancelKeeping, ClearAndCancel,
         Dispose, StartMaintenance
  <2> QED BY <1>0, <2>1, <2>2
<1>2. CASE Synchronous
  BY <1>0, <1>2 DEF Synchronous, Wake, ContinueClear, ContinueAbort, Replay, StartDriver, LatchWake,
       ClearTurn, AbortCleared, Latches
<1>3. CASE TurnLoop
  BY <1>0, <1>3 DEF TurnLoop, OpenTurn, FirstClaim, DecidePreStep, EnterStep, LeaveTurn, OpenStep,
       CloseStep, UnwindStep, CatchStepFailure, AfterStep, AfterStopping, CloseTurn, NextTurn,
       Converge
<1>4. CASE StepLoop
  BY <1>0, <1>4 DEF StepLoop, BeginRequest, BeginAdmission, AdmitMessage, OpenStream,
       SettleStream, RecoverRequest, UseAnswer, StartCall, CommitResult, SkipCalls,
       FinishTools, StepUnchanged, Fail
<1>5. CASE EndMaintenance \/ FinishDisposal
  BY <1>0, <1>5 DEF EndMaintenance, FinishDisposal, StartDriver
<1>6. CASE UNCHANGED vars
  BY <1>0, <1>6 DEF vars
<1> QED BY <1>1, <1>2, <1>3, <1>4, <1>5, <1>6 DEF Next

LEMMA TypeStep ==
  ASSUME TypeOK, Located, [Next]_vars
  PROVE  TypeOK'
<1>0. DataOK
  BY DEF TypeOK
<1>1. CASE Callers
  BY <1>0, <1>1, CallersData, FlagsStep DEF TypeOK
<1>2. CASE Synchronous
  BY <1>0, <1>2, SynchronousData, FlagsStep DEF TypeOK
<1>3. CASE TurnLoop
  BY <1>0, <1>3, LoopData, FlagsStep DEF TypeOK
<1>4. CASE StepLoop
  BY <1>0, <1>4, StepData, FlagsStep DEF TypeOK
<1>5. CASE EndMaintenance
  <2>1. /\ stack' \in Seq(Frames) /\ turn' = turn
        /\ \/ phase' = "running" /\ step' = 0 /\ cause' = "none" /\ pc' = "woken"
           \/ phase' = "idle" /\ step' = step /\ cause' = "none" /\ pc' = pc
    <3>1. CASE Replays
      BY <1>0, <1>5, <3>1, WakeData DEF EndMaintenance, StartDriver, DataOK
    <3>2. CASE ~Replays
      BY <1>0, <1>5, <3>2 DEF EndMaintenance, DataOK
    <3> QED BY <3>1, <3>2
  <2>2. DataOK'
    BY <1>0, <1>5, <2>1 DEF EndMaintenance, DataOK, PCs, Awaiting, inboxVars, loopVars, logVars,
         lifeVars, phaseVars
  <2> QED BY <2>2, FlagsStep DEF TypeOK
<1>6. CASE FinishDisposal
  <2>1. DataOK'
    BY <1>0, <1>6 DEF FinishDisposal, DataOK, inboxVars, loopVars, logVars, callerVars, phaseVars
  <2> QED BY <2>1, FlagsStep DEF TypeOK
<1>7. CASE UNCHANGED vars
  <2>1. DataOK'
    BY <1>0, <1>7 DEF vars, DataOK, inboxVars, loopVars, logVars, callerVars, phaseVars, lifeVars
  <2> QED BY <2>1, FlagsStep DEF TypeOK
<1> QED BY <1>1, <1>2, <1>3, <1>4, <1>5, <1>6, <1>7 DEF Next

-----------------------------------------------------------------------------
(* Located: which boundaries are open where the driver is suspended.       *)

\* A caller leaves the driver where it is; only maintenance changes the phase.
LEMMA CallersStay ==
  ASSUME Callers
  PROVE  /\ UNCHANGED <<pc, loopVars, turnOpen, stepOpen, requests, called, answered, concluded,
                        lastEnd, admissions, turn, step>>
         /\ phase' = phase \/ (phase = "idle" /\ phase' = "maintenance")
BY DEF Callers, Send, Insert, Remove, Replace, Cancel, CancelKeeping, ClearAndCancel, ClearTurn,
       AbortCleared, Dispose, StartMaintenance, phaseVars, loopVars, logVars

\* So does a synchronous continuation, except that it may start an idle driver.
LEMMA SynchronousStay ==
  ASSUME Synchronous \/ EndMaintenance \/ FinishDisposal \/ UNCHANGED vars
  PROVE  /\ UNCHANGED <<loopVars, turnOpen, stepOpen, requests, called, answered, concluded,
                        lastEnd, admissions, turn>>
         /\ \/ phase # "running" /\ phase' = "running" /\ pc' = "woken"
            \/ phase # "running" /\ phase' # "running" /\ pc' = pc
            \/ phase' = phase /\ pc' = pc /\ step' = step
<1>1. CASE Synchronous
  BY <1>1 DEF Synchronous, Wake, ContinueClear, ContinueAbort, Replay, StartDriver, LatchWake,
       ClearTurn, AbortCleared, phaseVars, loopVars, logVars
<1>2. CASE EndMaintenance
  BY <1>2 DEF EndMaintenance, JobSettled, StartDriver, loopVars, logVars
<1>3. CASE FinishDisposal
  BY <1>3 DEF FinishDisposal, phaseVars, loopVars, logVars
<1>4. CASE UNCHANGED vars
  BY <1>4 DEF vars, phaseVars, loopVars, logVars
<1> QED BY <1>1, <1>2, <1>3, <1>4

LEMMA LocatedStep ==
  ASSUME TypeOK, Located, [Next]_vars
  PROVE  Located'
<1> USE DEF Located, InTurn, InStep
<1>1. CASE Callers
  BY <1>1, CallersStay DEF loopVars
<1>2. CASE Synchronous \/ EndMaintenance \/ FinishDisposal \/ UNCHANGED vars
  BY <1>2, SynchronousStay DEF loopVars
<1>3. CASE TurnLoop
  <2> USE DEF phaseVars, loopVars, logVars, Catch, Claim
  <2>1. CASE OpenTurn
    BY <2>1 DEF OpenTurn
  <2>2. CASE FirstClaim
    BY <2>2 DEF FirstClaim
  <2>3. CASE DecidePreStep
    BY <2>3 DEF DecidePreStep
  <2>4. CASE EnterStep
    BY <2>4 DEF EnterStep, LeaveTurn, OpenStep
  <2>5. CASE CloseStep
    BY <2>5 DEF CloseStep
  <2>6. CASE UnwindStep
    BY <2>6 DEF UnwindStep
  <2>7. CASE CatchStepFailure
    BY <2>7 DEF CatchStepFailure
  <2>8. CASE AfterStep
    BY <2>8 DEF AfterStep
  <2>9. CASE AfterStopping
    BY <2>9 DEF AfterStopping
  <2>10. CASE CloseTurn
    BY <2>10 DEF CloseTurn
  <2>11. CASE NextTurn
    BY <2>11 DEF NextTurn
  <2>12. CASE Converge
    BY <2>12 DEF Converge
  <2> QED
    BY <1>3, <2>1, <2>2, <2>3, <2>4, <2>5, <2>6, <2>7, <2>8, <2>9, <2>10, <2>11, <2>12 DEF TurnLoop
<1>4. CASE StepLoop
  BY <1>4 DEF StepLoop, BeginRequest, BeginAdmission, AdmitMessage, OpenStream,
       SettleStream, RecoverRequest, UseAnswer, StartCall, CommitResult, SkipCalls,
       FinishTools, StepUnchanged, Fail, phaseVars
<1> QED BY <1>1, <1>2, <1>3, <1>4 DEF Next

LEMMA InitialTypes ==
  ASSUME Init
  PROVE  DataOK /\ FlagsOK /\ Located
<1>1. << >> \in Seq(Frames) /\ << >> \in Seq(Messages)
  BY EmptySeq
<1>2. DataOK
  BY <1>1 DEF Init, DataOK, PCs, Awaiting, Reasons
<1>3. FlagsOK
  BY DEF Init, FlagsOK
<1>4. Located
  BY DEF Init, Located, InTurn, InStep
<1> QED BY <1>2, <1>3, <1>4

\* Every variable keeps its type; every turn/end carries a reason.
THEOREM TypeCorrect == Spec => []TypeOK
<1>1. Init => TypeOK /\ Located
  BY InitialTypes DEF TypeOK
<1>2. TypeOK /\ Located /\ [Next]_vars => TypeOK' /\ Located'
  BY TypeStep, LocatedStep
<1> QED BY <1>1, <1>2, PTL DEF Spec

-----------------------------------------------------------------------------
(* Accounted: the open step's calls, and the balance of a retired log.     *)

LEMMA AccountedStep ==
  ASSUME TypeOK, Located, Accounted, [Next]_vars
  PROVE  Accounted'
<1> USE DEF Accounted, Asking, InStep
<1>0. requests \in Nat /\ called \in Nat /\ answered \in Nat
  BY DEF TypeOK, DataOK
<1>1. CASE Callers
  BY <1>1, CallersStay
<1>2. CASE Synchronous \/ EndMaintenance \/ FinishDisposal \/ UNCHANGED vars
  BY <1>2, SynchronousStay DEF Located
<1>3. CASE TurnLoop
  <2> USE DEF toolVars, logVars, Catch, Claim
  <2>1. CASE OpenTurn
    BY <2>1 DEF OpenTurn
  <2>2. CASE FirstClaim
    BY <2>2 DEF FirstClaim
  <2>3. CASE DecidePreStep
    BY <2>3 DEF DecidePreStep
  <2>4. CASE EnterStep
    BY <2>4 DEF EnterStep, LeaveTurn, OpenStep
  <2>5. CASE CloseStep
    BY <2>5 DEF CloseStep
  <2>6. CASE UnwindStep
    BY <2>6 DEF UnwindStep, RecoverResults
  <2>7. CASE CatchStepFailure
    BY <2>7 DEF CatchStepFailure
  <2>8. CASE AfterStep
    BY <2>8 DEF AfterStep
  <2>9. CASE AfterStopping
    BY <2>9 DEF AfterStopping
  <2>10. CASE CloseTurn
    BY <2>10 DEF CloseTurn
  <2>11. CASE NextTurn
    BY <2>11 DEF NextTurn
  <2>12. CASE Converge
    BY <2>12 DEF Converge
  <2> QED
    BY <1>3, <2>1, <2>2, <2>3, <2>4, <2>5, <2>6, <2>7, <2>8, <2>9, <2>10, <2>11, <2>12 DEF TurnLoop
<1>4. CASE StepLoop
  <2> USE <1>0, BoundsAssumption DEF toolVars, Fail
  <2>1. CASE BeginRequest
    BY <2>1 DEF BeginRequest
  <2>2. CASE BeginAdmission \/ AdmitMessage
    BY <2>2 DEF BeginAdmission, AdmitMessage
  <2>3. CASE OpenStream
    BY <2>3 DEF OpenStream
  <2>4. CASE SettleStream
    BY <2>4 DEF SettleStream
  <2>5. CASE RecoverRequest
    BY <2>5 DEF RecoverRequest
  <2>6. CASE UseAnswer
    BY <2>6 DEF UseAnswer
  <2>7. CASE StartCall
    BY <2>7 DEF StartCall
  <2>8. CASE CommitResult
    BY <2>8 DEF CommitResult
  <2>9. CASE SkipCalls
    BY <2>9 DEF SkipCalls
  <2>10. CASE FinishTools
    BY <2>10 DEF FinishTools, AllAnswered
  <2> QED
    BY <1>4, <2>1, <2>2, <2>3, <2>4, <2>5, <2>6, <2>7, <2>8, <2>9, <2>10 DEF StepLoop
<1> QED BY <1>1, <1>2, <1>3, <1>4 DEF Next

Retiring == TypeOK /\ Located /\ Accounted

LEMMA RetiringInvariant == Spec => []Retiring
<1>1. Init => Retiring
  BY InitialTypes DEF Init, Retiring, TypeOK, Accounted, Asking, InStep
<1>2. Retiring /\ [Next]_vars => Retiring'
  BY TypeStep, LocatedStep, AccountedStep DEF Retiring
<1> QED BY <1>1, <1>2, PTL DEF Spec

\* When no driver runs, no turn and no step is open, and every tool call a closed
\* step asked for has an answer: RetiredLogBalanced, for every run of the agent.
THEOREM RetiredLogIsBalanced == Spec => []RetiredLogBalanced
<1>1. Retiring => RetiredLogBalanced
  BY DEF Retiring, Located, Accounted, RetiredLogBalanced, InTurn, InStep
<1> QED BY <1>1, RetiringInvariant, PTL

-----------------------------------------------------------------------------
(* The log's grammar: every step of the driver is a step of TurnLog.       *)

LEMMA LogStep ==
  ASSUME Retiring, Retiring', [Next]_vars
  PROVE  [Log!Next]_(Log!vars)
<1> USE DEF Log!vars
<1>0. requests \in Nat /\ called \in Nat /\ answered \in Nat /\ requests' \in Nat
  BY DEF Retiring, TypeOK, DataOK
<1>1. CASE Callers
  BY <1>1, CallersStay
<1>2. CASE Synchronous \/ EndMaintenance \/ FinishDisposal \/ UNCHANGED vars
  BY <1>2, SynchronousStay
<1>3. CASE TurnLoop
  <2> USE DEF toolVars, logVars, phaseVars
  <2>1. CASE OpenTurn
    BY <2>1 DEF OpenTurn, Retiring, Located, InTurn, InStep, Log!Next, Log!OpenTurn
  <2>2. CASE FirstClaim
    BY <2>2 DEF FirstClaim
  <2>3. CASE DecidePreStep
    BY <2>3 DEF DecidePreStep
  <2>4. CASE EnterStep
    BY <2>4 DEF EnterStep, LeaveTurn, OpenStep, Retiring, Located, InTurn, InStep, Log!Next,
         Log!OpenStep
  <2>5. CASE CloseStep
    BY <2>5 DEF CloseStep, Retiring, Located, Accounted, InStep, Log!Next, Log!CloseStep
  <2>6. CASE UnwindStep
    BY <2>6 DEF UnwindStep, RecoverResults, Retiring, Located, InStep, Log!Next, Log!CloseStep
  <2>7. CASE CatchStepFailure
    BY <2>7 DEF CatchStepFailure
  <2>8. CASE AfterStep
    BY <2>8 DEF AfterStep
  <2>9. CASE AfterStopping
    BY <2>9 DEF AfterStopping
  <2>10. CASE CloseTurn
    BY <2>10 DEF CloseTurn, Retiring, Located, InTurn, InStep, Log!Next, Log!CloseTurn
  <2>11. CASE NextTurn
    BY <2>11 DEF NextTurn
  <2>12. CASE Converge
    BY <2>12 DEF Converge
  <2> QED
    BY <1>3, <2>1, <2>2, <2>3, <2>4, <2>5, <2>6, <2>7, <2>8, <2>9, <2>10, <2>11, <2>12 DEF TurnLoop
<1>4. CASE StepLoop
  <2> USE DEF toolVars, StepUnchanged, phaseVars
  <2>1. CASE \/ BeginRequest \/ BeginAdmission \/ AdmitMessage \/ OpenStream \/ RecoverRequest
             \/ UseAnswer
    BY <2>1 DEF BeginRequest, BeginAdmission, AdmitMessage, OpenStream, RecoverRequest, UseAnswer
  <2>2. CASE SettleStream
    BY <1>0, <2>2 DEF SettleStream, Retiring, Located, Accounted, Asking, InStep, Log!Next, Log!Ask
  <2>3. CASE StartCall
    BY <2>3 DEF StartCall, Retiring, Located, InStep, Log!Next, Log!Call
  <2>4. CASE CommitResult
    BY <2>4 DEF CommitResult, Retiring, Located, InStep, Log!Next, Log!Answer
  <2>5. CASE SkipCalls
    BY <2>5 DEF SkipCalls, Retiring, Located, InStep, Log!Next, Log!Skip
  <2>6. CASE FinishTools
    BY <2>6 DEF FinishTools
  <2> QED BY <1>4, <2>1, <2>2, <2>3, <2>4, <2>5, <2>6 DEF StepLoop
<1> QED BY <1>1, <1>2, <1>3, <1>4 DEF Next

\* The session log follows TurnLog's grammar whatever callers do: turns are numbered
\* in order, steps nest in turns, calls are answered in model order before step/end.
THEOREM DriverKeepsGrammar == Spec => LogGrammar
<1>1. Init => Log!Init
  BY DEF Init, Log!Init
<1>2. Retiring /\ Retiring' /\ [Next]_vars => [Log!Next]_(Log!vars)
  BY LogStep
<1> QED BY <1>1, <1>2, RetiringInvariant, PTL DEF Spec, LogGrammar, Log!Spec

-----------------------------------------------------------------------------
(* Action properties: they hold of every step from a well-typed state.      *)

\* While an activity is aborted the driver begins nothing: AbortBeginsNothing.  What it
\* still appends are messages an admission had under way when the abort came.
THEOREM AbortedBeginsNothing == Spec => AbortBeginsNothing
<1> DEFINE Quiet == /\ turn' = turn /\ step' = step /\ attempt' = attempt
                    /\ \A m \in Messages : admissions'[m] # admissions[m] => m \in toAdmit
                    /\ toAdmit' \subseteq toAdmit
                    /\ pc' = "streaming" => pc = "streaming"
                    /\ called' = called \/ called' = answered'
<1>1. ASSUME TypeOK, [Next]_vars, cause # "none", cause' # "none"
      PROVE  Quiet
  <2> USE <1>1
  <2>1. CASE Callers
    BY <2>1, CallersStay DEF loopVars
  <2>2. CASE Synchronous \/ EndMaintenance \/ FinishDisposal \/ UNCHANGED vars
    <3>1. CASE Synchronous
      BY <3>1 DEF Synchronous, Wake, ContinueClear, ContinueAbort, Replay, StartDriver, LatchWake,
           ClearTurn, AbortCleared, phaseVars, loopVars, logVars
    <3>2. CASE EndMaintenance
      BY <3>2 DEF EndMaintenance, StartDriver, loopVars, logVars
    <3>3. CASE FinishDisposal \/ UNCHANGED vars
      BY <3>3 DEF FinishDisposal, vars, phaseVars, loopVars, logVars
    <3> QED BY <2>2, <3>1, <3>2, <3>3
  <2>3. CASE TurnLoop
    BY <2>3 DEF TurnLoop, OpenTurn, FirstClaim, DecidePreStep, EnterStep, LeaveTurn, OpenStep,
         CloseStep, UnwindStep, CatchStepFailure, AfterStep, AfterStopping, CloseTurn, NextTurn,
         Converge, Claim, Catch, Aborted, phaseVars, loopVars, logVars, toolVars
  <2>4. CASE StepLoop
    <3>1. CASE AdmitMessage
      <4>1. PICK m \in toAdmit : /\ toAdmit' = toAdmit \ {m}
                                 /\ admissions' = [admissions EXCEPT ![m] = @ + 1]
        BY <3>1 DEF AdmitMessage
      <4>2. admissions \in [Messages -> Nat]
        BY DEF TypeOK, DataOK
      <4>3. \A n \in Messages : admissions'[n] # admissions[n] => n \in toAdmit
        BY <4>1, <4>2
      <4> QED BY <3>1, <4>1, <4>3 DEF AdmitMessage, StepUnchanged, phaseVars, toolVars
    <3>2. CASE ~AdmitMessage
      BY <2>4, <3>2 DEF StepLoop, BeginRequest, BeginAdmission, OpenStream, SettleStream,
         RecoverRequest, UseAnswer, StartCall, CommitResult, SkipCalls, FinishTools, StepUnchanged,
         Fail, Aborted, phaseVars, toolVars
    <3> QED BY <3>1, <3>2
  <2> QED BY <2>1, <2>2, <2>3, <2>4 DEF Next
<1>2. TypeOK /\ [Next]_vars => [cause # "none" /\ cause' # "none" => Quiet]_vars
  BY <1>1
<1> QED BY <1>2, TypeCorrect, PTL DEF Spec, AbortBeginsNothing

\* A turn that was cut at the token ceiling never ends completed.
THEOREM CutTurnStaysCut == Spec => CutTurnNeverCompletes
<1>1. ASSUME [Next]_vars, ends = "max-tokens", turnOpen'
      PROVE  ends' # "completed"
  <2> USE <1>1
  <2>1. CASE Callers
    BY <2>1, CallersStay DEF loopVars
  <2>2. CASE Synchronous \/ EndMaintenance \/ FinishDisposal \/ UNCHANGED vars
    BY <2>2, SynchronousStay DEF loopVars
  <2>3. CASE TurnLoop
    BY <2>3 DEF TurnLoop, OpenTurn, FirstClaim, DecidePreStep, EnterStep, LeaveTurn, OpenStep,
         CloseStep, Ending, UnwindStep, CatchStepFailure, AfterStep, AfterStopping, CloseTurn,
         NextTurn, Converge, Claim, Catch, loopVars
  <2>4. CASE StepLoop
    BY <2>4 DEF StepLoop, BeginRequest, BeginAdmission, AdmitMessage, OpenStream,
         SettleStream, RecoverRequest, UseAnswer, StartCall, CommitResult, SkipCalls,
         FinishTools, StepUnchanged
  <2> QED BY <2>1, <2>2, <2>3, <2>4 DEF Next
<1>2. [Next]_vars => [ends = "max-tokens" /\ turnOpen' => ends' # "completed"]_vars
  BY <1>1
<1> QED BY <1>2, PTL DEF Spec, CutTurnNeverCompletes

-----------------------------------------------------------------------------
(* One prompt per turn.                                                    *)

LEMMA PromptedStep ==
  ASSUME TypeOK, Located, Prompted, [Next]_vars
  PROVE  Prompted'
<1> USE DEF Prompted
<1>0. prompts \in Nat
  BY DEF TypeOK, DataOK
<1>1. CASE Callers
  BY <1>1, CallersStay DEF loopVars
<1>2. CASE Synchronous \/ EndMaintenance \/ FinishDisposal \/ UNCHANGED vars
  BY <1>2, SynchronousStay DEF loopVars, Located, InTurn
<1>3. CASE TurnLoop
  BY <1>0, <1>3 DEF TurnLoop, OpenTurn, FirstClaim, DecidePreStep, EnterStep, LeaveTurn, OpenStep,
       CloseStep, UnwindStep, CatchStepFailure, AfterStep, AfterStopping, CloseTurn, NextTurn,
       Converge, Claim, TakesPrompt, Catch, loopVars
<1>4. CASE StepLoop
  BY <1>4 DEF StepLoop, BeginRequest, BeginAdmission, AdmitMessage, OpenStream,
       SettleStream, RecoverRequest, UseAnswer, StartCall, CommitResult, SkipCalls,
       FinishTools, StepUnchanged, Fail
<1> QED BY <1>1, <1>2, <1>3, <1>4 DEF Next

\* Every turn takes at most one queued prompt: OnePromptPerTurn.
THEOREM TurnTakesOnePrompt == Spec => []OnePromptPerTurn
<1>1. Init => Prompted
  BY DEF Init, Prompted
<1>2. Retiring /\ Prompted /\ [Next]_vars => Prompted'
  BY PromptedStep DEF Retiring
<1>3. Prompted => OnePromptPerTurn
  BY DEF Prompted, OnePromptPerTurn
<1> QED BY <1>1, <1>2, <1>3, RetiringInvariant, PTL DEF Spec

-----------------------------------------------------------------------------
(* Messages: the queue as a set, and where each action moves them.         *)

LEMMA EndElements ==
  ASSUME NEW S, NEW s \in Seq(S), NEW m \in S, m \notin Elements(s), Distinct(s)
  PROVE  /\ Distinct(Append(s, m)) /\ Elements(Append(s, m)) = Elements(s) \cup {m}
         /\ Distinct(<<m>> \o s) /\ Elements(<<m>> \o s) = Elements(s) \cup {m}
<1>0. Len(s) \in Nat
  BY LenProperties
<1>1. /\ Len(Append(s, m)) = Len(s) + 1
      /\ \A i \in 1 .. Len(s) : Append(s, m)[i] = s[i]
      /\ Append(s, m)[Len(s) + 1] = m
  BY <1>0
<1>2. /\ <<m>> \in Seq(S) /\ Len(<<m>>) = 1 /\ <<m>>[1] = m
  OBVIOUS
<1>3. /\ Len(<<m>> \o s) = Len(s) + 1
      /\ \A i \in 1 .. Len(s) + 1 : (<<m>> \o s)[i] = IF i = 1 THEN m ELSE s[i - 1]
  BY <1>0, <1>2, ConcatProperties
<1> DEFINE t == Append(s, m)
           u == <<m>> \o s
<1> HIDE DEF t, u
<1>4. Distinct(t) /\ Elements(t) = Elements(s) \cup {m}
  <2>1. /\ Len(t) = Len(s) + 1 /\ t[Len(s) + 1] = m
        /\ \A i \in 1 .. Len(s) : t[i] = s[i]
    BY <1>1 DEF t
  <2>2. \A i \in 1 .. Len(s) : s[i] # m
    BY DEF Elements
  <2>3. Distinct(t)
    BY <1>0, <2>1, <2>2 DEF Distinct
  <2>4. Elements(t) = Elements(s) \cup {m}
    BY <1>0, <2>1 DEF Elements
  <2> QED BY <2>3, <2>4
<1>5. Distinct(u) /\ Elements(u) = Elements(s) \cup {m}
  <2>1. /\ Len(u) = Len(s) + 1 /\ u[1] = m
        /\ \A i \in 2 .. Len(s) + 1 : u[i] = s[i - 1]
    BY <1>0, <1>3 DEF u
  <2>2. \A i \in 1 .. Len(s) : s[i] # m /\ u[i + 1] = s[i]
    BY <1>0, <2>1 DEF Elements
  <2>3. ASSUME NEW i \in 1 .. Len(u), NEW k \in 1 .. Len(u), u[i] = u[k] PROVE i = k
    <3>1. \A j \in 1 .. Len(u) : j # 1 => j - 1 \in 1 .. Len(s) /\ u[j] = s[j - 1]
      BY <1>0, <2>1
    <3>2. i # 1 /\ k # 1 => i - 1 = k - 1
      BY <2>3, <3>1 DEF Distinct
    <3>3. i = 1 <=> k = 1
      BY <2>1, <2>2, <2>3, <3>1
    <3> QED BY <1>0, <2>1, <3>2, <3>3
  <2>4. Elements(u) \subseteq Elements(s) \cup {m}
    BY <1>0, <2>1 DEF Elements
  <2>5. m \in Elements(u)
    BY <1>0, <2>1 DEF Elements
  <2>6. Elements(s) \subseteq Elements(u)
    <3>1. \A i \in 1 .. Len(s) : i + 1 \in 1 .. Len(u) /\ u[i + 1] = s[i]
      BY <1>0, <2>1, <2>2
    <3> QED BY <3>1 DEF Elements
  <2>7. Distinct(u)
    BY <2>3 DEF Distinct
  <2> QED BY <2>4, <2>5, <2>6, <2>7
<1> QED BY <1>4, <1>5 DEF t, u

LEMMA CutElements ==
  ASSUME NEW S, NEW s \in Seq(S), NEW i \in 1 .. Len(s), Distinct(s)
  PROVE  Distinct(CutAt(s, i)) /\ Elements(CutAt(s, i)) \subseteq Elements(s)
<1> DEFINE t == CutAt(s, i)
<1>1. /\ Len(s) \in Nat /\ Len(t) = Len(s) - 1
      /\ \A j \in 1 .. Len(s) - 1 : t[j] = IF j < i THEN s[j] ELSE s[j + 1]
  BY CutAtType, LenProperties
<1> HIDE DEF t
<1>2. Distinct(t)
  BY <1>1 DEF Distinct
<1>3. Elements(t) \subseteq Elements(s)
  BY <1>1 DEF Elements
<1> QED BY <1>2, <1>3 DEF t

LEMMA RenamedElements ==
  ASSUME NEW S, NEW s \in Seq(S), NEW m, NEW n \in S, n \notin Elements(s), Distinct(s),
         NEW t, Len(t) = Len(s),
         \A i \in 1 .. Len(s) : t[i] = IF s[i] = m THEN n ELSE s[i]
  PROVE  /\ Distinct(t)
         /\ Elements(t) \subseteq Elements(s) \cup {n}
         /\ m \notin Elements(s) => Elements(t) = Elements(s)
<1>1. Len(s) \in Nat
  BY LenProperties
<1>2. Distinct(t)
  BY <1>1 DEF Distinct, Elements
<1>3. Elements(t) \subseteq Elements(s) \cup {n}
  BY <1>1 DEF Elements
<1>4. m \notin Elements(s) => Elements(t) = Elements(s)
  BY <1>1 DEF Elements
<1> QED BY <1>2, <1>3, <1>4

LEMMA TailElements ==
  ASSUME NEW S, NEW s \in Seq(S), s # << >>, Distinct(s)
  PROVE  /\ Head(s) \in Elements(s) /\ Distinct(Tail(s))
         /\ Elements(Tail(s)) \subseteq Elements(s) \ {Head(s)}
<1>1. /\ Len(s) \in Nat \ {0} /\ Head(s) = s[1] /\ Len(Tail(s)) = Len(s) - 1
      /\ \A i \in 1 .. Len(s) - 1 : Tail(s)[i] = s[i + 1]
  BY EmptySeq, HeadTailProperties, LenProperties
<1> DEFINE t == Tail(s)
           h == Head(s)
<1> HIDE DEF t, h
<1>2. /\ Len(t) = Len(s) - 1 /\ h = s[1]
      /\ \A i \in 1 .. Len(s) - 1 : t[i] = s[i + 1]
  BY <1>1 DEF t, h
<1>3. h \in Elements(s)
  BY <1>1, <1>2 DEF Elements
<1>4. Distinct(t)
  BY <1>1, <1>2 DEF Distinct
<1>5. Elements(t) \subseteq Elements(s) \ {h}
  BY <1>1, <1>2 DEF Elements, Distinct
<1> QED BY <1>3, <1>4, <1>5 DEF t, h

LEMMA NoElements == Elements(<< >>) = {} /\ Distinct(<< >>)
BY DEF Elements, Distinct

-----------------------------------------------------------------------------
(* Placed and Unadmitted: no message is admitted twice, or while it waits. *)

Queue == Elements(nextTurn)

\* A caller moves messages from the unsent ones into the queues, or drops them.
LEMMA CallersMove ==
  ASSUME DataOK, Placed, Callers
  PROVE  /\ Distinct(nextTurn') /\ Queue' \cap nextStep' = {}
         /\ Queue' \cup nextStep' \subseteq Queue \cup nextStep \cup (unsent \ unsent')
         /\ unsent' \subseteq unsent
<1> USE DEF Placed, Queue, callerVars
<1>0. /\ nextTurn \in Seq(Messages) /\ nextStep \subseteq Messages /\ unsent \subseteq Messages
      /\ Distinct(nextTurn)
  BY DEF DataOK
<1>1. ASSUME NEW m \in unsent, NEW list, NEW front, Put(m, list, front), unsent' = unsent \ {m}
      PROVE  /\ Distinct(nextTurn') /\ Queue' \cap nextStep' = {}
             /\ Queue' \cup nextStep' = Queue \cup nextStep \cup {m}
  <2>1. m \notin Elements(nextTurn) /\ m \notin nextStep /\ m \in Messages
    BY <1>0
  <2>2. CASE list = "next-turn"
    <3>1. nextTurn' = Append(nextTurn, m) \/ nextTurn' = <<m>> \o nextTurn
      BY <1>1, <2>2 DEF Put
    <3>2. /\ Distinct(Append(nextTurn, m)) /\ Distinct(<<m>> \o nextTurn)
          /\ Elements(Append(nextTurn, m)) = Elements(nextTurn) \cup {m}
          /\ Elements(<<m>> \o nextTurn) = Elements(nextTurn) \cup {m}
      BY <1>0, <2>1, EndElements
    <3>3. Distinct(nextTurn') /\ Elements(nextTurn') = Elements(nextTurn) \cup {m}
      BY <3>1, <3>2
    <3> QED BY <1>1, <2>1, <2>2, <3>3 DEF Put
  <2>3. CASE list # "next-turn"
    BY <1>1, <2>1, <2>3 DEF Put
  <2> QED BY <2>2, <2>3
<1>2. ASSUME NEW m \in Messages, NEW list, Send(m, list)
      PROVE  /\ m \in unsent /\ unsent' = unsent \ {m}
             /\ \E l : Put(m, l, FALSE)
  BY <1>2 DEF Send
<1>3. ASSUME NEW m \in Messages, Remove(m)
      PROVE  /\ Distinct(nextTurn') /\ Elements(nextTurn') \subseteq Elements(nextTurn)
             /\ nextStep' \subseteq nextStep
  <2>1. CASE m \in nextStep
    BY <1>0, <1>3, <2>1 DEF Remove
  <2>2. CASE m \notin nextStep
    <3>1. PICK i \in DOMAIN nextTurn : nextTurn' = CutAt(nextTurn, i)
      BY <1>3, <2>2 DEF Remove
    <3>2. i \in 1 .. Len(nextTurn)
      BY <1>0, LenProperties
    <3>3. Distinct(nextTurn') /\ Elements(nextTurn') \subseteq Elements(nextTurn)
      BY <1>0, <3>1, <3>2, CutElements
    <3> QED BY <1>3, <3>3 DEF Remove
  <2> QED BY <2>1, <2>2
<1>4. ASSUME NEW m \in Messages, NEW n \in Messages, Replace(m, n)
      PROVE  /\ Distinct(nextTurn') /\ Queue' \cap nextStep' = {}
             /\ Queue' \cup nextStep' \subseteq Queue \cup nextStep \cup {n}
             /\ n \in unsent /\ unsent' = unsent \ {n}
  <2>1. n \in unsent /\ n \notin Elements(nextTurn) /\ n \notin nextStep
    BY <1>4 DEF Replace
  <2>2. nextTurn' = [i \in DOMAIN nextTurn |-> IF nextTurn[i] = m THEN n ELSE nextTurn[i]]
    BY <1>4 DEF Replace
  <2>3. /\ Distinct(nextTurn') /\ Elements(nextTurn') \subseteq Elements(nextTurn) \cup {n}
        /\ m \notin Elements(nextTurn) => Elements(nextTurn') = Elements(nextTurn)
    <3> DEFINE t == nextTurn'
    <3> HIDE DEF t
    <3>1. /\ Len(t) = Len(nextTurn)
          /\ \A i \in 1 .. Len(nextTurn) : t[i] = IF nextTurn[i] = m THEN n ELSE nextTurn[i]
      BY <1>0, <2>2, RenamedType DEF t
    <3>2. /\ Distinct(t) /\ Elements(t) \subseteq Elements(nextTurn) \cup {n}
          /\ m \notin Elements(nextTurn) => Elements(t) = Elements(nextTurn)
      BY <1>0, <2>1, <3>1, RenamedElements
    <3> QED BY <3>2 DEF t
  <2>4. nextStep' = IF m \in nextStep THEN (nextStep \ {m}) \cup {n} ELSE nextStep
    BY <1>4 DEF Replace
  <2>5. unsent' = unsent \ {n}
    BY <1>4 DEF Replace
  <2> QED BY <2>1, <2>3, <2>4, <2>5
<1>5. ASSUME NEW c, ClearAndCancel(c)
      PROVE  /\ nextTurn' = nextTurn \/ nextTurn' = << >>
             /\ nextStep' \subseteq nextStep /\ unsent' = unsent
  BY <1>5 DEF ClearAndCancel, ClearTurn
<1>6. CASE \E m \in Messages, list \in {"next-turn", "next-step"} : Send(m, list)
  <2>1. PICK m \in Messages, list \in {"next-turn", "next-step"} : Send(m, list)
    BY <1>6
  <2>2. /\ m \in unsent /\ unsent' = unsent \ {m}
        /\ \E l : Put(m, l, FALSE)
    BY <1>2, <2>1
  <2>3. /\ Distinct(nextTurn') /\ Queue' \cap nextStep' = {}
        /\ Queue' \cup nextStep' = Queue \cup nextStep \cup {m}
    BY <1>1, <2>2
  <2> QED BY <2>2, <2>3
<1>7. CASE \E m \in Messages, list \in {"next-turn", "next-step"}, front \in BOOLEAN : Insert(m, list, front)
  <2>1. PICK m \in Messages, list \in {"next-turn", "next-step"}, front \in BOOLEAN : Insert(m, list, front)
    BY <1>7
  <2>2. m \in unsent /\ unsent' = unsent \ {m} /\ Put(m, list, front)
    BY <2>1 DEF Insert
  <2>3. /\ Distinct(nextTurn') /\ Queue' \cap nextStep' = {}
        /\ Queue' \cup nextStep' = Queue \cup nextStep \cup {m}
    BY <1>1, <2>2
  <2> QED BY <2>2, <2>3
<1>8. CASE \E m \in Messages : Remove(m)
  BY <1>3, <1>8 DEF Remove
<1>9. CASE \E m, n \in Messages : Replace(m, n)
  BY <1>4, <1>9
<1>10. CASE (\E c \in CancelCauses : Cancel(c) \/ CancelKeeping(c)) \/ Dispose \/ StartMaintenance
  <2>1. /\ nextTurn' = nextTurn \/ nextTurn' = << >>
        /\ nextStep' \subseteq nextStep /\ unsent' = unsent
    BY <1>5, <1>10 DEF Cancel, CancelKeeping, Dispose, StartMaintenance, inboxVars
  <2>2. CASE nextTurn' = nextTurn
    BY <1>0, <2>1, <2>2
  <2>3. CASE nextTurn' = << >>
    BY <2>1, <2>3, NoElements
  <2> QED BY <2>1, <2>2, <2>3
<1> QED BY <1>6, <1>7, <1>8, <1>9, <1>10 DEF Callers

\* A claim moves messages from the queues into the batch.
LEMMA ClaimMoves ==
  ASSUME DataOK, Placed, NEW list, Claim(list), UNCHANGED unsent
  PROVE  /\ Distinct(nextTurn') /\ Queue' \subseteq Queue /\ nextStep' = {}
         /\ batch' \subseteq Queue \cup nextStep /\ Queue' \cap batch' = {}
<1>1. nextTurn \in Seq(Messages) /\ Distinct(nextTurn)
  BY DEF DataOK, Placed
<1>2. CASE TakesPrompt(list)
  <2>1. nextTurn # << >>
    BY <1>2 DEF TakesPrompt
  <2>2. /\ Head(nextTurn) \in Elements(nextTurn) /\ Distinct(Tail(nextTurn))
        /\ Elements(Tail(nextTurn)) \subseteq Elements(nextTurn) \ {Head(nextTurn)}
    BY <1>1, <2>1, TailElements
  <2>3. nextTurn' = Tail(nextTurn) /\ nextStep' = {} /\ batch' = nextStep \cup {Head(nextTurn)}
    BY <1>2 DEF Claim
  <2> QED BY <2>2, <2>3 DEF Queue, Placed
<1>3. CASE ~TakesPrompt(list)
  BY <1>1, <1>3 DEF Claim, Queue, Placed
<1> QED BY <1>2, <1>3

\* What a step of the driver moves, when it is not the admission of a batch.
LEMMA DriverMoves ==
  ASSUME DataOK, Placed, TurnLoop \/ StepLoop
  PROVE  \/ /\ UNCHANGED <<nextTurn, nextStep, unsent>> /\ batch' \subseteq batch
            /\ pc' # "preStep"
         \/ pc' = "preStep" /\ unsent' = unsent /\ \E list : Claim(list)
         \/ /\ UNCHANGED <<nextTurn, batch>> /\ pc = "tools"
            /\ \E m \in unsent : nextStep' = nextStep \cup {m} /\ unsent' = unsent \ {m}
<1> USE DEF inboxVars, loopVars, callerVars, Catch, Fail, LeaveTurn, OpenStep
<1>1. CASE TurnLoop
  <2>1. CASE OpenTurn \/ DecidePreStep \/ EnterStep \/ CloseStep \/ UnwindStep \/ CatchStepFailure
    BY <2>1 DEF OpenTurn, DecidePreStep, EnterStep, CloseStep, UnwindStep, CatchStepFailure
  <2>2. CASE CloseTurn \/ NextTurn \/ Converge
    BY <2>2 DEF CloseTurn, NextTurn, Converge
  <2>3. CASE FirstClaim
    BY <2>3 DEF FirstClaim, Claim
  <2>4. CASE AfterStep
    BY <2>4 DEF AfterStep, Claim
  <2>5. CASE AfterStopping
    BY <2>5 DEF AfterStopping, Claim
  <2> QED BY <1>1, <2>1, <2>2, <2>3, <2>4, <2>5 DEF TurnLoop
<1>2. CASE StepLoop
  <2>1. CASE CommitResult
    BY <2>1 DEF CommitResult
  <2>2. CASE ~CommitResult
    BY <1>2, <2>2 DEF StepLoop, BeginRequest, BeginAdmission, AdmitMessage, OpenStream,
         SettleStream, RecoverRequest, UseAnswer, StartCall, SkipCalls, FinishTools
  <2> QED BY <2>1, <2>2
<1> QED BY <1>1, <1>2

LEMMA SynchronousMoves ==
  ASSUME Synchronous \/ EndMaintenance \/ FinishDisposal \/ UNCHANGED vars
  PROVE  /\ UNCHANGED <<nextStep, unsent, batch, admissions, attempt, toAdmit>>
         /\ nextTurn' = nextTurn \/ nextTurn' = << >>
<1> USE DEF inboxVars, loopVars, logVars, callerVars
<1>1. CASE Synchronous
  BY <1>1 DEF Synchronous, Wake, ContinueClear, ContinueAbort, Replay, ClearTurn
<1>2. CASE EndMaintenance \/ FinishDisposal \/ UNCHANGED vars
  BY <1>2 DEF EndMaintenance, FinishDisposal, vars
<1> QED BY <1>1, <1>2

LEMMA PlacedStep ==
  ASSUME DataOK, Placed, [Next]_vars
  PROVE  Placed'
<1>1. CASE Callers
  BY <1>1, CallersMove, CallersStay DEF Placed, Queue, loopVars
<1>2. CASE Synchronous \/ EndMaintenance \/ FinishDisposal \/ UNCHANGED vars
  <2>1. /\ UNCHANGED <<nextStep, unsent, batch>>
        /\ nextTurn' = nextTurn \/ nextTurn' = << >>
    BY <1>2, SynchronousMoves
  <2> QED BY <2>1, NoElements DEF Placed
<1>3. CASE TurnLoop \/ StepLoop
  <2>1. CASE UNCHANGED <<nextTurn, nextStep, unsent>> /\ batch' \subseteq batch
    BY <2>1 DEF Placed
  <2>2. CASE unsent' = unsent /\ \E list : Claim(list)
    BY <2>2, ClaimMoves DEF Placed, Queue
  <2>3. CASE /\ UNCHANGED <<nextTurn, batch>>
             /\ \E m \in unsent : nextStep' = nextStep \cup {m} /\ unsent' = unsent \ {m}
    BY <2>3 DEF Placed
  <2> QED BY <1>3, <2>1, <2>2, <2>3, DriverMoves
<1> QED BY <1>1, <1>2, <1>3 DEF Next

\* A step that is not a claim does not bring the driver back before the admission.
LEMMA BeforeAdmissionStep ==
  ASSUME DataOK, Unadmitted, (TurnLoop \/ StepLoop) /\ ~BeginAdmission, ~AdmitMessage,
         pc' # "preStep"
  PROVE  /\ pc' \in {"admitting", "streaming", "recovering"} => attempt' > 0
         /\ BeforeAdmission' => BeforeAdmission
<1> USE DEF BeforeAdmission, Unadmitted, loopVars, Catch, Fail
<1>0. attempt \in Nat
  BY DEF DataOK
<1>1. CASE OpenTurn \/ FirstClaim \/ AfterStep \/ AfterStopping \/ CatchStepFailure
  BY <1>1 DEF OpenTurn, FirstClaim, AfterStep, AfterStopping, CatchStepFailure, Claim
<1>2. CASE DecidePreStep
  BY <1>2 DEF DecidePreStep
<1>3. CASE EnterStep
  BY <1>3 DEF EnterStep, LeaveTurn, OpenStep
<1>4. CASE CloseStep \/ UnwindStep \/ CloseTurn \/ NextTurn \/ Converge
  BY <1>4 DEF CloseStep, UnwindStep, CloseTurn, NextTurn, Converge
<1>5. CASE BeginRequest
  BY <1>5 DEF BeginRequest
<1>6. CASE OpenStream \/ SettleStream \/ RecoverRequest
  BY <1>0, <1>6 DEF OpenStream, SettleStream, RecoverRequest
<1>7. CASE UseAnswer \/ StartCall \/ CommitResult \/ SkipCalls \/ FinishTools
  BY <1>7 DEF UseAnswer, StartCall, CommitResult, SkipCalls, FinishTools
<1> QED BY <1>1, <1>2, <1>3, <1>4, <1>5, <1>6, <1>7 DEF TurnLoop, StepLoop

LEMMA ElementsType ==
  ASSUME NEW s \in Seq(Messages)
  PROVE  Elements(s) \subseteq Messages
BY ElementOfSeq, LenProperties DEF Elements

LEMMA UnadmittedStep ==
  ASSUME DataOK, Located, Placed, Unadmitted, [Next]_vars, DataOK'
  PROVE  Unadmitted'
<1> USE DEF BeforeAdmission
<1>0. attempt \in Nat /\ admissions \in [Messages -> Nat] /\ batch \subseteq Messages
  BY DEF DataOK
<1>1. CASE Callers
  BY <1>1, CallersMove, CallersStay DEF Unadmitted, Queue, loopVars
<1>2. CASE Synchronous \/ EndMaintenance \/ FinishDisposal \/ UNCHANGED vars
  <2>1. /\ UNCHANGED <<nextStep, unsent, batch, admissions, attempt, toAdmit>>
        /\ nextTurn' = nextTurn \/ nextTurn' = << >>
    BY <1>2, SynchronousMoves
  <2>2. /\ pc' = pc \/ pc' = "woken"
        /\ pc = "admitting" => pc' = pc
    BY <1>2, SynchronousStay DEF Located
  <2> QED BY <2>1, <2>2, NoElements DEF Unadmitted
<1>3. CASE BeginAdmission
  <2>1. UNCHANGED <<nextTurn, nextStep, unsent, batch, admissions>> /\ pc = "request"
    BY <1>3 DEF BeginAdmission, inboxVars
  <2>2. CASE pc' = "failed"
    BY <1>3, <2>1, <2>2 DEF BeginAdmission, Unadmitted
  <2>3. CASE pc' # "failed"
    <3>1. pc' = "admitting" /\ attempt' = attempt + 1 /\ toAdmit' = {m \in Messages : Admits(m)}
      BY <1>3, <2>3 DEF BeginAdmission, Fail
    <3>2. \A m \in toAdmit' : m \in batch /\ admissions[m] = 0
      BY <2>1, <3>1 DEF Unadmitted, Admits
    <3> QED BY <1>0, <2>1, <3>1, <3>2 DEF Unadmitted
  <2> QED BY <2>2, <2>3
<1>4. CASE AdmitMessage
  <2>1. UNCHANGED <<nextTurn, nextStep, unsent, batch, attempt, pc>> /\ pc = "admitting"
    BY <1>4 DEF AdmitMessage, inboxVars
  <2>2. PICK m \in toAdmit : /\ toAdmit' = toAdmit \ {m}
                             /\ admissions' = [admissions EXCEPT ![m] = @ + 1]
    BY <1>4 DEF AdmitMessage
  <2>3. m \in Messages /\ m \in batch /\ admissions[m] = 0
    BY <1>0, <2>2 DEF Unadmitted
  <2>4. /\ admissions'[m] = 1
        /\ \A n \in Messages : n # m => admissions'[n] = admissions[n]
    BY <1>0, <2>2, <2>3
  <2>5. Elements(nextTurn) \subseteq Messages /\ unsent \subseteq Messages
        /\ nextStep \subseteq Messages
    BY ElementsType DEF DataOK
  <2>6. m \notin unsent \cup nextStep \cup Elements(nextTurn)
    BY <2>3 DEF Placed
  <2>7. \A n \in Messages : admissions'[n] <= 1
    BY <2>4 DEF Unadmitted
  <2> QED BY <1>0, <2>1, <2>2, <2>4, <2>5, <2>6, <2>7 DEF Unadmitted
<1>5. CASE (TurnLoop \/ StepLoop) /\ ~BeginAdmission /\ ~AdmitMessage
  <2>1. admissions' = admissions /\ toAdmit' = toAdmit
    BY <1>5 DEF TurnLoop, OpenTurn, FirstClaim, DecidePreStep, EnterStep, CloseStep, UnwindStep,
       CatchStepFailure, AfterStep, AfterStopping, CloseTurn, NextTurn, Converge, StepLoop,
       BeginRequest, OpenStream, SettleStream, RecoverRequest, UseAnswer, StartCall, CommitResult,
       SkipCalls, FinishTools, logVars, loopVars
  <2>2. toAdmit = {}
    BY <1>5 DEF Unadmitted, TurnLoop, OpenTurn, FirstClaim, DecidePreStep, EnterStep, CloseStep,
       UnwindStep, CatchStepFailure, AfterStep, AfterStopping, CloseTurn, NextTurn, Converge,
       StepLoop, BeginRequest, OpenStream, SettleStream, RecoverRequest, UseAnswer, StartCall,
       CommitResult, SkipCalls, FinishTools
  <2>3. CASE pc' = "preStep" /\ unsent' = unsent /\ \E list : Claim(list)
    BY <2>1, <2>2, <2>3, ClaimMoves DEF Unadmitted, Queue
  <2>4. CASE /\ UNCHANGED <<nextTurn, batch>> /\ pc = "tools"
             /\ \E m \in unsent : nextStep' = nextStep \cup {m} /\ unsent' = unsent \ {m}
    <3>1. CASE CommitResult
      BY <2>1, <2>2, <2>4, <3>1 DEF Unadmitted, CommitResult
    <3>2. CASE ~CommitResult
      BY <1>5, <2>4, <3>2 DEF TurnLoop, OpenTurn, FirstClaim, DecidePreStep, EnterStep, CloseStep,
         UnwindStep, CatchStepFailure, AfterStep, AfterStopping, CloseTurn, NextTurn, Converge,
         StepLoop, BeginRequest, OpenStream, SettleStream, RecoverRequest, UseAnswer, StartCall,
         SkipCalls, FinishTools, callerVars
    <3> QED BY <3>1, <3>2
  <2>5. CASE /\ UNCHANGED <<nextTurn, nextStep, unsent>> /\ batch' \subseteq batch
             /\ pc' # "preStep"
    <3>1. /\ pc' \in {"admitting", "streaming", "recovering"} => attempt' > 0
          /\ BeforeAdmission' => BeforeAdmission
      BY <1>5, <2>5, BeforeAdmissionStep
    <3> QED BY <2>1, <2>2, <2>5, <3>1 DEF Unadmitted
  <2> QED BY <1>5, <2>3, <2>4, <2>5, DriverMoves
<1> QED BY <1>1, <1>2, <1>3, <1>4, <1>5 DEF Next

\* A message enters the model-visible history once at most, and not while it is
\* still queued or unsent: AdmittedOnce.
THEOREM MessageIsAdmittedOnce == Spec => []AdmittedOnce
<1>1. Init => Placed /\ Unadmitted
  BY NoElements DEF Init, Placed, Unadmitted, BeforeAdmission
<1>2. Retiring /\ TypeOK' /\ Placed /\ Unadmitted /\ [Next]_vars => Placed' /\ Unadmitted'
  BY PlacedStep, UnadmittedStep DEF Retiring, TypeOK
<1>3. TypeOK /\ Placed /\ Unadmitted => AdmittedOnce
  <2> SUFFICES ASSUME DataOK, Placed, Unadmitted, NEW m \in Messages
               PROVE  /\ admissions[m] <= 1
                      /\ admissions[m] = 1 => m \notin Pending \cup unsent
    BY DEF AdmittedOnce, TypeOK
  <2>1. Pending = Elements(nextTurn) \cup nextStep
    BY LenProperties DEF Pending, Elements, DataOK
  <2> QED BY <2>1 DEF Unadmitted
<1> QED BY <1>1, <1>2, <1>3, TypeCorrect, RetiringInvariant, PTL DEF Spec
=============================================================================
