------------------------ MODULE SessionWriterProofs --------------------------
(***************************************************************************)
(* Proofs about who may write a session: the handle that opened it holds   *)
(* the kernel lock until it releases it, and its process routes the        *)
(* session's events to it until it has closed.  And about what is in its   *)
(* file: its events are contiguous, what a flush promised stays, a live    *)
(* handle still has every event it has not written, and close leaves       *)
(* nothing behind.                                                         *)
(***************************************************************************)
EXTENDS SessionWriter, SequenceTheorems, TLAPS

Owners == Handles \cup {NoHandle}

\* The variables ownership is about.
Shape ==
    /\ proc \in [Handles -> Procs]
    /\ lock \in Owners
    /\ claim \in [Procs -> Owners]
    /\ stage \in [Handles -> Stages]
    /\ leased \in [Handles -> BOOLEAN]

\* From the open that takes the lock, or the first write, to the release.
Holding == {"locked", "open", "drain", "chain", "last", "release"}

LockHeld ==
    \A h \in Handles :
       /\ stage[h] = "unused" => ~leased[h]
       /\ stage[h] = "locked" => leased[h]
       /\ leased[h] /\ stage[h] \in Holding => lock = h

\* From the claim to the end of close.
Claiming == {"claimed", "locked", "open"} \cup Closing

Routed == \A h \in Handles : stage[h] \in Claiming => claim[proc[h]] = h

Inv == Shape /\ LockHeld /\ Routed

LEMMA InitInv == Init => Inv
  BY WriterAssumption
    DEF Init, Inv, Shape, LockHeld, Routed, Owners, Stages, Holding, Claiming, Closing

\* A step that leaves lock, claim and leased alone, and at most lets an open
\* handle begin to close or a closing one go on towards its release.
Advances ==
    /\ UNCHANGED <<proc, lock, claim, leased>>
    /\ stage' \in [Handles -> Stages]
    /\ \A h \in Handles :
          \/ stage'[h] = stage[h]
          \/ /\ stage[h] \in {"open"} \cup Closing
             /\ stage'[h] \in Closing
             /\ stage'[h] \in Holding /\ leased[h] => stage[h] \in Holding

LEMMA AdvanceKeeps == Inv /\ Advances => Inv'
  BY DEF Inv, Shape, LockHeld, Routed, Advances, Owners, Stages, Holding, Claiming, Closing

-----------------------------------------------------------------------------
(* The steps that move ownership.                                          *)

LEMMA CreateKeeps == ASSUME Inv, NEW h \in Handles, Create(h) PROVE Inv'
  BY WriterAssumption
    DEF Create, history, Inv, Shape, LockHeld, Routed, Owners, Stages, Holding, Claiming, Closing

LEMMA ClaimKeeps == ASSUME Inv, NEW h \in Handles, Claim(h) PROVE Inv'
  BY WriterAssumption
    DEF Claim, history, Unclaimed, Inv, Shape, LockHeld, Routed, Owners, Stages, Holding, Claiming, Closing

LEMMA LockForOpenKeeps == ASSUME Inv, NEW h \in Handles, LockForOpen(h) PROVE Inv'
<1>1. CASE Contended
  <2>1. /\ UNCHANGED <<proc, lock, leased>> /\ stage[h] = "claimed"
        /\ claim' = [claim EXCEPT ![proc[h]] = NoHandle]
        /\ stage' = [stage EXCEPT ![h] = "dead"]
    BY <1>1 DEF LockForOpen, history
  <2>2. Shape'
    BY <2>1, WriterAssumption DEF Inv, Shape, Owners, Stages
  <2>3. LockHeld'
    BY <2>1 DEF Inv, Shape, LockHeld, Holding
  <2>4. Routed'
    BY <2>1, WriterAssumption DEF Inv, Shape, Routed, Claiming, Closing
  <2> QED
    BY <2>2, <2>3, <2>4 DEF Inv
<1>2. CASE ~Contended
  <2>1. /\ lock' = h /\ lock = NoHandle /\ UNCHANGED <<proc, claim>>
        /\ leased' = [leased EXCEPT ![h] = TRUE] /\ stage' = [stage EXCEPT ![h] = "locked"]
    BY <1>2 DEF LockForOpen, history, Contended
  <2> QED
    BY <2>1, WriterAssumption
      DEF LockForOpen, history, Inv, Shape, LockHeld, Routed, Owners, Stages, Holding, Claiming, Closing
<1> QED
  BY <1>1, <1>2

LEMMA ReadForOpenKeeps == ASSUME Inv, NEW h \in Handles, ReadForOpen(h) PROVE Inv'
  BY WriterAssumption
    DEF ReadForOpen, Inv, Shape, LockHeld, Routed, Owners, Stages, Holding, Claiming, Closing

LEMMA FailOpenKeeps == ASSUME Inv, NEW h \in Handles, FailOpen(h) PROVE Inv'
  BY WriterAssumption
    DEF FailOpen, history, Inv, Shape, LockHeld, Routed, Owners, Stages, Holding, Claiming, Closing

LEMMA EnsureLeaseKeeps == ASSUME Inv, NEW h \in Handles, EnsureLease(h) PROVE Inv'
  BY WriterAssumption
    DEF EnsureLease, history, Contended, Alive, Inv, Shape, LockHeld, Routed, Owners, Stages, Holding, Claiming, Closing

LEMMA ReleaseKeeps == ASSUME Inv, NEW h \in Handles, Release(h) PROVE Inv'
  BY WriterAssumption
    DEF Release, history, Inv, Shape, LockHeld, Routed, Owners, Stages, Holding, Claiming, Closing

LEMMA ReleasedKeeps == ASSUME Inv, NEW h \in Handles, Released(h) PROVE Inv'
  BY WriterAssumption
    DEF Released, history, Inv, Shape, LockHeld, Routed, Owners, Stages, Holding, Claiming, Closing

LEMMA CrashKeeps == ASSUME Inv, NEW p \in Procs, Crash(p) PROVE Inv'
  BY WriterAssumption
    DEF Crash, Alive, Inv, Shape, LockHeld, Routed, Owners, Stages, Holding, Claiming, Closing

-----------------------------------------------------------------------------
(* The steps of a session in use.                                          *)

LEMMA CallersAdvance == ASSUME Inv, NEW h \in Handles, Callers(h) PROVE Advances
<1>1. CASE Publish(h)
  BY <1>1 DEF Publish, history, Advances, Inv, Shape
<1>2. CASE Flush(h)
  BY <1>2 DEF Flush, Advances, Inv, Shape
<1>3. CASE Close(h)
  BY <1>3 DEF Close, history, Advances, Inv, Shape, Stages, Holding, Closing
<1> QED
  BY <1>1, <1>2, <1>3 DEF Callers

LEMMA RejectionAdvances == ASSUME Inv, NEW h \in Handles, Rejects(h) PROVE Advances
  BY DEF Rejects, history, Advances, Inv, Shape, Stages, Holding, Closing

LEMMA ChainAdvances ==
    ASSUME Inv, NEW h \in Handles, Chained(h), ~EnsureLease(h) PROVE Advances
<1>1. CASE StartDrain(h)
  BY <1>1 DEF StartDrain, history, Advances, Inv, Shape
<1>2. CASE StartFlush(h)
  BY <1>2 DEF StartFlush, Advances, Inv, Shape
<1>3. CASE TruncateTornTail(h)
  BY <1>3 DEF TruncateTornTail, history, Advances, Inv, Shape
<1>4. CASE RewriteRecovered(h)
  BY <1>4 DEF RewriteRecovered, history, Advances, Inv, Shape
<1>5. CASE WriteBatch(h)
  BY <1>5 DEF WriteBatch, history, Advances, Inv, Shape, Stages, Holding, Closing
<1>6. CASE WriteHeader(h)
  BY <1>6 DEF WriteHeader, Advances, Inv, Shape
<1>7. CASE Refuse(h)
  BY <1>7, RejectionAdvances DEF Refuse
<1>8. CASE IOFails(h)
  BY <1>8, RejectionAdvances DEF IOFails
<1> QED
  BY <1>1, <1>2, <1>3, <1>4, <1>5, <1>6, <1>7, <1>8 DEF Chained

LEMMA CloserKeeps == ASSUME Inv, NEW h \in Handles, Closer(h) PROVE Inv'
<1>1. CASE ChainSettled(h)
  <2>1. Advances
    BY <1>1 DEF ChainSettled, Advances, Inv, Shape, Stages, Holding, Closing
  <2> QED
    BY <2>1, AdvanceKeeps
<1>2. CASE LastSettled(h)
  <2>1. Advances
    BY <1>2 DEF LastSettled, history, Advances, Inv, Shape, Stages, Holding, Closing
  <2> QED
    BY <2>1, AdvanceKeeps
<1> QED
  BY <1>1, <1>2, ReleaseKeeps, ReleasedKeeps DEF Closer

LEMMA NextInv == Inv /\ [Next]_vars => Inv'
<1> SUFFICES ASSUME Inv, [Next]_vars PROVE Inv'
  OBVIOUS
<1>1. ASSUME NEW h \in Handles, Opening(h) PROVE Inv'
  BY <1>1, CreateKeeps, ClaimKeeps, LockForOpenKeeps, ReadForOpenKeeps, FailOpenKeeps DEF Opening
<1>2. ASSUME NEW h \in Handles, Callers(h) PROVE Inv'
  BY <1>2, CallersAdvance, AdvanceKeeps
<1>3. ASSUME NEW h \in Handles, FlushBarrier(h) \/ TimerFires(h) PROVE Inv'
  <2>1. Advances
    BY <1>3 DEF FlushBarrier, TimerFires, history, Advances, Inv, Shape
  <2> QED
    BY <2>1, AdvanceKeeps
<1>4. ASSUME NEW h \in Handles, Chained(h) PROVE Inv'
  <2>1. CASE EnsureLease(h)
    BY <2>1, EnsureLeaseKeeps
  <2>2. CASE ~EnsureLease(h)
    BY <2>2, <1>4, ChainAdvances, AdvanceKeeps
  <2> QED
    BY <2>1, <2>2
<1>5. ASSUME NEW h \in Handles, Closer(h) PROVE Inv'
  BY <1>5, CloserKeeps
<1>6. ASSUME NEW p \in Procs, Crash(p) PROVE Inv'
  BY <1>6, CrashKeeps
<1>7. CASE UNCHANGED vars
  BY <1>7, AdvanceKeeps DEF vars, history, Advances, Inv, Shape
<1> QED
  BY <1>1, <1>2, <1>3, <1>4, <1>5, <1>6, <1>7 DEF Next

LEMMA SpecInv == Spec => []Inv
  BY InitInv, NextInv, PTL DEF Spec
-----------------------------------------------------------------------------
\* Until it releases it, the handle that opened a session, or first wrote it, holds
\* the kernel lock: no other handle of any process can have taken it meanwhile. And as
\* long as its session is published, its process routes the session's events to it: an
\* open by the same process cannot divert them.
THEOREM OwnerHoldsTheLock == Spec => []OwnerHolds
<1>1. Inv => OwnerHolds
  BY DEF Inv, LockHeld, Routed, Holding, Claiming, Live, OwnerHolds
<1> QED
  BY <1>1, SpecInv, PTL

-----------------------------------------------------------------------------
(* What is in the file: the inductive invariant.                           *)

\* The events of s stand in l behind the first n.
At(l, n, s) == n + Len(s) <= Len(l) /\ \A i \in 1 .. Len(s) : s[i] = l[n + i]

Queued(c, op) == \E i \in DOMAIN c : c[i] = op
Distinct(c) == \A i, j \in DOMAIN c : c[i] = c[j] => i = j

\* A handle that has not read the log yet.
Fresh(h) ==
    /\ log[h] = << >> /\ buffered[h] = << >> /\ batch[h] = << >> /\ recovered[h] = << >>
    /\ chain[h] = << >> /\ ~running[h] /\ flusher[h] = "idle" /\ ~failed[h]
    /\ cursor[h] = 0 /\ opened[h] = 0 /\ left[h] = 0 /\ target[h] = 0
    /\ ~materialized[h] /\ ~tornTo[h] /\ ~timer[h]

\* A chain holds at most one drain, with something to write, and at most one flush, whose
\* caller waits.
ChainOK(h) ==
    /\ Distinct(chain[h])
    /\ Queued(chain[h], "drain") => batch[h] # << >> \/ buffered[h] # << >>
    /\ Queued(chain[h], "flush") => flusher[h] = "flush"

\* The events behind the cursor are the batch and then the buffer.
BufferOK(h) ==
    /\ Contiguous(log[h])
    /\ cursor[h] + Len(batch[h]) + Len(buffered[h]) = Len(log[h])
    /\ At(log[h], cursor[h], batch[h])
    /\ At(log[h], cursor[h] + Len(batch[h]), buffered[h])

\* What a handle knows of the artifact; a flush past its drain covers its target.
StateOK(h) ==
    /\ opened[h] <= cursor[h] /\ target[h] <= Len(log[h]) /\ left[h] <= Len(log[h])
    /\ recovered[h] # << >> => cursor[h] = opened[h]
    /\ ~materialized[h] => cursor[h] = 0 /\ recovered[h] = << >> /\ ~tornTo[h]
    /\ materialized[h] => leased[h] /\ exists
    /\ flusher[h] \in {"barrier", "flush"} => target[h] <= cursor[h]

\* The artifact of a handle that holds the lock is its log up to the cursor, with the end
\* recovered from a torn frame rewritten or still to be rewritten; a truncation can take place
\* though it fails.
ArtifactOf(h) ==
    /\ Len(disk) + Len(recovered[h]) = cursor[h]
    /\ At(log[h], 0, disk) /\ At(log[h], Len(disk), recovered[h])
    /\ \/ tornTo[h] /\ tail = recovered[h]
       \/ tail = << >> /\ ~torn

\* No write outside the lock, and no failed append left in the file.
Exact == ~stray /\ ~RollbackFails

OwnerOK(h) == lock = h /\ materialized[h] /\ Exact => ArtifactOf(h)

\* The first n events of l are the first n of the file.
Stored(l, n) == n <= Len(disk) /\ \A i \in 1 .. n : disk[i] = l[i]

\* No operation runs when close goes on, and what it leaves its loop with is stored.
CloseOK(h) ==
    /\ stage[h] \in {"chain", "last"} /\ running[h] => wait[h] # 0
    /\ /\ stage[h] \in {"last", "release", "released", "closed"}
       /\ ~failed[h] /\ Exact /\ left[h] > opened[h]
       => Stored(log[h], left[h])

\* An operation that runs is the first of the chain; a drain has its batch.
RunOK(h) ==
    /\ running[h] => chain[h] # << >>
    /\ running[h] /\ Head(chain[h]) = "drain" <=> batch[h] # << >>

HandleOK(h) ==
    /\ RunOK(h)
    /\ stage[h] \in {"unused", "claimed", "locked"} => Fresh(h)
    /\ stage[h] \in {"claimed", "locked"} => exists
    /\ opened[h] <= Len(log[h])
    /\ Alive(h) => ChainOK(h) /\ BufferOK(h) /\ StateOK(h) /\ OwnerOK(h) /\ CloseOK(h)

\* Nothing is stored before the log exists, only a part of a frame yields a tail, and nothing
\* is buried.
FileOK ==
    /\ tail # << >> => torn
    /\ ~exists => disk = << >> /\ tail = << >> /\ ~torn
    /\ Exact => Contiguous(disk \o tail) /\ buried = {}

Kept == Exact => \A e \in promised : e.seq \in DOMAIN disk /\ disk[e.seq] = e

Types ==
    /\ disk \in Log /\ tail \in Log /\ torn \in BOOLEAN /\ exists \in BOOLEAN
    /\ buried \subseteq Event
    /\ lock \in Owners /\ claim \in [Procs -> Owners] /\ stage \in [Handles -> Stages]
    /\ log \in [Handles -> Log] /\ buffered \in [Handles -> Log] /\ batch \in [Handles -> Log]
    /\ recovered \in [Handles -> Log] /\ chain \in [Handles -> Seq({"drain", "flush"})]
    /\ flusher \in [Handles -> {"idle", "drain", "barrier", "flush"}]
    /\ timer \in [Handles -> BOOLEAN] /\ paused \in [Handles -> BOOLEAN]
    /\ running \in [Handles -> BOOLEAN] /\ leased \in [Handles -> BOOLEAN]
    /\ materialized \in [Handles -> BOOLEAN] /\ tornTo \in [Handles -> BOOLEAN]
    /\ failed \in [Handles -> BOOLEAN]
    /\ cursor \in [Handles -> Nat] /\ wait \in [Handles -> Nat] /\ opened \in [Handles -> Nat]
    /\ left \in [Handles -> Nat] /\ target \in [Handles -> Nat]
    /\ proc \in [Handles -> Procs]
    /\ faults \in 0 .. MaxFaults /\ promised \subseteq Event /\ stray \in BOOLEAN

LogInv == Inv /\ Types /\ FileOK /\ Kept /\ \A h \in Handles : HandleOK(h)

-----------------------------------------------------------------------------
(* Sequences.                                                              *)

LEMMA QueuedAppend ==
    ASSUME NEW S, NEW c \in Seq(S), NEW e \in S
    PROVE  /\ \A op : Queued(Append(c, e), op) <=> Queued(c, op) \/ op = e
           /\ Distinct(c) /\ ~Queued(c, e) => Distinct(Append(c, e))
<1>1. /\ DOMAIN c = 1 .. Len(c) /\ Len(c) \in Nat
      /\ DOMAIN Append(c, e) = 1 .. Len(c) + 1
      /\ \A i \in 1 .. Len(c) : Append(c, e)[i] = c[i]
      /\ Append(c, e)[Len(c) + 1] = e
  BY AppendProperties, LenProperties
<1>2. \A i \in DOMAIN Append(c, e) : i \in DOMAIN c \/ i = Len(c) + 1
  BY <1>1
<1>3. \A op : Queued(Append(c, e), op) <=> Queued(c, op) \/ op = e
  BY <1>1, <1>2 DEF Queued
<1>4. Distinct(c) /\ ~Queued(c, e) => Distinct(Append(c, e))
  BY <1>1, <1>2 DEF Distinct, Queued
<1> QED BY <1>3, <1>4

LEMMA QueuedTail ==
    ASSUME NEW S, NEW c \in Seq(S), c # << >>, Distinct(c)
    PROVE  /\ Distinct(Tail(c))
           /\ \A op : Queued(Tail(c), op) <=> Queued(c, op) /\ op # Head(c)
<1>1. /\ DOMAIN c = 1 .. Len(c) /\ Len(c) \in Nat \ {0} /\ Head(c) = c[1]
      /\ DOMAIN Tail(c) = 1 .. Len(c) - 1
      /\ \A i \in 1 .. Len(c) - 1 : Tail(c)[i] = c[i + 1]
  BY HeadTailProperties, LenProperties, EmptySeq
<1>2. Distinct(Tail(c))
  <2> SUFFICES ASSUME NEW i \in DOMAIN Tail(c), NEW j \in DOMAIN Tail(c), Tail(c)[i] = Tail(c)[j]
               PROVE  i = j
    BY DEF Distinct
  <2>1. i + 1 \in DOMAIN c /\ j + 1 \in DOMAIN c /\ c[i + 1] = c[j + 1]
    BY <1>1
  <2>2. i + 1 = j + 1
    BY <2>1 DEF Distinct
  <2> QED BY <1>1, <2>2
<1>3. ASSUME NEW op, Queued(Tail(c), op) PROVE Queued(c, op) /\ op # Head(c)
  <2>1. PICK i \in DOMAIN Tail(c) : Tail(c)[i] = op
    BY <1>3 DEF Queued
  <2>2. i + 1 \in DOMAIN c /\ c[i + 1] = op /\ 1 \in DOMAIN c /\ i + 1 # 1
    BY <1>1, <2>1
  <2> QED BY <1>1, <2>2 DEF Queued, Distinct
<1>4. ASSUME NEW op, Queued(c, op), op # Head(c) PROVE Queued(Tail(c), op)
  <2>1. PICK i \in DOMAIN c : c[i] = op
    BY <1>4 DEF Queued
  <2>2. i - 1 \in DOMAIN Tail(c) /\ Tail(c)[i - 1] = op
    BY <1>1, <1>4, <2>1
  <2> QED BY <2>2 DEF Queued
<1> QED BY <1>2, <1>3, <1>4

LEMMA QueuedNone == \A op : ~Queued(<< >>, op)
  BY DEF Queued

LEMMA AtNone == ASSUME NEW S, NEW l \in Seq(S), NEW n \in Nat, n <= Len(l) PROVE At(l, n, << >>)
  BY EmptySeq DEF At

LEMMA AtAppend ==
    ASSUME NEW S, NEW l \in Seq(S), NEW e \in S, NEW n \in Nat, NEW s \in Seq(S), At(l, n, s)
    PROVE  /\ At(Append(l, e), n, s)
           /\ n + Len(s) = Len(l) => At(Append(l, e), n, Append(s, e))
<1> DEFINE m == Append(l, e)
           t == Append(s, e)
<1>1. /\ Len(l) \in Nat /\ Len(s) \in Nat
      /\ Len(m) = Len(l) + 1 /\ Len(t) = Len(s) + 1
      /\ \A i \in 1 .. Len(l) : m[i] = l[i]
      /\ \A i \in 1 .. Len(s) : t[i] = s[i]
      /\ m[Len(l) + 1] = e /\ t[Len(s) + 1] = e
  BY AppendProperties, LenProperties
<1> HIDE DEF m, t
<1>2. \A i \in 1 .. Len(s) : n + i \in 1 .. Len(l) /\ s[i] = l[n + i]
  BY <1>1 DEF At
<1>3. At(m, n, s)
  BY <1>1, <1>2 DEF At
<1>4. ASSUME n + Len(s) = Len(l) PROVE At(m, n, t)
  <2>1. ASSUME NEW i \in 1 .. Len(t) PROVE t[i] = m[n + i]
    <3>1. CASE i = Len(s) + 1
      BY <1>1, <1>4, <3>1
    <3>2. CASE i \in 1 .. Len(s)
      BY <1>1, <1>2, <3>2
    <3> QED BY <1>1, <3>1, <3>2
  <2> QED BY <1>1, <1>4, <2>1 DEF At
<1> QED BY <1>3, <1>4 DEF m, t

LEMMA AtConcat ==
    ASSUME NEW S, NEW l \in Seq(S), NEW n \in Nat, NEW s \in Seq(S), NEW t \in Seq(S),
           At(l, n, s), At(l, n + Len(s), t)
    PROVE  At(l, n, s \o t)
<1>1. /\ Len(l) \in Nat /\ Len(s) \in Nat /\ Len(t) \in Nat /\ Len(s \o t) = Len(s) + Len(t)
      /\ \A i \in 1 .. Len(s) + Len(t) : (s \o t)[i] = IF i <= Len(s) THEN s[i] ELSE t[i - Len(s)]
  BY ConcatProperties, LenProperties
<1>2. ASSUME NEW i \in 1 .. Len(s) + Len(t) PROVE (s \o t)[i] = l[n + i]
  <2>1. CASE i <= Len(s)
    BY <1>1, <2>1 DEF At
  <2>2. CASE ~(i <= Len(s))
    <3>1. i - Len(s) \in 1 .. Len(t) /\ n + Len(s) + (i - Len(s)) = n + i
      BY <1>1, <2>2
    <3> QED BY <1>1, <2>2, <3>1 DEF At
  <2> QED BY <2>1, <2>2
<1> QED BY <1>1, <1>2 DEF At

LEMMA AtParts ==
    ASSUME NEW S, NEW s \in Seq(S), NEW t \in Seq(S)
    PROVE  At(s \o t, 0, s) /\ At(s \o t, Len(s), t)
<1> DEFINE l == s \o t
<1>1. /\ Len(s) \in Nat /\ Len(t) \in Nat /\ Len(l) = Len(s) + Len(t)
      /\ \A i \in 1 .. Len(s) + Len(t) : l[i] = IF i <= Len(s) THEN s[i] ELSE t[i - Len(s)]
  BY ConcatProperties, LenProperties
<1> HIDE DEF l
<1>2. At(l, 0, s)
  BY <1>1 DEF At
<1>3. ASSUME NEW i \in 1 .. Len(t) PROVE t[i] = l[Len(s) + i]
  <2>1. Len(s) + i \in 1 .. Len(s) + Len(t) /\ ~(Len(s) + i <= Len(s)) /\ Len(s) + i - Len(s) = i
    BY <1>1
  <2> QED BY <1>1, <2>1
<1>4. At(l, Len(s), t)
  BY <1>1, <1>3 DEF At
<1> QED BY <1>2, <1>4 DEF l

LEMMA AtPrefix ==
    ASSUME NEW S, NEW l \in Seq(S), NEW n \in Nat, NEW s \in Seq(S), NEW k \in 0 .. Len(s),
           At(l, n, s)
    PROVE  At(l, n, SubSeq(s, 1, k))
<1> DEFINE t == SubSeq(s, 1, k)
<1>1. Len(l) \in Nat /\ Len(s) \in Nat /\ Len(t) = k
  BY LenProperties
<1>2. \A i \in 1 .. k : t[i] = s[i]
  BY <1>1
<1> HIDE DEF t
<1>3. At(l, n, t)
  BY <1>1, <1>2 DEF At
<1> QED BY <1>3 DEF t

\* A part of a contiguous log is contiguous from where it stands.
LEMMA AtContiguous ==
    ASSUME NEW S, NEW l \in Seq(S), NEW s \in Seq(S), Contiguous(l), At(l, 0, s)
    PROVE  Contiguous(s)
<1>1. DOMAIN l = 1 .. Len(l) /\ DOMAIN s = 1 .. Len(s) /\ Len(l) \in Nat /\ Len(s) \in Nat
  BY LenProperties
<1> QED BY <1>1 DEF Contiguous, At

LEMMA ContiguousAppend ==
    ASSUME NEW S, NEW l \in Seq(S), NEW e \in S, Contiguous(l), e.seq = Len(l) + 1
    PROVE  Contiguous(Append(l, e))
<1>1. /\ DOMAIN l = 1 .. Len(l) /\ Len(l) \in Nat /\ DOMAIN Append(l, e) = 1 .. Len(l) + 1
      /\ \A i \in 1 .. Len(l) : Append(l, e)[i] = l[i]
      /\ Append(l, e)[Len(l) + 1] = e
  BY AppendProperties, LenProperties
<1>2. \A i \in 1 .. Len(l) + 1 : i \in 1 .. Len(l) \/ i = Len(l) + 1
  BY <1>1
<1> QED BY <1>1, <1>2 DEF Contiguous

LEMMA EmptyConcat == ASSUME NEW S, NEW s \in Seq(S) PROVE << >> \o s = s /\ s \o << >> = s
  BY ConcatEmptySeq

-----------------------------------------------------------------------------
(* What a step of one handle leaves alone.                                 *)

\* The variables of one handle the invariant is about.
Own(h) ==
    <<stage[h], log[h], buffered[h], chain[h], running[h], batch[h], leased[h], cursor[h],
      materialized[h], tornTo[h], recovered[h], flusher[h], wait[h], failed[h], opened[h],
      left[h], target[h], timer[h]>>

\* A step that leaves g as it is: the file only grows, and it changes under g's lock only by
\* a stray write.
Spared(g) ==
    /\ Own(g)' = Own(g)
    /\ (exists => exists') /\ (stray => stray') /\ (lock' = g => lock = g)
    /\ Len(disk) <= Len(disk') /\ \A i \in 1 .. Len(disk) : disk'[i] = disk[i]
    /\ lock = g => stray' \/ UNCHANGED <<disk, tail, torn>>

LEMMA SparedKeeps ==
    ASSUME LogInv, Types', NEW g \in Handles, Spared(g)
    PROVE  HandleOK(g)'
<1>1. /\ stage'[g] = stage[g] /\ log'[g] = log[g] /\ buffered'[g] = buffered[g]
      /\ chain'[g] = chain[g] /\ running'[g] = running[g] /\ batch'[g] = batch[g]
      /\ leased'[g] = leased[g] /\ cursor'[g] = cursor[g] /\ materialized'[g] = materialized[g]
      /\ tornTo'[g] = tornTo[g] /\ recovered'[g] = recovered[g] /\ flusher'[g] = flusher[g]
      /\ wait'[g] = wait[g] /\ failed'[g] = failed[g] /\ opened'[g] = opened[g]
      /\ left'[g] = left[g] /\ target'[g] = target[g] /\ timer'[g] = timer[g]
  BY DEF Spared, Own
<1>2. HandleOK(g) /\ (Exact' => Exact)
  BY DEF LogInv, Spared, Exact
<1>3. /\ RunOK(g)' /\ (stage'[g] \in {"unused", "claimed", "locked"} => Fresh(g)')
      /\ stage'[g] \in {"claimed", "locked"} => exists'
      /\ opened'[g] <= Len(log'[g])
  BY <1>1, <1>2 DEF HandleOK, RunOK, Fresh, Spared
<1>4. ASSUME Alive(g)' PROVE (ChainOK(g) /\ BufferOK(g) /\ StateOK(g) /\ OwnerOK(g) /\ CloseOK(g))'
  <2>1. ChainOK(g) /\ BufferOK(g) /\ StateOK(g) /\ OwnerOK(g) /\ CloseOK(g)
    BY <1>1, <1>2, <1>4 DEF HandleOK, Alive
  <2>2. ChainOK(g)' /\ BufferOK(g)'
    BY <1>1, <2>1 DEF ChainOK, BufferOK
  <2>3. StateOK(g)'
    BY <1>1, <2>1 DEF StateOK, Spared
  <2>4. OwnerOK(g)'
    BY <1>1, <1>2, <2>1 DEF OwnerOK, ArtifactOf, Spared, Exact
  <2>5. CloseOK(g)'
    <3>1. ASSUME NEW n \in Nat, Stored(log[g], n) PROVE Stored(log[g], n)'
      <4>0. disk \in Seq(Event) /\ disk' \in Seq(Event)
        BY DEF LogInv, Types, Log
      <4>1. Len(disk) \in Nat /\ Len(disk') \in Nat
        BY <4>0
      <4>2. n <= Len(disk') /\ \A i \in 1 .. n : i \in 1 .. Len(disk)
        BY <3>1, <4>1 DEF Stored, Spared
      <4>3. \A i \in 1 .. n : disk'[i] = log[g][i]
        BY <3>1, <4>2 DEF Stored, Spared
      <4> QED BY <1>1, <4>2, <4>3 DEF Stored
    <3> QED BY <1>1, <1>2, <2>1, <3>1 DEF CloseOK, LogInv, Types
  <2> QED BY <2>2, <2>3, <2>4, <2>5
<1> QED BY <1>3, <1>4 DEF HandleOK

\* A step of h: other handles stay as they are.
Frame(h) ==
    /\ \A g \in Handles \ {h} : Own(g)' = Own(g)
    /\ (exists => exists') /\ (stray => stray') /\ lock' \in {lock, h, NoHandle}
    /\ Len(disk) <= Len(disk') /\ \A i \in 1 .. Len(disk) : disk'[i] = disk[i]
    /\ stray' \/ lock = h \/ UNCHANGED <<disk, tail, torn>>

LEMMA FrameKeeps ==
    ASSUME LogInv, Inv', Types', NEW h \in Handles, Frame(h), HandleOK(h)', FileOK', Kept'
    PROVE  LogInv'
<1>1. ASSUME NEW g \in Handles \ {h} PROVE HandleOK(g)'
  <2>1. Spared(g)
    BY WriterAssumption DEF Frame, Spared
  <2> QED BY <2>1, SparedKeeps
<1> QED BY <1>1 DEF LogInv

\* A step of a handle that leaves the file alone.
Quiet(h) ==
    /\ UNCHANGED <<artifact, stray>>
    /\ lock' \in {lock, h, NoHandle}
    /\ \A g \in Handles \ {h} : Own(g)' = Own(g)

LEMMA QuietKeeps ==
    ASSUME LogInv, Inv', Types', NEW h \in Handles, Quiet(h), Kept', HandleOK(h)'
    PROVE  LogInv'
<1>1. Frame(h)
  BY DEF Frame, Quiet, LogInv, Types, Log, artifact
<1>2. FileOK'
  BY DEF Quiet, LogInv, FileOK, Exact, artifact
<1> QED BY <1>1, <1>2, FrameKeeps

LEMMA PromisesKept ==
    ASSUME LogInv, UNCHANGED <<disk, stray, promised>>
    PROVE  Kept'
  BY DEF LogInv, Kept, Exact

LEMMA Shapes ==
    ASSUME LogInv, NEW h \in Handles
    PROVE  /\ log[h] \in Seq(Event) /\ buffered[h] \in Seq(Event) /\ batch[h] \in Seq(Event)
           /\ recovered[h] \in Seq(Event) /\ disk \in Seq(Event) /\ tail \in Seq(Event)
           /\ chain[h] \in Seq({"drain", "flush"})
           /\ cursor[h] \in Nat /\ wait[h] \in Nat /\ opened[h] \in Nat /\ left[h] \in Nat
           /\ target[h] \in Nat
           /\ Len(log[h]) \in Nat /\ Len(buffered[h]) \in Nat /\ Len(batch[h]) \in Nat
           /\ Len(recovered[h]) \in Nat /\ Len(disk) \in Nat /\ Len(chain[h]) \in Nat
           /\ stage[h] \in Stages
<1>1. /\ log[h] \in Seq(Event) /\ buffered[h] \in Seq(Event) /\ batch[h] \in Seq(Event)
      /\ recovered[h] \in Seq(Event) /\ disk \in Seq(Event) /\ tail \in Seq(Event)
      /\ chain[h] \in Seq({"drain", "flush"})
      /\ cursor[h] \in Nat /\ wait[h] \in Nat /\ opened[h] \in Nat /\ left[h] \in Nat
      /\ target[h] \in Nat /\ stage[h] \in Stages
  BY DEF LogInv, Types, Log
<1> QED BY <1>1, LenProperties

\* A handle that is open, or going to be, in the parts of the invariant.
LEMMA Opened ==
    ASSUME LogInv, NEW h \in Handles, Alive(h)
    PROVE  RunOK(h) /\ ChainOK(h) /\ BufferOK(h) /\ StateOK(h) /\ OwnerOK(h) /\ CloseOK(h)
  BY DEF LogInv, HandleOK

LEMMA FreshIsOK ==
    ASSUME LogInv, NEW h \in Handles, Fresh(h)
    PROVE  ChainOK(h) /\ BufferOK(h) /\ StateOK(h)
<1>1. Distinct(<< >>) /\ Contiguous(<< >>) /\ At(<< >>, 0, << >>)
  BY EmptySeq DEF Distinct, Contiguous, At
<1>2. Len(<< >>) = 0
  BY EmptySeq
<1>3. ChainOK(h)
  BY <1>1, QueuedNone DEF Fresh, ChainOK
<1>4. BufferOK(h)
  BY <1>1, <1>2 DEF Fresh, BufferOK
<1> QED BY <1>2, <1>3, <1>4 DEF Fresh, StateOK

-----------------------------------------------------------------------------
(* create and open.                                                        *)

\* A fresh handle that takes or frees the claim or the lock.
LEMMA FreshKeeps ==
    ASSUME LogInv, Inv', NEW h \in Handles, Fresh(h),
           stage[h] \in {"unused", "claimed", "locked"},
           \A g \in Handles \ {h} : stage'[g] = stage[g] /\ leased'[g] = leased[g],
           stage' \in [Handles -> Stages], stage'[h] \in {"claimed", "locked", "open", "dead"},
           stage'[h] \in {"claimed", "locked"} => exists,
           claim' \in [Procs -> Owners], leased' \in [Handles -> BOOLEAN],
           lock' \in {lock, h, NoHandle}, faults' \in 0 .. MaxFaults,
           UNCHANGED <<artifact, log, buffer, queue, state, flusher, wait, failed, history, stray>>
    PROVE  LogInv'
<1>1. Types'
  BY DEF LogInv, Types, Owners, artifact, buffer, queue, state, history
<1>2. Quiet(h) /\ Kept'
  BY PromisesKept DEF Quiet, Own, artifact, buffer, queue, state, history
<1>3. /\ log'[h] = log[h] /\ buffered'[h] = buffered[h]
      /\ chain'[h] = chain[h] /\ running'[h] = running[h] /\ batch'[h] = batch[h]
      /\ cursor'[h] = cursor[h] /\ materialized'[h] = materialized[h]
      /\ tornTo'[h] = tornTo[h] /\ recovered'[h] = recovered[h] /\ flusher'[h] = flusher[h]
      /\ wait'[h] = wait[h] /\ failed'[h] = failed[h] /\ opened'[h] = opened[h]
      /\ left'[h] = left[h] /\ target'[h] = target[h] /\ timer'[h] = timer[h] /\ exists' = exists
  BY DEF artifact, buffer, queue, state, history
<1>4. ChainOK(h) /\ BufferOK(h) /\ StateOK(h)
  BY FreshIsOK
<1>5. RunOK(h)'
  BY <1>3 DEF LogInv, HandleOK, RunOK
<1>6. Fresh(h)'
  BY <1>3 DEF Fresh
<1>7. ChainOK(h)' /\ BufferOK(h)'
  BY <1>3, <1>4 DEF ChainOK, BufferOK
<1>8. StateOK(h)' /\ OwnerOK(h)' /\ CloseOK(h)'
  BY <1>3, <1>4, <1>6 DEF Fresh, StateOK, OwnerOK, CloseOK
<1>9. opened'[h] <= Len(log'[h])
  BY <1>3 DEF LogInv, HandleOK
<1> QED BY <1>1, <1>2, <1>3, <1>5, <1>6, <1>7, <1>8, <1>9, QuietKeeps DEF HandleOK

LEMMA CreateLog == ASSUME LogInv, Inv', NEW h \in Handles, Create(h) PROVE LogInv'
<1>1. stage[h] = "unused" /\ Fresh(h) /\ h \in Owners
  BY DEF Create, LogInv, HandleOK, Owners
<1>2. /\ stage' \in [Handles -> Stages] /\ stage'[h] = "open" /\ claim' \in [Procs -> Owners]
      /\ \A g \in Handles \ {h} : stage'[g] = stage[g]
  BY <1>1 DEF Create, LogInv, Types, Stages
<1> QED BY <1>1, <1>2, FreshKeeps DEF Create, LogInv, Types

LEMMA ClaimLog == ASSUME LogInv, Inv', NEW h \in Handles, Claim(h) PROVE LogInv'
<1>1. stage[h] = "unused" /\ Fresh(h) /\ h \in Owners
  BY DEF Claim, LogInv, HandleOK, Owners
<1>2. /\ stage' \in [Handles -> Stages] /\ stage'[h] = "claimed" /\ claim' \in [Procs -> Owners]
      /\ \A g \in Handles \ {h} : stage'[g] = stage[g]
  BY <1>1 DEF Claim, LogInv, Types, Stages
<1> QED BY <1>1, <1>2, FreshKeeps DEF Claim, LogInv, Types

LEMMA LockForOpenLog == ASSUME LogInv, Inv', NEW h \in Handles, LockForOpen(h) PROVE LogInv'
<1>1. stage[h] = "claimed" /\ Fresh(h) /\ h \in Owners /\ NoHandle \in Owners
  BY DEF LockForOpen, LogInv, HandleOK, Owners
<1>2. /\ stage' \in [Handles -> Stages] /\ stage'[h] \in {"locked", "dead"}
      /\ claim' \in [Procs -> Owners] /\ leased' \in [Handles -> BOOLEAN]
      /\ \A g \in Handles \ {h} : stage'[g] = stage[g] /\ leased'[g] = leased[g]
      /\ lock' \in {lock, h, NoHandle}
  <2>0. Types
    BY DEF LogInv
  <2>1. CASE Contended
    <3>1. /\ stage' = [stage EXCEPT ![h] = "dead"] /\ claim' = [claim EXCEPT ![proc[h]] = NoHandle]
          /\ lock' = lock /\ leased' = leased
      BY <2>1 DEF LockForOpen
    <3>2. stage \in [Handles -> Stages] /\ claim \in [Procs -> Owners] /\ leased \in [Handles -> BOOLEAN]
      BY <2>0 DEF Types
    <3> QED BY <1>1, <3>1, <3>2 DEF Stages
  <2>2. CASE ~Contended
    BY <1>1, <2>0, <2>2 DEF LockForOpen, Types, Stages
  <2> QED BY <2>1, <2>2
<1>3. exists
  BY <1>1 DEF LogInv, HandleOK
<1> QED BY <1>1, <1>2, <1>3, FreshKeeps DEF LockForOpen, LogInv, Types

LEMMA FailOpenLog == ASSUME LogInv, Inv', NEW h \in Handles, FailOpen(h) PROVE LogInv'
<1>1. stage[h] = "locked" /\ Fresh(h) /\ h \in Owners /\ NoHandle \in Owners
  BY DEF FailOpen, LogInv, HandleOK, Owners
<1>2. /\ stage' \in [Handles -> Stages] /\ stage'[h] = "dead"
      /\ claim' \in [Procs -> Owners] /\ leased' \in [Handles -> BOOLEAN]
      /\ \A g \in Handles \ {h} : stage'[g] = stage[g] /\ leased'[g] = leased[g]
      /\ lock' \in {lock, h, NoHandle}
  BY <1>1 DEF FailOpen, LogInv, Types, Stages
<1>3. faults' \in 0 .. MaxFaults
  BY WriterAssumption DEF FailOpen, Fault, LogInv, Types
<1> QED BY <1>1, <1>2, <1>3, FreshKeeps DEF FailOpen, LogInv, Types

LEMMA ReadForOpenLog == ASSUME LogInv, Inv', NEW h \in Handles, ReadForOpen(h) PROVE LogInv'
<1> DEFINE found == disk \o tail
<1>1. stage[h] = "locked" /\ Fresh(h) /\ leased[h] /\ claim' = claim /\ lock' = lock /\ lock = h
  BY DEF ReadForOpen, LogInv, HandleOK, Inv, LockHeld, Holding
<1>2. /\ found \in Seq(Event) /\ Len(found) = Len(disk) + Len(tail) /\ Contiguous(found)
      /\ disk \in Seq(Event) /\ tail \in Seq(Event) /\ Len(disk) \in Nat /\ Len(tail) \in Nat
  <2>1. disk \in Seq(Event) /\ tail \in Seq(Event)
    BY DEF LogInv, Types, Log
  <2> QED BY <2>1, ConcatProperties, LenProperties DEF ReadForOpen
<1>3. /\ log'[h] = found /\ opened'[h] = Len(found) /\ cursor'[h] = Len(found)
      /\ materialized'[h] = TRUE /\ tornTo'[h] = torn /\ recovered'[h] = tail
      /\ stage'[h] = "open" /\ leased'[h] = leased[h] /\ buffered'[h] = << >> /\ batch'[h] = << >>
      /\ chain'[h] = << >> /\ ~running'[h] /\ flusher'[h] = "idle" /\ left'[h] = 0 /\ target'[h] = 0
      /\ wait'[h] = wait[h] /\ UNCHANGED <<artifact, stray, promised>>
  BY <1>1 DEF ReadForOpen, RecoveredTail, artifact, buffer, queue, Fresh, LogInv, Types
<1>4. Types'
  <2>1. Len(found) \in Nat /\ found \in Log /\ tail \in Log
    BY <1>2 DEF Log
  <2>2. log' \in [Handles -> Log] /\ recovered' \in [Handles -> Log]
    BY <2>1 DEF ReadForOpen, RecoveredTail, LogInv, Types
  <2>3. opened' \in [Handles -> Nat] /\ cursor' \in [Handles -> Nat]
    BY <2>1 DEF ReadForOpen, LogInv, Types
  <2>4. stage' \in [Handles -> Stages] /\ tornTo' \in [Handles -> BOOLEAN]
        /\ materialized' \in [Handles -> BOOLEAN]
    BY DEF ReadForOpen, LogInv, Types, Stages
  <2> QED BY <2>2, <2>3, <2>4 DEF ReadForOpen, LogInv, Types, artifact, buffer, queue
<1>5. Quiet(h)
  <2>1. \A g \in Handles \ {h} : Own(g)' = Own(g)
    BY DEF ReadForOpen, LogInv, Types, Own, buffer, queue
  <2> QED BY <1>1, <1>3, <2>1 DEF Quiet, artifact
<1>6. exists
  BY <1>1 DEF LogInv, HandleOK
<1> HIDE DEF found
<1>7. ChainOK(h)' /\ RunOK(h)'
  BY <1>3, QueuedNone DEF ChainOK, RunOK, Distinct
<1>8. BufferOK(h)' /\ StateOK(h)'
  <2>1. At(found, Len(found), << >>) /\ Len(<< >>) = 0
    BY <1>2, AtNone, EmptySeq, LenProperties
  <2>2. Len(found) \in Nat
    BY <1>2
  <2>3. BufferOK(h)'
    BY <1>2, <1>3, <2>1, <2>2 DEF BufferOK
  <2>4. exists' = exists
    BY <1>3 DEF artifact
  <2> QED BY <1>1, <1>3, <1>6, <2>2, <2>3, <2>4 DEF StateOK
<1>9. OwnerOK(h)' /\ CloseOK(h)'
  <2>1. At(found, 0, disk) /\ At(found, Len(disk), tail)
    BY <1>2, AtParts DEF found
  <2>2. ~torn => tail = << >>
    BY DEF LogInv, FileOK
  <2>3. OwnerOK(h)'
    BY <1>2, <1>3, <2>1, <2>2 DEF OwnerOK, ArtifactOf, artifact
  <2> QED BY <1>3, <2>3 DEF CloseOK
<1>10. Kept' /\ opened'[h] <= Len(log'[h])
  BY <1>2, <1>3, PromisesKept DEF artifact
<1> QED BY <1>3, <1>4, <1>5, <1>7, <1>8, <1>9, <1>10, QuietKeeps DEF HandleOK

-----------------------------------------------------------------------------
(* Callers, the timer and the ends of close.                               *)

\* A step of h that queues operations and moves its callers on, and writes nothing.
Control(h) ==
    /\ UNCHANGED <<artifact, lock, claim, log, buffered, batch, leased, state, failed, faults, opened,
                   proc, stray>>
    /\ promised' \subseteq Event
    /\ timer' \in [Handles -> BOOLEAN] /\ paused' \in [Handles -> BOOLEAN]
    /\ chain' \in [Handles -> Seq({"drain", "flush"})] /\ running' \in [Handles -> BOOLEAN]
    /\ flusher' \in [Handles -> {"idle", "drain", "barrier", "flush"}]
    /\ stage' \in [Handles -> Stages] /\ wait' \in [Handles -> Nat]
    /\ left' \in [Handles -> Nat] /\ target' \in [Handles -> Nat]
    /\ \A g \in Handles \ {h} :
          /\ stage'[g] = stage[g] /\ chain'[g] = chain[g] /\ running'[g] = running[g]
          /\ flusher'[g] = flusher[g] /\ wait'[g] = wait[g] /\ left'[g] = left[g]
          /\ target'[g] = target[g] /\ timer'[g] = timer[g]

LEMMA ControlKeeps ==
    ASSUME LogInv, Inv', NEW h \in Handles, Alive(h), Control(h), RunOK(h)', ChainOK(h)', CloseOK(h)',
           stage'[h] \notin {"unused", "claimed", "locked"},
           target'[h] <= Len(log[h]), left'[h] <= Len(log[h]),
           flusher'[h] \in {"barrier", "flush"} => target'[h] <= cursor[h],
           promised' = promised \/ Kept'
    PROVE  LogInv'
<1>1. Types'
  BY DEF Control, LogInv, Types, artifact, state
<1>2. Quiet(h)
  BY DEF Control, Quiet, Own, artifact, state
<1>3. BufferOK(h) /\ StateOK(h) /\ OwnerOK(h)
  BY Opened
<1>4. /\ log' = log /\ buffered' = buffered /\ batch' = batch /\ cursor' = cursor
      /\ materialized' = materialized /\ tornTo' = tornTo /\ recovered' = recovered
      /\ opened' = opened /\ leased' = leased /\ lock' = lock
      /\ exists' = exists /\ disk' = disk /\ tail' = tail /\ torn' = torn /\ stray' = stray
  BY DEF Control, artifact, state
<1>5. BufferOK(h)'
  BY <1>3, <1>4 DEF BufferOK
<1>6. StateOK(h)'
  BY <1>3, <1>4 DEF StateOK
<1>7. OwnerOK(h)'
  BY <1>3, <1>4 DEF OwnerOK, ArtifactOf, Exact
<1>8. Kept' /\ opened'[h] <= Len(log'[h])
  BY <1>4, PromisesKept DEF LogInv, HandleOK
<1> QED BY <1>1, <1>2, <1>5, <1>6, <1>7, <1>8, QuietKeeps DEF HandleOK

LEMMA DrainLiveChain ==
    ASSUME LogInv, NEW h \in Handles, Alive(h), DrainLive(h)
    PROVE  /\ timer' \in [Handles -> BOOLEAN] /\ paused' \in [Handles -> BOOLEAN]
           /\ chain' \in [Handles -> Seq({"drain", "flush"})]
           /\ \A g \in Handles \ {h} : chain'[g] = chain[g] /\ timer'[g] = timer[g]
           /\ Distinct(chain'[h])
           /\ Queued(chain'[h], "drain") => batch[h] # << >> \/ buffered[h] # << >>
           /\ Queued(chain'[h], "flush") => Queued(chain[h], "flush")
           /\ running[h] => chain'[h] # << >> /\ Head(chain'[h]) = Head(chain[h])
<1>1. ChainOK(h) /\ RunOK(h) /\ chain[h] \in Seq({"drain", "flush"})
  BY Opened, Shapes
<1>2. Types
  BY DEF LogInv
<1>3. CASE Draining(h) \/ buffered[h] = << >>
  <2>1. /\ chain' = chain /\ timer' \in [Handles -> BOOLEAN] /\ paused' \in [Handles -> BOOLEAN]
        /\ \A g \in Handles \ {h} : timer'[g] = timer[g]
    BY <1>2, <1>3 DEF DrainLive, Types
  <2> QED BY <1>1, <1>2, <2>1 DEF ChainOK, RunOK, Types
<1>4. CASE ~Draining(h) /\ buffered[h] # << >>
  <2> DEFINE c == Append(chain[h], "drain")
  <2>1. /\ chain' = [chain EXCEPT ![h] = c]
        /\ timer' \in [Handles -> BOOLEAN] /\ paused' \in [Handles -> BOOLEAN]
        /\ \A g \in Handles \ {h} : timer'[g] = timer[g]
    BY <1>2, <1>4 DEF DrainLive, Types
  <2>2. ~Queued(chain[h], "drain") /\ "drain" \in {"drain", "flush"}
    BY <1>4 DEF Draining, Queued
  <2>3. /\ Distinct(c) /\ (Queued(c, "flush") => Queued(chain[h], "flush"))
        /\ c \in Seq({"drain", "flush"})
    BY <1>1, <2>2, QueuedAppend, AppendProperties DEF ChainOK
  <2>4. running[h] => c # << >> /\ Head(c) = Head(chain[h])
    BY <1>1, HeadTailAppend, AppendProperties DEF RunOK
  <2> HIDE DEF c
  <2>5. chain'[h] = c /\ chain' \in [Handles -> Seq({"drain", "flush"})]
    BY <1>2, <2>1, <2>3 DEF Types
  <2> QED BY <1>2, <1>4, <2>1, <2>3, <2>4, <2>5 DEF Types
<1> QED BY <1>3, <1>4

\* A caller of drainLive that need not wait finds everything written.
LEMMA DrainedIsWritten ==
    ASSUME LogInv, NEW h \in Handles, Alive(h), Drained(h) \/ (buffered[h] = << >> /\ ~running[h])
    PROVE  cursor[h] = Len(log[h])
<1>1. BufferOK(h) /\ RunOK(h)
  BY Opened
<1>2. batch[h] = << >>
  <2>1. CASE ~running[h]
    BY <1>1, <2>1 DEF RunOK
  <2>2. CASE Drained(h) /\ running[h]
    <3>1. chain[h] \in Seq({"drain", "flush"}) /\ chain[h] # << >>
      BY <1>1, <2>2, Shapes DEF RunOK
    <3>2. 1 \in DOMAIN chain[h] /\ chain[h][1] = Head(chain[h])
      BY <3>1, EmptySeq, LenProperties
    <3>3. Head(chain[h]) # "drain"
      BY <2>2, <3>2 DEF Drained, Draining
    <3> QED BY <1>1, <3>3 DEF RunOK
  <2> QED BY <2>1, <2>2
<1> QED BY <1>1, <1>2, Shapes, EmptySeq DEF BufferOK, Drained

LEMMA FlushLog == ASSUME LogInv, Inv', NEW h \in Handles, Flush(h) PROVE LogInv'
<1>1. Alive(h) /\ stage[h] \notin {"unused", "claimed", "locked"} /\ stage' = stage
  BY DEF Flush, Live, Alive, Closing
<1>2. RunOK(h) /\ ChainOK(h) /\ StateOK(h) /\ CloseOK(h) /\ Types
  BY <1>1, Opened DEF LogInv
<1>3. /\ target' = [target EXCEPT ![h] = Len(log[h])] /\ Len(log[h]) \in Nat
      /\ flusher' = [flusher EXCEPT ![h] = IF Drained(h) THEN "barrier" ELSE "drain"]
      /\ DrainLive(h) /\ flusher[h] = "idle"
      /\ UNCHANGED <<log, running, batch, buffered, wait, failed, opened, left, disk, stray>>
  BY Shapes DEF Flush, artifact
<1>4. Control(h)
  BY <1>1, <1>2, <1>3, DrainLiveChain DEF Control, Types, Flush, artifact, state
<1>5. RunOK(h)' /\ ChainOK(h)'
  BY <1>1, <1>2, <1>3, DrainLiveChain DEF RunOK, ChainOK
<1>6. CloseOK(h)'
  BY <1>1, <1>2, <1>3 DEF CloseOK, Stored, Exact
<1>7. flusher'[h] \in {"barrier", "flush"} => target'[h] <= cursor[h]
  BY <1>1, <1>2, <1>3, DrainedIsWritten DEF Types
<1>8. target'[h] <= Len(log[h]) /\ left'[h] <= Len(log[h])
  BY <1>2, <1>3 DEF StateOK, Types
<1>9. promised' = promised
  BY DEF Flush
<1> QED BY <1>9, <1>1, <1>4, <1>5, <1>6, <1>7, <1>8, ControlKeeps

LEMMA TimerFiresLog == ASSUME LogInv, Inv', NEW h \in Handles, TimerFires(h) PROVE LogInv'
<1>1. Alive(h) /\ stage' = stage /\ stage[h] \notin {"unused", "claimed", "locked"}
  BY DEF TimerFires, LogInv, HandleOK, Fresh
<1>2. RunOK(h) /\ ChainOK(h) /\ StateOK(h) /\ CloseOK(h) /\ Types
  BY <1>1, Opened DEF LogInv
<1>3. UNCHANGED <<log, running, batch, buffered, wait, failed, opened, left, disk, stray, flusher,
                  target, cursor>>
  BY DEF TimerFires, artifact, history, state
<1>4. /\ timer' \in [Handles -> BOOLEAN] /\ paused' \in [Handles -> BOOLEAN]
      /\ chain' \in [Handles -> Seq({"drain", "flush"})]
      /\ \A g \in Handles \ {h} : chain'[g] = chain[g] /\ timer'[g] = timer[g]
      /\ RunOK(h)' /\ ChainOK(h)'
  <2>1. CASE DrainLive(h)
    BY <1>1, <1>2, <1>3, <2>1, DrainLiveChain DEF RunOK, ChainOK
  <2>2. CASE ~DrainLive(h)
    <3>1. chain' = chain /\ paused' = paused /\ timer' = [timer EXCEPT ![h] = FALSE]
      BY <2>2 DEF TimerFires
    <3> QED BY <1>2, <1>3, <3>1 DEF Types, RunOK, ChainOK
  <2> QED BY <2>1, <2>2
<1>5. Control(h)
  BY <1>1, <1>2, <1>3, <1>4 DEF Control, Types, TimerFires, artifact, state, history
<1>6. CloseOK(h)'
  BY <1>1, <1>2, <1>3 DEF CloseOK, Stored, Exact
<1>7. /\ target'[h] <= Len(log[h]) /\ left'[h] <= Len(log[h])
      /\ flusher'[h] \in {"barrier", "flush"} => target'[h] <= cursor[h]
  BY <1>2, <1>3 DEF StateOK
<1>9. promised' = promised
  BY DEF TimerFires, history
<1> QED BY <1>9, <1>1, <1>4, <1>5, <1>6, <1>7, ControlKeeps

LEMMA FlushBarrierLog == ASSUME LogInv, Inv', NEW h \in Handles, FlushBarrier(h) PROVE LogInv'
<1>1. /\ Alive(h) /\ stage' = stage /\ stage[h] \notin {"unused", "claimed", "locked"}
      /\ flusher[h] = "barrier"
  BY DEF FlushBarrier, LogInv, HandleOK, Fresh
<1>2. RunOK(h) /\ ChainOK(h) /\ StateOK(h) /\ CloseOK(h) /\ Types /\ chain[h] \in Seq({"drain", "flush"})
  BY <1>1, Opened, Shapes DEF LogInv
<1>3. UNCHANGED <<log, running, batch, buffered, wait, failed, opened, left, disk, stray, target, cursor,
                  timer, paused>>
  BY DEF FlushBarrier, artifact, history, state, buffer
<1>4. /\ chain' \in [Handles -> Seq({"drain", "flush"})]
      /\ flusher' \in [Handles -> {"idle", "drain", "barrier", "flush"}]
      /\ \A g \in Handles \ {h} : chain'[g] = chain[g] /\ flusher'[g] = flusher[g]
      /\ RunOK(h)' /\ ChainOK(h)'
  <2>1. CASE stage[h] = "open"
    <3> DEFINE c == Append(chain[h], "flush")
    <3>1. chain' = [chain EXCEPT ![h] = c] /\ flusher' = [flusher EXCEPT ![h] = "flush"]
      BY <2>1 DEF FlushBarrier
    <3>2. ~Queued(chain[h], "flush") /\ "flush" \in {"drain", "flush"}
      BY <1>1, <1>2 DEF ChainOK
    <3>3. /\ c \in Seq({"drain", "flush"}) /\ Distinct(c)
          /\ Queued(c, "drain") => Queued(chain[h], "drain")
      BY <1>2, <3>2, QueuedAppend, AppendProperties DEF ChainOK
    <3>4. running[h] => c # << >> /\ Head(c) = Head(chain[h])
      BY <1>2, HeadTailAppend, AppendProperties DEF RunOK
    <3> HIDE DEF c
    <3>5. chain'[h] = c /\ flusher'[h] = "flush"
      BY <1>2, <3>1 DEF Types
    <3>6. RunOK(h)' /\ ChainOK(h)'
      BY <1>2, <1>3, <3>3, <3>4, <3>5 DEF RunOK, ChainOK
    <3> QED BY <1>2, <3>1, <3>3, <3>6 DEF Types
  <2>2. CASE stage[h] # "open"
    <3>1. chain' = chain /\ flusher' = [flusher EXCEPT ![h] = "idle"]
      BY <2>2 DEF FlushBarrier
    <3> QED BY <1>1, <1>2, <1>3, <3>1 DEF Types, RunOK, ChainOK
  <2> QED BY <2>1, <2>2
<1>5. Control(h)
  BY <1>1, <1>2, <1>3, <1>4 DEF Control, Types, FlushBarrier, artifact, state, history
<1>6. CloseOK(h)'
  BY <1>1, <1>2, <1>3 DEF CloseOK, Stored, Exact
<1>7. target'[h] <= Len(log[h]) /\ left'[h] <= Len(log[h]) /\ target'[h] <= cursor[h]
  BY <1>1, <1>2, <1>3 DEF StateOK
<1>9. promised' = promised
  BY DEF FlushBarrier, history
<1> QED BY <1>9, <1>1, <1>4, <1>5, <1>6, <1>7, ControlKeeps

LEMMA CloseLog == ASSUME LogInv, Inv', NEW h \in Handles, Close(h) PROVE LogInv'
<1>1. Alive(h) /\ stage[h] = "open" /\ stage'[h] \in {"chain", "drain"}
  BY DEF Close, Alive, LogInv, Types
<1>2. RunOK(h) /\ ChainOK(h) /\ StateOK(h) /\ Types /\ chain[h] \in Seq({"drain", "flush"})
  BY <1>1, Opened, Shapes DEF LogInv
<1>3. /\ UNCHANGED <<log, running, batch, buffered, failed, opened, left, disk, stray, target, cursor,
                     flusher>>
      /\ DrainLive(h) /\ wait' = [wait EXCEPT ![h] = Len(chain[h])]
      /\ stage' = [stage EXCEPT ![h] = IF Drained(h) THEN "chain" ELSE "drain"]
  BY DEF Close, artifact, history, state
<1>4. Control(h)
  <2>1. stage' \in [Handles -> Stages] /\ wait' \in [Handles -> Nat]
    BY <1>2, <1>3, LenProperties DEF Types, Stages
  <2> QED BY <1>1, <1>2, <1>3, <2>1, DrainLiveChain DEF Control, Types, Close, artifact, state, history
<1>5. RunOK(h)' /\ ChainOK(h)'
  BY <1>1, <1>2, <1>3, DrainLiveChain DEF RunOK, ChainOK
<1>6. CloseOK(h)'
  <2>1. running[h] => Len(chain[h]) # 0
    BY <1>2, EmptySeq DEF RunOK
  <2>2. wait'[h] = Len(chain[h])
    BY <1>2, <1>3 DEF Types
  <2> QED BY <1>1, <1>3, <2>1, <2>2 DEF CloseOK
<1>7. /\ target'[h] <= Len(log[h]) /\ left'[h] <= Len(log[h])
      /\ flusher'[h] \in {"barrier", "flush"} => target'[h] <= cursor[h]
  BY <1>2, <1>3 DEF StateOK
<1>9. promised' = promised
  BY DEF Close, history
<1> QED BY <1>9, <1>1, <1>4, <1>5, <1>6, <1>7, ControlKeeps

\* A handle that holds the lock and has rewritten what it recovered has its log in the file
\* up to the cursor.
LEMMA OwnerStored ==
    ASSUME LogInv, NEW h \in Handles, Alive(h), lock = h, materialized[h], Exact,
           NEW n \in Nat, n <= cursor[h], opened[h] < n
    PROVE  Stored(log[h], n)
<1>1. ArtifactOf(h) /\ StateOK(h)
  BY Opened DEF OwnerOK
<1>2. recovered[h] = << >> /\ Len(disk) = cursor[h]
  <2>1. cursor[h] # opened[h]
    BY Shapes
  <2>2. recovered[h] = << >>
    BY <1>1, <2>1 DEF StateOK
  <2> QED BY <1>1, <2>2, Shapes, EmptySeq DEF ArtifactOf
<1>3. \A i \in 1 .. Len(disk) : disk[i] = log[h][i]
  <2>1. At(log[h], 0, disk)
    BY <1>1 DEF ArtifactOf
  <2> QED BY <2>1, Shapes DEF At
<1>4. Len(disk) \in Nat /\ n <= Len(disk)
  BY <1>2, Shapes
<1> QED BY <1>3, <1>4 DEF Stored

LEMMA ChainSettledLog == ASSUME LogInv, Inv', NEW h \in Handles, ChainSettled(h) PROVE LogInv'
<1>1. Alive(h) /\ stage[h] = "chain" /\ stage'[h] \in {"last", "drain"} /\ wait[h] = 0
  BY DEF ChainSettled, Alive, LogInv, Types
<1>2. RunOK(h) /\ ChainOK(h) /\ StateOK(h) /\ CloseOK(h) /\ Types /\ chain[h] \in Seq({"drain", "flush"})
  BY <1>1, Opened, Shapes DEF LogInv
<1>3. /\ UNCHANGED <<log, running, batch, buffered, failed, opened, disk, stray, target, cursor, flusher>>
      /\ ~running[h]
  BY <1>1, <1>2 DEF ChainSettled, artifact, state, CloseOK
<1>0. promised' = promised
  BY DEF ChainSettled
<1>4. CASE buffered[h] = << >>
  <2>1. /\ stage' = [stage EXCEPT ![h] = "last"] /\ wait' = [wait EXCEPT ![h] = Len(chain[h])]
        /\ left' = [left EXCEPT ![h] = Len(log[h])] /\ UNCHANGED <<timer, paused, chain>>
        /\ Len(log[h]) \in Nat /\ Len(chain[h]) \in Nat
    BY <1>4, Shapes DEF ChainSettled, LeavesLoop
  <2>2. Control(h)
    BY <1>1, <1>2, <1>3, <2>1 DEF Control, Types, Stages, ChainSettled, artifact, state
  <2>3. RunOK(h)' /\ ChainOK(h)'
    BY <1>2, <1>3, <2>1 DEF RunOK, ChainOK
  <2>4. cursor[h] = Len(log[h]) /\ left'[h] = Len(log[h])
    BY <1>1, <1>2, <1>3, <1>4, <2>1, DrainedIsWritten DEF Types
  <2>5. ASSUME Exact, left'[h] > opened[h] PROVE Stored(log[h], Len(log[h]))
    <3>1. materialized[h] /\ leased[h] /\ opened[h] < Len(log[h])
      BY <1>2, <2>1, <2>4, <2>5, Shapes DEF StateOK, Types
    <3>2. lock = h
      BY <1>1, <3>1 DEF LogInv, Inv, LockHeld, Holding
    <3> QED BY <1>1, <2>1, <2>4, <2>5, <3>1, <3>2, OwnerStored
  <2>6. CloseOK(h)'
    BY <1>3, <2>4, <2>5 DEF CloseOK, Stored, Exact
  <2>7. /\ target'[h] <= Len(log[h]) /\ left'[h] <= Len(log[h])
        /\ flusher'[h] \in {"barrier", "flush"} => target'[h] <= cursor[h]
    BY <1>2, <1>3, <2>1, <2>4 DEF StateOK
  <2> QED BY <1>0, <1>1, <2>2, <2>3, <2>6, <2>7, ControlKeeps
<1>5. CASE buffered[h] # << >>
  <2>1. /\ stage' = [stage EXCEPT ![h] = "drain"] /\ UNCHANGED <<wait, left>> /\ DrainLive(h)
    BY <1>5 DEF ChainSettled, LeavesLoop
  <2>2. Control(h)
    BY <1>1, <1>2, <1>3, <2>1, DrainLiveChain DEF Control, Types, Stages, ChainSettled, artifact, state
  <2>3. RunOK(h)' /\ ChainOK(h)'
    BY <1>1, <1>2, <1>3, <2>1, DrainLiveChain DEF RunOK, ChainOK
  <2>4. stage'[h] = "drain"
    BY <1>2, <2>1 DEF Types
  <2>5. CloseOK(h)'
    BY <2>4 DEF CloseOK
  <2>6. /\ target'[h] <= Len(log[h]) /\ left'[h] <= Len(log[h])
        /\ flusher'[h] \in {"barrier", "flush"} => target'[h] <= cursor[h]
    BY <1>2, <1>3, <2>1 DEF StateOK
  <2> QED BY <1>0, <1>1, <2>2, <2>3, <2>5, <2>6, ControlKeeps
<1> QED BY <1>4, <1>5

\* A step of h that moves the lock or the claim, or close past its last await.
LEMMA HandOverKeeps ==
    ASSUME LogInv, Inv', NEW h \in Handles, Alive(h),
           \A g \in Handles \ {h} : stage'[g] = stage[g] /\ leased'[g] = leased[g],
           stage' \in [Handles -> Stages], claim' \in [Procs -> Owners],
           leased' \in [Handles -> BOOLEAN], lock' \in {lock, h, NoHandle},
           leased[h] => leased'[h], materialized[h] /\ lock' = h => lock = h,
           \/ stage'[h] = stage[h]
           \/ /\ stage[h] \in {"last", "release", "released"}
              /\ stage'[h] \in {"release", "released", "closed"},
           UNCHANGED <<artifact, log, buffer, queue, state, flusher, wait, failed, faults, history, stray>>
    PROVE  LogInv'
<1>1. Types'
  BY DEF LogInv, Types, Owners, artifact, buffer, queue, state, history
<1>2. Quiet(h) /\ Kept'
  BY PromisesKept DEF Quiet, Own, artifact, buffer, queue, state, history
<1>3. /\ log' = log /\ buffered' = buffered /\ chain' = chain /\ running' = running /\ batch' = batch
      /\ cursor' = cursor /\ materialized' = materialized /\ tornTo' = tornTo
      /\ recovered' = recovered /\ flusher' = flusher /\ wait' = wait /\ failed' = failed
      /\ opened' = opened /\ left' = left /\ target' = target /\ timer' = timer
      /\ disk' = disk /\ tail' = tail /\ torn' = torn /\ stray' = stray /\ exists' = exists
  BY DEF artifact, buffer, queue, state, history
<1>4. HandleOK(h)
  BY DEF LogInv
<1>5. RunOK(h) /\ ChainOK(h) /\ BufferOK(h) /\ StateOK(h) /\ OwnerOK(h) /\ CloseOK(h)
  BY Opened
<1>6. RunOK(h)' /\ ChainOK(h)' /\ BufferOK(h)' /\ StateOK(h)'
  BY <1>3, <1>5 DEF RunOK, ChainOK, BufferOK, StateOK
<1>7. OwnerOK(h)'
  BY <1>3, <1>5 DEF OwnerOK, ArtifactOf, Exact
<1>8. CloseOK(h)'
  BY <1>3, <1>5 DEF CloseOK, Stored, Exact
<1>9. /\ stage'[h] \in {"unused", "claimed", "locked"} => Fresh(h)'
      /\ stage'[h] \in {"claimed", "locked"} => exists'
      /\ opened'[h] <= Len(log'[h])
  BY <1>3, <1>4 DEF HandleOK, Fresh
<1> QED BY <1>1, <1>2, <1>6, <1>7, <1>8, <1>9, QuietKeeps DEF HandleOK

LEMMA LastSettledLog == ASSUME LogInv, Inv', NEW h \in Handles, LastSettled(h) PROVE LogInv'
<1>1. /\ Alive(h) /\ stage' \in [Handles -> Stages] /\ stage[h] = "last"
      /\ stage'[h] \in {"release", "released"} /\ \A g \in Handles \ {h} : stage'[g] = stage[g]
  BY DEF LastSettled, Alive, LogInv, Types, Stages
<1> QED BY <1>1, HandOverKeeps DEF LastSettled, LogInv, Types

LEMMA ReleaseLog == ASSUME LogInv, Inv', NEW h \in Handles, Release(h) PROVE LogInv'
<1>1. /\ Alive(h) /\ stage' \in [Handles -> Stages] /\ stage[h] = "release"
      /\ stage'[h] = "released" /\ \A g \in Handles \ {h} : stage'[g] = stage[g]
      /\ lock' \in {lock, h, NoHandle} /\ (lock' = h => lock = h)
  BY WriterAssumption DEF Release, Alive, LogInv, Types, Stages
<1> QED BY <1>1, HandOverKeeps DEF Release, LogInv, Types

LEMMA ReleasedLog == ASSUME LogInv, Inv', NEW h \in Handles, Released(h) PROVE LogInv'
<1>1. /\ Alive(h) /\ stage' \in [Handles -> Stages] /\ stage[h] = "released"
      /\ stage'[h] = "closed" /\ \A g \in Handles \ {h} : stage'[g] = stage[g]
      /\ claim' \in [Procs -> Owners]
  BY DEF Released, Alive, LogInv, Types, Stages, Owners
<1> QED BY <1>1, HandOverKeeps DEF Released, LogInv, Types

LEMMA EnsureLeaseLog == ASSUME LogInv, Inv', NEW h \in Handles, EnsureLease(h) PROVE LogInv'
<1>1. /\ Alive(h) /\ lock' = h /\ ~materialized[h]
      /\ leased' \in [Handles -> BOOLEAN] /\ leased'[h]
      /\ \A g \in Handles \ {h} : leased'[g] = leased[g]
  BY Opened DEF EnsureLease, StateOK, LogInv, Types
<1> QED BY <1>1, HandOverKeeps DEF EnsureLease, LogInv, Types

-----------------------------------------------------------------------------
(* The operations of the chain that leave the file alone.                  *)

\* An operation at the head of the chain.
LEMMA HeadOfChain ==
    ASSUME LogInv, NEW h \in Handles, Alive(h), chain[h] # << >>
    PROVE  /\ Tail(chain[h]) \in Seq({"drain", "flush"}) /\ Distinct(Tail(chain[h]))
           /\ Queued(chain[h], Head(chain[h]))
           /\ \A op : Queued(Tail(chain[h]), op) <=> Queued(chain[h], op) /\ op # Head(chain[h])
           /\ stage[h] \notin {"unused", "claimed", "locked"}
<1>1. chain[h] \in Seq({"drain", "flush"}) /\ Distinct(chain[h])
  BY Opened, Shapes DEF ChainOK
<1>2. 1 \in DOMAIN chain[h] /\ Head(chain[h]) = chain[h][1]
  BY <1>1, EmptySeq, LenProperties
<1>3. stage[h] \notin {"unused", "claimed", "locked"}
  BY DEF LogInv, HandleOK, Fresh
<1> QED BY <1>1, <1>2, <1>3, QueuedTail, HeadTailProperties DEF Queued

LEMMA StartDrainLog == ASSUME LogInv, Inv', NEW h \in Handles, StartDrain(h) PROVE LogInv'
<1>1. /\ Alive(h) /\ chain[h] # << >> /\ Head(chain[h]) = "drain" /\ ~running[h] /\ ~CloserFirst(h)
      /\ running' = [running EXCEPT ![h] = TRUE] /\ batch' = [batch EXCEPT ![h] = buffered[h]]
      /\ buffered' = [buffered EXCEPT ![h] = << >>]
  BY DEF StartDrain, Runnable
<1>2. /\ stage' = stage /\ log' = log /\ chain' = chain /\ leased' = leased /\ cursor' = cursor
      /\ materialized' = materialized /\ tornTo' = tornTo /\ recovered' = recovered
      /\ flusher' = flusher /\ wait' = wait /\ failed' = failed /\ opened' = opened /\ left' = left
      /\ target' = target /\ timer' = timer /\ lock' = lock /\ promised' = promised
      /\ disk' = disk /\ tail' = tail /\ torn' = torn /\ exists' = exists /\ buried' = buried
      /\ stray' = stray
  BY DEF StartDrain, artifact, state, history
<1>3. /\ Types /\ stage[h] \notin {"unused", "claimed", "locked"} /\ opened[h] <= Len(log[h])
      /\ ChainOK(h) /\ BufferOK(h) /\ StateOK(h) /\ OwnerOK(h) /\ CloseOK(h) /\ RunOK(h)
      /\ Queued(chain[h], "drain")
  BY <1>1, HeadOfChain, Opened DEF LogInv, HandleOK
<1>4. batch[h] = << >> /\ buffered[h] # << >>
  BY <1>1, <1>3 DEF RunOK, ChainOK
<1>5. batch'[h] = buffered[h] /\ buffered'[h] = << >> /\ running'[h]
  BY <1>1, <1>3 DEF Types
<1>6. Types'
  <2>1. << >> \in Log
    BY EmptySeq DEF Log
  <2>2. /\ running' \in [Handles -> BOOLEAN] /\ batch' \in [Handles -> Log]
        /\ buffered' \in [Handles -> Log]
    BY <1>1, <1>3, <2>1 DEF Types
  <2>3. claim' = claim /\ paused' = paused /\ proc' = proc /\ faults' = faults
    BY DEF StartDrain, history
  <2> QED BY <1>2, <1>3, <2>2, <2>3 DEF Types
<1>7. Quiet(h) /\ Kept'
  BY <1>1, <1>2, <1>3, PromisesKept DEF Quiet, Own, Types, artifact
<1>8. RunOK(h)' /\ ChainOK(h)'
  BY <1>1, <1>2, <1>3, <1>4, <1>5 DEF RunOK, ChainOK
<1>9. BufferOK(h)'
  <2>1. /\ Len(<< >>) = 0 /\ Len(batch[h]) = 0
        /\ cursor[h] \in Nat /\ Len(buffered[h]) \in Nat /\ Len(log[h]) \in Nat /\ log[h] \in Seq(Event)
    BY <1>4, EmptySeq, Shapes
  <2>2. cursor[h] + Len(buffered[h]) = Len(log[h]) /\ At(log[h], cursor[h], buffered[h])
    BY <1>3, <2>1 DEF BufferOK
  <2>3. At(log[h], cursor[h] + Len(buffered[h]), << >>)
    BY <2>1, <2>2, AtNone
  <2> QED BY <1>2, <1>3, <1>5, <2>1, <2>2, <2>3 DEF BufferOK
<1>10. StateOK(h)' /\ OwnerOK(h)'
  BY <1>2, <1>3 DEF StateOK, OwnerOK, ArtifactOf, Exact
<1>11. CloseOK(h)'
  BY <1>1, <1>2, <1>3 DEF CloseOK, CloserFirst, Stored, Exact
<1> QED BY <1>2, <1>3, <1>6, <1>7, <1>8, <1>9, <1>10, <1>11, QuietKeeps DEF HandleOK

LEMMA StartFlushLog == ASSUME LogInv, Inv', NEW h \in Handles, StartFlush(h) PROVE LogInv'
<1>1. /\ Alive(h) /\ chain[h] # << >> /\ Head(chain[h]) = "flush" /\ ~running[h]
      /\ stage' = stage /\ log' = log /\ batch' = batch /\ buffered' = buffered /\ failed' = failed
      /\ opened' = opened /\ left' = left /\ target' = target /\ disk' = disk /\ stray' = stray
      /\ timer' = timer /\ paused' = paused
  BY DEF StartFlush, Runnable, artifact, buffer
<1>2. /\ Types /\ stage[h] \notin {"unused", "claimed", "locked"}
      /\ ChainOK(h) /\ BufferOK(h) /\ StateOK(h) /\ CloseOK(h) /\ RunOK(h)
      /\ batch[h] = << >> /\ Queued(chain[h], "flush") /\ flusher[h] = "flush"
  BY <1>1, HeadOfChain, Opened DEF LogInv, ChainOK, RunOK
<1>3. /\ target'[h] <= Len(log[h]) /\ left'[h] <= Len(log[h])
      /\ target'[h] <= cursor[h]
  BY <1>1, <1>2 DEF StateOK
<1>4. CASE stage[h] = "open" /\ ~materialized[h]
  <2>1. /\ running' = [running EXCEPT ![h] = TRUE] /\ chain' = chain /\ flusher' = flusher
        /\ wait' = wait /\ promised' = promised
    BY <1>4 DEF StartFlush
  <2>2. Control(h)
    BY <1>1, <1>2, <2>1 DEF Control, Types, StartFlush, buffer
  <2>3. RunOK(h)' /\ ChainOK(h)' /\ CloseOK(h)'
    BY <1>1, <1>2, <1>4, <2>1 DEF RunOK, ChainOK, CloseOK, Types
  <2> QED BY <1>1, <1>2, <1>3, <2>1, <2>2, <2>3, ControlKeeps
<1>5. CASE ~(stage[h] = "open" /\ ~materialized[h])
  <2>1. /\ chain' = [chain EXCEPT ![h] = Tail(chain[h])] /\ running' = [running EXCEPT ![h] = FALSE]
        /\ wait' = [wait EXCEPT ![h] = OneFewer(h)] /\ flusher' = [flusher EXCEPT ![h] = "idle"]
        /\ promised' = IF stage[h] = "open" THEN Promise(h) ELSE promised
    BY <1>5 DEF StartFlush, Pop
  <2>2. /\ Tail(chain[h]) \in Seq({"drain", "flush"}) /\ Distinct(Tail(chain[h]))
        /\ \A op : Queued(Tail(chain[h]), op) <=> Queued(chain[h], op) /\ op # "flush"
    BY <1>1, HeadOfChain
  <2>3. OneFewer(h) \in Nat
    BY <1>2 DEF OneFewer, Types
  <2>4. /\ chain'[h] = Tail(chain[h]) /\ ~running'[h] /\ flusher'[h] = "idle"
    BY <1>2, <2>1 DEF Types
  <2>5. ASSUME NEW i \in opened[h] + 1 .. target[h]
        PROVE  i \in 1 .. Len(log[h]) /\ log[h][i] \in Event /\ log[h][i].seq = i
    <3>1. i \in 1 .. Len(log[h])
      BY <1>2, Shapes DEF StateOK
    <3>2. log[h][i] \in Event
      BY <3>1, Shapes, ElementOfSeq
    <3>3. DOMAIN log[h] = 1 .. Len(log[h])
      BY Shapes, LenProperties
    <3> QED BY <1>2, <3>1, <3>2, <3>3 DEF BufferOK, Contiguous
  <2>6. promised' \subseteq Event
    BY <1>2, <2>1, <2>5 DEF Types, Promise
  <2>7. Kept'
    <3>1. CASE stage[h] # "open"
      BY <1>1, <2>1, <3>1, PromisesKept
    <3>2. CASE stage[h] = "open"
      <4>1. materialized[h] /\ leased[h] /\ lock = h
        BY <1>2, <1>5, <3>2 DEF StateOK, LogInv, Inv, LockHeld, Holding
      <4>2. ASSUME Exact, NEW i \in opened[h] + 1 .. target[h]
            PROVE  i \in DOMAIN disk /\ disk[i] = log[h][i]
        <5>1. i \in Nat /\ i <= cursor[h] /\ opened[h] < i /\ i > 0
          BY <1>2, <2>5, Shapes DEF StateOK
        <5>2. Stored(log[h], i)
          BY <1>1, <4>1, <4>2, <5>1, OwnerStored
        <5>3. DOMAIN disk = 1 .. Len(disk) /\ Len(disk) \in Nat
          BY Shapes, LenProperties
        <5> QED BY <5>1, <5>2, <5>3 DEF Stored
      <4>3. \A e \in promised' : e \in promised \/ \E i \in opened[h] + 1 .. target[h] : e = log[h][i]
        BY <2>1, <3>2 DEF Promise
      <4>4. Exact' => Exact
        BY <1>1 DEF Exact
      <4>5. ASSUME Exact', NEW e \in promised' PROVE e.seq \in DOMAIN disk /\ disk[e.seq] = e
        <5>1. CASE e \in promised
          BY <4>4, <4>5, <5>1 DEF LogInv, Kept
        <5>2. CASE \E i \in opened[h] + 1 .. target[h] : e = log[h][i]
          BY <2>5, <4>2, <4>4, <4>5, <5>2
        <5> QED BY <4>3, <5>1, <5>2
      <4> QED BY <1>1, <4>5 DEF Kept
    <3> QED BY <3>1, <3>2
  <2>8. Control(h)
    BY <1>1, <1>2, <2>1, <2>2, <2>3, <2>6 DEF Control, Types, StartFlush, buffer
  <2>9. RunOK(h)' /\ ChainOK(h)' /\ CloseOK(h)'
    BY <1>1, <1>2, <2>2, <2>4 DEF RunOK, ChainOK, CloseOK, Stored, Exact
  <2>10. flusher'[h] \notin {"barrier", "flush"}
    BY <2>4
  <2> QED BY <1>1, <1>2, <1>3, <2>7, <2>8, <2>9, <2>10, ControlKeeps
<1> QED BY <1>4, <1>5

LEMMA PublishLog == ASSUME LogInv, Inv', NEW h \in Handles, Publish(h) PROVE LogInv'
<1> DEFINE e == [seq |-> Len(log[h]) + 1, by |-> h]
           l == Append(log[h], e)
           b == Append(buffered[h], e)
<1>1. /\ Alive(h) /\ stage[h] \notin {"unused", "claimed", "locked"}
      /\ log' = [log EXCEPT ![h] = l] /\ buffered' = [buffered EXCEPT ![h] = b]
      /\ timer' = [timer EXCEPT ![h] = @ \/ Arms(h)]
  BY DEF Publish, Live, Alive, Closing
<1>2. /\ stage' = stage /\ batch' = batch /\ chain' = chain /\ running' = running
      /\ leased' = leased /\ cursor' = cursor
      /\ materialized' = materialized /\ tornTo' = tornTo /\ recovered' = recovered
      /\ flusher' = flusher /\ wait' = wait /\ failed' = failed /\ opened' = opened /\ left' = left
      /\ target' = target /\ lock' = lock /\ promised' = promised /\ paused' = paused
      /\ claim' = claim /\ proc' = proc /\ faults' = faults
      /\ disk' = disk /\ tail' = tail /\ torn' = torn /\ exists' = exists /\ buried' = buried
      /\ stray' = stray
  BY DEF Publish, artifact, state, history, queue
<1>3. /\ Types /\ opened[h] <= Len(log[h])
      /\ ChainOK(h) /\ BufferOK(h) /\ StateOK(h) /\ OwnerOK(h) /\ CloseOK(h) /\ RunOK(h)
  BY <1>1, Opened DEF LogInv, HandleOK
<1>4. /\ log[h] \in Seq(Event) /\ buffered[h] \in Seq(Event) /\ batch[h] \in Seq(Event)
      /\ disk \in Seq(Event) /\ recovered[h] \in Seq(Event)
      /\ Len(log[h]) \in Nat /\ Len(buffered[h]) \in Nat /\ Len(batch[h]) \in Nat
      /\ Len(disk) \in Nat /\ cursor[h] \in Nat /\ opened[h] \in Nat /\ left[h] \in Nat
      /\ target[h] \in Nat
  BY Shapes
<1>5. e \in Event /\ e.seq = Len(log[h]) + 1
  BY <1>4, WriterAssumption DEF Publish, Event
<1> HIDE DEF e
<1>6. /\ l \in Seq(Event) /\ b \in Seq(Event) /\ b # << >>
      /\ Len(l) = Len(log[h]) + 1 /\ Len(b) = Len(buffered[h]) + 1
      /\ \A i \in 1 .. Len(log[h]) : l[i] = log[h][i]
      /\ Contiguous(l)
  <2>1. l \in Seq(Event) /\ Len(l) = Len(log[h]) + 1 /\ \A i \in 1 .. Len(log[h]) : l[i] = log[h][i]
    BY <1>4, <1>5, AppendProperties
  <2>2. b \in Seq(Event) /\ Len(b) = Len(buffered[h]) + 1
    BY <1>4, <1>5, AppendProperties
  <2>3. Contiguous(log[h])
    BY <1>3 DEF BufferOK
  <2>4. Contiguous(l)
    BY <1>4, <1>5, <2>3, ContiguousAppend
  <2> HIDE DEF l, b
  <2> QED BY <1>4, <2>1, <2>2, <2>4, EmptySeq
<1>7. ASSUME NEW n \in Nat, NEW s \in Seq(Event), At(log[h], n, s) PROVE At(l, n, s)
  BY <1>4, <1>5, <1>7, AtAppend
<1>8. At(l, cursor[h] + Len(batch[h]), b)
  <2>1. /\ cursor[h] + Len(batch[h]) \in Nat
        /\ cursor[h] + Len(batch[h]) + Len(buffered[h]) = Len(log[h])
        /\ At(log[h], cursor[h] + Len(batch[h]), buffered[h])
    BY <1>3, <1>4 DEF BufferOK
  <2> QED BY <1>4, <1>5, <2>1, AtAppend
<1> HIDE DEF l, b
<1>9. log'[h] = l /\ buffered'[h] = b
  BY <1>1, <1>3 DEF Types
<1>10. Types'
  <2>1. l \in Log /\ b \in Log
    BY <1>6 DEF Log
  <2> DEFINE t == timer[h] \/ Arms(h)
  <2>2. t \in BOOLEAN /\ timer' = [timer EXCEPT ![h] = t]
    BY <1>1, Zenon
  <2> HIDE DEF t
  <2>3. timer' \in [Handles -> BOOLEAN]
    BY <1>3, <2>2 DEF Types
  <2> QED BY <1>1, <1>2, <1>3, <2>1, <2>3 DEF Types
<1>11. Quiet(h) /\ Kept'
  <2>1. ASSUME NEW g \in Handles \ {h} PROVE Own(g)' = Own(g)
    BY <1>1, <1>2, <1>3 DEF Own, Types
  <2> QED BY <1>2, <2>1, PromisesKept DEF Quiet, artifact
<1>12. RunOK(h)' /\ ChainOK(h)'
  BY <1>2, <1>3, <1>6, <1>9 DEF RunOK, ChainOK
<1>13. BufferOK(h)'
  <2>1. At(l, cursor[h], batch[h])
    BY <1>3, <1>4, <1>7 DEF BufferOK
  <2>2. cursor[h] + Len(batch[h]) + Len(buffered[h]) = Len(log[h])
    BY <1>3 DEF BufferOK
  <2>3. cursor[h] + Len(batch[h]) + Len(b) = Len(l)
    <3> DEFINE c == cursor[h]
               x == Len(batch[h])
               y == Len(buffered[h])
               z == Len(log[h])
    <3>1. c \in Nat /\ x \in Nat /\ y \in Nat /\ z \in Nat /\ c + x + y = z
      BY <1>4, <2>2
    <3>2. Len(l) = z + 1 /\ Len(b) = y + 1
      BY <1>6
    <3> HIDE DEF c, x, y, z
    <3>3. c + x + Len(b) = Len(l)
      BY <3>1, <3>2
    <3> QED BY <3>3 DEF c, x
  <2> QED BY <1>2, <1>6, <1>8, <1>9, <2>1, <2>3 DEF BufferOK
<1>14. StateOK(h)'
  <2>1. /\ StateOK(h) /\ Len(log[h]) \in Nat /\ left[h] \in Nat /\ target[h] \in Nat
        /\ Len(log'[h]) = Len(log[h]) + 1
    BY <1>3, <1>4, <1>6, <1>9
  <2>2. target[h] <= Len(log'[h]) /\ left[h] <= Len(log'[h])
    BY <2>1 DEF StateOK
  <2> QED BY <1>2, <2>1, <2>2 DEF StateOK
<1>15. OwnerOK(h)'
  <2> SUFFICES ASSUME ArtifactOf(h) PROVE ArtifactOf(h)'
    BY <1>2, <1>3 DEF OwnerOK, Exact
  <2>1. At(l, 0, disk) /\ At(l, Len(disk), recovered[h])
    BY <1>4, <1>7 DEF ArtifactOf
  <2> QED BY <1>2, <1>9, <2>1 DEF ArtifactOf
<1>16. CloseOK(h)'
  <2>1. ASSUME Stored(log[h], left[h]) PROVE Stored(l, left[h])
    <3>1. \A i \in 1 .. left[h] : i \in 1 .. Len(log[h])
      BY <1>3, <1>4 DEF StateOK
    <3> QED BY <1>6, <2>1, <3>1 DEF Stored
  <2>2. Stored(l, left[h]) => Stored(log[h], left[h])'
    BY <1>2, <1>9 DEF Stored
  <2>3. Exact' => Exact
    BY <1>2 DEF Exact
  <2> QED BY <1>2, <1>3, <2>1, <2>2, <2>3 DEF CloseOK
<1>17. opened'[h] <= Len(log'[h])
  BY <1>2, <1>3, <1>4, <1>6, <1>9
<1> QED
  BY <1>1, <1>2, <1>10, <1>11, <1>12, <1>13, <1>14, <1>15, <1>16, <1>17, QuietKeeps DEF HandleOK

-----------------------------------------------------------------------------
(* Writing the file.                                                       *)

\* Whoever writes without straying holds the lock: its log continues the file.
LEMMA MayAppend ==
    ASSUME LogInv, NEW h \in Handles, Alive(h), Exact, lock = h, ~tornTo[h],
           materialized[h] \/ ~exists
    PROVE  /\ tail = << >> /\ ~torn /\ At(log[h], 0, disk) /\ At(log[h], Len(disk), Data(h))
           /\ Len(disk) + Len(recovered[h]) = cursor[h]
<1>1. BufferOK(h) /\ StateOK(h) /\ OwnerOK(h) /\ FileOK
  BY Opened DEF LogInv
<1>2. CASE materialized[h]
  <2>1. ArtifactOf(h)
    BY <1>1, <1>2 DEF OwnerOK
  <2>2. CASE recovered[h] = << >>
    <3>1. Len(disk) = cursor[h]
      BY <2>1, <2>2, EmptySeq, Shapes DEF ArtifactOf
    <3> QED BY <1>1, <2>1, <2>2, <3>1 DEF ArtifactOf, BufferOK, Data
  <2>3. CASE recovered[h] # << >>
    BY <2>1, <2>3 DEF ArtifactOf, Data
  <2> QED BY <2>2, <2>3
<1>3. CASE ~materialized[h]
  <2>1. disk = << >> /\ tail = << >> /\ ~torn /\ cursor[h] = 0 /\ recovered[h] = << >>
    BY <1>1, <1>3 DEF FileOK, StateOK
  <2>2. At(log[h], 0, << >>) /\ Len(<< >>) = 0
    BY Shapes, AtNone, EmptySeq
  <2> QED BY <1>1, <2>1, <2>2 DEF BufferOK, Data
<1> QED BY <1>2, <1>3

\* The file grows by s at its end, or s is buried there.
Lands(h, s) == AppendFrame(s) /\ exists' /\ stray' = (stray \/ lock # h)

LEMMA LandsKeep ==
    ASSUME LogInv, NEW h \in Handles, Alive(h), ~tornTo[h], materialized[h] \/ ~exists,
           Lands(h, Data(h)), promised' = promised
    PROVE  /\ FileOK' /\ Kept'
           /\ disk' \in Seq(Event) /\ tail' \in Seq(Event) /\ torn' = torn /\ buried' \subseteq Event
           /\ Len(disk) <= Len(disk') /\ \A i \in 1 .. Len(disk) : disk'[i] = disk[i]
           /\ Exact' => /\ lock = h /\ Exact /\ disk' = disk \o Data(h) /\ tail' = << >> /\ ~torn'
                        /\ Len(disk') = Len(disk) + Len(Data(h)) /\ At(log[h], 0, disk')
                        /\ Len(disk) + Len(recovered[h]) = cursor[h]
<1> DEFINE d == Data(h)
<1>1. /\ d \in Seq(Event) /\ disk \in Seq(Event) /\ tail \in Seq(Event)
      /\ Len(d) \in Nat /\ Len(disk) \in Nat /\ Len(tail) \in Nat
      /\ buried \subseteq Event /\ torn \in BOOLEAN
  BY Shapes, LenProperties DEF Data, LogInv, Types
<1>2. /\ disk \o d \in Seq(Event) /\ Len(disk \o d) = Len(disk) + Len(d)
      /\ \A i \in 1 .. Len(disk) + Len(d) :
            (disk \o d)[i] = IF i <= Len(disk) THEN disk[i] ELSE d[i - Len(disk)]
  BY <1>1, ConcatProperties
<1> HIDE DEF d
<1>3. AppendFrame(d) /\ exists' /\ (Exact' => Exact /\ lock = h)
  BY DEF Lands, d, Exact
<1>4. ASSUME Exact PROVE lock = h => ~torn
  BY <1>4, MayAppend
<1>5. CASE Buries(d)
  <2>1. ~Exact' /\ torn' = torn /\ torn /\ disk' = disk /\ buried' = buried \cup Range(d)
    BY <1>3, <1>4, <1>5 DEF Buries
  <2>2. PICK k \in 0 .. Len(tail) : tail' = SubSeq(tail, 1, k)
    BY <1>5 DEF Buries
  <2>3. tail' \in Seq(Event)
    BY <1>1, <2>2, SubSeqProperties
  <2>4. Range(d) \subseteq Event
    BY <1>1, ElementOfSeq, LenProperties DEF Range
  <2>5. FileOK' /\ Kept'
    BY <1>3, <2>1 DEF FileOK, Kept
  <2> QED BY <1>1, <2>1, <2>3, <2>4, <2>5
<1>6. CASE ~torn /\ disk' = disk \o d /\ UNCHANGED <<tail, torn, buried>>
  <2>1. ASSUME Exact' PROVE /\ tail' = << >> /\ ~torn' /\ At(log[h], 0, disk') /\ buried' = {}
                            /\ Len(disk) + Len(recovered[h]) = cursor[h]
    <3>1. /\ tail = << >> /\ At(log[h], 0, disk) /\ At(log[h], Len(disk), d)
          /\ Len(disk) + Len(recovered[h]) = cursor[h] /\ buried = {}
      BY <1>3, <2>1, MayAppend DEF d, LogInv, FileOK
    <3>2. At(log[h], 0, disk \o d)
      <4>1. At(log[h], 0 + Len(disk), d) /\ 0 \in Nat /\ log[h] \in Seq(Event)
        BY <1>1, <3>1, Shapes
      <4> QED BY <1>1, <3>1, <4>1, AtConcat
    <3> QED BY <1>6, <3>1, <3>2
  <2>2. /\ disk' \in Seq(Event) /\ Len(disk') = Len(disk) + Len(d) /\ Len(disk) <= Len(disk')
        /\ \A i \in 1 .. Len(disk) : i \in 1 .. Len(disk') /\ disk'[i] = disk[i]
    BY <1>1, <1>2, <1>6
  <2>3. FileOK'
    <3>1. tail' # << >> => torn'
      BY <1>6 DEF LogInv, FileOK
    <3>2. ASSUME Exact' PROVE Contiguous(disk' \o tail') /\ buried' = {}
      <4>1. /\ tail' = << >> /\ At(log[h], 0, disk') /\ Contiguous(log[h])
            /\ log[h] \in Seq(Event) /\ buried' = {}
        BY <2>1, <3>2, Opened, Shapes DEF BufferOK
      <4>2. Contiguous(disk')
        BY <2>2, <4>1, AtContiguous
      <4>3. disk' \o << >> = disk'
        BY <2>2, EmptyConcat
      <4> QED BY <4>1, <4>2, <4>3
    <3> QED BY <1>3, <3>1, <3>2 DEF FileOK
  <2>4. Kept'
    <3>1. DOMAIN disk = 1 .. Len(disk) /\ DOMAIN disk' = 1 .. Len(disk')
      BY <1>1, <2>2, LenProperties
    <3> QED BY <1>3, <2>2, <3>1 DEF LogInv, Kept
  <2> QED BY <1>1, <1>3, <1>6, <2>1, <2>2, <2>3, <2>4 DEF d
<1> QED BY <1>3, <1>5, <1>6 DEF AppendFrame

\* A drain that writes.
LEMMA PersistingFacts ==
    ASSUME LogInv, NEW h \in Handles, Persisting(h)
    PROVE  /\ Alive(h) /\ running[h] /\ leased[h] /\ chain[h] # << >> /\ Head(chain[h]) = "drain"
           /\ batch[h] # << >> /\ stage[h] \notin {"unused", "claimed", "locked"}
           /\ RunOK(h) /\ ChainOK(h) /\ BufferOK(h) /\ StateOK(h) /\ OwnerOK(h) /\ CloseOK(h)
           /\ Types /\ opened[h] <= Len(log[h])
<1>1. /\ Alive(h) /\ running[h] /\ leased[h] /\ Head(chain[h]) = "drain"
  BY DEF Persisting
<1>2. /\ RunOK(h) /\ ChainOK(h) /\ BufferOK(h) /\ StateOK(h) /\ OwnerOK(h) /\ CloseOK(h)
      /\ Types /\ opened[h] <= Len(log[h])
  BY <1>1, Opened DEF LogInv, HandleOK
<1>3. chain[h] # << >> /\ batch[h] # << >>
  BY <1>1, <1>2 DEF RunOK
<1> QED BY <1>1, <1>2, <1>3, HeadOfChain

\* What is in the file stays at its place.
LEMMA StoredStays ==
    ASSUME LogInv, NEW h \in Handles, log'[h] = log[h], disk' \in Seq(Event),
           Len(disk) <= Len(disk'), \A i \in 1 .. Len(disk) : disk'[i] = disk[i],
           NEW n \in Nat, Stored(log[h], n)
    PROVE  Stored(log[h], n)'
<1>1. Len(disk) \in Nat /\ Len(disk') \in Nat
  BY Shapes, LenProperties
<1>2. n <= Len(disk') /\ \A i \in 1 .. n : i \in 1 .. Len(disk)
  BY <1>1 DEF Stored
<1>3. \A i \in 1 .. n : disk'[i] = log[h][i]
  BY <1>2 DEF Stored
<1> QED BY <1>2, <1>3 DEF Stored

\* The file without the part of a frame that a handle found at its end.
LEMMA TruncationKeeps ==
    ASSUME LogInv, NEW h \in Handles, Persisting(h), tornTo[h], Strays(h), tail' = << >>,
           torn' = FALSE, UNCHANGED <<disk, exists, buried, promised>>
    PROVE  FileOK' /\ Kept' /\ (Exact' => Exact /\ lock = h /\ ArtifactOf(h))
<1>1. StateOK(h) /\ OwnerOK(h) /\ BufferOK(h) /\ FileOK
  BY PersistingFacts DEF LogInv
<1>2. Exact' => Exact /\ lock = h
  BY DEF Strays, Exact
<1>3. ASSUME Exact' PROVE ArtifactOf(h) /\ Contiguous(disk) /\ buried = {}
  <2>1. /\ ArtifactOf(h) /\ At(log[h], 0, disk) /\ Contiguous(log[h]) /\ buried = {}
    BY <1>1, <1>2, <1>3 DEF StateOK, OwnerOK, ArtifactOf, BufferOK, FileOK
  <2> QED BY <2>1, Shapes, AtContiguous
<1>4. FileOK'
  <2>1. disk \o << >> = disk
    BY Shapes, EmptyConcat
  <2> QED BY <1>1, <1>3, <2>1 DEF FileOK
<1>5. Kept'
  BY <1>2 DEF Kept, LogInv
<1> QED BY <1>2, <1>3, <1>4, <1>5

LEMMA TruncateTornTailLog ==
    ASSUME LogInv, Inv', NEW h \in Handles, TruncateTornTail(h) PROVE LogInv'
<1>1. /\ Alive(h) /\ stage[h] \notin {"unused", "claimed", "locked"} /\ Types
      /\ RunOK(h) /\ ChainOK(h) /\ BufferOK(h) /\ StateOK(h) /\ OwnerOK(h) /\ CloseOK(h)
      /\ opened[h] <= Len(log[h])
  BY PersistingFacts DEF TruncateTornTail
<1>2. /\ tornTo[h] /\ tail' = << >> /\ torn' = FALSE /\ tornTo' = [tornTo EXCEPT ![h] = FALSE]
      /\ stray' = (stray \/ lock # h) /\ disk' = disk /\ exists' = exists /\ lock' = lock
      /\ promised' = promised /\ buried' = buried
      /\ stage' = stage /\ log' = log /\ buffered' = buffered /\ chain' = chain /\ running' = running
      /\ batch' = batch /\ leased' = leased /\ cursor' = cursor /\ materialized' = materialized
      /\ recovered' = recovered /\ flusher' = flusher /\ wait' = wait /\ failed' = failed
      /\ opened' = opened /\ left' = left /\ target' = target /\ timer' = timer
  BY DEF TruncateTornTail, Strays, buffer, queue, history
<1>3. tornTo'[h] = FALSE /\ materialized[h]
  BY <1>1, <1>2 DEF Types, StateOK
<1>4. Types'
  <2>1. << >> \in Log
    BY EmptySeq DEF Log
  <2> QED BY <1>1, <1>2, <2>1 DEF Types, TruncateTornTail, buffer, queue, history
<1>5. Frame(h)
  <2>1. ASSUME NEW g \in Handles \ {h} PROVE Own(g)' = Own(g)
    BY <1>1, <1>2 DEF Own, Types
  <2>2. (stray => stray') /\ (stray' \/ lock = h)
    BY <1>2
  <2>3. Len(disk) \in Nat
    BY Shapes
  <2>4. Len(disk) <= Len(disk') /\ \A i \in 1 .. Len(disk) : disk'[i] = disk[i]
    BY <1>2, <2>3
  <2> QED BY <1>2, <2>1, <2>2, <2>4 DEF Frame
<1>6. FileOK' /\ Kept' /\ (Exact' => Exact /\ lock = h /\ ArtifactOf(h))
  BY <1>2, TruncationKeeps DEF TruncateTornTail
<1>10. RunOK(h)' /\ ChainOK(h)' /\ BufferOK(h)' /\ StateOK(h)'
  BY <1>1, <1>2, <1>3 DEF RunOK, ChainOK, BufferOK, StateOK
<1>11. OwnerOK(h)'
  BY <1>2, <1>3, <1>6 DEF OwnerOK, ArtifactOf
<1>12. CloseOK(h)'
  BY <1>1, <1>2, <1>6 DEF CloseOK, Stored
<1> QED BY <1>1, <1>2, <1>4, <1>5, <1>6, <1>10, <1>11, <1>12, FrameKeeps DEF HandleOK

LEMMA RewriteRecoveredLog ==
    ASSUME LogInv, Inv', NEW h \in Handles, RewriteRecovered(h) PROVE LogInv'
<1>1. /\ Alive(h) /\ stage[h] \notin {"unused", "claimed", "locked"} /\ Types
      /\ RunOK(h) /\ ChainOK(h) /\ BufferOK(h) /\ StateOK(h) /\ OwnerOK(h) /\ CloseOK(h)
      /\ opened[h] <= Len(log[h])
  BY PersistingFacts DEF RewriteRecovered
<1>2. /\ ~tornTo[h] /\ recovered[h] # << >> /\ AppendFrame(recovered[h])
      /\ recovered' = [recovered EXCEPT ![h] = << >>]
      /\ stray' = (stray \/ lock # h) /\ exists' = exists /\ lock' = lock
      /\ promised' = promised
      /\ stage' = stage /\ log' = log /\ buffered' = buffered /\ chain' = chain /\ running' = running
      /\ batch' = batch /\ leased' = leased /\ cursor' = cursor /\ materialized' = materialized
      /\ tornTo' = tornTo /\ flusher' = flusher /\ wait' = wait /\ failed' = failed
      /\ opened' = opened /\ left' = left /\ target' = target /\ timer' = timer
  BY DEF RewriteRecovered, Strays, buffer, queue, history
<1>3. recovered'[h] = << >> /\ materialized[h] /\ exists /\ Lands(h, Data(h)) /\ Data(h) = recovered[h]
  BY <1>1, <1>2 DEF Types, StateOK, Lands, Data
<1>4. /\ FileOK' /\ Kept'
      /\ disk' \in Seq(Event) /\ tail' \in Seq(Event) /\ torn' = torn /\ buried' \subseteq Event
      /\ Len(disk) <= Len(disk') /\ \A i \in 1 .. Len(disk) : disk'[i] = disk[i]
      /\ Exact' => /\ lock = h /\ Exact /\ tail' = << >> /\ ~torn' /\ At(log[h], 0, disk')
                   /\ Len(disk') = Len(disk) + Len(recovered[h])
                   /\ Len(disk) + Len(recovered[h]) = cursor[h]
  BY <1>1, <1>2, <1>3, LandsKeep
<1>5. Types'
  <2>1. << >> \in Log /\ disk' \in Log /\ tail' \in Log
    BY <1>4, EmptySeq DEF Log
  <2>2. recovered' \in [Handles -> Log] /\ stray' \in BOOLEAN
    BY <1>1, <1>2, <2>1 DEF Types
  <2> QED BY <1>1, <1>2, <1>4, <2>1, <2>2 DEF Types, RewriteRecovered, buffer, queue, history
<1>6. Frame(h)
  <2>1. ASSUME NEW g \in Handles \ {h} PROVE Own(g)' = Own(g)
    BY <1>1, <1>2 DEF Own, Types
  <2>2. (exists => exists') /\ (stray => stray') /\ (stray' \/ lock = h)
    BY <1>2
  <2> QED BY <1>2, <1>4, <2>1, <2>2 DEF Frame
<1>7. RunOK(h)' /\ ChainOK(h)' /\ BufferOK(h)'
  BY <1>1, <1>2 DEF RunOK, ChainOK, BufferOK
<1>8. StateOK(h)'
  BY <1>1, <1>2, <1>3 DEF StateOK
<1>9. OwnerOK(h)'
  <2> SUFFICES ASSUME Exact' PROVE ArtifactOf(h)'
    BY DEF OwnerOK
  <2>1. Len(disk') = cursor[h] /\ Len(<< >>) = 0 /\ Len(disk') \in Nat /\ log[h] \in Seq(Event)
    BY <1>4, EmptySeq, Shapes
  <2>2. At(log[h], Len(disk'), << >>)
    <3>1. /\ cursor[h] + Len(batch[h]) + Len(buffered[h]) = Len(log[h])
          /\ cursor[h] \in Nat /\ Len(batch[h]) \in Nat /\ Len(buffered[h]) \in Nat
      BY <1>1, Shapes DEF BufferOK
    <3>2. cursor[h] <= Len(log[h])
      BY <3>1
    <3> QED BY <2>1, <3>2, AtNone
  <2>3. Len(disk') + Len(recovered'[h]) = cursor'[h]
    BY <1>2, <1>3, <2>1, Shapes
  <2> QED BY <1>2, <1>3, <1>4, <2>2, <2>3 DEF ArtifactOf
<1>10. CloseOK(h)'
  <2>1. ASSUME NEW n \in Nat, Stored(log[h], n) PROVE Stored(log[h], n)'
    <3>1. log'[h] = log[h]
      BY <1>2
    <3> QED BY <1>4, <2>1, <3>1, StoredStays
  <2> QED BY <1>1, <1>2, <1>4, <2>1, Shapes DEF CloseOK
<1> QED BY <1>1, <1>2, <1>4, <1>5, <1>6, <1>7, <1>8, <1>9, <1>10, FrameKeeps DEF HandleOK

\* A drain that has written its batch.
LEMMA WriteBatchLog == ASSUME LogInv, Inv', NEW h \in Handles, WriteBatch(h) PROVE LogInv'
<1> DEFINE rest == IF Ends(h) THEN Tail(chain[h]) ELSE Append(Tail(chain[h]), "drain")
           next == cursor[h] + Len(batch[h])
<1>1. /\ Alive(h) /\ stage[h] \notin {"unused", "claimed", "locked"} /\ Types /\ leased[h]
      /\ chain[h] # << >> /\ Head(chain[h]) = "drain" /\ batch[h] # << >>
      /\ RunOK(h) /\ ChainOK(h) /\ BufferOK(h) /\ StateOK(h) /\ OwnerOK(h) /\ CloseOK(h)
      /\ opened[h] <= Len(log[h])
  BY PersistingFacts DEF WriteBatch, Writes
<1>2. /\ ~tornTo[h] /\ recovered[h] = << >> /\ (materialized[h] \/ ~exists)
      /\ AppendFrame(batch[h]) /\ exists' = TRUE /\ stray' = (stray \/ lock # h)
      /\ lock' = lock /\ promised' = promised
      /\ log' = log /\ buffered' = buffered /\ leased' = leased /\ tornTo' = tornTo
      /\ recovered' = recovered /\ failed' = failed /\ opened' = opened /\ left' = left
      /\ target' = target /\ timer' = timer /\ paused' = paused /\ claim' = claim /\ proc' = proc
      /\ faults' = faults
  BY DEF WriteBatch, Writes, Strays, buffer, history
<1>3. /\ batch' = [batch EXCEPT ![h] = << >>] /\ cursor' = [cursor EXCEPT ![h] = next]
      /\ materialized' = [materialized EXCEPT ![h] = TRUE]
      /\ chain' = [chain EXCEPT ![h] = rest] /\ running' = [running EXCEPT ![h] = FALSE]
  BY <1>1 DEF WriteBatch, Pop, Types
<1>4. /\ wait' = [wait EXCEPT ![h] = IF stage[h] = "drain" THEN Len(chain'[h]) ELSE OneFewer(h)]
      /\ flusher' = [flusher EXCEPT ![h] = IF Ends(h) /\ @ = "drain" THEN "barrier" ELSE @]
      /\ stage' = [stage EXCEPT ![h] = IF Ends(h) /\ @ = "drain" THEN "chain" ELSE @]
  <2>1. CASE Ends(h)
    BY <2>1 DEF WriteBatch
  <2>2. CASE ~Ends(h)
    BY <1>1, <2>2 DEF WriteBatch, Types
  <2> QED BY <2>1, <2>2
<1>5. Data(h) = batch[h] /\ Lands(h, Data(h))
  BY <1>2 DEF Data, Lands
<1>6. /\ FileOK' /\ Kept'
      /\ disk' \in Seq(Event) /\ tail' \in Seq(Event) /\ torn' = torn /\ buried' \subseteq Event
      /\ Len(disk) <= Len(disk') /\ \A i \in 1 .. Len(disk) : disk'[i] = disk[i]
      /\ Exact' => /\ lock = h /\ Exact /\ tail' = << >> /\ ~torn' /\ At(log[h], 0, disk')
                   /\ Len(disk') = Len(disk) + Len(batch[h])
                   /\ Len(disk) + Len(recovered[h]) = cursor[h]
  BY <1>1, <1>2, <1>5, LandsKeep
<1>7. /\ rest \in Seq({"drain", "flush"}) /\ Distinct(rest)
      /\ Queued(rest, "drain") => buffered[h] # << >>
      /\ Queued(rest, "flush") => Queued(chain[h], "flush")
  <2> DEFINE t == Tail(chain[h])
  <2>1. /\ t \in Seq({"drain", "flush"}) /\ Distinct(t) /\ ~Queued(t, "drain")
        /\ Queued(t, "flush") => Queued(chain[h], "flush")
    BY <1>1, HeadOfChain
  <2> HIDE DEF t
  <2>2. /\ Append(t, "drain") \in Seq({"drain", "flush"}) /\ Distinct(Append(t, "drain"))
        /\ Queued(Append(t, "drain"), "flush") => Queued(t, "flush")
    BY <2>1, QueuedAppend, AppendProperties
  <2>3. CASE Ends(h)
    BY <2>1, <2>3 DEF t
  <2>4. CASE ~Ends(h)
    <3>1. rest = Append(t, "drain") /\ buffered[h] # << >>
      BY <2>4 DEF t, Ends
    <3> QED BY <2>1, <2>2, <3>1
  <2> QED BY <2>3, <2>4
<1>8. /\ next \in Nat /\ next + Len(buffered[h]) = Len(log[h]) /\ cursor[h] <= next
      /\ Ends(h) => next = Len(log[h])
  <2> DEFINE c == cursor[h]
             x == Len(batch[h])
             y == Len(buffered[h])
             z == Len(log[h])
  <2>1. /\ c \in Nat /\ x \in Nat /\ y \in Nat /\ z \in Nat /\ c + x + y = z
        /\ Ends(h) => y = 0
    BY <1>1, Shapes, EmptySeq DEF BufferOK, Ends
  <2> HIDE DEF c, x, y, z
  <2>2. c + x \in Nat /\ c + x + y = z /\ c <= c + x /\ (y = 0 => c + x = z)
    BY <2>1
  <2> QED BY <2>1, <2>2 DEF c, x, y, z
<1> HIDE DEF rest
<1>9. /\ batch'[h] = << >> /\ cursor'[h] = next /\ materialized'[h] /\ chain'[h] = rest
      /\ ~running'[h]
      /\ flusher'[h] = (IF Ends(h) /\ flusher[h] = "drain" THEN "barrier" ELSE flusher[h])
      /\ stage'[h] = (IF Ends(h) /\ stage[h] = "drain" THEN "chain" ELSE stage[h])
  BY <1>1, <1>3, <1>4 DEF Types
<1>10. Types'
  <2>1. << >> \in Log /\ disk' \in Log /\ tail' \in Log
    BY <1>6, EmptySeq DEF Log
  <2>2. (IF stage[h] = "drain" THEN Len(chain'[h]) ELSE OneFewer(h)) \in Nat
    BY <1>1, <1>7, <1>9, LenProperties DEF OneFewer, Types
  <2>3. /\ wait' \in [Handles -> Nat] /\ cursor' \in [Handles -> Nat]
        /\ chain' \in [Handles -> Seq({"drain", "flush"})] /\ batch' \in [Handles -> Log]
        /\ stage' \in [Handles -> Stages]
        /\ flusher' \in [Handles -> {"idle", "drain", "barrier", "flush"}]
        /\ running' \in [Handles -> BOOLEAN] /\ materialized' \in [Handles -> BOOLEAN]
    BY <1>1, <1>3, <1>4, <1>7, <1>8, <2>1, <2>2 DEF Types, Stages
  <2>4. stray' \in BOOLEAN
    BY <1>2, Zenon
  <2> QED BY <1>1, <1>2, <1>6, <2>1, <2>3, <2>4 DEF Types
<1> HIDE DEF next
<1>11. Frame(h)
  <2>1. ASSUME NEW g \in Handles \ {h} PROVE Own(g)' = Own(g)
    BY <1>1, <1>2, <1>3, <1>4 DEF Own, Types
  <2>2. (exists => exists') /\ (stray => stray') /\ (stray' \/ lock = h)
    BY <1>2
  <2> QED BY <1>2, <1>6, <2>1, <2>2 DEF Frame
<1>12. RunOK(h)' /\ ChainOK(h)'
  BY <1>1, <1>2, <1>7, <1>9 DEF RunOK, ChainOK
<1>13. BufferOK(h)'
  <2>1. At(log[h], next, << >>) /\ Len(<< >>) = 0
    BY <1>8, Shapes, AtNone, EmptySeq
  <2>2. At(log[h], next, buffered[h]) /\ Contiguous(log[h])
    BY <1>1 DEF BufferOK, next
  <2>3. next + 0 = next /\ next + 0 + Len(buffered[h]) = Len(log[h])
    BY <1>8
  <2> QED BY <1>2, <1>9, <2>1, <2>2, <2>3 DEF BufferOK
<1>14. StateOK(h)'
  <2>1. /\ opened[h] \in Nat /\ cursor[h] \in Nat /\ target[h] \in Nat /\ left[h] \in Nat
        /\ Len(log[h]) \in Nat
    BY Shapes
  <2>2. flusher'[h] \in {"barrier", "flush"} => target[h] <= next
    BY <1>1, <1>8, <1>9, <2>1 DEF StateOK
  <2>3. opened[h] <= next
    BY <1>1, <1>8, <2>1 DEF StateOK
  <2> QED BY <1>1, <1>2, <1>9, <2>2, <2>3 DEF StateOK
<1>15. OwnerOK(h)'
  <2> SUFFICES ASSUME Exact' PROVE ArtifactOf(h)'
    BY DEF OwnerOK
  <2>1. Len(disk') = next /\ Len(<< >>) = 0
    <3> DEFINE d == Len(disk)
               x == Len(batch[h])
               c == cursor[h]
    <3>1. d \in Nat /\ x \in Nat /\ c \in Nat /\ Len(recovered[h]) = 0
      BY <1>2, EmptySeq, Shapes
    <3>2. Len(disk') = d + x /\ d = c
      BY <1>6, <3>1
    <3> HIDE DEF d, x, c
    <3>3. Len(disk') = c + x
      BY <3>2
    <3> QED BY <3>3, EmptySeq DEF c, x, next
  <2>2. At(log[h], Len(disk'), << >>)
    BY <1>8, <2>1, Shapes, AtNone
  <2>3. Len(disk') + Len(recovered'[h]) = cursor'[h]
    BY <1>2, <1>8, <1>9, <2>1
  <2> QED BY <1>2, <1>6, <2>2, <2>3 DEF ArtifactOf
<1>16. CloseOK(h)'
  <2>1. ASSUME NEW n \in Nat, Stored(log[h], n) PROVE Stored(log[h], n)'
    <3>1. log'[h] = log[h]
      BY <1>2
    <3> QED BY <1>6, <2>1, <3>1, StoredStays
  <2> QED BY <1>1, <1>2, <1>6, <1>9, <2>1, Shapes DEF CloseOK
<1>17. /\ stage'[h] \notin {"unused", "claimed", "locked"} /\ opened'[h] <= Len(log'[h])
  BY <1>1, <1>2, <1>9
<1> QED
  BY <1>6, <1>10, <1>11, <1>12, <1>13, <1>14, <1>15, <1>16, <1>17, FrameKeeps DEF HandleOK

\* The header of a session that was never written: nothing was published before the flush.
LEMMA WriteHeaderLog == ASSUME LogInv, Inv', NEW h \in Handles, WriteHeader(h) PROVE LogInv'
<1>1. /\ Alive(h) /\ running[h] /\ leased[h] /\ Head(chain[h]) = "flush" /\ ~exists
      /\ Types /\ RunOK(h) /\ ChainOK(h) /\ BufferOK(h) /\ StateOK(h) /\ OwnerOK(h) /\ CloseOK(h)
      /\ opened[h] <= Len(log[h])
  BY Opened DEF WriteHeader, LogInv, HandleOK
<1>2. /\ chain[h] # << >> /\ batch[h] = << >>
  BY <1>1 DEF RunOK
<1>3. /\ stage[h] \notin {"unused", "claimed", "locked"}
      /\ Queued(chain[h], "flush") /\ flusher[h] = "flush"
      /\ Tail(chain[h]) \in Seq({"drain", "flush"}) /\ Distinct(Tail(chain[h]))
      /\ \A op : Queued(Tail(chain[h]), op) <=> Queued(chain[h], op) /\ op # "flush"
  BY <1>1, <1>2, HeadOfChain DEF ChainOK
<1>4. /\ ~materialized[h] /\ cursor[h] = 0 /\ recovered[h] = << >> /\ ~tornTo[h] /\ target[h] <= 0
  BY <1>1, <1>3 DEF StateOK
<1>5. disk = << >> /\ tail = << >> /\ ~torn /\ (Exact => buried = {})
  BY <1>1 DEF LogInv, FileOK
<1>6. /\ disk' = disk /\ tail' = tail /\ torn' = torn /\ buried' = buried /\ exists' = TRUE
      /\ lock' = lock
      /\ stray' = (stray \/ lock # h) /\ promised' = Promise(h)
      /\ stage' = stage /\ log' = log /\ buffered' = buffered /\ leased' = leased /\ batch' = batch
      /\ cursor' = cursor /\ tornTo' = tornTo /\ recovered' = recovered /\ failed' = failed
      /\ opened' = opened /\ left' = left /\ target' = target /\ timer' = timer /\ paused' = paused
      /\ claim' = claim /\ proc' = proc /\ faults' = faults
      /\ materialized' = [materialized EXCEPT ![h] = TRUE]
      /\ chain' = [chain EXCEPT ![h] = Tail(chain[h])]
      /\ running' = [running EXCEPT ![h] = FALSE]
      /\ wait' = [wait EXCEPT ![h] = OneFewer(h)] /\ flusher' = [flusher EXCEPT ![h] = "idle"]
  BY DEF WriteHeader, Pop, Strays, buffer
<1>7. promised' = promised
  <2>1. opened[h] \in Nat /\ target[h] \in Nat
    BY Shapes
  <2>2. opened[h] + 1 .. target[h] = {}
    BY <1>4, <2>1
  <2> QED BY <1>6, <2>2 DEF Promise
<1>8. /\ materialized'[h] /\ chain'[h] = Tail(chain[h]) /\ ~running'[h] /\ flusher'[h] = "idle"
  BY <1>1, <1>6 DEF Types
<1>9. Types'
  <2>1. OneFewer(h) \in Nat
    BY <1>1 DEF OneFewer, Types
  <2>2. stray' \in BOOLEAN
    BY <1>6, Zenon
  <2>3. /\ materialized' \in [Handles -> BOOLEAN] /\ running' \in [Handles -> BOOLEAN]
        /\ chain' \in [Handles -> Seq({"drain", "flush"})] /\ wait' \in [Handles -> Nat]
        /\ flusher' \in [Handles -> {"idle", "drain", "barrier", "flush"}]
    BY <1>1, <1>3, <1>6, <2>1 DEF Types
  <2> QED BY <1>1, <1>6, <1>7, <2>2, <2>3 DEF Types
<1>10. Frame(h)
  <2>1. ASSUME NEW g \in Handles \ {h} PROVE Own(g)' = Own(g)
    BY <1>1, <1>6 DEF Own, Types
  <2>2. (exists => exists') /\ (stray => stray') /\ (stray' \/ lock = h)
    BY <1>6
  <2>3. Len(disk) \in Nat
    BY Shapes
  <2>4. Len(disk) <= Len(disk') /\ \A i \in 1 .. Len(disk) : disk'[i] = disk[i]
    BY <1>6, <2>3
  <2> QED BY <1>6, <2>1, <2>2, <2>4 DEF Frame
<1>11. Exact' => Exact
  BY <1>6 DEF Exact
<1>12. FileOK' /\ Kept'
  <2>1. disk' \o tail' = << >> /\ Contiguous(<< >>)
    BY <1>5, <1>6, EmptySeq, EmptyConcat DEF Contiguous
  <2>2. Kept'
    BY <1>6, <1>7, <1>11 DEF Kept, LogInv
  <2> QED BY <1>5, <1>6, <1>11, <2>1, <2>2 DEF FileOK
<1>13. RunOK(h)' /\ ChainOK(h)'
  BY <1>1, <1>2, <1>3, <1>6, <1>8 DEF RunOK, ChainOK
<1>14. BufferOK(h)' /\ StateOK(h)'
  BY <1>1, <1>4, <1>6, <1>8 DEF BufferOK, StateOK
<1>15. OwnerOK(h)'
  <2>1. At(log[h], 0, << >>) /\ Len(<< >>) = 0
    BY Shapes, AtNone, EmptySeq
  <2> QED BY <1>4, <1>5, <1>6, <2>1 DEF OwnerOK, ArtifactOf
<1>16. CloseOK(h)'
  BY <1>1, <1>6, <1>8, <1>11 DEF CloseOK, Stored
<1>17. stage'[h] \notin {"unused", "claimed", "locked"} /\ opened'[h] <= Len(log'[h])
  BY <1>1, <1>3, <1>6
<1> QED
  BY <1>9, <1>10, <1>12, <1>13, <1>14, <1>15, <1>16, <1>17, FrameKeeps DEF HandleOK

-----------------------------------------------------------------------------
(* Failing operations.                                                     *)

\* An operation that rejects, whatever it left in the file.
LEMMA RejectsKeep ==
    ASSUME LogInv, Inv', NEW h \in Handles, Alive(h), running[h], Rejects(h),
           faults' \in 0 .. MaxFaults,
           tail' \in Seq(Event), torn' \in BOOLEAN, buried' \subseteq Event,
           exists' \in BOOLEAN, exists => exists', stray' \in BOOLEAN, stray => stray',
           stray' \/ lock = h \/ UNCHANGED <<disk, tail, torn>>,
           disk' \in Seq(Event), Len(disk) <= Len(disk'),
           \A i \in 1 .. Len(disk) : disk'[i] = disk[i],
           FileOK', Kept',
           lock = h /\ materialized[h] /\ Exact'
           => /\ Exact /\ disk' = disk
              /\ UNCHANGED <<tail, torn>> \/ (tail' = << >> /\ ~torn')
    PROVE  LogInv'
<1> DEFINE back == batch[h] \o buffered[h]
           rest == Tail(chain[h])
<1>1. /\ Types /\ RunOK(h) /\ ChainOK(h) /\ BufferOK(h) /\ StateOK(h) /\ OwnerOK(h) /\ CloseOK(h)
      /\ opened[h] <= Len(log[h])
  BY Opened DEF LogInv, HandleOK
<1>2. /\ chain' = [chain EXCEPT ![h] = rest] /\ running' = [running EXCEPT ![h] = FALSE]
      /\ buffered' = [buffered EXCEPT ![h] = back] /\ batch' = [batch EXCEPT ![h] = << >>]
      /\ lock' = lock /\ claim' = claim /\ log' = log /\ timer' = timer /\ leased' = leased
      /\ cursor' = cursor /\ materialized' = materialized /\ tornTo' = tornTo
      /\ recovered' = recovered /\ proc' = proc /\ opened' = opened /\ left' = left
      /\ target' = target /\ promised' = promised
  BY DEF Rejects, Pop, GivenBack, state, history
<1>3. /\ stage[h] \notin {"unused", "claimed", "locked"} /\ chain[h] # << >>
      /\ rest \in Seq({"drain", "flush"}) /\ Distinct(rest)
      /\ \A op : Queued(rest, op) <=> Queued(chain[h], op) /\ op # Head(chain[h])
      /\ Head(chain[h]) \in {"drain", "flush"}
  <2>1. chain[h] # << >> /\ chain[h] \in Seq({"drain", "flush"})
    BY <1>1, Shapes DEF RunOK
  <2>2. Head(chain[h]) \in {"drain", "flush"}
    BY <2>1, HeadTailProperties
  <2> QED BY <2>1, <2>2, HeadOfChain
<1>4. back \in Seq(Event) /\ Len(back) = Len(batch[h]) + Len(buffered[h])
  BY Shapes, ConcatProperties
<1>5. At(log[h], cursor[h], back)
  <2>1. At(log[h], cursor[h], batch[h]) /\ At(log[h], cursor[h] + Len(batch[h]), buffered[h])
    BY <1>1 DEF BufferOK
  <2> QED BY <2>1, Shapes, AtConcat
<1>6. batch[h] = << >> => back = buffered[h]
  BY Shapes, EmptyConcat
<1> HIDE DEF back, rest
<1>7. chain'[h] = rest /\ ~running'[h] /\ buffered'[h] = back /\ batch'[h] = << >>
  BY <1>1, <1>2 DEF Types
<1>8. /\ paused' \in [Handles -> BOOLEAN] /\ stage' \in [Handles -> Stages]
      /\ failed' \in [Handles -> BOOLEAN] /\ wait' \in [Handles -> Nat]
      /\ flusher' \in [Handles -> {"idle", "drain", "barrier", "flush"}]
      /\ \A g \in Handles \ {h} :
            /\ stage'[g] = stage[g] /\ failed'[g] = failed[g] /\ wait'[g] = wait[g]
            /\ flusher'[g] = flusher[g]
      /\ \/ stage'[h] = stage[h] /\ failed'[h] = failed[h]
         \/ stage'[h] = "last" /\ failed'[h]
      /\ flusher'[h] \in {"idle", flusher[h]}
      /\ Head(chain[h]) = "drain" /\ flusher[h] = "flush" => flusher'[h] = "flush"
  <2>1. OneFewer(h) \in Nat /\ Len(chain'[h]) \in Nat
    BY <1>1, <1>3, <1>7, LenProperties DEF OneFewer, Types
  <2>2. CASE Head(chain[h]) = "drain"
    <3> DEFINE f == failed[h] \/ stage[h] = "drain"
               w == IF stage[h] = "drain" THEN Len(chain'[h]) ELSE OneFewer(h)
    <3>1. /\ paused' = [paused EXCEPT ![h] = TRUE] /\ failed' = [failed EXCEPT ![h] = f]
          /\ flusher' = [flusher EXCEPT ![h] = IF @ = "drain" THEN "idle" ELSE @]
          /\ stage' = [stage EXCEPT ![h] = IF @ = "drain" THEN "last" ELSE @]
          /\ wait' = [wait EXCEPT ![h] = w]
      BY <2>2 DEF Rejects
    <3>2. f \in BOOLEAN /\ w \in Nat /\ (stage[h] = "drain" => f) /\ (stage[h] # "drain" => f = failed[h])
      <4>1. failed[h] \in BOOLEAN
        BY <1>1 DEF Types
      <4> QED BY <2>1, <4>1
    <3> HIDE DEF f, w
    <3> QED BY <1>1, <3>1, <3>2 DEF Types, Stages
  <2>3. CASE Head(chain[h]) # "drain"
    <3>1. /\ flusher' = [flusher EXCEPT ![h] = "idle"] /\ wait' = [wait EXCEPT ![h] = OneFewer(h)]
          /\ UNCHANGED <<paused, stage, failed>>
      BY <2>3 DEF Rejects
    <3> QED BY <1>1, <2>1, <2>3, <3>1 DEF Types
  <2> QED BY <2>2, <2>3
<1>9. Types'
  <2>1. << >> \in Log /\ disk' \in Log /\ tail' \in Log /\ back \in Log
    BY <1>4, EmptySeq DEF Log
  <2>2. /\ chain' \in [Handles -> Seq({"drain", "flush"})] /\ running' \in [Handles -> BOOLEAN]
        /\ buffered' \in [Handles -> Log] /\ batch' \in [Handles -> Log]
    BY <1>1, <1>2, <1>3, <2>1 DEF Types
  <2> QED BY <1>1, <1>2, <1>8, <2>1, <2>2 DEF Types
<1>10. Frame(h)
  <2>1. ASSUME NEW g \in Handles \ {h} PROVE Own(g)' = Own(g)
    BY <1>1, <1>2, <1>8 DEF Own, Types
  <2> QED BY <1>2, <2>1 DEF Frame
<1>11. RunOK(h)'
  BY <1>7 DEF RunOK
<1>12. ChainOK(h)'
  <2>1. ASSUME Queued(rest, "drain") PROVE back # << >>
    <3>1. Head(chain[h]) # "drain" /\ batch[h] = << >> /\ buffered[h] # << >>
      BY <1>1, <1>3, <2>1 DEF RunOK, ChainOK
    <3> QED BY <1>6, <3>1
  <2>2. ASSUME Queued(rest, "flush") PROVE flusher'[h] = "flush"
    BY <1>1, <1>3, <1>8, <2>2 DEF ChainOK
  <2> QED BY <1>3, <1>7, <2>1, <2>2 DEF ChainOK
<1>13. BufferOK(h)' /\ StateOK(h)'
  <2>1. /\ cursor[h] \in Nat /\ Len(log[h]) \in Nat /\ Len(back) \in Nat /\ log[h] \in Seq(Event)
    BY <1>4, Shapes, LenProperties
  <2>2. cursor[h] + Len(back) = Len(log[h])
    <3> DEFINE c == cursor[h]
               x == Len(batch[h])
               y == Len(buffered[h])
               z == Len(log[h])
    <3>1. c \in Nat /\ x \in Nat /\ y \in Nat /\ c + x + y = z
      BY <1>1, Shapes DEF BufferOK
    <3>2. Len(back) = x + y
      BY <1>4
    <3> HIDE DEF c, x, y, z
    <3>3. c + Len(back) = z
      BY <3>1, <3>2
    <3> QED BY <3>3 DEF c, z
  <2>3. At(log[h], cursor[h], << >>) /\ Len(<< >>) = 0
    BY <2>1, <2>2, AtNone, EmptySeq
  <2>4. cursor[h] + 0 = cursor[h]
    BY <2>1
  <2>5. BufferOK(h)'
    BY <1>1, <1>2, <1>5, <1>7, <2>2, <2>3, <2>4 DEF BufferOK
  <2>6. StateOK(h)'
    BY <1>1, <1>2, <1>8 DEF StateOK
  <2> QED BY <2>5, <2>6
<1>14. OwnerOK(h)'
  BY <1>1, <1>2 DEF OwnerOK, ArtifactOf
<1>15. CloseOK(h)'
  <2>1. ASSUME NEW n \in Nat, Stored(log[h], n) PROVE Stored(log[h], n)'
    <3>1. log'[h] = log[h]
      BY <1>2
    <3> QED BY <2>1, <3>1, StoredStays
  <2>2. Exact' => Exact
    BY DEF Exact
  <2> QED BY <1>1, <1>2, <1>7, <1>8, <2>1, <2>2, Shapes DEF CloseOK
<1>16. stage'[h] \notin {"unused", "claimed", "locked"} /\ opened'[h] <= Len(log'[h])
  BY <1>1, <1>2, <1>3, <1>8
<1> QED
  BY <1>9, <1>10, <1>11, <1>12, <1>13, <1>14, <1>15, <1>16, FrameKeeps DEF HandleOK

\* A step that leaves the file alone keeps what is said of it.
LEMMA FileStays ==
    ASSUME LogInv, UNCHANGED <<disk, tail, torn, exists, buried, stray, promised>>
    PROVE  FileOK' /\ Kept' /\ (Exact' => Exact)
<1>1. Exact' => Exact
  BY DEF Exact
<1> QED BY <1>1 DEF LogInv, FileOK, Kept

LEMMA RefuseLog == ASSUME LogInv, Inv', NEW h \in Handles, Refuse(h) PROVE LogInv'
<1>1. /\ Alive(h) /\ running[h] /\ Rejects(h) /\ promised' = promised
      /\ UNCHANGED <<disk, tail, torn, exists, buried, stray, faults>>
  BY DEF Refuse, Rejects, artifact, history
<1>2. Types /\ disk \in Seq(Event) /\ tail \in Seq(Event) /\ Len(disk) \in Nat
  BY Shapes DEF LogInv
<1>3. FileOK' /\ Kept' /\ (Exact' => Exact)
  BY <1>1, FileStays
<1> QED BY <1>1, <1>2, <1>3, RejectsKeep DEF Types

\* What an append that does not complete leaves in the file.
LEMMA LeftInFile ==
    ASSUME LogInv, NEW g \in Handles, LeavesAppend(g), promised' = promised
    PROVE  /\ FileOK' /\ Kept' /\ disk' \in Seq(Event) /\ tail' \in Seq(Event)
           /\ torn' \in BOOLEAN /\ buried' \subseteq Event /\ exists' \in BOOLEAN
           /\ stray' \in BOOLEAN /\ (exists => exists') /\ (stray => stray')
           /\ (stray' \/ lock = g)
           /\ Len(disk) <= Len(disk') /\ \A i \in 1 .. Len(disk) : disk'[i] = disk[i]
<1> DEFINE d == Data(g)
<1>1. /\ Alive(g) /\ ~tornTo[g] /\ Types /\ StateOK(g) /\ FileOK /\ Kept /\ Contiguous(log[g])
  BY PersistingFacts DEF LeavesAppend, LogInv, BufferOK
<1>2. /\ d \in Seq(Event) /\ disk \in Seq(Event) /\ tail \in Seq(Event) /\ log[g] \in Seq(Event)
      /\ Len(disk) \in Nat /\ Len(d) \in Nat
  BY Shapes DEF Data
<1>3. stray' = (stray \/ lock # g)
  BY DEF LeavesAppend, Strays
<1>4. stray' \in BOOLEAN /\ (stray => stray') /\ (stray' \/ lock = g) /\ (Exact' => Exact /\ lock = g)
  BY <1>3, Zenon DEF Exact
<1>5. \/ (materialized[g] \/ ~exists) /\ Lands(g, Data(g))
      \/ /\ materialized[g] /\ ~torn /\ torn' = TRUE
         /\ \E k \in 0 .. Len(d) : tail' = SubSeq(d, 1, k)
         /\ UNCHANGED <<disk, exists, buried>>
  <2>1. CASE (materialized[g] \/ ~exists) /\ AppendFrame(Data(g)) /\ exists' = TRUE
    BY <1>3, <2>1 DEF Lands
  <2>2. CASE materialized[g] /\ AppendPart(Data(g)) /\ UNCHANGED exists
    <3>1. exists'
      BY <1>1, <2>2 DEF StateOK
    <3> QED BY <1>3, <2>2, <3>1 DEF AppendPart, AppendFrame, Lands
  <2> QED BY <2>1, <2>2 DEF LeavesAppend
<1> HIDE DEF d
<1>6. CASE /\ materialized[g] /\ ~torn /\ torn' = TRUE
           /\ \E k \in 0 .. Len(d) : tail' = SubSeq(d, 1, k)
           /\ UNCHANGED <<disk, exists, buried>>
  <2>1. PICK k \in 0 .. Len(d) : tail' = SubSeq(d, 1, k)
    BY <1>6
  <2>2. tail' \in Seq(Event)
    BY <1>2, <2>1, SubSeqProperties
  <2>3. ASSUME Exact' PROVE Contiguous(disk \o tail') /\ buried = {}
    <3>1. At(log[g], 0, disk) /\ At(log[g], Len(disk), d)
      BY <1>1, <1>4, <1>6, <2>3, MayAppend DEF d
    <3>2. At(log[g], Len(disk), tail')
      BY <1>2, <2>1, <3>1, AtPrefix
    <3>3. At(log[g], 0 + Len(disk), tail') /\ 0 \in Nat
      BY <1>2, <3>2
    <3>4. At(log[g], 0, disk \o tail') /\ disk \o tail' \in Seq(Event)
      BY <1>2, <2>2, <3>1, <3>3, AtConcat, ConcatProperties
    <3>5. buried = {}
      BY <1>1, <1>4, <2>3 DEF FileOK
    <3> QED BY <1>1, <1>2, <3>4, <3>5, AtContiguous
  <2>4. exists /\ exists' = exists /\ disk' = disk
    BY <1>1, <1>6 DEF StateOK
  <2>5. FileOK'
    BY <1>6, <2>3, <2>4 DEF FileOK
  <2>6. Kept'
    BY <1>1, <1>4, <2>4 DEF Kept
  <2> QED BY <1>1, <1>2, <1>4, <1>6, <2>2, <2>4, <2>5, <2>6 DEF Types
<1>7. CASE (materialized[g] \/ ~exists) /\ Lands(g, Data(g))
  <2>1. exists' \in BOOLEAN /\ (exists => exists')
    BY <1>7, <1>5, <1>1 DEF LeavesAppend, Lands, Types
  <2> QED BY <1>1, <1>4, <1>7, <2>1, LandsKeep DEF Types
<1> QED BY <1>5, <1>6, <1>7

LEMMA IOFailsLog == ASSUME LogInv, Inv', NEW h \in Handles, IOFails(h) PROVE LogInv'
<1>1. Alive(h) /\ running[h] /\ Rejects(h) /\ promised' = promised
  BY DEF IOFails, Rejects, history
<1>2. Types /\ disk \in Seq(Event) /\ tail \in Seq(Event) /\ Len(disk) \in Nat
  BY Shapes DEF LogInv
<1>3. faults' \in 0 .. MaxFaults
  BY <1>2, WriterAssumption DEF IOFails, Fault, Types
<1>4. CASE UNCHANGED <<artifact, stray>>
  <2>1. UNCHANGED <<disk, tail, torn, buried, exists, stray>>
    BY <1>4 DEF artifact
  <2>2. FileOK' /\ Kept' /\ (Exact' => Exact)
    BY <1>1, <2>1, FileStays
  <2> QED BY <1>1, <1>2, <1>3, <2>1, <2>2, RejectsKeep DEF Types
<1>5. CASE /\ Persisting(h) /\ tornTo[h] /\ Strays(h)
           /\ tail' = << >> /\ torn' = FALSE /\ UNCHANGED <<disk, exists, buried>>
  <2>1. FileOK' /\ Kept' /\ (Exact' => Exact)
    BY <1>1, <1>5, TruncationKeeps
  <2>2. stray' \in BOOLEAN /\ (stray => stray') /\ (stray' \/ lock = h)
    BY <1>5, Zenon DEF Strays
  <2>3. << >> \in Seq(Event)
    BY EmptySeq
  <2>4. /\ tail' \in Seq(Event) /\ torn' \in BOOLEAN /\ buried' \subseteq Event
        /\ exists' \in BOOLEAN /\ disk' \in Seq(Event)
        /\ (exists => exists') /\ disk' = disk /\ tail' = << >> /\ ~torn'
    BY <1>2, <1>5, <2>3 DEF Types
  <2>5. Len(disk) <= Len(disk') /\ \A i \in 1 .. Len(disk) : disk'[i] = disk[i]
    BY <1>2, <2>4
  <2> QED BY <1>1, <1>3, <2>1, <2>2, <2>4, <2>5, RejectsKeep
<1>6. CASE (materialized[h] => RollbackFails) /\ LeavesAppend(h)
  <2>1. ~(materialized[h] /\ Exact')
    BY <1>6 DEF Exact
  <2> QED BY <1>1, <1>3, <1>6, <2>1, LeftInFile, RejectsKeep
<1> QED BY <1>4, <1>5, <1>6 DEF IOFails

-----------------------------------------------------------------------------
(* Crashes.                                                                *)

LEMMA CrashLog == ASSUME LogInv, Inv', NEW p \in Procs, Crash(p) PROVE LogInv'
<1>1. Types /\ promised' = promised /\ proc' = proc /\ opened' = opened /\ faults' = faults
      /\ \A h \in Handles : HandleOK(h)
  BY DEF Crash, LogInv
<1>2. /\ FileOK' /\ Kept' /\ disk' \in Seq(Event) /\ tail' \in Seq(Event)
      /\ torn' \in BOOLEAN /\ buried' \subseteq Event /\ exists' \in BOOLEAN
      /\ stray' \in BOOLEAN /\ (exists => exists') /\ (stray => stray')
      /\ Len(disk) <= Len(disk') /\ \A i \in 1 .. Len(disk) : disk'[i] = disk[i]
      /\ \A h \in Handles : proc[h] # p /\ lock = h => stray' \/ UNCHANGED <<disk, tail, torn>>
  <2>1. CASE \E g \in Handles : proc[g] = p /\ LeavesAppend(g)
    <3>1. PICK g \in Handles : proc[g] = p /\ LeavesAppend(g)
      BY <2>1
    <3>2. \A h \in Handles : proc[h] # p /\ lock = h => lock # g
      BY <3>1
    <3>3. stray' \/ lock = g
      BY <1>1, <3>1, LeftInFile
    <3>4. \A h \in Handles : proc[h] # p /\ lock = h => stray' \/ UNCHANGED <<disk, tail, torn>>
      BY <3>2, <3>3
    <3> QED BY <1>1, <3>1, <3>4, LeftInFile
  <2>2. CASE ~\E g \in Handles : proc[g] = p /\ LeavesAppend(g)
    <3>1. UNCHANGED <<disk, tail, torn, exists, buried, stray>>
      BY <2>2 DEF Crash, artifact
    <3>2. /\ disk \in Seq(Event) /\ tail \in Seq(Event) /\ torn \in BOOLEAN /\ exists \in BOOLEAN
          /\ buried \subseteq Event /\ stray \in BOOLEAN
      BY <1>1 DEF Types, Log
    <3>3. FileOK' /\ Kept'
      BY <1>1, <3>1, FileStays
    <3>4. Len(disk) \in Nat
      BY <3>2, LenProperties
    <3> QED BY <3>1, <3>2, <3>3, <3>4
  <2> QED BY <2>1, <2>2
<1>3. ASSUME NEW h \in Handles, proc[h] # p PROVE Own(h)' = Own(h) /\ (lock' = h => lock = h)
  BY <1>1, <1>3, WriterAssumption DEF Crash, Own
<1>4. ASSUME NEW h \in Handles, proc[h] = p
      PROVE  /\ stage'[h] = "dead" /\ ~running'[h] /\ batch'[h] = << >>
             /\ log'[h] = SubSeq(log[h], 1, opened[h])
  BY <1>4 DEF Crash
<1>5. ASSUME NEW h \in Handles
      PROVE  /\ SubSeq(log[h], 1, opened[h]) \in Seq(Event)
             /\ Len(SubSeq(log[h], 1, opened[h])) = opened[h]
  <2>1. log[h] \in Seq(Event) /\ opened[h] \in Nat /\ opened[h] <= Len(log[h]) /\ Len(log[h]) \in Nat
    BY <1>1, Shapes DEF HandleOK
  <2> QED BY <2>1, SubSeqProperties
<1>6. Types'
  <2>1. << >> \in Log /\ << >> \in Seq({"drain", "flush"}) /\ disk' \in Log /\ tail' \in Log
    BY <1>2, EmptySeq DEF Log
  <2>2. /\ stage' \in [Handles -> Stages] /\ buffered' \in [Handles -> Log]
        /\ batch' \in [Handles -> Log] /\ recovered' \in [Handles -> Log]
        /\ chain' \in [Handles -> Seq({"drain", "flush"})]
        /\ flusher' \in [Handles -> {"idle", "drain", "barrier", "flush"}]
    BY <1>1, <2>1 DEF Types, Crash, Stages
  <2>3. /\ timer' \in [Handles -> BOOLEAN] /\ paused' \in [Handles -> BOOLEAN]
        /\ running' \in [Handles -> BOOLEAN] /\ leased' \in [Handles -> BOOLEAN]
        /\ materialized' \in [Handles -> BOOLEAN] /\ tornTo' \in [Handles -> BOOLEAN]
        /\ failed' \in [Handles -> BOOLEAN]
    BY <1>1 DEF Types, Crash
  <2>4. /\ cursor' \in [Handles -> Nat] /\ wait' \in [Handles -> Nat] /\ left' \in [Handles -> Nat]
        /\ target' \in [Handles -> Nat]
    BY <1>1 DEF Types, Crash
  <2>5. log' \in [Handles -> Log]
    <3>1. log' = [h \in Handles |-> IF proc[h] = p THEN SubSeq(log[h], 1, opened[h]) ELSE log[h]]
      BY DEF Crash
    <3> QED BY <1>1, <1>5, <3>1 DEF Types, Log
  <2>6. lock' \in Owners /\ claim' \in [Procs -> Owners]
    BY <1>1 DEF Types, Crash, Owners
  <2> QED BY <1>1, <1>2, <2>1, <2>2, <2>3, <2>4, <2>5, <2>6 DEF Types
<1>7. ASSUME NEW h \in Handles PROVE HandleOK(h)'
  <2>1. CASE proc[h] # p
    <3>1. Spared(h)
      BY <1>2, <1>3, <2>1 DEF Spared
    <3> QED BY <1>6, <3>1, SparedKeeps
  <2>2. CASE proc[h] = p
    <3>1. opened'[h] <= Len(log'[h])
      <4>1. opened[h] \in Nat /\ opened'[h] = opened[h] /\ Len(log'[h]) = opened[h]
        BY <1>1, <1>4, <1>5, <2>2, Shapes
      <4> QED BY <4>1
    <3> QED BY <1>4, <2>2, <3>1 DEF HandleOK, RunOK, Alive
  <2> QED BY <2>1, <2>2
<1> QED BY <1>2, <1>6, <1>7 DEF LogInv

-----------------------------------------------------------------------------
(* The specification.                                                      *)

LEMMA InitLog == Init => LogInv
<1> SUFFICES ASSUME Init PROVE LogInv
  OBVIOUS
<1>1. << >> \in Log /\ << >> \in Seq({"drain", "flush"}) /\ Len(<< >>) = 0
  BY EmptySeq DEF Log
<1>2. Inv
  BY InitInv
<1>3. Types
  <2>1. /\ log \in [Handles -> Log] /\ buffered \in [Handles -> Log] /\ batch \in [Handles -> Log]
        /\ recovered \in [Handles -> Log] /\ chain \in [Handles -> Seq({"drain", "flush"})]
        /\ disk \in Log /\ tail \in Log
    BY <1>1 DEF Init
  <2>2. /\ flusher \in [Handles -> {"idle", "drain", "barrier", "flush"}]
        /\ timer \in [Handles -> BOOLEAN] /\ paused \in [Handles -> BOOLEAN]
        /\ running \in [Handles -> BOOLEAN]
        /\ materialized \in [Handles -> BOOLEAN] /\ tornTo \in [Handles -> BOOLEAN]
        /\ failed \in [Handles -> BOOLEAN]
    BY DEF Init
  <2>3. /\ cursor \in [Handles -> Nat] /\ wait \in [Handles -> Nat] /\ opened \in [Handles -> Nat]
        /\ left \in [Handles -> Nat] /\ target \in [Handles -> Nat]
    BY DEF Init
  <2>4. /\ faults \in 0 .. MaxFaults /\ promised \subseteq Event /\ buried \subseteq Event
        /\ torn \in BOOLEAN /\ exists \in BOOLEAN /\ stray \in BOOLEAN
    <3>1. faults = 0 /\ promised = {} /\ buried = {} /\ torn \in BOOLEAN /\ exists \in BOOLEAN
          /\ stray \in BOOLEAN
      BY Zenon DEF Init
    <3> QED BY <3>1, WriterAssumption
  <2> QED BY <1>2, <2>1, <2>2, <2>3, <2>4 DEF Types, Inv, Shape
<1>4. FileOK /\ Kept
  <2>1. << >> \o << >> = << >> /\ Contiguous(<< >>)
    BY EmptySeq, EmptyConcat DEF Contiguous
  <2> QED BY <2>1 DEF Init, FileOK, Kept
<1>5. \A h \in Handles : HandleOK(h)
  BY <1>1 DEF Init, HandleOK, RunOK, Fresh, Alive
<1> QED BY <1>2, <1>3, <1>4, <1>5 DEF LogInv

LEMMA StutterLog == ASSUME LogInv, UNCHANGED vars PROVE LogInv'
<1>1. Inv' /\ Types'
  BY DEF LogInv, vars, artifact, buffer, queue, state, history, Types, Inv, Shape, LockHeld, Routed
<1>2. FileOK' /\ Kept'
  BY FileStays DEF vars, artifact, history
<1>3. ASSUME NEW h \in Handles PROVE HandleOK(h)'
  <2>1. Spared(h)
    BY Shapes DEF Spared, Own, vars, artifact, buffer, queue, state, history
  <2> QED BY <1>1, <2>1, SparedKeeps
<1> QED BY <1>1, <1>2, <1>3 DEF LogInv

LEMMA NextLog == LogInv /\ [Next]_vars => LogInv'
<1> SUFFICES ASSUME LogInv, [Next]_vars PROVE LogInv'
  OBVIOUS
<1>1. Inv'
  BY NextInv DEF LogInv
<1>2. ASSUME NEW h \in Handles, Opening(h) PROVE LogInv'
  BY <1>1, <1>2, CreateLog, ClaimLog, LockForOpenLog, ReadForOpenLog, FailOpenLog DEF Opening
<1>3. ASSUME NEW h \in Handles, Callers(h) PROVE LogInv'
  BY <1>1, <1>3, PublishLog, FlushLog, CloseLog DEF Callers
<1>4. ASSUME NEW h \in Handles, FlushBarrier(h) \/ TimerFires(h) PROVE LogInv'
  BY <1>1, <1>4, FlushBarrierLog, TimerFiresLog
<1>5. ASSUME NEW h \in Handles, Chained(h) PROVE LogInv'
  BY <1>1, <1>5, StartDrainLog, StartFlushLog, EnsureLeaseLog, TruncateTornTailLog,
     RewriteRecoveredLog, WriteBatchLog, WriteHeaderLog, RefuseLog, IOFailsLog DEF Chained
<1>6. ASSUME NEW h \in Handles, Closer(h) PROVE LogInv'
  BY <1>1, <1>6, ChainSettledLog, LastSettledLog, ReleaseLog, ReleasedLog DEF Closer
<1>7. ASSUME NEW p \in Procs, Crash(p) PROVE LogInv'
  BY <1>1, <1>7, CrashLog
<1>8. CASE UNCHANGED vars
  BY <1>8, StutterLog
<1> QED BY <1>2, <1>3, <1>4, <1>5, <1>6, <1>7, <1>8 DEF Next

LEMMA SpecLog == Spec => []LogInv
  BY InitLog, NextLog, PTL DEF Spec

-----------------------------------------------------------------------------
(* What a session's file and its handles promise.                          *)

LEMMA AtEnd ==
    ASSUME NEW S, NEW l \in Seq(S), NEW n \in Nat, NEW s \in Seq(S), At(l, n, s),
           n + Len(s) = Len(l)
    PROVE  SubSeq(l, n + 1, Len(l)) = s
<1>1. Len(l) \in Nat /\ Len(s) \in Nat
  BY LenProperties
<1> DEFINE t == SubSeq(l, n + 1, Len(l))
<1>2. /\ t \in Seq(S) /\ Len(t) = Len(s)
      /\ \A i \in 1 .. Len(s) : t[i] = l[n + i]
  <2>1. \A i \in n + 1 .. Len(l) : l[i] \in S
    BY <1>1, ElementOfSeq
  <2>2. t \in Seq(S) /\ Len(t) = IF n + 1 <= Len(l) THEN Len(l) - (n + 1) + 1 ELSE 0
    BY <1>1, <2>1, SubSeqProperties
  <2>3. \A i \in 1 .. Len(l) - n : t[i] = l[(n + 1) + i - 1]
    BY <1>1
  <2> QED BY <1>1, <2>2, <2>3
<1> HIDE DEF t
<1>3. \A i \in 1 .. Len(s) : t[i] = s[i]
  BY <1>2 DEF At
<1>4. t = s
  BY <1>2, <1>3, SeqEqual
<1> QED BY <1>4 DEF t

LEMMA AtWhole ==
    ASSUME NEW S, NEW l \in Seq(S), NEW s \in Seq(S), At(l, 0, s), Len(s) = Len(l)
    PROVE  l = s
<1>1. \A i \in 1 .. Len(l) : l[i] = s[i]
  BY LenProperties DEF At
<1> QED BY <1>1, SeqEqual

\* The variables of a write handle and of the artifact have their types, and only the
\* operation at the head of a chain runs, a drain with its batch.
THEOREM WriterTypeCorrect == Spec => []TypeOK
<1>1. LogInv => TypeOK
  <2> SUFFICES ASSUME LogInv PROVE TypeOK
    OBVIOUS
  <2>1. Types /\ \A h \in Handles : RunOK(h)
    BY DEF LogInv, HandleOK
  <2> QED BY <2>1 DEF Types, RunOK, TypeOK, Owners
<1> QED BY <1>1, SpecLog, PTL

\* appendLines with a rollback that works: whatever fails, crashes or is retried, the events
\* in the file are contiguous from seq 0 and none is there twice.
THEOREM LogIsContiguous == ASSUME ~RollbackFails PROVE Spec => []LogContiguous
<1>1. LogInv => LogContiguous
  BY DEF LogInv, FileOK, Exact, LogContiguous
<1> QED BY <1>1, SpecLog, PTL

\* What a resolved flush promised stays in the file at its place, over failed writes, retries,
\* crashes and the repairs of later handles.
THEOREM PromisesAreKept == ASSUME ~RollbackFails PROVE Spec => []PromiseKept
<1>1. LogInv => PromiseKept
  BY DEF LogInv, Kept, Exact, PromiseKept
<1> QED BY <1>1, SpecLog, PTL

\* A live handle has written, is writing, has still to rewrite or still buffers every event
\* published to it, in order.
THEOREM NothingIsLost == ASSUME ~RollbackFails PROVE Spec => []NothingLost
<1>1. LogInv => NothingLost
  <2> SUFFICES ASSUME LogInv, NEW h \in Handles, Live(h)
               PROVE  /\ SubSeq(log[h], cursor[h] + 1, Len(log[h])) = batch[h] \o buffered[h]
                      /\ lock = h /\ materialized[h] /\ ~stray
                         => log[h] = disk \o recovered[h] \o batch[h] \o buffered[h]
    BY DEF NothingLost
  <2> DEFINE l == log[h]
             c == cursor[h]
             x == batch[h]
             y == buffered[h]
             z == disk \o recovered[h]
  <2>1. BufferOK(h) /\ OwnerOK(h)
    BY Opened DEF Live, Alive, Closing
  <2>2. /\ l \in Seq(Event) /\ x \in Seq(Event) /\ y \in Seq(Event) /\ c \in Nat
        /\ Len(x) \in Nat /\ Len(y) \in Nat /\ Len(l) \in Nat
        /\ disk \in Seq(Event) /\ recovered[h] \in Seq(Event)
        /\ z \in Seq(Event) /\ Len(z) = Len(disk) + Len(recovered[h])
    BY Shapes, ConcatProperties
  <2>3. At(l, c, x) /\ At(l, c + Len(x), y) /\ c + Len(x) + Len(y) = Len(l)
    BY <2>1 DEF BufferOK
  <2>4. ASSUME lock = h, materialized[h], ~stray PROVE At(l, 0, z) /\ Len(z) = c
    <3>1. ArtifactOf(h)
      BY <2>1, <2>4 DEF OwnerOK, Exact
    <3>2. At(l, 0, disk) /\ At(l, 0 + Len(disk), recovered[h]) /\ 0 \in Nat /\ Len(z) = c
      BY <2>2, <3>1, Shapes DEF ArtifactOf
    <3> QED BY <2>2, <3>2, AtConcat
  <2> HIDE DEF l, c, x, y, z
  <2>5. x \o y \in Seq(Event) /\ Len(x \o y) = Len(x) + Len(y) /\ At(l, c, x \o y)
    BY <2>2, <2>3, AtConcat, ConcatProperties
  <2>6. SubSeq(l, c + 1, Len(l)) = x \o y
    <3>1. c + Len(x \o y) = Len(l)
      BY <2>2, <2>3, <2>5
    <3> QED BY <2>2, <2>5, <3>1, AtEnd
  <2>7. ASSUME lock = h, materialized[h], ~stray PROVE l = z \o x \o y
    <3>1. At(l, 0, z) /\ Len(z) = c
      BY <2>4, <2>7
    <3>2. At(l, 0 + Len(z), x) /\ 0 \in Nat
      <4>1. 0 + Len(z) = c
        BY <2>2, <3>1
      <4> QED BY <2>3, <4>1
    <3> DEFINE w == z \o x
    <3>3. w \in Seq(Event) /\ Len(w) = c + Len(x) /\ At(l, 0, w)
      BY <2>2, <3>1, <3>2, AtConcat, ConcatProperties
    <3> HIDE DEF w
    <3>4. At(l, 0 + Len(w), y)
      BY <2>2, <2>3, <3>3
    <3>5. w \o y \in Seq(Event) /\ Len(w \o y) = Len(w) + Len(y) /\ At(l, 0, w \o y)
      BY <2>2, <3>2, <3>3, <3>4, AtConcat, ConcatProperties
    <3>6. Len(w \o y) = Len(l)
      BY <2>2, <2>3, <3>3, <3>5
    <3>7. l = w \o y
      BY <2>2, <3>5, <3>6, AtWhole
    <3> QED BY <3>7 DEF w
  <2> QED BY <2>6, <2>7 DEF l, c, x, y, z
<1> QED BY <1>1, SpecLog, PTL

\* close: the log of a closed handle, up to the event it left its loop with, is the beginning
\* of the file for good.
THEOREM CloseLeavesNothing == ASSUME ~RollbackFails PROVE Spec => []CloseDrains
<1>1. LogInv => CloseDrains
  <2> SUFFICES ASSUME LogInv, NEW h \in Handles, stage[h] = "closed", ~failed[h], ~stray,
                      left[h] > opened[h]
               PROVE  IsPrefix(SubSeq(log[h], 1, left[h]), disk)
    BY DEF CloseDrains
  <2> DEFINE n == left[h]
             s == SubSeq(log[h], 1, n)
             t == SubSeq(disk, 1, n)
  <2>1. Stored(log[h], n) /\ n <= Len(log[h])
    BY Opened DEF Alive, CloseOK, StateOK, Exact
  <2>2. /\ n \in Nat /\ n <= Len(disk) /\ \A i \in 1 .. n : disk[i] = log[h][i]
        /\ Len(log[h]) \in Nat /\ Len(disk) \in Nat
        /\ log[h] \in Seq(Event) /\ disk \in Seq(Event)
    BY <2>1, Shapes DEF Stored
  <2>3. /\ s \in Seq(Event) /\ Len(s) = n /\ \A i \in 1 .. n : s[i] = log[h][i]
        /\ t \in Seq(Event) /\ Len(t) = n /\ \A i \in 1 .. n : t[i] = disk[i]
    <3> HIDE DEF n
    <3> QED BY <2>1, <2>2, SubSeqProperties
  <2> HIDE DEF s, t, n
  <2>4. s = t
    BY <2>2, <2>3, SeqEqual
  <2>5. Len(s) <= Len(disk) /\ SubSeq(s, 1, Len(s)) = SubSeq(disk, 1, Len(s))
    <3>1. SubSeq(s, 1, Len(s)) = s
      BY <2>3, SubSeqFull
    <3> QED BY <2>2, <2>3, <2>4, <3>1 DEF t
  <2> QED BY <2>5 DEF IsPrefix, s, n
<1> QED BY <1>1, SpecLog, PTL
-----------------------------------------------------------------------------
(* Whatever a failed append leaves in the file.                            *)

\* e is in the frames of the file d, or one of the events b that are buried there.
Written(d, b, e) == Contains(d, e) \/ e \in b

\* A handle has written its log up to the cursor, but for the end that it recovered from a
\* torn frame and has still to rewrite, and it does not leave its loop before it has.
Reached(h) ==
    /\ left[h] <= cursor[h] /\ Len(recovered[h]) <= cursor[h]
    /\ At(log[h], cursor[h] - Len(recovered[h]), recovered[h])
    /\ \A i \in 1 .. cursor[h] - Len(recovered[h]) : Written(disk, buried, log[h][i])

WrittenInv == (\A e \in promised : Written(disk, buried, e)) /\ \A h \in Handles : Reached(h)

\* The file grows at its end, or not at all, and what is buried stays so.
Grown == (disk' = disk \/ \E s \in Seq(Event) : disk' = disk \o s) /\ buried \subseteq buried'

LEMMA GrownKeeps ==
    ASSUME LogInv, Grown, NEW e, Written(disk, buried, e) PROVE Written(disk', buried', e)
<1>1. disk \in Seq(Event) /\ Len(disk) \in Nat
  BY LenProperties DEF LogInv, Types, Log
<1>2. CASE e \in buried
  BY <1>2 DEF Grown, Written
<1>3. CASE Contains(disk, e) /\ disk' = disk
  BY <1>1, <1>3 DEF Written, Contains
<1>4. CASE Contains(disk, e) /\ \E s \in Seq(Event) : disk' = disk \o s
  <2>1. PICK i \in 1 .. Len(disk) : disk[i] = e
    BY <1>4 DEF Contains
  <2>2. PICK s \in Seq(Event) : disk' = disk \o s
    BY <1>4
  <2>3. Len(s) \in Nat
    BY <2>2, LenProperties
  <2>4. /\ disk' \in Seq(Event) /\ Len(disk') = Len(disk) + Len(s)
        /\ \A j \in 1 .. Len(disk) + Len(s) :
              disk'[j] = IF j <= Len(disk) THEN disk[j] ELSE s[j - Len(disk)]
    BY <1>1, <2>2, ConcatProperties
  <2>5. i \in 1 .. Len(disk) + Len(s) /\ disk'[i] = e
    BY <1>1, <2>1, <2>3, <2>4
  <2> QED BY <2>4, <2>5 DEF Written, Contains
<1> QED BY <1>2, <1>3, <1>4 DEF Grown, Written

\* The events of an append are in the file, or buried there.
LEMMA AppendedInFile ==
    ASSUME LogInv, NEW s \in Seq(Event), AppendFrame(s)
    PROVE  Grown /\ \A i \in 1 .. Len(s) : Written(disk', buried', s[i])
<1>1. disk \in Seq(Event) /\ Len(disk) \in Nat /\ Len(s) \in Nat
  BY LenProperties DEF LogInv, Types, Log
<1>2. CASE Buries(s)
  <2>1. \A i \in 1 .. Len(s) : s[i] \in Range(s)
    BY <1>1, LenProperties DEF Range
  <2> QED BY <1>2, <2>1 DEF Buries, Grown, Written
<1>3. CASE disk' = disk \o s /\ buried' = buried
  <2>1. /\ disk' \in Seq(Event) /\ Len(disk') = Len(disk) + Len(s)
        /\ \A j \in 1 .. Len(disk) + Len(s) :
              disk'[j] = IF j <= Len(disk) THEN disk[j] ELSE s[j - Len(disk)]
    BY <1>1, <1>3, ConcatProperties
  <2>2. ASSUME NEW i \in 1 .. Len(s) PROVE Contains(disk', s[i])
    <3> DEFINE k == Len(disk) + i
    <3>0. k \in 1 .. Len(disk) + Len(s) /\ ~(k <= Len(disk)) /\ k - Len(disk) = i
      BY <1>1
    <3>1. Len(disk) + i \in 1 .. Len(disk) + Len(s) /\ disk'[Len(disk) + i] = s[i]
      BY <2>1, <3>0
    <3> QED BY <2>1, <3>1 DEF Contains
  <2>3. Grown
    BY <1>3 DEF Grown
  <2> QED BY <2>2, <2>3 DEF Written
<1> QED BY <1>2, <1>3 DEF AppendFrame

\* A handle whose log, cursor and recovered end stay.
LEMMA ReachedStays ==
    ASSUME LogInv, Grown, NEW h \in Handles, Reached(h), log'[h] = log[h], cursor'[h] = cursor[h],
           recovered'[h] = recovered[h], left'[h] <= cursor[h]
    PROVE  Reached(h)'
  BY GrownKeeps DEF Reached, At

\* A step of h that promises only what is in the file.
LEMMA WrittenKeeps ==
    ASSUME LogInv, WrittenInv, Grown, NEW h \in Handles, Reached(h)',
           \A g \in Handles \ {h} : /\ log'[g] = log[g] /\ cursor'[g] = cursor[g]
                                    /\ recovered'[g] = recovered[g] /\ left'[g] = left[g],
           \A e \in promised' : e \in promised \/ Written(disk, buried, e)
    PROVE  WrittenInv'
<1>1. ASSUME NEW g \in Handles \ {h} PROVE Reached(g)'
  <2>1. Reached(g) /\ left[g] <= cursor[g]
    BY DEF WrittenInv, Reached
  <2> QED BY <2>1, ReachedStays
<1>2. \A e \in promised' : Written(disk', buried', e)
  BY GrownKeeps DEF WrittenInv
<1> QED BY <1>1, <1>2 DEF WrittenInv

\* A step that writes nothing but data, and moves no cursor.
LEMMA StillWritten ==
    ASSUME LogInv, WrittenInv, Grown, UNCHANGED <<log, cursor, recovered, left, promised>>
    PROVE  WrittenInv'
<1>1. ASSUME NEW g \in Handles PROVE Reached(g)'
  <2>1. Reached(g) /\ left[g] <= cursor[g]
    BY DEF WrittenInv, Reached
  <2> QED BY <2>1, ReachedStays
<1>2. \A e \in promised' : Written(disk', buried', e)
  BY GrownKeeps DEF WrittenInv
<1> QED BY <1>1, <1>2 DEF WrittenInv

LEMMA ReadForOpenWritten ==
    ASSUME LogInv, WrittenInv, NEW h \in Handles, ReadForOpen(h) PROVE WrittenInv'
<1> DEFINE found == disk \o tail
<1>1. Fresh(h) /\ Types /\ disk' = disk /\ buried' = buried /\ promised' = promised
  BY DEF ReadForOpen, LogInv, HandleOK, artifact
<1>2. /\ disk \in Seq(Event) /\ tail \in Seq(Event) /\ Len(disk) \in Nat /\ Len(tail) \in Nat
  BY <1>1, LenProperties DEF Types, Log
<1>3. /\ found \in Seq(Event) /\ Len(found) = Len(disk) + Len(tail)
      /\ \A i \in 1 .. Len(disk) + Len(tail) :
            found[i] = IF i <= Len(disk) THEN disk[i] ELSE tail[i - Len(disk)]
  BY <1>2, ConcatProperties
<1>4. At(found, Len(disk), tail)
  BY <1>2, AtParts
<1>5. /\ log'[h] = found /\ cursor'[h] = Len(found) /\ recovered'[h] = tail /\ left'[h] = 0
      /\ \A g \in Handles \ {h} : /\ log'[g] = log[g] /\ cursor'[g] = cursor[g]
                                  /\ recovered'[g] = recovered[g] /\ left'[g] = left[g]
  BY <1>1 DEF ReadForOpen, RecoveredTail, Types, Fresh
<1> HIDE DEF found
<1>6. cursor'[h] - Len(recovered'[h]) = Len(disk) /\ left'[h] <= cursor'[h]
      /\ Len(recovered'[h]) <= cursor'[h]
  BY <1>2, <1>3, <1>5
<1>7. \A i \in 1 .. Len(disk) : Written(disk', buried', found[i])
  <2>1. \A i \in 1 .. Len(disk) : i \in 1 .. Len(disk) + Len(tail) /\ found[i] = disk[i]
    BY <1>2, <1>3
  <2> QED BY <1>1, <1>2, <2>1 DEF Written, Contains
<1>8. Reached(h)'
  BY <1>4, <1>5, <1>6, <1>7 DEF Reached
<1> QED BY <1>1, <1>5, <1>8, WrittenKeeps DEF Grown

LEMMA PublishWritten == ASSUME LogInv, WrittenInv, NEW h \in Handles, Publish(h) PROVE WrittenInv'
<1> DEFINE e == [seq |-> Len(log[h]) + 1, by |-> h]
           m == Append(log[h], e)
           r == recovered[h]
           n == cursor[h] - Len(r)
<1>1. /\ Types /\ disk' = disk /\ buried' = buried /\ promised' = promised
      /\ cursor' = cursor /\ recovered' = recovered /\ left' = left /\ log' = [log EXCEPT ![h] = m]
  BY DEF Publish, LogInv, artifact, state, history
<1>2. log[h] \in Seq(Event) /\ Len(log[h]) \in Nat /\ r \in Seq(Event) /\ Len(r) \in Nat
      /\ cursor[h] \in Nat
  BY Shapes
<1>3. Reached(h) /\ n \in Nat /\ At(log[h], n, r)
  BY <1>2 DEF WrittenInv, Reached
<1>4. log' [h] = m /\ \A g \in Handles \ {h} : log'[g] = log[g]
  BY <1>1 DEF Types
<1>5. e \in Event
  BY <1>2, WriterAssumption DEF Publish, Event
<1>6. m \in Seq(Event) /\ Len(m) = Len(log[h]) + 1 /\ \A i \in 1 .. Len(log[h]) : m[i] = log[h][i]
  <2> HIDE DEF e
  <2> QED BY <1>2, <1>5, AppendProperties
<1> HIDE DEF e, m
<1>7. At(m, n, r)
  <2>1. n + Len(r) <= Len(log[h]) /\ \A i \in 1 .. Len(r) : r[i] = log[h][n + i]
    BY <1>3 DEF At
  <2> HIDE DEF n, r
  <2>2. \A i \in 1 .. Len(r) : n + i \in 1 .. Len(log[h])
    BY <1>2, <1>3, <2>1
  <2>3. n + Len(r) <= Len(m)
    BY <1>2, <1>3, <1>6, <2>1
  <2> QED BY <1>6, <2>1, <2>2, <2>3 DEF At
<1>8. \A i \in 1 .. n : Written(disk, buried, m[i])
  <2>1. n <= Len(log[h])
    BY <1>2, <1>3 DEF At
  <2>2. \A i \in 1 .. n : Written(disk, buried, log[h][i])
    BY <1>3 DEF Reached
  <2> HIDE DEF n, r
  <2>3. \A i \in 1 .. n : i \in 1 .. Len(log[h])
    BY <1>2, <1>3, <2>1
  <2> QED BY <1>6, <2>2, <2>3
<1>9. Grown
  BY <1>1 DEF Grown
<1>10. Reached(h)'
  <2>1. \A i \in 1 .. n : Written(disk', buried', m[i])
    BY <1>8, <1>9, GrownKeeps
  <2> QED BY <1>1, <1>3, <1>4, <1>7, <2>1 DEF Reached
<1> QED BY <1>1, <1>4, <1>9, <1>10, WrittenKeeps

\* A flush promises events before the cursor of a handle with nothing left to rewrite.
LEMMA PromiseInFile ==
    ASSUME LogInv, WrittenInv, NEW h \in Handles, Alive(h), flusher[h] \in {"barrier", "flush"},
           NEW e \in Promise(h)
    PROVE  Written(disk, buried, e)
<1>1. CASE e \in promised
  BY <1>1 DEF WrittenInv
<1>2. CASE e \notin promised
  <2>1. PICK i \in opened[h] + 1 .. target[h] : e = log[h][i]
    BY <1>2 DEF Promise
  <2>2. StateOK(h) /\ Reached(h)
    BY Opened DEF WrittenInv
  <2>3. opened[h] \in Nat /\ target[h] \in Nat /\ cursor[h] \in Nat
    BY Shapes
  <2>4. target[h] <= cursor[h] /\ cursor[h] # opened[h]
    BY <2>1, <2>2, <2>3 DEF StateOK
  <2>5. Len(recovered[h]) = 0
    BY <2>2, <2>4, EmptySeq DEF StateOK
  <2>6. i \in 1 .. cursor[h] - Len(recovered[h])
    BY <2>1, <2>3, <2>4, <2>5
  <2> QED BY <2>1, <2>2, <2>6 DEF Reached
<1> QED BY <1>1, <1>2

\* The flush at the head of a chain has its caller waiting.
LEMMA FlushWaits ==
    ASSUME LogInv, NEW h \in Handles, Alive(h), chain[h] # << >>, Head(chain[h]) = "flush"
    PROVE  flusher[h] = "flush"
<1>1. ChainOK(h) /\ chain[h] \in Seq({"drain", "flush"})
  BY Opened, Shapes
<1>2. 1 \in DOMAIN chain[h] /\ chain[h][1] = Head(chain[h])
  BY <1>1, EmptySeq, LenProperties
<1> QED BY <1>1, <1>2 DEF ChainOK, Queued

LEMMA StartFlushWritten ==
    ASSUME LogInv, WrittenInv, NEW h \in Handles, StartFlush(h) PROVE WrittenInv'
<1>1. /\ Alive(h) /\ UNCHANGED <<disk, buried, log, cursor, recovered, left>>
      /\ promised' = promised \/ promised' = Promise(h)
  BY DEF StartFlush, Runnable, artifact, state
<1>2. flusher[h] = "flush"
  BY <1>1, FlushWaits DEF StartFlush, Runnable
<1>3. \A e \in promised' : e \in promised \/ Written(disk, buried, e)
  BY <1>1, <1>2, PromiseInFile
<1>4. Grown
  BY <1>1 DEF Grown
<1>5. Reached(h)'
  BY <1>1, <1>4, ReachedStays DEF WrittenInv, Reached
<1> QED BY <1>1, <1>3, <1>4, <1>5, WrittenKeeps

LEMMA WriteHeaderWritten ==
    ASSUME LogInv, WrittenInv, NEW h \in Handles, WriteHeader(h) PROVE WrittenInv'
<1>1. /\ Alive(h) /\ UNCHANGED <<disk, buried, log, cursor, recovered, left>> /\ promised' = Promise(h)
  BY DEF WriteHeader
<1>2. flusher[h] = "flush"
  <2>1. chain[h] # << >>
    BY Opened DEF WriteHeader, RunOK
  <2> QED BY <1>1, <2>1, FlushWaits DEF WriteHeader
<1>3. \A e \in promised' : e \in promised \/ Written(disk, buried, e)
  BY <1>1, <1>2, PromiseInFile
<1>4. Grown
  BY <1>1 DEF Grown
<1>5. Reached(h)'
  BY <1>1, <1>4, ReachedStays DEF WrittenInv, Reached
<1> QED BY <1>1, <1>3, <1>4, <1>5, WrittenKeeps

LEMMA RewriteRecoveredWritten ==
    ASSUME LogInv, WrittenInv, NEW h \in Handles, RewriteRecovered(h) PROVE WrittenInv'
<1> DEFINE r == recovered[h]
           n == cursor[h] - Len(r)
<1>1. /\ Types /\ AppendFrame(r) /\ recovered' = [recovered EXCEPT ![h] = << >>]
      /\ UNCHANGED <<log, cursor, left, promised>>
  BY DEF RewriteRecovered, LogInv, history
<1>2. /\ r \in Seq(Event) /\ Len(r) \in Nat /\ cursor[h] \in Nat /\ Len(log[h]) \in Nat
      /\ log[h] \in Seq(Event)
  BY Shapes
<1>3. Reached(h) /\ n \in Nat /\ At(log[h], n, r) /\ Grown
  <2>1. Reached(h) /\ Grown
    BY <1>1, <1>2, AppendedInFile DEF WrittenInv
  <2> QED BY <1>2, <2>1 DEF Reached
<1>4. recovered'[h] = << >> /\ \A g \in Handles \ {h} : recovered'[g] = recovered[g]
  BY <1>1 DEF Types
<1>5. \A i \in 1 .. n : Written(disk', buried', log[h][i])
  BY <1>3, GrownKeeps DEF Reached
<1>6. cursor[h] = n + Len(r) /\ cursor[h] <= Len(log[h])
  BY <1>2, <1>3 DEF At
<1> HIDE DEF n, r
<1>7. \A i \in 1 .. cursor[h] : Written(disk', buried', log[h][i])
  <2> SUFFICES ASSUME NEW i \in 1 .. cursor[h] PROVE Written(disk', buried', log[h][i])
    OBVIOUS
  <2>1. CASE i <= n
    BY <1>3, <1>5, <2>1
  <2>2. CASE ~(i <= n)
    <3>1. i - n \in 1 .. Len(r) /\ n + (i - n) = i
      BY <1>2, <1>3, <1>6, <2>2
    <3>2. Written(disk', buried', r[i - n])
      BY <1>1, <1>2, <3>1, AppendedInFile
    <3>3. r[i - n] = log[h][n + (i - n)]
      BY <1>3, <3>1 DEF At
    <3> QED BY <3>1, <3>2, <3>3
  <2> QED BY <2>1, <2>2
<1>8. At(log[h], cursor[h], << >>) /\ Len(<< >>) = 0 /\ cursor[h] - 0 = cursor[h]
  BY <1>2, <1>6, AtNone, EmptySeq
<1>9. Reached(h)'
  BY <1>1, <1>2, <1>3, <1>4, <1>7, <1>8 DEF Reached
<1> QED BY <1>1, <1>3, <1>4, <1>9, WrittenKeeps

LEMMA WriteBatchWritten ==
    ASSUME LogInv, WrittenInv, NEW h \in Handles, WriteBatch(h) PROVE WrittenInv'
<1> DEFINE b == batch[h]
           c == cursor[h]
<1>1. /\ Types /\ AppendFrame(b) /\ cursor' = [cursor EXCEPT ![h] = c + Len(b)]
      /\ recovered[h] = << >> /\ UNCHANGED <<log, recovered, left, promised>> /\ BufferOK(h)
  BY PersistingFacts DEF WriteBatch, Writes, history
<1>2. /\ b \in Seq(Event) /\ Len(b) \in Nat /\ c \in Nat /\ Len(log[h]) \in Nat
      /\ log[h] \in Seq(Event) /\ left[h] \in Nat
  BY Shapes
<1>3. Reached(h) /\ At(log[h], c, b) /\ Grown /\ Len(recovered[h]) = 0 /\ left[h] <= c
  BY <1>1, <1>2, EmptySeq, AppendedInFile DEF WrittenInv, Reached, BufferOK
<1>4. cursor'[h] = c + Len(b) /\ \A g \in Handles \ {h} : cursor'[g] = cursor[g]
  BY <1>1 DEF Types
<1>5. \A i \in 1 .. c : Written(disk', buried', log[h][i])
  <2>1. c - 0 = c
    BY <1>2
  <2> QED BY <1>3, <2>1, GrownKeeps DEF Reached
<1>6. c + Len(b) <= Len(log[h])
  BY <1>3 DEF At
<1> HIDE DEF b, c
<1>7. \A i \in 1 .. c + Len(b) : Written(disk', buried', log[h][i])
  <2> SUFFICES ASSUME NEW i \in 1 .. c + Len(b) PROVE Written(disk', buried', log[h][i])
    OBVIOUS
  <2>1. CASE i <= c
    BY <1>2, <1>5, <2>1
  <2>2. CASE ~(i <= c)
    <3>1. i - c \in 1 .. Len(b) /\ c + (i - c) = i
      BY <1>2, <2>2
    <3>2. Written(disk', buried', b[i - c])
      BY <1>1, <1>2, <3>1, AppendedInFile
    <3>3. b[i - c] = log[h][c + (i - c)]
      BY <1>3, <3>1 DEF At
    <3> QED BY <3>1, <3>2, <3>3
  <2> QED BY <2>1, <2>2
<1>8. /\ At(log[h], c + Len(b), << >>) /\ c + Len(b) \in Nat /\ (c + Len(b)) - 0 = c + Len(b)
      /\ left[h] <= c + Len(b)
  <2>1. c + Len(b) \in Nat /\ (c + Len(b)) - 0 = c + Len(b) /\ left[h] <= c + Len(b)
    BY <1>2, <1>3
  <2> QED BY <1>2, <1>6, <2>1, AtNone
<1>9. Reached(h)'
  BY <1>1, <1>3, <1>4, <1>7, <1>8 DEF Reached
<1> QED BY <1>1, <1>3, <1>4, <1>9, WrittenKeeps

LEMMA ChainSettledWritten ==
    ASSUME LogInv, WrittenInv, NEW h \in Handles, ChainSettled(h) PROVE WrittenInv'
<1>1. /\ Alive(h) /\ UNCHANGED <<disk, buried, log, cursor, recovered, promised>> /\ Types
      /\ left' = left \/ (buffered[h] = << >> /\ left' = [left EXCEPT ![h] = Len(log[h])])
  BY DEF ChainSettled, LeavesLoop, LogInv, Alive, artifact, state
<1>2. ~running[h]
  BY <1>1, Opened DEF ChainSettled, CloseOK
<1>3. left'[h] <= cursor[h] /\ \A g \in Handles \ {h} : left'[g] = left[g]
  <2>1. CASE left' = left
    BY <2>1 DEF WrittenInv, Reached
  <2>2. CASE left' # left
    <3>1. cursor[h] = Len(log[h]) /\ cursor[h] \in Nat
      BY <1>1, <1>2, <2>2, DrainedIsWritten, Shapes
    <3>2. left'[h] = Len(log[h]) /\ \A g \in Handles \ {h} : left'[g] = left[g]
      BY <1>1, <2>2 DEF Types
    <3> QED BY <3>1, <3>2
  <2> QED BY <2>1, <2>2
<1>4. Grown
  BY <1>1 DEF Grown
<1>5. Reached(h)'
  BY <1>1, <1>3, <1>4, ReachedStays DEF WrittenInv
<1> QED BY <1>1, <1>3, <1>4, <1>5, WrittenKeeps

LEMMA LeftGrown == ASSUME LogInv, NEW g \in Handles, LeavesAppend(g) PROVE Grown
<1>1. Data(g) \in Seq(Event)
  BY Shapes DEF Data
<1>2. CASE AppendFrame(Data(g))
  BY <1>1, <1>2, AppendedInFile
<1>3. CASE AppendPart(Data(g))
  BY <1>3 DEF AppendPart, Buries, Grown
<1> QED BY <1>2, <1>3 DEF LeavesAppend

LEMMA CrashWritten == ASSUME LogInv, WrittenInv, NEW p \in Procs, Crash(p) PROVE WrittenInv'
<1>1. Types /\ promised' = promised /\ opened' = opened
  BY DEF Crash, LogInv
<1>2. Grown
  <2>1. CASE \E g \in Handles : proc[g] = p /\ LeavesAppend(g)
    BY <2>1, LeftGrown
  <2>2. CASE ~\E g \in Handles : proc[g] = p /\ LeavesAppend(g)
    BY <2>2 DEF Crash, artifact, Grown
  <2> QED BY <2>1, <2>2
<1>3. ASSUME NEW h \in Handles PROVE Reached(h)'
  <2>1. CASE proc[h] # p
    <3>1. /\ log'[h] = log[h] /\ cursor'[h] = cursor[h] /\ recovered'[h] = recovered[h]
          /\ left'[h] = left[h]
      BY <2>1 DEF Crash
    <3>2. Reached(h) /\ left[h] <= cursor[h]
      BY DEF WrittenInv, Reached
    <3> QED BY <1>2, <3>1, <3>2, ReachedStays
  <2>2. CASE proc[h] = p
    <3>1. /\ cursor'[h] = 0 /\ recovered'[h] = << >> /\ left'[h] = 0
          /\ log'[h] = SubSeq(log[h], 1, opened[h])
      BY <2>2 DEF Crash
    <3>2. log'[h] \in Seq(Event)
      <4>1. log[h] \in Seq(Event) /\ opened[h] \in Nat /\ opened[h] <= Len(log[h])
            /\ Len(log[h]) \in Nat
        BY Shapes DEF LogInv, HandleOK
      <4> QED BY <3>1, <4>1, SubSeqProperties
    <3>3. At(log'[h], 0, << >>) /\ Len(<< >>) = 0 /\ 0 - 0 = 0 /\ 0 <= 0
      <4>1. Len(log'[h]) \in Nat
        BY <3>2, LenProperties
      <4> QED BY <3>2, <4>1, AtNone, EmptySeq
    <3> QED BY <3>1, <3>3 DEF Reached
  <2> QED BY <2>1, <2>2
<1>4. \A e \in promised' : Written(disk', buried', e)
  BY <1>1, <1>2, GrownKeeps DEF WrittenInv
<1> QED BY <1>3, <1>4 DEF WrittenInv

LEMMA IOFailsWritten == ASSUME LogInv, WrittenInv, NEW h \in Handles, IOFails(h) PROVE WrittenInv'
<1>1. UNCHANGED <<log, cursor, recovered, left, promised>>
  BY DEF IOFails, Rejects, state, history
<1>2. Grown
  BY LeftGrown DEF IOFails, Grown, artifact
<1> QED BY <1>1, <1>2, StillWritten

LEMMA InitWritten == Init => WrittenInv
<1> SUFFICES ASSUME Init PROVE WrittenInv
  OBVIOUS
<1>1. Len(<< >>) = 0 /\ 0 - 0 = 0 /\ 0 <= 0 /\ At(<< >>, 0, << >>)
  BY EmptySeq DEF At
<1>2. ASSUME NEW h \in Handles PROVE Reached(h)
  <2>1. left[h] = 0 /\ cursor[h] = 0 /\ recovered[h] = << >> /\ log[h] = << >>
    BY DEF Init
  <2> QED BY <1>1, <2>1 DEF Reached
<1> QED BY <1>2 DEF WrittenInv, Init

LEMMA NextWritten == LogInv /\ WrittenInv /\ [Next]_vars => WrittenInv'
<1> SUFFICES ASSUME LogInv, WrittenInv, [Next]_vars PROVE WrittenInv'
  OBVIOUS
<1> DEFINE Same == UNCHANGED <<disk, buried, log, cursor, recovered, left, promised>>
<1>1. Same => WrittenInv'
  BY StillWritten DEF Grown
<1> USE DEF artifact, buffer, queue, state, history
<1>2. ASSUME NEW h \in Handles, Opening(h) PROVE WrittenInv'
  <2>1. CASE ReadForOpen(h)
    BY <2>1, ReadForOpenWritten
  <2>2. CASE ~ReadForOpen(h)
    <3>1. Same
      BY <1>2, <2>2 DEF Opening, Create, Claim, LockForOpen, FailOpen
    <3> QED BY <1>1, <3>1
  <2> QED BY <2>1, <2>2
<1>3. ASSUME NEW h \in Handles, Callers(h) \/ FlushBarrier(h) \/ TimerFires(h) PROVE WrittenInv'
  <2>1. CASE Publish(h)
    BY <2>1, PublishWritten
  <2>2. CASE ~Publish(h)
    <3>1. Same
      BY <1>3, <2>2 DEF Callers, Flush, Close, FlushBarrier, TimerFires
    <3> QED BY <1>1, <3>1
  <2> QED BY <2>1, <2>2
<1>4. ASSUME NEW h \in Handles, Chained(h) PROVE WrittenInv'
  <2>1. CASE StartFlush(h) \/ WriteHeader(h)
    BY <2>1, StartFlushWritten, WriteHeaderWritten
  <2>2. CASE RewriteRecovered(h) \/ WriteBatch(h)
    BY <2>2, RewriteRecoveredWritten, WriteBatchWritten
  <2>3. CASE IOFails(h)
    BY <2>3, IOFailsWritten
  <2>4. CASE StartDrain(h) \/ EnsureLease(h) \/ TruncateTornTail(h) \/ Refuse(h)
    <3>1. Same
      BY <2>4 DEF StartDrain, EnsureLease, TruncateTornTail, Refuse, Rejects
    <3> QED BY <1>1, <3>1
  <2> QED BY <1>4, <2>1, <2>2, <2>3, <2>4 DEF Chained
<1>5. ASSUME NEW h \in Handles, Closer(h) PROVE WrittenInv'
  <2>1. CASE ChainSettled(h)
    BY <2>1, ChainSettledWritten
  <2>2. CASE ~ChainSettled(h)
    <3>1. Same
      BY <1>5, <2>2 DEF Closer, LastSettled, Release, Released
    <3> QED BY <1>1, <3>1
  <2> QED BY <2>1, <2>2
<1>6. ASSUME NEW p \in Procs, Crash(p) PROVE WrittenInv'
  BY <1>6, CrashWritten
<1>7. CASE UNCHANGED vars
  <2>1. Same
    BY <1>7 DEF vars
  <2> QED BY <1>1, <2>1
<1> QED BY <1>2, <1>3, <1>4, <1>5, <1>6, <1>7 DEF Next

LEMMA SpecWritten == Spec => []WrittenInv
<1>1. Spec => [](LogInv /\ WrittenInv)
  BY InitLog, NextLog, InitWritten, NextWritten, PTL DEF Spec
<1> QED BY <1>1, PTL

\* Every event that a resolved flush promised, and every event of a closed handle's log up to
\* where close left its loop, is in the file, or was appended behind a part of a frame; and only
\* a rollback that failed can have left such a part under a handle that still writes.
StoredOrBuried ==
    ~stray => /\ \A e \in promised : Written(disk, buried, e)
              /\ \A h \in Handles : stage[h] = "closed" /\ left[h] > opened[h]
                                    => \A i \in 1 .. left[h] : Written(disk, buried, log[h][i])
              /\ buried # {} => RollbackFails

\* appendLines, whether its rollback works or not: no event that a flush promised, or a close
\* drained, is forgotten.  After a rollback that failed it may be in the file twice, or behind
\* a part of a frame, where a later open does not find it or refuses the file as corrupt; with
\* a rollback that works nothing is ever behind such a part.
THEOREM StoredOrBuriedForGood == Spec => []StoredOrBuried
<1>1. LogInv => (~stray /\ buried # {} => RollbackFails)
  BY DEF LogInv, FileOK, Exact
<1>2. LogInv /\ WrittenInv => StoredOrBuried
  <2> SUFFICES ASSUME LogInv, WrittenInv, NEW h \in Handles, stage[h] = "closed",
                      left[h] > opened[h]
               PROVE  \A i \in 1 .. left[h] : Written(disk, buried, log[h][i])
    BY <1>1 DEF StoredOrBuried, WrittenInv
  <2>1. StateOK(h) /\ Reached(h)
    BY Opened DEF Alive, WrittenInv
  <2>2. left[h] \in Nat /\ opened[h] \in Nat /\ cursor[h] \in Nat
    BY Shapes
  <2>3. cursor[h] # opened[h] /\ left[h] <= cursor[h]
    BY <2>1, <2>2 DEF Reached
  <2>4. Len(recovered[h]) = 0
    BY <2>1, <2>3, EmptySeq DEF StateOK
  <2>5. \A i \in 1 .. left[h] : i \in 1 .. cursor[h] - Len(recovered[h])
    BY <2>2, <2>3, <2>4
  <2> QED BY <2>1, <2>5 DEF Reached
<1>3. Spec => [](LogInv /\ WrittenInv)
  BY SpecLog, SpecWritten, PTL
<1> QED BY <1>2, <1>3, PTL

-----------------------------------------------------------------------------
(* One writer.                                                             *)

LEMMA AtPrefixOf ==
    ASSUME NEW S, NEW l \in Seq(S), NEW m \in Seq(S), At(l, 0, m) PROVE IsPrefix(m, l)
<1> DEFINE t == SubSeq(l, 1, Len(m))
<1>1. Len(m) \in Nat /\ Len(l) \in Nat /\ Len(m) <= Len(l)
  BY LenProperties DEF At
<1>2. t \in Seq(S) /\ Len(t) = Len(m) /\ \A i \in 1 .. Len(m) : t[i] = l[i]
  BY <1>1, SubSeqProperties
<1> HIDE DEF t
<1>3. \A i \in 1 .. Len(m) : m[i] = t[i]
  <2>1. \A i \in 1 .. Len(m) : 0 + i = i
    BY <1>1
  <2> QED BY <1>2, <2>1 DEF At
<1>4. m = t
  BY <1>2, <1>3, SeqEqual
<1>5. SubSeq(m, 1, Len(m)) = m
  BY SubSeqFull
<1> QED BY <1>1, <1>4, <1>5 DEF IsPrefix, t

\* The file, with what its torn frame still yields, continues as the log of the handle that
\* holds the lock, and loses no frame.
WriterOwns ==
    (disk' # disk \/ tail' # tail) /\ ~stray'
    => /\ IsPrefix(disk, disk')
       /\ \E h \in Handles : lock = h /\ IsPrefix(disk' \o tail', log[h])

LEMMA FileUntouched == ASSUME UNCHANGED <<disk, tail>> PROVE WriterOwns
  BY DEF WriterOwns

\* The holder of the lock leaves a beginning of its log.
LEMMA LeavesItsLog ==
    ASSUME LogInv, NEW h \in Handles, lock = h, Grown, disk' \in Seq(Event), tail' \in Seq(Event),
           At(log[h], 0, disk' \o tail')
    PROVE  WriterOwns
<1>1. disk \in Seq(Event) /\ log[h] \in Seq(Event) /\ disk' \o tail' \in Seq(Event)
  BY Shapes, ConcatProperties
<1>2. IsPrefix(disk' \o tail', log[h])
  BY <1>1, AtPrefixOf
<1>3. At(disk', 0, disk)
  <2>1. CASE disk' = disk
    <3>1. Len(disk) \in Nat /\ \A i \in 1 .. Len(disk) : 0 + i = i
      BY <1>1, LenProperties
    <3> QED BY <2>1, <3>1 DEF At
  <2>2. CASE \E s \in Seq(Event) : disk' = disk \o s
    BY <1>1, <2>2, AtParts
  <2> QED BY <2>1, <2>2 DEF Grown
<1>4. IsPrefix(disk, disk')
  BY <1>1, <1>3, AtPrefixOf
<1> QED BY <1>2, <1>4 DEF WriterOwns

\* An append that continues the log.
LEMMA AppendOwns ==
    ASSUME LogInv, ~RollbackFails, NEW h \in Handles, Alive(h), ~tornTo[h],
           materialized[h] \/ ~exists, Lands(h, Data(h)), promised' = promised
    PROVE  WriterOwns
<1> SUFFICES ASSUME ~stray' PROVE WriterOwns
  BY DEF WriterOwns
<1>1. /\ disk' \in Seq(Event) /\ lock = h /\ tail' = << >> /\ At(log[h], 0, disk')
  BY LandsKeep DEF Exact
<1>2. disk' \o << >> = disk' /\ << >> \in Seq(Event)
  BY <1>1, EmptyConcat, EmptySeq
<1>3. Grown
  <2>1. Data(h) \in Seq(Event)
    BY Shapes DEF Data
  <2> QED BY <2>1, AppendedInFile DEF Lands
<1> QED BY <1>1, <1>2, <1>3, LeavesItsLog

LEMMA TruncateOwns ==
    ASSUME LogInv, ~RollbackFails, NEW h \in Handles, Persisting(h), tornTo[h], Strays(h),
           tail' = << >>, UNCHANGED <<disk, buried>>
    PROVE  WriterOwns
<1> SUFFICES ASSUME ~stray' PROVE WriterOwns
  BY DEF WriterOwns
<1>1. StateOK(h) /\ OwnerOK(h) /\ stray' = (stray \/ lock # h)
  BY PersistingFacts DEF Strays
<1>2. lock = h /\ ~stray /\ Exact
  BY <1>1 DEF Exact
<1>3. At(log[h], 0, disk)
  BY <1>1, <1>2 DEF StateOK, OwnerOK, ArtifactOf
<1>4. disk \in Seq(Event) /\ disk \o << >> = disk /\ << >> \in Seq(Event)
  BY Shapes, EmptyConcat, EmptySeq
<1> QED BY <1>1, <1>2, <1>3, <1>4, LeavesItsLog DEF Grown

LEMMA LeftOwns ==
    ASSUME LogInv, ~RollbackFails, NEW g \in Handles, LeavesAppend(g), promised' = promised
    PROVE  WriterOwns
<1> DEFINE d == Data(g)
<1>1. /\ Alive(g) /\ ~tornTo[g] /\ stray' = (stray \/ lock # g) /\ StateOK(g)
  BY PersistingFacts DEF LeavesAppend, Strays
<1>2. \/ (materialized[g] \/ ~exists) /\ Lands(g, Data(g))
      \/ /\ materialized[g] /\ disk' = disk /\ buried' = buried
         /\ \E k \in 0 .. Len(d) : tail' = SubSeq(d, 1, k)
  <2>1. CASE (materialized[g] \/ ~exists) /\ AppendFrame(Data(g)) /\ exists' = TRUE
    BY <1>1, <2>1 DEF Lands
  <2>2. CASE materialized[g] /\ AppendPart(Data(g)) /\ UNCHANGED exists
    <3>1. exists'
      BY <1>1, <2>2 DEF StateOK
    <3> QED BY <1>1, <2>2, <3>1 DEF AppendPart, AppendFrame, Lands
  <2> QED BY <2>1, <2>2 DEF LeavesAppend
<1>3. CASE (materialized[g] \/ ~exists) /\ Lands(g, Data(g))
  BY <1>1, <1>3, AppendOwns
<1>4. CASE /\ materialized[g] /\ disk' = disk /\ buried' = buried
           /\ \E k \in 0 .. Len(d) : tail' = SubSeq(d, 1, k)
  <2> SUFFICES ASSUME ~stray' PROVE WriterOwns
    BY DEF WriterOwns
  <2>1. lock = g /\ Exact
    BY <1>1 DEF Exact
  <2>2. /\ d \in Seq(Event) /\ disk \in Seq(Event) /\ log[g] \in Seq(Event)
        /\ Len(disk) \in Nat /\ Len(d) \in Nat
    BY Shapes DEF Data
  <2>3. At(log[g], 0, disk) /\ At(log[g], Len(disk), d)
    BY <1>1, <1>4, <2>1, MayAppend
  <2> HIDE DEF d
  <2>4. PICK k \in 0 .. Len(d) : tail' = SubSeq(d, 1, k)
    BY <1>4
  <2>5. tail' \in Seq(Event)
    BY <2>2, <2>4, SubSeqProperties
  <2>6. At(log[g], Len(disk), tail')
    BY <2>2, <2>3, <2>4, AtPrefix
  <2>7. At(log[g], 0 + Len(disk), tail') /\ 0 \in Nat
    BY <2>2, <2>6
  <2>8. At(log[g], 0, disk \o tail')
    BY <2>2, <2>3, <2>5, <2>7, AtConcat
  <2> QED BY <1>4, <2>1, <2>2, <2>5, <2>8, LeavesItsLog DEF Grown
<1> QED BY <1>2, <1>3, <1>4

LEMMA CrashOwns ==
    ASSUME LogInv, ~RollbackFails, NEW p \in Procs, Crash(p) PROVE WriterOwns
<1>1. CASE UNCHANGED <<artifact, stray>>
  BY <1>1, FileUntouched DEF artifact
<1>2. CASE \E g \in Handles : proc[g] = p /\ LeavesAppend(g)
  BY <1>2, LeftOwns DEF Crash
<1> QED BY <1>1, <1>2 DEF Crash

LEMMA IOFailsOwns ==
    ASSUME LogInv, ~RollbackFails, NEW h \in Handles, IOFails(h) PROVE WriterOwns
<1>1. promised' = promised
  BY DEF IOFails, Rejects, history
<1>2. CASE UNCHANGED <<artifact, stray>>
  BY <1>2, FileUntouched DEF artifact
<1>3. CASE /\ Persisting(h) /\ tornTo[h] /\ Strays(h)
           /\ tail' = << >> /\ torn' = FALSE /\ UNCHANGED <<disk, exists, buried>>
  BY <1>3, TruncateOwns
<1>4. CASE LeavesAppend(h)
  BY <1>1, <1>4, LeftOwns
<1> QED BY <1>2, <1>3, <1>4 DEF IOFails

\* A drain that rewrites what was recovered, or writes its batch.
LEMMA DrainOwns ==
    ASSUME LogInv, ~RollbackFails, NEW h \in Handles, RewriteRecovered(h) \/ WriteBatch(h)
    PROVE  WriterOwns
<1>1. Persisting(h) /\ promised' = promised /\ ~tornTo[h]
  BY DEF RewriteRecovered, WriteBatch, Writes, history
<1>2. Alive(h) /\ StateOK(h)
  BY <1>1, PersistingFacts
<1>3. Lands(h, Data(h)) /\ (materialized[h] \/ ~exists)
  <2>1. CASE RewriteRecovered(h)
    BY <1>2, <2>1 DEF RewriteRecovered, Lands, Data, Strays, StateOK
  <2>2. CASE WriteBatch(h)
    BY <2>2 DEF WriteBatch, Writes, Lands, Data, Strays
  <2> QED BY <2>1, <2>2
<1> QED BY <1>1, <1>2, <1>3, AppendOwns

LEMMA NextOwns == ASSUME ~RollbackFails PROVE LogInv /\ [Next]_vars => WriterOwns
<1> SUFFICES ASSUME LogInv, [Next]_vars PROVE WriterOwns
  OBVIOUS
<1> DEFINE Same == UNCHANGED <<disk, tail>>
<1>1. Same => WriterOwns
  BY FileUntouched
<1> USE DEF artifact
<1>2. ASSUME NEW h \in Handles, Opening(h) PROVE Same
  BY <1>2 DEF Opening, Create, Claim, LockForOpen, ReadForOpen, FailOpen
<1>3. ASSUME NEW h \in Handles, Callers(h) \/ FlushBarrier(h) \/ TimerFires(h) PROVE Same
  BY <1>3 DEF Callers, Publish, Flush, Close, FlushBarrier, TimerFires
<1>4. ASSUME NEW h \in Handles, Chained(h) PROVE WriterOwns
  <2>1. CASE StartDrain(h) \/ StartFlush(h) \/ EnsureLease(h) \/ WriteHeader(h) \/ Refuse(h)
    <3>1. Same
      BY <2>1 DEF StartDrain, StartFlush, EnsureLease, WriteHeader, Refuse
    <3> QED BY <1>1, <3>1
  <2>2. CASE TruncateTornTail(h)
    BY <2>2, TruncateOwns DEF TruncateTornTail
  <2> QED BY <1>4, <2>1, <2>2, DrainOwns, IOFailsOwns DEF Chained
<1>5. ASSUME NEW h \in Handles, Closer(h) PROVE Same
  BY <1>5 DEF Closer, ChainSettled, LastSettled, Release, Released
<1>6. ASSUME NEW p \in Procs, Crash(p) PROVE WriterOwns
  BY <1>6, CrashOwns
<1>7. CASE UNCHANGED vars
  <2>1. Same
    BY <1>7 DEF vars
  <2> QED BY <1>1, <2>1
<1> QED BY <1>1, <1>2, <1>3, <1>4, <1>5, <1>6, <1>7 DEF Next

\* The promise of the kernel lock to the session's log: while no handle writes without it, the
\* file only grows, and only towards the log of the one handle that holds the lock, through
\* drains, failed appends and crashes.  SessionRecovery relies on it: what is stored there only
\* grows towards the end of the log.
THEOREM OneWriter == ASSUME ~RollbackFails PROVE Spec => [][WriterOwns]_vars
  BY InitLog, NextLog, NextOwns, PTL DEF Spec
=============================================================================
