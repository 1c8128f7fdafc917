------------------------- MODULE SessionRepairProofs -------------------------
(***************************************************************************)
(* Proofs about the repair of a session's log: every call of a message is  *)
(* answered once its step is closed, and the closers complete the log      *)
(* wherever it is cut.  Both follow from what each event requires of the   *)
(* events before it: a beginning of a log has that too, so a crash or a    *)
(* fork leaves a log of the same kind, only without its end.               *)
(***************************************************************************)
EXTENDS SessionRecoveryProofs

-----------------------------------------------------------------------------
(* The calls of a message, in order.                                       *)

\* Nth enumerates a finite set of ids in increasing order.
LEMMA NthEnumerates ==
    ASSUME NEW P \in SUBSET Nat, IsFiniteSet(P)
    PROVE  /\ Cardinality(P) \in Nat
           /\ \A k \in 1 .. Cardinality(P) : \E c \in P : Nth(P, k) = {c}
           /\ \A c \in P : \E k \in 1 .. Cardinality(P) : Nth(P, k) = {c}
           /\ \A j, k \in 1 .. Cardinality(P) :
                 j < k => \A c \in Nth(P, j), d \in Nth(P, k) : c < d
<1> DEFINE n == Cardinality(P)
           Below(c) == {d \in P : d < c}
           rank == [c \in P |-> Cardinality(Below(c))]
<1>1. n \in Nat
  BY FS_CardinalityType
<1>2. ASSUME NEW c \in P
      PROVE  /\ IsFiniteSet(Below(c)) /\ rank[c] \in Nat /\ rank[c] = Cardinality(Below(c))
             /\ Below(c) \in SUBSET (P \ {c})
  <2>1. Below(c) \in SUBSET P /\ c \notin Below(c)
    OBVIOUS
  <2>2. IsFiniteSet(Below(c)) /\ Cardinality(Below(c)) \in Nat
    BY <2>1, FS_Subset, FS_CardinalityType
  <2> QED BY <2>1, <2>2
<1>3. ASSUME NEW c \in P PROVE rank[c] \in 0 .. n - 1
  <2>1. IsFiniteSet(P \ {c}) /\ Cardinality(P \ {c}) = n - 1
    BY FS_RemoveElement
  <2>2. Cardinality(Below(c)) <= n - 1
    BY <1>2, <2>1, FS_Subset
  <2> QED BY <1>1, <1>2, <2>2
<1>4. ASSUME NEW c \in P, NEW d \in P, c < d PROVE rank[c] < rank[d]
  <2>1. c \notin Below(c) /\ Below(c) \cup {c} \in SUBSET Below(d)
    <3>1. \A x \in P : x \in Nat /\ ~(c < c) /\ (x < c => x < d)
      BY <1>4
    <3> QED BY <1>4, <3>1
  <2>2. Cardinality(Below(c) \cup {c}) = rank[c] + 1
    BY <1>2, <2>1, FS_AddElement
  <2>3. Cardinality(Below(c) \cup {c}) <= rank[d]
    BY <1>2, <2>1, FS_Subset
  <2> QED BY <1>2, <2>2, <2>3
<1>5. \A k \in 1 .. n : Nth(P, k) = {c \in P : rank[c] = k - 1}
  BY DEF Nth
<1>6. rank \in [P -> 0 .. n - 1]
  BY <1>3
<1> HIDE DEF rank, n
<1>7. \A c, d \in P : rank[c] = rank[d] => c = d
  <2> SUFFICES ASSUME NEW c \in P, NEW d \in P, rank[c] = rank[d] PROVE c = d
    OBVIOUS
  <2>1. rank[c] \in Nat /\ rank[d] \in Nat /\ c \in Nat /\ d \in Nat
    BY <1>2
  <2> QED BY <1>4, <2>1
<1>8. rank \in Injection(P, 0 .. n - 1)
  BY <1>6, <1>7 DEF Injection, IsInjective
<1>9. IsFiniteSet(0 .. n - 1) /\ Cardinality(0 .. n - 1) = n
  BY <1>1, FS_Interval
<1>10. rank \in Surjection(P, 0 .. n - 1)
  BY <1>8, <1>9, FS_Injection DEF n
<1>11. \A k \in 0 .. n - 1 : \E c \in P : rank[c] = k
  BY <1>10 DEF Surjection
<1>12. ASSUME NEW k \in 1 .. n PROVE \E c \in P : Nth(P, k) = {c}
  <2>1. k - 1 \in 0 .. n - 1
    BY <1>1
  <2>2. PICK c \in P : rank[c] = k - 1
    BY <1>11, <2>1
  <2>3. Nth(P, k) = {x \in P : rank[x] = k - 1}
    BY <1>5
  <2>4. {x \in P : rank[x] = k - 1} = {c}
    BY <1>7, <2>2
  <2> QED BY <2>3, <2>4
<1>13. ASSUME NEW c \in P PROVE \E k \in 1 .. n : Nth(P, k) = {c}
  <2>1. rank[c] + 1 \in 1 .. n /\ (rank[c] + 1) - 1 = rank[c]
    BY <1>1, <1>6
  <2>2. Nth(P, rank[c] + 1) = {c}
    BY <1>5, <1>7, <2>1
  <2> QED BY <2>1, <2>2
<1>14. ASSUME NEW j \in 1 .. n, NEW k \in 1 .. n, j < k,
              NEW c \in Nth(P, j), NEW d \in Nth(P, k)
       PROVE  c < d
  <2>1. c \in P /\ d \in P /\ rank[c] = j - 1 /\ rank[d] = k - 1
    BY <1>5
  <2>2. rank[c] < rank[d] /\ c \in Nat /\ d \in Nat
    BY <1>1, <1>14, <2>1
  <2>3. c # d /\ ~(d < c)
    BY <1>4, <2>1, <2>2
  <2> QED BY <2>2, <2>3
<1> QED BY <1>1, <1>12, <1>13, <1>14 DEF n

-----------------------------------------------------------------------------
(* What every log of a session is like.                                    *)

\* No boundary from i to j.
Quiet(l, i, j) == \A k \in i .. j : l[k].type \notin Boundary

\* A message before j, of the step that is open at j.
Asks(l, i, j) == i \in 1 .. j - 1 /\ Is(l, i, "assistant/message") /\ Quiet(l, i, j - 1)

\* Between i and j, c has its result.
Told(l, i, j, c) == \E k \in i .. j - 1 : Is(l, k, "tool/result") /\ l[k].calls = {c}

InTurn(l, j) ==
    \E h \in 1 .. j - 1 : Is(l, h, "turn/start") /\ \A k \in h .. j - 1 : ~Is(l, k, "turn/end")
InStep(l, j) == \E h \in 1 .. j : Is(l, h, "step/start") /\ Quiet(l, h, j)

\* A result answers the next call of its message.
Turns(l, j) ==
    \E i \in 1 .. j - 1 : Asks(l, i, j) /\
        \E c \in l[i].calls : /\ l[j].calls = {c} /\ ~Told(l, i, j, c)
                              /\ \A d \in l[i].calls : d < c => Told(l, i, j, d)

\* Whether the event at j may follow the ones before it.
Placed(l, j) ==
    /\ l[j].type \notin Boundary => InTurn(l, j) /\ InStep(l, j)
    /\ Is(l, j, "assistant/message") => \A i \in 1 .. j - 1 : ~Asks(l, i, j)
    /\ Is(l, j, "tool/result") => Turns(l, j)
    /\ Is(l, j, "step/end") => \A i \in 1 .. j - 1 : Asks(l, i, j) =>
                                  \A c \in l[i].calls : Told(l, i, j, c)

\* What a step holds is closed by the end of the step, if at all.
Enclosed(l, i) ==
    Quiet(l, i, Len(l)) \/ \E u \in i + 1 .. Len(l) : Is(l, u, "step/end") /\ Quiet(l, i, u - 1)

Well(l) == \A j \in DOMAIN l : Placed(l, j) /\ (l[j].type \notin Boundary => Enclosed(l, j))

-----------------------------------------------------------------------------
(* Beginnings and continuations of a log.                                  *)

LEMMA Domain == ASSUME NEW l \in Seq(Event) PROVE DOMAIN l = 1 .. Len(l) /\ Len(l) \in Nat
OBVIOUS

\* An event is placed by what precedes it.
LEMMA PlacedSame ==
    ASSUME NEW l, NEW m, NEW j \in Nat, \A i \in 1 .. j : l[i] = m[i], Placed(l, j), j >= 1
    PROVE  Placed(m, j)
<1>1. \A i \in 1 .. j - 1 : (Asks(m, i, j) <=> Asks(l, i, j)) /\ l[i] = m[i]
  BY DEF Asks, Quiet, Is
<1>2. \A i \in 1 .. j - 1 : \A c : Told(m, i, j, c) <=> Told(l, i, j, c)
  BY DEF Told, Is
<1>3. l[j] = m[j]
  OBVIOUS
<1>4. InTurn(l, j) => InTurn(m, j)
  BY DEF InTurn, Is
<1>5. InStep(l, j) => InStep(m, j)
  BY DEF InStep, Quiet, Is
<1>6. Turns(l, j) => Turns(m, j)
  BY <1>1, <1>2, <1>3 DEF Turns
<1> QED BY <1>1, <1>2, <1>3, <1>4, <1>5, <1>6 DEF Placed, Is

\* Wherever it is cut, a log is what it was like.
LEMMA WellCut ==
    ASSUME NEW l \in Seq(Event), Well(l), NEW n \in 0 .. Len(l)
    PROVE  SubSeq(l, 1, n) \in Seq(Event) /\ Well(SubSeq(l, 1, n))
<1> DEFINE m == SubSeq(l, 1, n)
<1>1. Len(l) \in Nat /\ n \in Nat /\ n <= Len(l) /\ DOMAIN l = 1 .. Len(l)
  BY Domain
<1>2. m \in Seq(Event) /\ Len(m) = n /\ DOMAIN m = 1 .. n /\ \A i \in 1 .. n : m[i] = l[i]
  BY <1>1
<1> HIDE DEF m
<1>3. ASSUME NEW j \in 1 .. n PROVE Placed(m, j)
  <2>1. j \in Nat /\ j >= 1 /\ j \in DOMAIN l /\ \A i \in 1 .. j : l[i] = m[i]
    BY <1>1, <1>2
  <2> QED BY <2>1, PlacedSame DEF Well
<1>4. ASSUME NEW i \in 1 .. n, m[i].type \notin Boundary PROVE Enclosed(m, i)
  <2>1. Enclosed(l, i)
    BY <1>1, <1>2, <1>4 DEF Well
  <2>2. CASE Quiet(l, i, Len(l))
    BY <1>1, <1>2, <2>2 DEF Quiet, Enclosed
  <2>3. CASE \E u \in i + 1 .. Len(l) : Is(l, u, "step/end") /\ Quiet(l, i, u - 1)
    <3>1. PICK u \in i + 1 .. Len(l) : Is(l, u, "step/end") /\ Quiet(l, i, u - 1)
      BY <2>3
    <3>2. CASE u <= n
      BY <1>1, <1>2, <3>1, <3>2 DEF Quiet, Enclosed, Is
    <3>3. CASE n < u
      BY <1>1, <1>2, <3>1, <3>3 DEF Quiet, Enclosed
    <3> QED BY <1>1, <3>2, <3>3
  <2> QED BY <2>1, <2>2, <2>3 DEF Enclosed
<1>5. Well(m)
  BY <1>2, <1>3, <1>4 DEF Well
<1> QED BY <1>2, <1>5 DEF m

\* m continues l.
Begins(l, m) == Len(l) <= Len(m) /\ \A i \in 1 .. Len(l) : m[i] = l[i]

LEMMA JoinBegins ==
    ASSUME NEW l \in Seq(Event), NEW s \in Seq(Event)
    PROVE  /\ l \o s \in Seq(Event) /\ Begins(l, l \o s) /\ Len(l \o s) = Len(l) + Len(s)
           /\ \A k \in 1 .. Len(s) : (l \o s)[Len(l) + k] = s[k]
           /\ \A j \in Len(l) + 1 .. Len(l \o s) :
                 j - Len(l) \in 1 .. Len(s) /\ (l \o s)[j] = s[j - Len(l)]
<1>1. Len(l) \in Nat /\ Len(s) \in Nat
  BY Domain
<1>2. /\ l \o s \in Seq(Event) /\ Len(l \o s) = Len(l) + Len(s)
      /\ \A i \in 1 .. Len(l) + Len(s) : (l \o s)[i] = IF i <= Len(l) THEN l[i] ELSE s[i - Len(l)]
  BY ConcatProperties
<1> DEFINE m == l \o s
<1> HIDE DEF m
<1>3. /\ m \in Seq(Event) /\ Len(m) = Len(l) + Len(s)
      /\ \A i \in 1 .. Len(l) + Len(s) : m[i] = IF i <= Len(l) THEN l[i] ELSE s[i - Len(l)]
  BY <1>2 DEF m
<1>4. Begins(l, m)
  BY <1>1, <1>3 DEF Begins
<1>5. ASSUME NEW j \in Len(l) + 1 .. Len(m)
      PROVE  j - Len(l) \in 1 .. Len(s) /\ m[j] = s[j - Len(l)]
  BY <1>1, <1>3
<1>6. ASSUME NEW k \in 1 .. Len(s) PROVE m[Len(l) + k] = s[k]
  <2>1. Len(l) + k \in Len(l) + 1 .. Len(m) /\ (Len(l) + k) - Len(l) = k
    BY <1>1, <1>3
  <2> QED BY <1>5, <2>1
<1> QED BY <1>3, <1>4, <1>5, <1>6 DEF m

LEMMA AppendBegins ==
    ASSUME NEW l \in Seq(Event), NEW e \in Event
    PROVE  /\ Append(l, e) \in Seq(Event) /\ Begins(l, Append(l, e))
           /\ Len(Append(l, e)) = Len(l) + 1 /\ Append(l, e)[Len(l) + 1] = e
BY DEF Begins

\* A log that goes on from a log like that is one if what is new is in its place and what
\* was open goes on or is closed.
LEMMA WellGrow ==
    ASSUME NEW l \in Seq(Event), NEW m \in Seq(Event), Begins(l, m), Well(l),
           \A j \in Len(l) + 1 .. Len(m) :
               Placed(m, j) /\ (m[j].type \notin Boundary => Enclosed(m, j)),
           \A i \in 1 .. Len(l) :
               l[i].type \notin Boundary /\ Quiet(l, i, Len(l)) => Enclosed(m, i)
    PROVE  Well(m)
<1>1. /\ Len(l) \in Nat /\ Len(m) \in Nat /\ DOMAIN l = 1 .. Len(l) /\ DOMAIN m = 1 .. Len(m)
      /\ Len(l) <= Len(m) /\ \A i \in 1 .. Len(l) : m[i] = l[i]
  BY Domain DEF Begins
<1>2. ASSUME NEW j \in 1 .. Len(l) PROVE Placed(m, j)
  <2>1. j \in Nat /\ j >= 1 /\ j \in DOMAIN l /\ \A i \in 1 .. j : l[i] = m[i]
    BY <1>1
  <2> QED BY <2>1, PlacedSame DEF Well
<1>3. ASSUME NEW i \in 1 .. Len(l), m[i].type \notin Boundary PROVE Enclosed(m, i)
  <2>1. Enclosed(l, i) /\ l[i].type \notin Boundary
    BY <1>1, <1>3 DEF Well
  <2>2. CASE Quiet(l, i, Len(l))
    BY <2>1, <2>2
  <2>3. CASE \E u \in i + 1 .. Len(l) : Is(l, u, "step/end") /\ Quiet(l, i, u - 1)
    <3>1. PICK u \in i + 1 .. Len(l) : Is(l, u, "step/end") /\ Quiet(l, i, u - 1)
      BY <2>3
    <3>2. u \in i + 1 .. Len(m) /\ Is(m, u, "step/end") /\ Quiet(m, i, u - 1)
      BY <1>1, <3>1 DEF Quiet, Is
    <3> QED BY <3>2 DEF Enclosed
  <2> QED BY <2>1, <2>2, <2>3 DEF Enclosed
<1>4. \A j \in 1 .. Len(m) : j \in 1 .. Len(l) \/ j \in Len(l) + 1 .. Len(m)
  BY <1>1
<1> QED BY <1>1, <1>2, <1>3, <1>4 DEF Well

\* What an open step goes on with.
LEMMA WellInside ==
    ASSUME NEW l \in Seq(Event), NEW m \in Seq(Event), Begins(l, m), Well(l),
           \A j \in Len(l) + 1 .. Len(m) : Placed(m, j) /\ m[j].type \notin Boundary
    PROVE  Well(m)
<1>1. /\ Len(l) \in Nat /\ Len(m) \in Nat
      /\ Len(l) <= Len(m) /\ \A i \in 1 .. Len(l) : m[i] = l[i]
  BY Domain DEF Begins
<1>2. \A j \in Len(l) + 1 .. Len(m) : Quiet(m, j, Len(m))
  BY <1>1 DEF Quiet
<1>3. \A i \in 1 .. Len(l) : Quiet(l, i, Len(l)) => Quiet(m, i, Len(m))
  BY <1>1 DEF Quiet
<1> QED BY <1>2, <1>3, WellGrow DEF Enclosed

\* The end of a step, or a boundary between steps.
LEMMA WellBoundary ==
    ASSUME NEW l \in Seq(Event), NEW e \in Event, Well(l), e.type \in Boundary,
           e.type = "step/end" \/ Open(l) = {}, Placed(Append(l, e), Len(l) + 1)
    PROVE  Well(Append(l, e))
<1> DEFINE m == Append(l, e)
           n == Len(l) + 1
<1>1. m \in Seq(Event) /\ Begins(l, m) /\ Len(m) = n /\ m[n] = e
  BY AppendBegins
<1>2. Len(l) \in Nat /\ DOMAIN l = 1 .. Len(l)
  BY Domain
<1>3. Placed(m, n)
  OBVIOUS
<1> HIDE DEF m
<1>4. ASSUME NEW i \in 1 .. Len(l), l[i].type \notin Boundary, Quiet(l, i, Len(l))
      PROVE  Enclosed(m, i)
  <2>1. i \in Open(l)
    BY <1>2, <1>4 DEF Open, Quiet
  <2>2. Is(m, n, "step/end") /\ n \in i + 1 .. Len(m) /\ Quiet(m, i, n - 1)
    BY <1>1, <1>2, <1>4, <2>1 DEF Is, Quiet, Begins
  <2> QED BY <2>2 DEF Enclosed
<1>5. \A j \in Len(l) + 1 .. Len(m) : j = n
  BY <1>1, <1>2
<1> QED BY <1>1, <1>3, <1>4, <1>5, WellGrow DEF m

-----------------------------------------------------------------------------
(* The open step of a log.                                                 *)

\* An event of the open step is in a turn that is open, and in a step that is open.
LEMMA OpenIsInside ==
    ASSUME NEW l \in Seq(Event), Well(l), Open(l) # {}
    PROVE  TurnOpen(l) /\ StepOpen(l)
<1>1. Len(l) \in Nat /\ DOMAIN l = 1 .. Len(l)
  BY Domain
<1>2. PICK i \in Open(l) : TRUE
  OBVIOUS
<1>3. i \in 1 .. Len(l) /\ \A k \in i .. Len(l) : l[k].type \notin Boundary
  BY <1>1, <1>2 DEF Open
<1>4. InTurn(l, i) /\ InStep(l, i)
  BY <1>1, <1>3 DEF Well, Placed
<1>5. TurnOpen(l)
  <2>1. PICK h \in 1 .. i - 1 : Is(l, h, "turn/start") /\ \A k \in h .. i - 1 : ~Is(l, k, "turn/end")
    BY <1>4 DEF InTurn
  <2>2. h \in DOMAIN l /\ \A k \in h .. Len(l) : ~Is(l, k, "turn/end")
    BY <1>1, <1>3, <2>1 DEF Is, Boundary
  <2> QED BY <2>1, <2>2 DEF TurnOpen
<1>6. StepOpen(l)
  <2>1. PICK h \in 1 .. i : Is(l, h, "step/start") /\ Quiet(l, h, i)
    BY <1>4 DEF InStep
  <2>2. h \in DOMAIN l /\ \A k \in h .. Len(l) : l[k].type \notin Boundary
    BY <1>1, <1>3, <2>1 DEF Quiet
  <2> QED BY <2>1, <2>2 DEF StepOpen, Open
<1> QED BY <1>5, <1>6

\* A closed step is no part of what is open.
LEMMA OpenAsks ==
    ASSUME NEW l \in Seq(Event), NEW i
    PROVE  i \in Open(l) /\ Is(l, i, "assistant/message") <=> Asks(l, i, Len(l) + 1)
<1>1. Len(l) \in Nat /\ DOMAIN l = 1 .. Len(l) /\ (Len(l) + 1) - 1 = Len(l)
  BY Domain
<1> QED BY <1>1 DEF Open, Asks, Quiet

\* An open step has one message.
LEMMA OneMessage ==
    ASSUME NEW l \in Seq(Event), Well(l), NEW i, NEW j,
           Asks(l, i, Len(l) + 1), Asks(l, j, Len(l) + 1)
    PROVE  i = j
<1>1. Len(l) \in Nat /\ DOMAIN l = 1 .. Len(l) /\ (Len(l) + 1) - 1 = Len(l)
  BY Domain
<1>2. ASSUME NEW a \in 1 .. Len(l), NEW b \in 1 .. Len(l), a < b,
             Asks(l, a, Len(l) + 1), Asks(l, b, Len(l) + 1)
      PROVE  FALSE
  <2>1. a \in 1 .. b - 1 /\ Asks(l, a, b)
    BY <1>1, <1>2 DEF Asks, Quiet
  <2>2. Is(l, b, "assistant/message")
    BY <1>2 DEF Asks
  <2> QED BY <1>1, <2>1, <2>2 DEF Well, Placed
<1>3. i \in 1 .. Len(l) /\ j \in 1 .. Len(l)
  BY <1>1 DEF Asks
<1>4. ~(i < j) /\ ~(j < i)
  BY <1>2, <1>3
<1> QED BY <1>1, <1>3, <1>4

\* A result in the open step is one of a call of its message.
LEMMA OpenResult ==
    ASSUME NEW l \in Seq(Event), Well(l), NEW k \in Open(l), Is(l, k, "tool/result")
    PROVE  \E i \in 1 .. k - 1 : /\ Asks(l, i, Len(l) + 1)
                                 /\ \E c \in l[i].calls : l[k].calls = {c}
<1>1. Len(l) \in Nat /\ DOMAIN l = 1 .. Len(l) /\ (Len(l) + 1) - 1 = Len(l)
  BY Domain
<1>2. k \in 1 .. Len(l) /\ \A n \in k .. Len(l) : l[n].type \notin Boundary
  BY <1>1 DEF Open
<1>3. Turns(l, k)
  BY <1>1, <1>2 DEF Well, Placed
<1>4. PICK i \in 1 .. k - 1 : Asks(l, i, k) /\ \E c \in l[i].calls : l[k].calls = {c}
  BY <1>3 DEF Turns
<1>5. Asks(l, i, Len(l) + 1)
  BY <1>1, <1>2, <1>4 DEF Asks, Quiet
<1> QED BY <1>4, <1>5

\* What the open step has answered.
LEMMA ToldOpen ==
    ASSUME NEW l \in Seq(Event), Well(l), NEW i, Asks(l, i, Len(l) + 1), NEW c
    PROVE  Told(l, i, Len(l) + 1, c) <=> c \in CallsOf(l, "tool/result")
<1>1. Len(l) \in Nat /\ DOMAIN l = 1 .. Len(l) /\ (Len(l) + 1) - 1 = Len(l)
  BY Domain
<1>2. i \in 1 .. Len(l) /\ \A n \in i .. Len(l) : l[n].type \notin Boundary
  BY <1>1 DEF Asks, Quiet
<1>3. ASSUME NEW k \in i .. Len(l), Is(l, k, "tool/result"), l[k].calls = {c}
      PROVE  c \in CallsOf(l, "tool/result")
  <2>1. k \in Open(l)
    BY <1>1, <1>2, <1>3 DEF Open
  <2> QED BY <1>3, <2>1 DEF CallsOf
<1>4. ASSUME NEW k \in Open(l), Is(l, k, "tool/result"), c \in l[k].calls
      PROVE  k \in i .. Len(l) /\ l[k].calls = {c}
  <2>1. PICK a \in 1 .. k - 1 : /\ Asks(l, a, Len(l) + 1)
                                /\ \E d \in l[a].calls : l[k].calls = {d}
    BY <1>4, OpenResult
  <2>2. a = i
    BY <2>1, OneMessage
  <2>3. k \in 1 .. Len(l)
    BY <1>1 DEF Open
  <2> QED BY <1>1, <1>4, <2>1, <2>2, <2>3
<1> QED BY <1>1, <1>3, <1>4 DEF Told, CallsOf

\* What the open step asks for.
LEMMA OpenCalls ==
    ASSUME NEW l \in Seq(Event), Well(l)
    PROVE  /\ \A i : Asks(l, i, Len(l) + 1) => CallsOf(l, "assistant/message") = l[i].calls
           /\ CallsOf(l, "tool/result") \subseteq CallsOf(l, "assistant/message")
           /\ CallsOf(l, "assistant/message") \in SUBSET Call
<1>1. Len(l) \in Nat /\ DOMAIN l = 1 .. Len(l) /\ (Len(l) + 1) - 1 = Len(l)
  BY Domain
<1>2. ASSUME NEW i, Asks(l, i, Len(l) + 1) PROVE CallsOf(l, "assistant/message") = l[i].calls
  <2>1. i \in Open(l) /\ Is(l, i, "assistant/message")
    BY <1>2, OpenAsks
  <2>2. \A j \in Open(l) : Is(l, j, "assistant/message") => j = i
    BY <1>2, OneMessage, OpenAsks
  <2> QED BY <2>1, <2>2 DEF CallsOf
<1>3. ASSUME NEW c \in CallsOf(l, "tool/result") PROVE c \in CallsOf(l, "assistant/message")
  <2>1. PICK k \in Open(l) : Is(l, k, "tool/result") /\ c \in l[k].calls
    BY <1>3 DEF CallsOf
  <2>2. PICK i \in 1 .. k - 1 : /\ Asks(l, i, Len(l) + 1)
                                /\ \E d \in l[i].calls : l[k].calls = {d}
    BY <2>1, OpenResult
  <2> QED BY <1>2, <2>1, <2>2
<1>4. ASSUME NEW c \in CallsOf(l, "assistant/message") PROVE c \in Call
  <2>1. PICK i \in Open(l) : c \in l[i].calls
    BY <1>4 DEF CallsOf
  <2>2. i \in DOMAIN l
    BY <2>1 DEF Open
  <2> QED BY <2>1, <2>2, EventTypes, ElementOfSeq, <1>1
<1> QED BY <1>2, <1>3, <1>4

-----------------------------------------------------------------------------
(* What may follow.                                                        *)

\* In an open step, in an open turn.
LEMMA NextInside ==
    ASSUME NEW l \in Seq(Event), Well(l), StepOpen(l), NEW m \in Seq(Event), Begins(l, m),
           NEW j \in Len(l) + 1 .. Len(m), Quiet(m, Len(l) + 1, j)
    PROVE  InTurn(m, j) /\ InStep(m, j)
<1>1. /\ Len(l) \in Nat /\ Len(m) \in Nat /\ DOMAIN l = 1 .. Len(l)
      /\ \A i \in 1 .. Len(l) : m[i] = l[i]
  BY Domain DEF Begins
<1>2. TurnOpen(l)
  BY OpenIsInside DEF StepOpen
<1>3. InTurn(m, j)
  <2>1. PICK h \in 1 .. Len(l) : Is(l, h, "turn/start") /\ \A k \in h .. Len(l) : ~Is(l, k, "turn/end")
    BY <1>1, <1>2 DEF TurnOpen
  <2>2. \A k \in Len(l) + 1 .. j : m[k].type # "turn/end"
    BY DEF Quiet, Boundary
  <2>3. h \in 1 .. j - 1 /\ Is(m, h, "turn/start") /\ \A k \in h .. j - 1 : ~Is(m, k, "turn/end")
    BY <1>1, <2>1, <2>2 DEF Is
  <2> QED BY <2>3 DEF InTurn
<1>4. InStep(m, j)
  <2>1. PICK h \in 1 .. Len(l) : Is(l, h, "step/start") /\ \A k \in h .. Len(l) : l[k].type \notin Boundary
    BY <1>1 DEF StepOpen, Open
  <2>2. h \in 1 .. j /\ Is(m, h, "step/start") /\ Quiet(m, h, j)
    BY <1>1, <2>1 DEF Is, Quiet
  <2> QED BY <2>2 DEF InStep
<1> QED BY <1>3, <1>4

\* The message an event that follows belongs to.
LEMMA AsksOn ==
    ASSUME NEW l \in Seq(Event), NEW m \in Seq(Event), Begins(l, m),
           NEW j \in Len(l) + 1 .. Len(m), Quiet(m, Len(l) + 1, j - 1), NEW i \in 1 .. Len(l)
    PROVE  Asks(m, i, j) <=> Asks(l, i, Len(l) + 1)
<1>1. /\ Len(l) \in Nat /\ Len(m) \in Nat /\ (Len(l) + 1) - 1 = Len(l)
      /\ \A k \in 1 .. Len(l) : m[k] = l[k]
  BY Domain DEF Begins
<1> QED BY <1>1 DEF Asks, Quiet, Is

\* What an event adds to the open step.
LEMMA OpenAppend ==
    ASSUME NEW l \in Seq(Event), NEW e \in Event
    PROVE  /\ e.type \in Boundary => Open(Append(l, e)) = {}
           /\ e.type \notin Boundary => Open(Append(l, e)) = Open(l) \cup {Len(l) + 1}
<1> DEFINE m == Append(l, e)
<1>1. m \in Seq(Event) /\ Begins(l, m) /\ Len(m) = Len(l) + 1 /\ m[Len(l) + 1] = e
  BY AppendBegins
<1>2. Len(l) \in Nat /\ DOMAIN l = 1 .. Len(l) /\ DOMAIN m = 1 .. Len(l) + 1
  BY <1>1, Domain
<1> HIDE DEF m
<1>3. \A i \in 1 .. Len(l) : i \in 1 .. Len(l) + 1 /\ m[i] = l[i]
  BY <1>1, <1>2 DEF Begins
<1>4. ASSUME e.type \in Boundary PROVE Open(m) = {}
  BY <1>1, <1>2, <1>4 DEF Open
<1>5. ASSUME e.type \notin Boundary PROVE Open(m) = Open(l) \cup {Len(l) + 1}
  <2>1. ASSUME NEW i \in Open(m) PROVE i \in Open(l) \cup {Len(l) + 1}
    <3>1. i \in 1 .. Len(l) + 1 /\ \A j \in i .. Len(l) + 1 : m[j].type \notin Boundary
      BY <1>1, <1>2, <2>1 DEF Open
    <3>2. CASE i \in 1 .. Len(l)
      BY <1>2, <1>3, <3>1, <3>2 DEF Open
    <3> QED BY <1>2, <3>1, <3>2
  <2>2. ASSUME NEW i \in Open(l) \cup {Len(l) + 1} PROVE i \in Open(m)
    <3>1. CASE i = Len(l) + 1
      BY <1>1, <1>2, <1>5, <3>1 DEF Open
    <3>2. CASE i \in Open(l)
      <4>1. i \in 1 .. Len(l) /\ \A j \in i .. Len(l) : l[j].type \notin Boundary
        BY <1>2, <3>2 DEF Open
      <4>2. \A j \in i .. Len(m) : m[j].type \notin Boundary
        BY <1>1, <1>2, <1>3, <1>5, <4>1
      <4> QED BY <1>2, <4>1, <4>2 DEF Open
    <3> QED BY <2>2, <3>1, <3>2
  <2> QED BY <2>1, <2>2
<1> QED BY <1>4, <1>5 DEF m

LEMMA CallsAppend ==
    ASSUME NEW l \in Seq(Event), NEW e \in Event, e.type \notin Boundary, NEW type
    PROVE  CallsOf(Append(l, e), type) =
               CallsOf(l, type) \cup (IF e.type = type THEN e.calls ELSE {})
<1> DEFINE m == Append(l, e)
<1>1. Begins(l, m) /\ m[Len(l) + 1] = e /\ Open(m) = Open(l) \cup {Len(l) + 1}
  BY AppendBegins, OpenAppend
<1> HIDE DEF m
<1>2. \A i \in Open(l) : m[i] = l[i]
  BY <1>1, Domain DEF Begins, Open
<1> QED BY <1>1, <1>2 DEF CallsOf, Is, m

\* The events an append makes.
LEMMA Made ==
    /\ \A type \in Types : Mark(type) \in Event /\ Mark(type).type = type
    /\ \A calls \in SUBSET Call :
          /\ Message(calls) \in Event /\ Message(calls).type = "assistant/message"
          /\ Called(calls) \in Event /\ Called(calls).type = "tool/call"
          /\ \A outcome \in Outcomes : /\ Result(calls, outcome) \in Event
                                      /\ Result(calls, outcome).type = "tool/result"
BY DEF Mark, Message, Called, Result, Event, Types, Outcomes

\* What an event does to the open turn.
LEMMA TurnAppend ==
    ASSUME NEW l \in Seq(Event), NEW e \in Event
    PROVE  /\ e.type = "turn/end" => ~TurnOpen(Append(l, e))
           /\ e.type = "turn/start" => TurnOpen(Append(l, e))
           /\ e.type # "turn/end" /\ TurnOpen(l) => TurnOpen(Append(l, e))
<1> DEFINE m == Append(l, e)
<1>1. m \in Seq(Event) /\ Begins(l, m) /\ Len(m) = Len(l) + 1 /\ m[Len(l) + 1] = e
  BY AppendBegins
<1>2. Len(l) \in Nat /\ DOMAIN l = 1 .. Len(l) /\ DOMAIN m = 1 .. Len(l) + 1
  BY <1>1, Domain
<1> HIDE DEF m
<1>3. \A i \in 1 .. Len(l) : i \in 1 .. Len(l) + 1 /\ m[i] = l[i]
  BY <1>1, <1>2 DEF Begins
<1>4. ASSUME e.type = "turn/end" PROVE ~TurnOpen(m)
  BY <1>1, <1>2, <1>4 DEF TurnOpen, Is
<1>5. ASSUME e.type = "turn/start" PROVE TurnOpen(m)
  <2>1. \A j \in Len(l) + 1 .. Len(m) : m[j] = e
    BY <1>1, <1>2
  <2> QED BY <1>1, <1>2, <1>5, <2>1 DEF TurnOpen, Is
<1>6. ASSUME e.type # "turn/end", TurnOpen(l) PROVE TurnOpen(m)
  <2>1. PICK h \in 1 .. Len(l) : Is(l, h, "turn/start") /\ \A k \in h .. Len(l) : ~Is(l, k, "turn/end")
    BY <1>2, <1>6 DEF TurnOpen
  <2>2. ASSUME NEW k \in h .. Len(m) PROVE ~Is(m, k, "turn/end")
    <3>1. CASE k = Len(l) + 1
      BY <1>1, <1>6, <3>1 DEF Is
    <3>2. CASE k \in h .. Len(l)
      BY <1>2, <1>3, <2>1, <3>2 DEF Is
    <3> QED BY <1>1, <1>2, <2>2, <3>1, <3>2
  <2> QED BY <1>2, <1>3, <2>1, <2>2 DEF TurnOpen, Is
<1> QED BY <1>4, <1>5, <1>6 DEF m

\* A step stays open until a boundary.
LEMMA StepAppend ==
    ASSUME NEW l \in Seq(Event), NEW e \in Event, e.type \notin Boundary
    PROVE  /\ StepOpen(l) => StepOpen(Append(l, e))
           /\ e.type = "step/start" => StepOpen(Append(l, e))
<1> DEFINE m == Append(l, e)
<1>1. /\ Begins(l, m) /\ m[Len(l) + 1] = e /\ Open(m) = Open(l) \cup {Len(l) + 1}
  BY AppendBegins, OpenAppend
<1> HIDE DEF m
<1>2. \A i \in Open(l) : m[i] = l[i]
  BY <1>1, Domain DEF Begins, Open
<1> QED BY <1>1, <1>2 DEF StepOpen, Is, m

\* An open step takes a call, its one message, or the next result of it.
LEMMA AddOne ==
    ASSUME NEW l \in Seq(Event), Well(l), StepOpen(l), NEW e \in Event, e.type \notin Boundary,
           e.type = "assistant/message" => \A i \in 1 .. Len(l) : ~Asks(l, i, Len(l) + 1),
           e.type = "tool/result" =>
               \E c \in PendingCalls(l) :
                   e.calls = {c} /\ \A d \in PendingCalls(l) : ~(d < c)
    PROVE  Well(Append(l, e)) /\ StepOpen(Append(l, e))
<1> DEFINE m == Append(l, e)
           n == Len(l) + 1
<1>1. m \in Seq(Event) /\ Begins(l, m) /\ Len(m) = n /\ m[n] = e
  BY AppendBegins
<1>2. StepOpen(m)
  BY StepAppend
<1> HIDE DEF m
<1>3. Len(l) \in Nat /\ DOMAIN l = 1 .. Len(l) /\ n - 1 = Len(l) /\ \A i \in 1 .. Len(l) : m[i] = l[i]
  BY <1>1, Domain DEF Begins
<1>4. n \in Len(l) + 1 .. Len(m) /\ Quiet(m, n, n) /\ Quiet(m, n, n - 1)
  BY <1>1, <1>3 DEF Quiet
<1>5. InTurn(m, n) /\ InStep(m, n)
  BY <1>1, <1>4, NextInside
<1>6. \A i \in 1 .. Len(l) : Asks(m, i, n) <=> Asks(l, i, n)
  BY <1>1, <1>4, AsksOn
<1>7. ASSUME NEW i \in 1 .. Len(l), NEW c PROVE Told(m, i, n, c) <=> Told(l, i, n, c)
  BY <1>3 DEF Told, Is
<1>8. ASSUME e.type = "tool/result" PROVE Turns(m, n)
  <2>1. PICK c \in PendingCalls(l) : e.calls = {c} /\ \A d \in PendingCalls(l) : ~(d < c)
    BY <1>8
  <2>2. PICK i \in Open(l) : Is(l, i, "assistant/message")
    BY <2>1 DEF PendingCalls, CallsOf
  <2>3. Asks(l, i, n)
    BY <2>2, OpenAsks
  <2>4. i \in 1 .. Len(l) /\ l[i].calls = CallsOf(l, "assistant/message") /\ m[i] = l[i]
    BY <1>3, <2>3, OpenCalls DEF Asks
  <2>5. \A d : Told(m, i, n, d) <=> d \in CallsOf(l, "tool/result")
    BY <1>7, <2>3, <2>4, ToldOpen
  <2>6. /\ c \in m[i].calls /\ m[n].calls = {c} /\ ~Told(m, i, n, c)
        /\ \A d \in m[i].calls : d < c => Told(m, i, n, d)
    BY <1>1, <2>1, <2>4, <2>5 DEF PendingCalls
  <2> QED BY <1>3, <1>6, <2>3, <2>4, <2>6 DEF Turns
<1>9. Placed(m, n)
  BY <1>1, <1>3, <1>5, <1>6, <1>8 DEF Placed, Is, Boundary
<1>10. \A j \in Len(l) + 1 .. Len(m) : j = n
  BY <1>1, <1>3
<1>11. Well(m)
  BY <1>1, <1>9, <1>10, WellInside
<1> QED BY <1>2, <1>11 DEF m

\* The end of a step whose calls are answered.
LEMMA EndOne ==
    ASSUME NEW l \in Seq(Event), Well(l), StepOpen(l), PendingCalls(l) = {}
    PROVE  LET m == Append(l, Mark("step/end"))
           IN  m \in Seq(Event) /\ Well(m) /\ TurnOpen(m) /\ Open(m) = {}
<1> DEFINE e == Mark("step/end")
           m == Append(l, e)
           n == Len(l) + 1
<1>1. e \in Event /\ e.type = "step/end" /\ e.type \in Boundary
  BY Made DEF Boundary, Types
<1>2. m \in Seq(Event) /\ Begins(l, m) /\ Len(m) = n /\ m[n] = e
  BY <1>1, AppendBegins
<1>3. Open(m) = {} /\ TurnOpen(m)
  BY <1>1, OpenAppend, TurnAppend, OpenIsInside DEF StepOpen
<1> HIDE DEF m, e
<1>4. Len(l) \in Nat /\ DOMAIN l = 1 .. Len(l) /\ n - 1 = Len(l) /\ \A i \in 1 .. Len(l) : m[i] = l[i]
  BY <1>2, Domain DEF Begins
<1>5. n \in Len(l) + 1 .. Len(m) /\ Quiet(m, n, n - 1)
  BY <1>2, <1>4 DEF Quiet
<1>6. ASSUME NEW i \in 1 .. Len(l), Asks(m, i, n), NEW c \in m[i].calls PROVE Told(m, i, n, c)
  <2>1. Asks(l, i, n) /\ m[i] = l[i]
    BY <1>2, <1>4, <1>5, <1>6, AsksOn
  <2>2. c \in CallsOf(l, "tool/result")
    BY <1>6, <2>1, OpenCalls DEF PendingCalls
  <2>3. Told(l, i, n, c)
    BY <2>1, <2>2, ToldOpen
  <2> QED BY <1>4, <2>3 DEF Told, Is
<1>7. Placed(m, n)
  BY <1>1, <1>2, <1>4, <1>6 DEF Placed, Is, Boundary
<1>8. Well(m)
  BY <1>1, <1>7, WellBoundary DEF m
<1> QED BY <1>2, <1>3, <1>8 DEF m, e

\* A turn ends or starts between steps.
LEMMA TurnBounds ==
    ASSUME NEW l \in Seq(Event), Well(l), Open(l) = {}
    PROVE  /\ LET m == Append(l, Mark("turn/end"))
              IN  m \in Seq(Event) /\ Well(m) /\ ~TurnOpen(m) /\ Open(m) = {}
           /\ LET m == Append(l, Mark("turn/start"))
              IN  m \in Seq(Event) /\ Well(m) /\ TurnOpen(m) /\ Open(m) = {}
<1>1. ASSUME NEW type \in {"turn/start", "turn/end"}
      PROVE  LET m == Append(l, Mark(type))
             IN  m \in Seq(Event) /\ Well(m) /\ Open(m) = {}
  <2> DEFINE e == Mark(type)
             m == Append(l, e)
  <2>1. e \in Event /\ e.type = type /\ e.type \in Boundary
    BY Made DEF Boundary, Types
  <2>2. m \in Seq(Event) /\ m[Len(l) + 1] = e
    BY <2>1, AppendBegins
  <2>3. Open(m) = {}
    BY <2>1, OpenAppend
  <2> HIDE DEF m, e
  <2>4. Placed(m, Len(l) + 1)
    BY <2>1, <2>2 DEF Placed, Is, Boundary
  <2>5. Well(m)
    BY <2>1, <2>4, WellBoundary DEF m
  <2> QED BY <2>2, <2>3, <2>5 DEF m, e
<1>2. /\ Mark("turn/end") \in Event /\ Mark("turn/end").type = "turn/end"
      /\ Mark("turn/start") \in Event /\ Mark("turn/start").type = "turn/start"
  BY Made DEF Types
<1> QED BY <1>1, <1>2, TurnAppend

\* A step starts in an open turn.
LEMMA StepStarts ==
    ASSUME NEW l \in Seq(Event), Well(l), TurnOpen(l), Open(l) = {}
    PROVE  LET m == Append(l, Mark("step/start"))
           IN  /\ m \in Seq(Event) /\ Well(m) /\ StepOpen(m)
               /\ \A i \in Open(m) : ~Is(m, i, "assistant/message")
<1> DEFINE e == Mark("step/start")
           m == Append(l, e)
           n == Len(l) + 1
<1>1. e \in Event /\ e.type = "step/start" /\ e.type \notin Boundary
  BY Made DEF Boundary, Types
<1>2. m \in Seq(Event) /\ Begins(l, m) /\ Len(m) = n /\ m[n] = e
  BY <1>1, AppendBegins
<1>3. Open(m) = {n} /\ StepOpen(m)
  BY <1>1, OpenAppend, StepAppend
<1> HIDE DEF m, e
<1>4. Len(l) \in Nat /\ DOMAIN l = 1 .. Len(l) /\ n - 1 = Len(l) /\ \A i \in 1 .. Len(l) : m[i] = l[i]
  BY <1>2, Domain DEF Begins
<1>5. InTurn(m, n)
  BY <1>4 DEF InTurn, TurnOpen, Is
<1>6. InStep(m, n)
  BY <1>1, <1>2, <1>4 DEF InStep, Quiet, Is
<1>7. Placed(m, n)
  BY <1>1, <1>2, <1>5, <1>6 DEF Placed, Is
<1>8. \A j \in Len(l) + 1 .. Len(m) : j = n
  BY <1>2, <1>4
<1>9. Well(m)
  BY <1>1, <1>2, <1>7, <1>8, WellInside
<1>10. \A i \in Open(m) : ~Is(m, i, "assistant/message")
  BY <1>1, <1>2, <1>3 DEF Is
<1> QED BY <1>2, <1>3, <1>9, <1>10 DEF m, e

-----------------------------------------------------------------------------
(* Answering what is pending.                                              *)

\* s is a result for each of the calls P, in order, and maybe their recorded starts.
AnswersAll(s, P) ==
    /\ \A k \in 1 .. Len(s) :
          \/ Is(s, k, "tool/call")
          \/ Is(s, k, "tool/result") /\ \E c \in P : s[k].calls = {c}
    /\ \A c \in P : \E k \in 1 .. Len(s) : Is(s, k, "tool/result") /\ s[k].calls = {c}
    /\ \A j, k \in 1 .. Len(s) :
          Is(s, j, "tool/result") /\ Is(s, k, "tool/result") /\ j < k =>
              \A c \in s[j].calls, d \in s[k].calls : c < d

\* What events that are no boundary add to the open step.
LEMMA OpenJoin ==
    ASSUME NEW l \in Seq(Event), NEW s \in Seq(Event), \A k \in 1 .. Len(s) : s[k].type \notin Boundary
    PROVE  Open(l \o s) = Open(l) \cup (Len(l) + 1 .. Len(l \o s))
<1> DEFINE m == l \o s
<1>1. /\ m \in Seq(Event) /\ Begins(l, m) /\ Len(m) = Len(l) + Len(s)
      /\ \A j \in Len(l) + 1 .. Len(m) : j - Len(l) \in 1 .. Len(s) /\ m[j] = s[j - Len(l)]
  BY JoinBegins
<1> HIDE DEF m
<1>2. /\ Len(l) \in Nat /\ Len(m) \in Nat /\ DOMAIN l = 1 .. Len(l) /\ DOMAIN m = 1 .. Len(m)
      /\ Len(l) <= Len(m) /\ \A i \in 1 .. Len(l) : m[i] = l[i]
  BY <1>1, Domain DEF Begins
<1>3. \A j \in Len(l) + 1 .. Len(m) : m[j].type \notin Boundary
  BY <1>1
<1>4. ASSUME NEW i \in Open(m) PROVE i \in Open(l) \cup (Len(l) + 1 .. Len(m))
  BY <1>2, <1>4 DEF Open
<1>5. ASSUME NEW i \in Open(l) PROVE i \in Open(m)
  <2>1. i \in 1 .. Len(l) /\ \A j \in i .. Len(l) : l[j].type \notin Boundary
    BY <1>2 DEF Open
  <2>2. \A j \in i .. Len(m) : j \in i .. Len(l) \/ j \in Len(l) + 1 .. Len(m)
    BY <1>2
  <2>3. \A j \in i .. Len(m) : m[j].type \notin Boundary
    BY <1>2, <1>3, <2>1, <2>2
  <2> QED BY <1>2, <2>1, <2>3 DEF Open
<1>6. ASSUME NEW i \in Len(l) + 1 .. Len(m) PROVE i \in Open(m)
  BY <1>2, <1>3 DEF Open
<1> QED BY <1>4, <1>5, <1>6 DEF m

\* The answers to what is pending belong to the step, and nothing is pending after them.
LEMMA Answering ==
    ASSUME NEW l \in Seq(Event), Well(l), StepOpen(l), NEW s \in Seq(Event),
           AnswersAll(s, PendingCalls(l))
    PROVE  LET m == l \o s
           IN  m \in Seq(Event) /\ Well(m) /\ StepOpen(m) /\ PendingCalls(m) = {}
<1> DEFINE P == PendingCalls(l)
           m == l \o s
<1>1. /\ m \in Seq(Event) /\ Begins(l, m) /\ Len(m) = Len(l) + Len(s)
      /\ \A k \in 1 .. Len(s) : m[Len(l) + k] = s[k]
      /\ \A j \in Len(l) + 1 .. Len(m) : j - Len(l) \in 1 .. Len(s) /\ m[j] = s[j - Len(l)]
  BY JoinBegins
<1>2. \A k \in 1 .. Len(s) : s[k].type \notin Boundary
  BY DEF AnswersAll, Is, Boundary
<1>3. Open(m) = Open(l) \cup (Len(l) + 1 .. Len(m))
  BY <1>2, OpenJoin
<1> HIDE DEF m
<1>4. /\ Len(l) \in Nat /\ Len(m) \in Nat /\ Len(s) \in Nat
      /\ DOMAIN l = 1 .. Len(l) /\ DOMAIN m = 1 .. Len(m)
      /\ Len(l) <= Len(m) /\ \A i \in 1 .. Len(l) : m[i] = l[i]
  BY <1>1, Domain DEF Begins
<1>5. P \in SUBSET Nat
  BY OpenCalls, RecoveryAssumption DEF PendingCalls, Call
<1>6. \A j \in Len(l) + 1 .. Len(m) : Quiet(m, Len(l) + 1, j) /\ Quiet(m, Len(l) + 1, j - 1)
  <2>1. \A k \in Len(l) + 1 .. Len(m) : m[k].type \notin Boundary
    BY <1>1, <1>2
  <2> QED BY <1>4, <2>1 DEF Quiet
<1>7. ASSUME NEW j \in Len(l) + 1 .. Len(m), Is(m, j, "tool/result") PROVE Turns(m, j)
  <2> DEFINE k == j - Len(l)
  <2>1. k \in 1 .. Len(s) /\ m[j] = s[k] /\ Is(s, k, "tool/result")
    BY <1>1, <1>7 DEF Is
  <2>2. PICK c \in P : s[k].calls = {c}
    BY <2>1 DEF AnswersAll, Is
  <2>3. PICK i \in Open(l) : Is(l, i, "assistant/message")
    BY <2>2 DEF PendingCalls, CallsOf
  <2>4. Asks(l, i, Len(l) + 1)
    BY <2>3, OpenAsks
  <2>5. i \in 1 .. Len(l) /\ l[i].calls = CallsOf(l, "assistant/message") /\ m[i] = l[i]
    BY <1>4, <2>4, OpenCalls DEF Asks, Open
  <2>6. Asks(m, i, j)
    BY <1>1, <1>6, <2>4, <2>5, AsksOn
  <2>7. ASSUME NEW d \in CallsOf(l, "tool/result") PROVE Told(m, i, j, d)
    <3>1. Told(l, i, Len(l) + 1, d)
      BY <2>4, <2>7, ToldOpen
    <3>2. \A n \in i .. (Len(l) + 1) - 1 : n \in i .. j - 1 /\ m[n] = l[n]
      BY <1>4, <2>5
    <3> QED BY <3>1, <3>2 DEF Told, Is
  <2>8. ASSUME NEW d, Told(m, i, j, d)
        PROVE  \/ d \in CallsOf(l, "tool/result")
               \/ \E n \in 1 .. k - 1 : Is(s, n, "tool/result") /\ s[n].calls = {d}
    <3>1. PICK n \in i .. j - 1 : Is(m, n, "tool/result") /\ m[n].calls = {d}
      BY <2>8 DEF Told
    <3>2. CASE n <= Len(l)
      <4>1. n \in i .. (Len(l) + 1) - 1 /\ m[n] = l[n]
        BY <1>4, <2>5, <3>1, <3>2
      <4>2. Told(l, i, Len(l) + 1, d)
        BY <3>1, <4>1 DEF Told, Is
      <4> QED BY <2>4, <4>2, ToldOpen
    <3>3. CASE n > Len(l)
      <4>1. n \in Len(l) + 1 .. Len(m) /\ n - Len(l) \in 1 .. k - 1
        BY <1>4, <2>5, <3>1, <3>3
      <4>2. m[n] = s[n - Len(l)]
        BY <1>1, <4>1
      <4> QED BY <3>1, <4>1, <4>2 DEF Is
    <3>4. n \in Nat
      BY <2>5, <3>1
    <3> QED BY <1>4, <3>2, <3>3, <3>4
  <2>9. c \notin CallsOf(l, "tool/result") /\ c \in l[i].calls /\ c \in Nat
    BY <1>5, <2>2, <2>5 DEF PendingCalls
  <2>10. ~Told(m, i, j, c)
    <3> SUFFICES ASSUME NEW n \in 1 .. k - 1, Is(s, n, "tool/result"), s[n].calls = {c}
                 PROVE  FALSE
      BY <2>8, <2>9
    <3>1. n \in 1 .. Len(s) /\ n < k
      BY <1>4, <2>1
    <3>2. c < c
      BY <2>1, <2>2, <3>1 DEF AnswersAll
    <3> QED BY <2>9, <3>2
  <2>11. ASSUME NEW d \in l[i].calls, d < c PROVE Told(m, i, j, d)
    <3>1. CASE d \in CallsOf(l, "tool/result")
      BY <2>7, <3>1
    <3>2. CASE d \in P
      <4>1. PICK n \in 1 .. Len(s) : Is(s, n, "tool/result") /\ s[n].calls = {d}
        BY <3>2 DEF AnswersAll
      <4>2. n < k
        <5>1. d \in Nat /\ d # c /\ ~(c < d)
          BY <1>5, <2>9, <2>11, <3>2
        <5>2. n # k /\ ~(c < d)
          BY <2>2, <4>1, <5>1
        <5>3. ~(k < n)
          BY <2>1, <2>2, <4>1, <5>2 DEF AnswersAll
        <5> QED BY <1>4, <2>1, <5>2, <5>3
      <4>3. Len(l) + n \in i .. j - 1 /\ m[Len(l) + n] = s[n]
        BY <1>1, <1>4, <2>5, <4>1, <4>2
      <4> QED BY <4>1, <4>3 DEF Told, Is
    <3> QED BY <2>5, <2>11, <3>1, <3>2 DEF PendingCalls
  <2>12. i \in 1 .. j - 1
    BY <1>4, <2>5
  <2> QED BY <2>1, <2>2, <2>5, <2>6, <2>9, <2>10, <2>11, <2>12 DEF Turns
<1>8. ASSUME NEW j \in Len(l) + 1 .. Len(m) PROVE Placed(m, j) /\ m[j].type \notin Boundary
  <2>1. InTurn(m, j) /\ InStep(m, j)
    BY <1>1, <1>6, NextInside
  <2>2. Is(m, j, "tool/call") \/ Is(m, j, "tool/result")
    <3>1. PICK k \in 1 .. Len(s) : m[j] = s[k]
      BY <1>1
    <3> QED BY <3>1 DEF AnswersAll, Is
  <2>3. ~Is(m, j, "assistant/message") /\ ~Is(m, j, "step/end") /\ m[j].type \notin Boundary
    BY <2>2 DEF Is, Boundary
  <2> QED BY <1>7, <2>1, <2>3 DEF Placed
<1>9. Well(m)
  BY <1>1, <1>8, WellInside
<1>10. StepOpen(m)
  BY <1>3, <1>4 DEF StepOpen, Open, Is
<1>11. ASSUME NEW c \in PendingCalls(m) PROVE FALSE
  <2>1. PICK i \in Open(m) : Is(m, i, "assistant/message") /\ c \in m[i].calls
    BY <1>11 DEF PendingCalls, CallsOf
  <2>2. i \notin Len(l) + 1 .. Len(m)
    BY <1>1, <2>1 DEF AnswersAll, Is
  <2>3. i \in Open(l) /\ Is(l, i, "assistant/message") /\ c \in l[i].calls
    BY <1>3, <1>4, <2>1, <2>2 DEF Open, Is
  <2>4. c \in CallsOf(l, "assistant/message")
    BY <2>3 DEF CallsOf
  <2>5. CASE c \in CallsOf(l, "tool/result")
    <3>1. PICK k \in Open(l) : Is(l, k, "tool/result") /\ c \in l[k].calls
      BY <2>5 DEF CallsOf
    <3>2. k \in Open(m) /\ m[k] = l[k]
      BY <1>3, <1>4, <3>1 DEF Open
    <3> QED BY <1>11, <3>1, <3>2 DEF PendingCalls, CallsOf, Is
  <2>6. CASE c \in P
    <3>1. PICK k \in 1 .. Len(s) : Is(s, k, "tool/result") /\ s[k].calls = {c}
      BY <2>6 DEF AnswersAll
    <3>2. Len(l) + k \in Len(l) + 1 .. Len(m) /\ m[Len(l) + k] = s[k]
      BY <1>1, <1>4, <3>1
    <3> QED BY <1>3, <1>11, <3>1, <3>2 DEF PendingCalls, CallsOf, Is
  <2> QED BY <2>4, <2>5, <2>6 DEF PendingCalls
<1>12. PendingCalls(m) = {}
  BY <1>11
<1> QED BY <1>1, <1>9, <1>10, <1>12 DEF m

\* The pending calls are a finite set of ids.
LEMMA IdsFinite ==
    ASSUME NEW P \in SUBSET Call
    PROVE  P \in SUBSET Nat /\ IsFiniteSet(P)
<1>1. IsFiniteSet(Call) /\ Call \in SUBSET Nat
  BY FS_Interval, RecoveryAssumption DEF Call
<1> QED BY <1>1, FS_Subset

\* The results a recovery appends answer what is pending.
LEMMA ResultsAnswer ==
    ASSUME NEW l \in Seq(Event), Well(l)
    PROVE  Results(l) \in Seq(Event) /\ AnswersAll(Results(l), PendingCalls(l))
<1> DEFINE P == PendingCalls(l)
           n == Cardinality(P)
           s == Results(l)
<1>1. P \in SUBSET Call
  BY OpenCalls DEF PendingCalls
<1>2. /\ n \in Nat
      /\ \A k \in 1 .. n : \E c \in P : Nth(P, k) = {c}
      /\ \A c \in P : \E k \in 1 .. n : Nth(P, k) = {c}
      /\ \A j, k \in 1 .. n : j < k => \A c \in Nth(P, j), d \in Nth(P, k) : c < d
  BY <1>1, IdsFinite, NthEnumerates
<1>3. \A calls : RecoveredOutcome(l, calls) \in Outcomes
  BY DEF RecoveredOutcome, Outcomes
<1>4. ASSUME NEW k \in 1 .. n
      PROVE  s[k] \in Event /\ Is(s, k, "tool/result") /\ s[k].calls = Nth(P, k)
  <2>1. s[k] = Result(Nth(P, k), RecoveredOutcome(l, Nth(P, k)))
    BY DEF Results
  <2>2. Nth(P, k) \in SUBSET Call
    BY <1>1 DEF Nth
  <2>3. Result(Nth(P, k), RecoveredOutcome(l, Nth(P, k))) \in Event
    BY <1>3, <2>2, Made
  <2> QED BY <2>1, <2>3 DEF Is, Result
<1>5. s \in [1 .. n -> Event]
  BY <1>4 DEF Results
<1> HIDE DEF s, n, P
<1>6. s \in Seq(Event) /\ Len(s) = n
  BY <1>2, <1>5
<1>7. AnswersAll(s, P)
  BY <1>2, <1>4, <1>6 DEF AnswersAll
<1> QED BY <1>6, <1>7 DEF s, P

\* So do the pairs of the calls that an abort skips.
LEMMA SkippedAnswer == SkippedPairs \in Seq(Event) /\ AnswersAll(SkippedPairs, Skipped)
<1> DEFINE P == Skipped
           n == Cardinality(P)
           s == SkippedPairs
<1>1. P \in SUBSET Call
  BY DEF Skipped
<1>2. /\ n \in Nat
      /\ \A k \in 1 .. n : \E c \in P : Nth(P, k) = {c}
      /\ \A c \in P : \E k \in 1 .. n : Nth(P, k) = {c}
      /\ \A j, k \in 1 .. n : j < k => \A c \in Nth(P, j), d \in Nth(P, k) : c < d
  BY <1>1, IdsFinite, NthEnumerates
<1>3. \A k : Nth(P, k) \in SUBSET Call
  BY <1>1 DEF Nth
<1>4. ASSUME NEW k \in 1 .. 2 * n
      PROVE  /\ s[k] \in Event /\ s[k].type \in {"tool/call", "tool/result"}
             /\ s[k].type = "tool/result" => s[k].calls = Nth(P, k \div 2) /\ k % 2 # 1
  <2>1. CASE k % 2 = 1
    <3>1. s[k] = Called(Nth(P, (k + 1) \div 2))
      BY <2>1 DEF SkippedPairs
    <3>2. Called(Nth(P, (k + 1) \div 2)) \in Event
      BY <1>3, Made
    <3> QED BY <3>1, <3>2 DEF Called
  <2>2. CASE k % 2 # 1
    <3>1. s[k] = Result(Nth(P, k \div 2), "refused")
      BY <2>2 DEF SkippedPairs
    <3>2. Result(Nth(P, k \div 2), "refused") \in Event
      BY <1>3, Made DEF Outcomes
    <3> QED BY <2>2, <3>1, <3>2 DEF Result
  <2> QED BY <2>1, <2>2
<1>5. ASSUME NEW q \in 1 .. n
      PROVE  2 * q \in 1 .. 2 * n /\ s[2 * q].type = "tool/result" /\ s[2 * q].calls = Nth(P, q)
  <2>1. 2 * q \in 1 .. 2 * n /\ (2 * q) % 2 # 1 /\ (2 * q) \div 2 = q
    BY <1>2
  <2>2. s[2 * q] = Result(Nth(P, q), "refused")
    BY <2>1 DEF SkippedPairs
  <2> QED BY <2>1, <2>2 DEF Result
<1>6. s \in [1 .. 2 * n -> Event]
  BY <1>4 DEF SkippedPairs
<1> HIDE DEF s, n, P
<1>11. s \in Seq(Event) /\ Len(s) = 2 * n
  <2>1. 2 * n \in Nat
    BY <1>2
  <2> QED BY <1>6, <2>1
<1>7. \A k \in 1 .. 2 * n : k % 2 # 1 => k \div 2 \in 1 .. n /\ 2 * (k \div 2) = k
  BY <1>2
<1>8. ASSUME NEW j \in 1 .. 2 * n, NEW k \in 1 .. 2 * n, j < k,
             s[j].type = "tool/result", s[k].type = "tool/result",
             NEW c \in s[j].calls, NEW d \in s[k].calls
      PROVE  c < d
  <2>1. j % 2 # 1 /\ k % 2 # 1 /\ c \in Nth(P, j \div 2) /\ d \in Nth(P, k \div 2)
    BY <1>4, <1>8
  <2>2. j \div 2 \in 1 .. n /\ k \div 2 \in 1 .. n /\ j \div 2 < k \div 2
    BY <1>2, <1>7, <1>8, <2>1
  <2> QED BY <1>2, <2>1, <2>2
<1>9. ASSUME NEW k \in 1 .. 2 * n, s[k].type = "tool/result" PROVE \E c \in P : s[k].calls = {c}
  <2>1. k \div 2 \in 1 .. n /\ s[k].calls = Nth(P, k \div 2)
    BY <1>4, <1>7, <1>9
  <2> QED BY <1>2, <2>1
<1>10. ASSUME NEW c \in P PROVE \E k \in 1 .. 2 * n : s[k].type = "tool/result" /\ s[k].calls = {c}
  <2>1. PICK q \in 1 .. n : Nth(P, q) = {c}
    BY <1>2
  <2> QED BY <1>5, <2>1
<1>12. AnswersAll(s, P)
  BY <1>4, <1>8, <1>9, <1>10, <1>11 DEF AnswersAll, Is
<1> QED BY <1>11, <1>12 DEF s, P

\* The end of a step and of its turn.
LEMMA EndBoth ==
    ASSUME NEW l \in Seq(Event), Well(l), StepOpen(l), PendingCalls(l) = {}
    PROVE  LET m == l \o <<Mark("step/end"), Mark("turn/end")>>
           IN  m \in Seq(Event) /\ Well(m) /\ ~TurnOpen(m)
<1> DEFINE a == Append(l, Mark("step/end"))
           b == Append(a, Mark("turn/end"))
<1>1. l \o <<Mark("step/end"), Mark("turn/end")>> = b
  <2>1. Mark("step/end") \in Event /\ Mark("turn/end") \in Event
    BY Made DEF Types
  <2> QED BY <2>1
<1>2. a \in Seq(Event) /\ Well(a) /\ Open(a) = {}
  BY EndOne
<1> HIDE DEF a
<1>3. b \in Seq(Event) /\ Well(b) /\ ~TurnOpen(b)
  BY <1>2, TurnBounds
<1> QED BY <1>1, <1>3

\* After everything pending is answered.
LEMMA Settles ==
    ASSUME NEW l \in Seq(Event), Well(l), StepOpen(l), NEW s \in Seq(Event),
           AnswersAll(s, PendingCalls(l))
    PROVE  LET m == l \o s \o <<Mark("step/end"), Mark("turn/end")>>
           IN  m \in Seq(Event) /\ Well(m) /\ ~TurnOpen(m)
<1> DEFINE m == l \o s
<1>1. m \in Seq(Event) /\ Well(m) /\ StepOpen(m) /\ PendingCalls(m) = {}
  BY Answering
<1> HIDE DEF m
<1>2. LET n == m \o <<Mark("step/end"), Mark("turn/end")>>
      IN  n \in Seq(Event) /\ Well(n) /\ ~TurnOpen(n)
  BY <1>1, EndBoth
<1> QED BY <1>2 DEF m

\* The closers leave a log without an open turn.
LEMMA Closing ==
    ASSUME NEW l \in Seq(Event), Well(l)
    PROVE  LET m == l \o Closers(l) IN m \in Seq(Event) /\ Well(m) /\ ~TurnOpen(m)
<1>1. CASE ~TurnOpen(l)
  <2>1. Closers(l) = << >>
    BY <1>1 DEF Closers
  <2>2. l \o << >> = l
    OBVIOUS
  <2> QED BY <1>1, <2>1, <2>2
<1>2. CASE TurnOpen(l) /\ StepOpen(l)
  <2>1. Closers(l) = Results(l) \o <<Mark("step/end"), Mark("turn/end")>>
    BY <1>2 DEF Closers, Endings
  <2>2. Results(l) \in Seq(Event) /\ AnswersAll(Results(l), PendingCalls(l))
    BY ResultsAnswer
  <2>3. <<Mark("step/end"), Mark("turn/end")>> \in Seq(Event)
    BY Made DEF Types
  <2>4. l \o Closers(l) = l \o Results(l) \o <<Mark("step/end"), Mark("turn/end")>>
    BY <2>1, <2>2, <2>3, ConcatAssociative
  <2> QED BY <1>2, <2>2, <2>4, Settles
<1>3. CASE TurnOpen(l) /\ ~StepOpen(l)
  <2>1. Open(l) = {}
    BY <1>3, OpenIsInside
  <2>2. PendingCalls(l) = {}
    BY <2>1 DEF PendingCalls, CallsOf
  <2>3. Results(l) \in Seq(Event) /\ Len(Results(l)) = 0
    <3>1. Cardinality({}) = 0
      BY FS_EmptySet
    <3> QED BY <2>2, <3>1, ResultsAnswer DEF Results
  <2>4. Mark("turn/end") \in Event
    BY Made DEF Types
  <2>5. Closers(l) = << >> \o <<Mark("turn/end")>>
    BY <1>3, <2>3, EmptySeq DEF Closers, Endings
  <2>6. l \o Closers(l) = Append(l, Mark("turn/end"))
    BY <2>4, <2>5
  <2> QED BY <2>1, <2>6, TurnBounds
<1> QED BY <1>1, <1>2, <1>3

-----------------------------------------------------------------------------
(* What such a log promises.                                               *)

\* A step closes where its message is answered.
LEMMA ClosedAsks ==
    ASSUME NEW l \in Seq(Event), Well(l), NEW i \in DOMAIN l, NEW u \in DOMAIN l,
           l[i].type \notin Boundary, ClosedAt(l, i, u)
    PROVE  i \in 1 .. u - 1 /\ u \in 1 .. Len(l) /\ Quiet(l, i, u - 1)
<1>1. Len(l) \in Nat /\ DOMAIN l = 1 .. Len(l)
  BY Domain
<1>2. Enclosed(l, i)
  BY DEF Well
<1>3. i < u /\ Is(l, u, "step/end") /\ \A k \in i .. u - 1 : ~Is(l, k, "step/end")
  BY DEF ClosedAt
<1>4. ~Quiet(l, i, Len(l))
  BY <1>1, <1>3 DEF Quiet, Is, Boundary
<1>5. PICK v \in i + 1 .. Len(l) : Is(l, v, "step/end") /\ Quiet(l, i, v - 1)
  BY <1>2, <1>4 DEF Enclosed
<1>6. ~(v < u)
  BY <1>1, <1>3, <1>5
<1>7. ~(u < v)
  BY <1>1, <1>3, <1>5 DEF Quiet, Is, Boundary
<1>8. u = v
  BY <1>1, <1>5, <1>6, <1>7
<1> QED BY <1>1, <1>3, <1>5, <1>8

LEMMA WellAnswered == ASSUME NEW l \in Seq(Event), Well(l) PROVE Answered(l)
<1>1. Len(l) \in Nat /\ DOMAIN l = 1 .. Len(l)
  BY Domain
<1> SUFFICES ASSUME NEW i \in DOMAIN l, NEW u \in DOMAIN l,
                    Is(l, i, "assistant/message"), ClosedAt(l, i, u)
             PROVE  LET results == {j \in i .. u : Is(l, j, "tool/result")}
                    IN  /\ \A j \in results : \E c \in l[i].calls : l[j].calls = {c}
                        /\ \A c \in l[i].calls : \E j \in results : l[j].calls = {c}
                        /\ \A j, k \in results :
                              j < k => \A c \in l[j].calls, d \in l[k].calls : c < d
  BY DEF Answered
<1> DEFINE results == {j \in i .. u : Is(l, j, "tool/result")}
<1>2. i \in 1 .. u - 1 /\ u \in 1 .. Len(l) /\ Quiet(l, i, u - 1)
  BY ClosedAsks DEF Is, Boundary
<1>3. Asks(l, i, u) /\ Is(l, u, "step/end")
  BY <1>2 DEF Asks, ClosedAt
<1>4. \A c \in l[i].calls : Told(l, i, u, c)
  BY <1>1, <1>2, <1>3 DEF Well, Placed
<1>5. ASSUME NEW c \in l[i].calls PROVE \E j \in results : l[j].calls = {c}
  <2>1. PICK j \in i .. u - 1 : Is(l, j, "tool/result") /\ l[j].calls = {c}
    BY <1>4 DEF Told
  <2> QED BY <1>2, <2>1
<1>6. ASSUME NEW j \in results
      PROVE  /\ i \in 1 .. j - 1 /\ j \in 1 .. u - 1
             /\ \E c \in l[i].calls : /\ l[j].calls = {c} /\ ~Told(l, i, j, c)
                                      /\ \A d \in l[i].calls : d < c => Told(l, i, j, d)
  <2>1. j # i /\ j # u /\ Is(l, j, "tool/result")
    BY <1>3, <1>6 DEF Is
  <2>2. i \in 1 .. j - 1 /\ j \in 1 .. u - 1 /\ j \in DOMAIN l
    BY <1>1, <1>2, <2>1
  <2>3. PICK h \in 1 .. j - 1 : Asks(l, h, j) /\
            \E c \in l[h].calls : /\ l[j].calls = {c} /\ ~Told(l, h, j, c)
                                  /\ \A d \in l[h].calls : d < c => Told(l, h, j, d)
    BY <2>1, <2>2 DEF Well, Placed, Turns
  <2>4. ~(h < i)
    <3> SUFFICES ASSUME h < i PROVE FALSE
      OBVIOUS
    <3>1. h \in 1 .. i - 1 /\ Asks(l, h, i)
      BY <2>2, <2>3 DEF Asks, Quiet
    <3> QED BY <3>1 DEF Well, Placed
  <2>5. ~(i < h)
    <3> SUFFICES ASSUME i < h PROVE FALSE
      OBVIOUS
    <3>1. i \in 1 .. h - 1 /\ Asks(l, i, h) /\ h \in DOMAIN l /\ Is(l, h, "assistant/message")
      BY <1>1, <1>2, <2>2, <2>3 DEF Asks, Quiet
    <3> QED BY <3>1 DEF Well, Placed
  <2>6. h = i
    BY <2>2, <2>3, <2>4, <2>5
  <2> QED BY <2>2, <2>3, <2>6
<1>7. ASSUME NEW j \in results, NEW k \in results, j < k,
             NEW c \in l[j].calls, NEW d \in l[k].calls
      PROVE  c < d
  <2>1. l[j].calls = {c} /\ c \in l[i].calls /\ \A e \in l[i].calls : e < c => Told(l, i, j, e)
    BY <1>6
  <2>2. d \in l[i].calls /\ ~Told(l, i, k, d)
    BY <1>6
  <2>3. j \in i .. k - 1 /\ \A n \in i .. j - 1 : n \in i .. k - 1
    BY <1>6, <1>7
  <2>4. Told(l, i, k, c)
    BY <2>1, <2>3, <1>7 DEF Told
  <2>5. Told(l, i, j, d) => Told(l, i, k, d)
    BY <2>3 DEF Told
  <2>6. c # d /\ ~(d < c)
    BY <2>1, <2>2, <2>4, <2>5
  <2>7. l[i].calls \subseteq Nat
    BY <1>1, EventTypes, ElementOfSeq
  <2> QED BY <2>1, <2>2, <2>6, <2>7
<1> QED BY <1>5, <1>6, <1>7

\* With its turns closed it is whole.
LEMMA WellBalanced == ASSUME NEW l \in Seq(Event), Well(l), ~TurnOpen(l) PROVE Balanced(l)
<1>1. Len(l) \in Nat /\ DOMAIN l = 1 .. Len(l)
  BY Domain
<1>2. ASSUME NEW i \in DOMAIN l, Is(l, i, "step/start")
      PROVE  \E j \in i .. Len(l) : Is(l, j, "step/end") /\ \A k \in i .. j : ~Is(l, k, "turn/end")
  <2>1. Enclosed(l, i)
    BY <1>2 DEF Well, Is, Boundary
  <2>2. i \notin Open(l)
    BY OpenIsInside
  <2>3. ~Quiet(l, i, Len(l))
    BY <2>2 DEF Open, Quiet
  <2>4. PICK u \in i + 1 .. Len(l) : Is(l, u, "step/end") /\ Quiet(l, i, u - 1)
    BY <2>1, <2>3 DEF Enclosed
  <2>5. \A k \in i .. u - 1 : ~Is(l, k, "turn/end")
    BY <2>4 DEF Quiet, Is, Boundary
  <2>6. ~Is(l, u, "turn/end")
    BY <2>4 DEF Is
  <2>7. \A k \in i .. u : k = u \/ k \in i .. u - 1
    BY <1>1, <2>4
  <2>8. u \in i .. Len(l)
    BY <1>1, <2>4
  <2> QED BY <2>4, <2>5, <2>6, <2>7, <2>8
<1> QED BY <1>2, WellAnswered DEF Balanced

-----------------------------------------------------------------------------
(* The driver and the log.                                                 *)

\* What the driver's stage says of the end of the log.
StageOK ==
    /\ stage \in {"idle", "repair"} => ~TurnOpen(log)
    /\ stage = "prestep" => TurnOpen(log) /\ Open(log) = {}
    /\ stage \in {"request", "stream"} =>
           StepOpen(log) /\ \A i \in Open(log) : ~Is(log, i, "assistant/message")
    /\ stage = "tools" =>
           /\ \E i \in Open(log) : Is(log, i, "assistant/message")
           /\ CallsOf(log, "assistant/message") = {c \in Call : slot[c] # "none"}
           /\ CallsOf(log, "tool/result") = {c \in Call : slot[c] = "committed"}
           /\ \A c, d \in Call : c < d =>
                 /\ slot[c] = "requested" => slot[d] \in {"none", "requested"}
                 /\ slot[d] = "committed" => slot[c] \in {"none", "committed"}

Whole == Well(log) /\ StageOK

\* A log whose turn is closed has no open step.
LEMMA NothingOpen == ASSUME NEW l \in Seq(Event), Well(l), ~TurnOpen(l) PROVE Open(l) = {}
BY OpenIsInside

\* A step without a message has nothing pending.
LEMMA NothingPending ==
    ASSUME NEW l \in Seq(Event), Well(l), \A i \in Open(l) : ~Is(l, i, "assistant/message")
    PROVE  /\ CallsOf(l, "assistant/message") = {} /\ CallsOf(l, "tool/result") = {}
           /\ PendingCalls(l) = {} /\ \A i \in 1 .. Len(l) : ~Asks(l, i, Len(l) + 1)
<1>1. CallsOf(l, "assistant/message") = {}
  BY DEF CallsOf
<1>2. CallsOf(l, "tool/result") = {}
  BY <1>1, OpenCalls
<1>3. \A i \in 1 .. Len(l) : ~Asks(l, i, Len(l) + 1)
  BY OpenAsks
<1> QED BY <1>1, <1>2, <1>3 DEF PendingCalls

LEMMA InitWhole == Init => Whole
<1> SUFFICES ASSUME Init PROVE Whole
  OBVIOUS
<1>1. log = << >> /\ stage = "idle"
  BY DEF Init
<1>2. DOMAIN log = {}
  BY <1>1
<1>3. Well(log) /\ ~TurnOpen(log)
  BY <1>2 DEF Well, TurnOpen
<1> QED BY <1>1, <1>3 DEF Whole, StageOK

\* Steps that leave the log and the slots alone.
LEMMA StaysWhole ==
    ASSUME Whole, UNCHANGED <<log, slot>>,
           stage' = stage \/ (stage \in {"request", "stream"} /\ stage' \in {"request", "stream"})
    PROVE  Whole'
<1>1. Well(log')
  BY DEF Whole
<1>2. StageOK'
  BY DEF Whole, StageOK
<1> QED BY <1>1, <1>2 DEF Whole

LEMMA TurnWhole ==
    ASSUME Inv, Whole, StartTurn \/ EnterStep \/ EndTurn \/ SendRequest \/ RetryRequest
    PROVE  Whole'
<1>1. log \in Seq(Event) /\ Well(log)
  BY DEF Inv, TypeOK, Whole
<1>2. CASE StartTurn
  <2>1. log' = Append(log, Mark("turn/start")) /\ stage' = "prestep" /\ ~TurnOpen(log)
    BY <1>2 DEF StartTurn, Whole, StageOK
  <2>2. Well(log') /\ TurnOpen(log') /\ Open(log') = {}
    BY <1>1, <2>1, NothingOpen, TurnBounds
  <2> QED BY <2>1, <2>2 DEF Whole, StageOK
<1>3. CASE EnterStep
  <2>1. /\ log' = Append(log, Mark("step/start")) /\ stage' = "request"
        /\ TurnOpen(log) /\ Open(log) = {}
    BY <1>3 DEF EnterStep, Whole, StageOK
  <2>2. Well(log') /\ StepOpen(log') /\ \A i \in Open(log') : ~Is(log', i, "assistant/message")
    BY <1>1, <2>1, StepStarts
  <2> QED BY <2>1, <2>2 DEF Whole, StageOK
<1>4. CASE EndTurn
  <2>1. log' = Append(log, Mark("turn/end")) /\ stage' = "idle" /\ Open(log) = {}
    BY <1>4 DEF EndTurn, Whole, StageOK
  <2>2. Well(log') /\ ~TurnOpen(log')
    BY <1>1, <2>1, TurnBounds
  <2> QED BY <2>1, <2>2 DEF Whole, StageOK
<1>5. CASE SendRequest
  BY <1>5, StaysWhole DEF SendRequest
<1>6. CASE RetryRequest
  BY <1>6, StaysWhole DEF RetryRequest
<1> QED BY <1>2, <1>3, <1>4, <1>5, <1>6

\* A message without calls, in a step without a message.
LEMMA PlainMessage ==
    ASSUME NEW l \in Seq(Event), Well(l), StepOpen(l),
           \A i \in Open(l) : ~Is(l, i, "assistant/message")
    PROVE  LET m == Append(l, Message({}))
           IN  m \in Seq(Event) /\ Well(m) /\ StepOpen(m) /\ PendingCalls(m) = {}
<1>1. /\ Message({}) \in Event /\ Message({}).type = "assistant/message"
      /\ Message({}).calls = {}
  BY Made DEF Message
<1>2. "assistant/message" \notin Boundary
  BY DEF Boundary
<1> DEFINE e == Message({})
           m == Append(l, e)
<1> HIDE DEF e
<1>3. m \in Seq(Event) /\ Well(m) /\ StepOpen(m)
  BY <1>1, <1>2, AddOne, NothingPending DEF e
<1>6. e \in Event /\ e.type = "assistant/message" /\ e.type \notin Boundary /\ e.calls = {}
  BY <1>1, <1>2 DEF e
<1>4. CallsOf(m, "assistant/message") = CallsOf(l, "assistant/message") \cup e.calls
  BY <1>6, CallsAppend
<1>5. CallsOf(m, "assistant/message") = {}
  BY <1>4, <1>6, NothingPending
<1> QED BY <1>3, <1>5 DEF PendingCalls, e

LEMMA AnswerWhole == ASSUME Inv, Whole, Answer \/ FailRequest PROVE Whole'
<1>1. log \in Seq(Event) /\ Well(log)
  BY DEF Inv, TypeOK, Whole
<1>2. StepOpen(log) /\ \A i \in Open(log) : ~Is(log, i, "assistant/message")
  BY DEF Whole, StageOK, Answer, FailRequest
<1> DEFINE m == Append(log, Message({}))
<1>3. m \in Seq(Event) /\ Well(m) /\ StepOpen(m) /\ PendingCalls(m) = {}
  BY <1>1, <1>2, PlainMessage
<1>4. /\ Message({}) \in Event /\ Mark("step/end") \in Event /\ Mark("turn/end") \in Event
  BY Made DEF Types
<1>5. CASE Answer
  <2>1. log' = log \o <<Message({}), Mark("step/end")>> /\ stage' = "prestep"
    BY <1>5 DEF Answer
  <2>2. log \o <<Message({}), Mark("step/end")>> = Append(m, Mark("step/end"))
    BY <1>1, <1>4
  <2> HIDE DEF m
  <2>3. Well(log') /\ TurnOpen(log') /\ Open(log') = {}
    BY <1>3, <2>1, <2>2, EndOne
  <2> QED BY <2>1, <2>3 DEF Whole, StageOK
<1>6. CASE FailRequest
  <2>1. PICK kept \in {<< >>, <<Message({})>>} :
            log' = log \o kept \o <<Mark("step/end"), Mark("turn/end")>>
    BY <1>6 DEF FailRequest, Interrupted
  <2>2. stage' = "idle"
    BY <1>6 DEF FailRequest
  <2>3. log \o << >> = log /\ log \o <<Message({})>> = m
    BY <1>1, <1>4
  <2>4. PendingCalls(log) = {}
    BY <1>1, <1>2, NothingPending
  <2> HIDE DEF m
  <2>5. Well(log') /\ ~TurnOpen(log')
    BY <1>1, <1>2, <1>3, <2>1, <2>3, <2>4, EndBoth
  <2> QED BY <2>2, <2>5 DEF Whole, StageOK
<1> QED BY <1>5, <1>6

LEMMA RequestToolsWhole == ASSUME Inv, Whole, NEW n \in 1 .. MaxCalls, RequestTools(n) PROVE Whole'
<1> DEFINE calls == nextCall .. nextCall + n - 1
           e == Message(calls)
<1>1. log \in Seq(Event) /\ Well(log)
  BY DEF Inv, TypeOK, Whole
<1>2. StepOpen(log) /\ \A i \in Open(log) : ~Is(log, i, "assistant/message")
  BY DEF Whole, StageOK, RequestTools
<1>3. /\ log' = Append(log, e) /\ stage' = "tools"
      /\ slot' = [c \in Call |-> IF c \in calls THEN "requested" ELSE "none"]
  BY DEF RequestTools
<1>4. calls \in SUBSET Call
  BY RecoveryAssumption DEF Inv, TypeOK, RequestTools, Call
<1> HIDE DEF calls
<1>5. e \in Event /\ e.type = "assistant/message" /\ e.type \notin Boundary /\ e.calls = calls
  BY <1>4, Made DEF Message, Boundary
<1> HIDE DEF e
<1>6. /\ CallsOf(log, "assistant/message") = {} /\ CallsOf(log, "tool/result") = {}
      /\ \A i \in 1 .. Len(log) : ~Asks(log, i, Len(log) + 1)
  BY <1>1, <1>2, NothingPending
<1>7. log' \in Seq(Event) /\ Well(log')
  BY <1>1, <1>2, <1>3, <1>5, <1>6, AddOne
<1>8. CallsOf(log', "assistant/message") = CallsOf(log, "assistant/message") \cup e.calls
  BY <1>1, <1>3, <1>5, CallsAppend
<1>9. CallsOf(log', "tool/result") = CallsOf(log, "tool/result") \cup {}
  BY <1>1, <1>3, <1>5, CallsAppend
<1>10. \E i \in Open(log') : Is(log', i, "assistant/message")
  <2>1. Len(log) + 1 \in Open(log') /\ log'[Len(log) + 1] = e
    BY <1>1, <1>3, <1>5, OpenAppend, AppendBegins
  <2> QED BY <1>5, <2>1 DEF Is
<1>11. \A c \in Call : slot'[c] = IF c \in calls THEN "requested" ELSE "none"
  BY <1>3
<1>12. CallsOf(log', "assistant/message") = {c \in Call : slot'[c] # "none"}
  BY <1>4, <1>5, <1>6, <1>8, <1>11
<1>13. CallsOf(log', "tool/result") = {c \in Call : slot'[c] = "committed"}
  BY <1>6, <1>9, <1>11
<1>14. ASSUME NEW c \in Call, NEW d \in Call, c < d
       PROVE  /\ slot'[c] = "requested" => slot'[d] \in {"none", "requested"}
              /\ slot'[d] = "committed" => slot'[c] \in {"none", "committed"}
  BY <1>11
<1> QED BY <1>3, <1>7, <1>10, <1>12, <1>13, <1>14 DEF Whole, StageOK

\* A call that was started and is not committed moves on.
LEMMA SlotWhole ==
    ASSUME Inv, Whole, UNCHANGED <<log, stage>>, NEW c \in Call, NEW s \in Slots,
           slot' = [slot EXCEPT ![c] = s],
           slot[c] \notin {"none", "requested", "committed"},
           s \notin {"none", "requested", "committed"}
    PROVE  Whole'
<1>1. Well(log')
  BY DEF Whole
<1>2. slot \in [Call -> Slots] /\ \A d \in Call : slot'[d] = IF d = c THEN s ELSE slot[d]
  BY DEF Inv, TypeOK
<1>3. /\ {d \in Call : slot'[d] # "none"} = {d \in Call : slot[d] # "none"}
      /\ {d \in Call : slot'[d] = "committed"} = {d \in Call : slot[d] = "committed"}
  BY <1>2
<1>4. ASSUME stage = "tools", NEW a \in Call, NEW b \in Call, a < b
      PROVE  /\ slot'[a] = "requested" => slot'[b] \in {"none", "requested"}
             /\ slot'[b] = "committed" => slot'[a] \in {"none", "committed"}
  <2>1. /\ slot[a] = "requested" => slot[b] \in {"none", "requested"}
        /\ slot[b] = "committed" => slot[a] \in {"none", "committed"}
    BY <1>4 DEF Whole, StageOK
  <2> QED BY <1>2, <2>1
<1>5. StageOK'
  BY <1>3, <1>4 DEF Whole, StageOK
<1> QED BY <1>1, <1>5 DEF Whole

LEMMA StartCallWhole == ASSUME Inv, Whole, NEW c \in Call, StartCall(c) PROVE Whole'
<1> DEFINE e == Called({c})
<1>1. log \in Seq(Event) /\ Well(log) /\ slot \in [Call -> Slots]
  BY DEF Inv, TypeOK, Whole
<1>2. /\ stage = "tools" /\ stage' = "tools" /\ log' = Append(log, e)
      /\ slot[c] = "requested" /\ slot' = [slot EXCEPT ![c] = "called"]
      /\ \A d \in Call : d < c => slot[d] \notin {"requested", "called"}
  BY DEF StartCall, First
<1>3. e \in Event /\ e.type = "tool/call" /\ e.type \notin Boundary
  BY Made DEF Boundary
<1> HIDE DEF e
<1>4. PICK i \in Open(log) : Is(log, i, "assistant/message")
  BY <1>2 DEF Whole, StageOK
<1>5. Well(log')
  BY <1>1, <1>2, <1>3, <1>4, OpenIsInside, AddOne
<1>6. /\ CallsOf(log', "assistant/message") = CallsOf(log, "assistant/message") \cup {}
      /\ CallsOf(log', "tool/result") = CallsOf(log, "tool/result") \cup {}
  <2>1. \A type : CallsOf(log', type) = CallsOf(log, type) \cup (IF e.type = type THEN e.calls ELSE {})
    BY <1>1, <1>2, <1>3, CallsAppend
  <2> QED BY <1>3, <2>1
<1>7. \A d \in Call : slot'[d] = IF d = c THEN "called" ELSE slot[d]
  BY <1>1, <1>2
<1>8. /\ {d \in Call : slot'[d] # "none"} = {d \in Call : slot[d] # "none"}
      /\ {d \in Call : slot'[d] = "committed"} = {d \in Call : slot[d] = "committed"}
  BY <1>2, <1>7
<1>9. /\ CallsOf(log', "assistant/message") = {d \in Call : slot'[d] # "none"}
      /\ CallsOf(log', "tool/result") = {d \in Call : slot'[d] = "committed"}
  BY <1>2, <1>6, <1>8 DEF Whole, StageOK
<1>10. ASSUME NEW a \in Call, NEW b \in Call, a < b
       PROVE  /\ slot'[a] = "requested" => slot'[b] \in {"none", "requested"}
              /\ slot'[b] = "committed" => slot'[a] \in {"none", "committed"}
  <2>1. /\ slot[a] = "requested" => slot[b] \in {"none", "requested"}
        /\ slot[b] = "committed" => slot[a] \in {"none", "committed"}
    BY <1>2, <1>10 DEF Whole, StageOK
  <2> QED BY <1>2, <1>7, <1>10, <2>1
<1>11. \E k \in Open(log') : Is(log', k, "assistant/message")
  <2>1. i \in Open(log')
    BY <1>1, <1>2, <1>3, <1>4, OpenAppend
  <2>2. log'[i] = log[i]
    BY <1>1, <1>2, <1>3, <1>4, AppendBegins, Domain DEF Begins, Open
  <2> QED BY <1>4, <2>1, <2>2 DEF Is
<1> QED BY <1>2, <1>5, <1>9, <1>10, <1>11 DEF Whole, StageOK

LEMMA CommitWhole == ASSUME Inv, Whole, NEW c \in Call, Commit(c) PROVE Whole'
<1> DEFINE e == Result({c}, slot[c])
<1>1. log \in Seq(Event) /\ Well(log) /\ slot \in [Call -> Slots]
  BY DEF Inv, TypeOK, Whole
<1>2. /\ stage = "tools" /\ stage' = "tools" /\ log' = Append(log, e)
      /\ slot[c] \in {"ran", "refused"} /\ slot' = [slot EXCEPT ![c] = "committed"]
      /\ \A d \in Call : d < c => slot[d] \in {"none", "committed"}
  BY <1>1 DEF Commit, Commits, First
<1>3. e \in Event /\ e.type = "tool/result" /\ e.type \notin Boundary /\ e.calls = {c}
  <2>1. slot[c] \in Outcomes /\ {c} \in SUBSET Call
    BY <1>2 DEF Outcomes
  <2> QED BY <2>1, Made DEF Boundary, Result
<1> HIDE DEF e
<1>4. PICK i \in Open(log) : Is(log, i, "assistant/message")
  BY <1>2 DEF Whole, StageOK
<1>5. /\ CallsOf(log, "assistant/message") = {d \in Call : slot[d] # "none"}
      /\ CallsOf(log, "tool/result") = {d \in Call : slot[d] = "committed"}
  BY <1>2 DEF Whole, StageOK
<1>6. c \in PendingCalls(log) /\ \A d \in PendingCalls(log) : ~(d < c)
  BY <1>2, <1>5 DEF PendingCalls
<1>7. Well(log')
  BY <1>1, <1>2, <1>3, <1>4, <1>6, OpenIsInside, AddOne
<1>8. /\ CallsOf(log', "assistant/message") = CallsOf(log, "assistant/message") \cup {}
      /\ CallsOf(log', "tool/result") = CallsOf(log, "tool/result") \cup {c}
  <2>1. \A type : CallsOf(log', type) = CallsOf(log, type) \cup (IF e.type = type THEN e.calls ELSE {})
    BY <1>1, <1>2, <1>3, CallsAppend
  <2> QED BY <1>3, <2>1
<1>9. \A d \in Call : slot'[d] = IF d = c THEN "committed" ELSE slot[d]
  BY <1>1, <1>2
<1>10. /\ {d \in Call : slot'[d] # "none"} = {d \in Call : slot[d] # "none"}
       /\ {d \in Call : slot'[d] = "committed"} = {d \in Call : slot[d] = "committed"} \cup {c}
  BY <1>2, <1>9
<1>11. /\ CallsOf(log', "assistant/message") = {d \in Call : slot'[d] # "none"}
       /\ CallsOf(log', "tool/result") = {d \in Call : slot'[d] = "committed"}
  BY <1>5, <1>8, <1>10
<1>12. ASSUME NEW a \in Call, NEW b \in Call, a < b
       PROVE  /\ slot'[a] = "requested" => slot'[b] \in {"none", "requested"}
              /\ slot'[b] = "committed" => slot'[a] \in {"none", "committed"}
  <2>1. /\ slot[a] = "requested" => slot[b] \in {"none", "requested"}
        /\ slot[b] = "committed" => slot[a] \in {"none", "committed"}
    BY <1>2, <1>12 DEF Whole, StageOK
  <2> QED BY <1>2, <1>9, <1>12, <2>1
<1>13. \E k \in Open(log') : Is(log', k, "assistant/message")
  <2>1. i \in Open(log')
    BY <1>1, <1>2, <1>3, <1>4, OpenAppend
  <2>2. log'[i] = log[i]
    BY <1>1, <1>2, <1>3, <1>4, AppendBegins, Domain DEF Begins, Open
  <2> QED BY <1>4, <2>1, <2>2 DEF Is
<1> QED BY <1>2, <1>7, <1>11, <1>12, <1>13 DEF Whole, StageOK

LEMMA ToolsWhole == ASSUME Inv, Whole, NEW c \in Call, Tools(c) PROVE Whole'
<1>1. slot \in [Call -> Slots]
  BY DEF Inv, TypeOK
<1>2. CASE Prepare(c)
  BY <1>1, <1>2, SlotWhole DEF Prepare, Slots
<1>3. CASE Dispatch(c)
  BY <1>1, <1>3, SlotWhole DEF Dispatch, CallFlushed, Slots
<1>4. CASE CheckpointFails(c)
  BY <1>1, <1>4, SlotWhole DEF CheckpointFails, Slots
<1>5. CASE Finish(c)
  BY <1>1, <1>5, SlotWhole DEF Finish, Slots
<1> QED BY <1>2, <1>3, <1>4, <1>5, StartCallWhole, CommitWhole DEF Tools

\* The end of a step: of its calls, by an abort, or by a recovery.
LEMMA StepWhole == ASSUME Inv, Whole, Step PROVE Whole'
<1>1. log \in Seq(Event) /\ Well(log) /\ slot \in [Call -> Slots]
  BY DEF Inv, TypeOK, Whole
<1>2. /\ stage = "tools" /\ \E i \in Open(log) : Is(log, i, "assistant/message")
      /\ CallsOf(log, "assistant/message") = {d \in Call : slot[d] # "none"}
      /\ CallsOf(log, "tool/result") = {d \in Call : slot[d] = "committed"}
  BY DEF Whole, StageOK, Step, EndStep, EndAborted, RecoverStep
<1>3. StepOpen(log)
  BY <1>1, <1>2, OpenIsInside
<1>4. PendingCalls(log) = {d \in Call : slot[d] \notin {"none", "committed"}}
  BY <1>2 DEF PendingCalls
<1>5. CASE EndStep
  <2>1. log' = Append(log, Mark("step/end")) /\ stage' = "prestep" /\ PendingCalls(log) = {}
    BY <1>4, <1>5 DEF EndStep
  <2>2. Well(log') /\ TurnOpen(log') /\ Open(log') = {}
    BY <1>1, <1>3, <2>1, EndOne
  <2> QED BY <2>1, <2>2 DEF Whole, StageOK
<1>6. CASE EndAborted
  <2>1. /\ log' = log \o SkippedPairs \o <<Mark("step/end"), Mark("turn/end")>>
        /\ stage' = "idle" /\ PendingCalls(log) = Skipped
    BY <1>1, <1>4, <1>6 DEF EndAborted, Skipped
  <2>2. Well(log') /\ ~TurnOpen(log')
    BY <1>1, <1>3, <2>1, SkippedAnswer, Settles
  <2> QED BY <2>1, <2>2 DEF Whole, StageOK
<1>7. CASE RecoverStep
  <2>1. /\ log' = log \o Results(log) \o <<Mark("step/end"), Mark("turn/end")>>
        /\ stage' = "idle"
    BY <1>7 DEF RecoverStep
  <2>2. Well(log') /\ ~TurnOpen(log')
    BY <1>1, <1>3, <2>1, ResultsAnswer, Settles
  <2> QED BY <2>1, <2>2 DEF Whole, StageOK
<1> QED BY <1>5, <1>6, <1>7 DEF Step

\* A crash leaves a beginning of the log, and a resume closes it.
LEMMA CrashWhole == ASSUME Inv, Whole, Crash \/ Resume \/ Publish PROVE Whole'
<1>1. log \in Seq(Event) /\ Well(log) /\ durable \in 0 .. Len(log)
  BY DEF Inv, TypeOK, Whole
<1>2. CASE Crash
  <2>1. log' = SubSeq(log, 1, durable) /\ stage' = "down"
    BY <1>2 DEF Crash, Stored
  <2>2. Well(log')
    BY <1>1, <2>1, WellCut
  <2> QED BY <2>1, <2>2 DEF Whole, StageOK
<1>3. CASE Resume
  <2>1. log' = log \o Closers(log) /\ stage' \in {"idle", "repair"}
    BY <1>3 DEF Resume
  <2>2. Well(log') /\ ~TurnOpen(log')
    BY <1>1, <2>1, Closing
  <2> QED BY <2>1, <2>2 DEF Whole, StageOK
<1>4. CASE Publish
  <2>1. log' = log /\ slot' = slot /\ stage = "repair" /\ stage' = "idle"
    BY <1>4 DEF Publish
  <2>2. Well(log') /\ ~TurnOpen(log')
    BY <2>1 DEF Whole, StageOK
  <2> QED BY <2>1, <2>2 DEF Whole, StageOK
<1> QED BY <1>2, <1>3, <1>4

LEMMA NextWhole == Inv /\ Whole /\ [Next]_vars => Whole'
<1> SUFFICES ASSUME Inv, Whole, [Next]_vars PROVE Whole'
  OBVIOUS
<1>1. CASE Turn
  BY <1>1, TurnWhole, AnswerWhole, RequestToolsWhole DEF Turn
<1>2. CASE Abort \/ SchedulerFails \/ UNCHANGED vars
  BY <1>2, StaysWhole DEF Abort, SchedulerFails, vars
<1>3. CASE \E n \in 1 .. Len(log) : Persist(n)
  BY <1>3, StaysWhole DEF Persist
<1>4. CASE \E c \in Call : Tools(c)
  BY <1>4, ToolsWhole
<1>5. CASE Step
  BY <1>5, StepWhole
<1>6. CASE Crash \/ Resume \/ Publish
  BY <1>6, CrashWhole
<1> QED BY <1>1, <1>2, <1>3, <1>4, <1>5, <1>6 DEF Next

LEMMA StaysWellFormed == Spec => [](Inv /\ Whole)
<1>1. Init => Inv /\ Whole
  BY InitInv, InitWhole
<1>2. (Inv /\ Whole) /\ [Next]_vars => (Inv /\ Whole)'
  BY NextInv, NextWhole
<1> QED BY <1>1, <1>2, PTL DEF Spec

-----------------------------------------------------------------------------
(* The theorems.                                                           *)

\* AnsweredOnce: once its step is closed every call of a message has exactly one result,
\* in the order of the message, over aborts, failures and crashes.
THEOREM EveryCallAnswered == Spec => []AnsweredOnce
<1>1. Inv /\ Whole => AnsweredOnce
  BY WellAnswered DEF Inv, TypeOK, Whole, AnsweredOnce
<1> QED BY <1>1, StaysWellFormed, PTL

\* RepairCompletes: the closers make the log whole wherever a crash or a fork cuts it.
THEOREM RepairAlwaysCompletes == Spec => []RepairCompletes
<1>1. ASSUME Inv, Whole PROVE RepairCompletes
  <2> SUFFICES ASSUME NEW n \in 0 .. Len(log)
               PROVE  Balanced(SubSeq(log, 1, n) \o Closers(SubSeq(log, 1, n)))
    BY DEF RepairCompletes
  <2> DEFINE cut == SubSeq(log, 1, n)
  <2>1. cut \in Seq(Event) /\ Well(cut)
    <3>1. log \in Seq(Event) /\ Well(log)
      BY <1>1 DEF Inv, TypeOK, Whole
    <3> QED BY <3>1, WellCut
  <2> HIDE DEF cut
  <2>2. LET m == cut \o Closers(cut) IN m \in Seq(Event) /\ Well(m) /\ ~TurnOpen(m)
    BY <2>1, Closing
  <2>3. Balanced(cut \o Closers(cut))
    BY <2>2, WellBalanced
  <2> QED BY <2>3 DEF cut
<1> QED BY <1>1, StaysWellFormed, PTL
=============================================================================
