-------------------------- MODULE JobRegistryProofs --------------------------
(***************************************************************************)
(* Proofs about the job registry: the admission limit, that a disposed     *)
(* agent leaves no job behind, that its session hears of each job once,    *)
(* and that the registry keeps the contract of the Service Definition.     *)
(***************************************************************************)
EXTENDS JobRegistry, FiniteSetTheorems, TLAPS

-----------------------------------------------------------------------------
(* The inductive invariant.                                                *)

\* TypeOK without its bound on notices, which follows from HeardOnce.
Types ==
    /\ status \in [Jobs -> {"unused"} \cup Active \cup Outcomes]
    /\ owner \in [Jobs -> {NoAgent} \cup Agents]
    /\ cause \in [Jobs -> {"none", "kill", "teardown"}]
    /\ listed \in SUBSET Jobs
    /\ result \in [Jobs -> {"pending", "taken"} \cup Outcomes]
    /\ waiting \in [Jobs -> 0 .. MaxWaits]
    /\ killedByModel \in SUBSET Jobs
    /\ life \in [Agents -> Lives] /\ current \in {NoAgent} \cup Agents
    /\ cleanups \in SUBSET Agents /\ swept \in [Agents -> SUBSET Jobs]
    /\ service \in {"up", "sweeping", "down"} /\ all \in SUBSET Jobs
    /\ announced \in [Jobs -> {"none", "producer", "kill", "teardown"}]
    /\ answered \in [Jobs -> BOOLEAN] /\ told \in SUBSET Jobs /\ notices \in [Jobs -> Nat]

\* The registered agent is the one that has begun and not ended; a cleanup on record has
\* not run.
AgentOK(a) ==
    /\ current = a <=> life[a] \notin {"unborn", "gone"}
    /\ a \in cleanups => life[a] \in {"live", "disposing"}

\* An owned record is in the hands of its owner's cleanup, attached or at work.
Kept(j) ==
    \/ life[owner[j]] \in {"live", "disposing"} /\ owner[j] \in cleanups
    \/ life[owner[j]] = "cleaning" /\ j \in swept[owner[j]]

\* A job has a record until it is terminal.
RecordOK(j) ==
    /\ status[j] = "unused" => j \notin listed /\ result[j] = "pending" /\ j \notin told
    /\ Live(j) => j \in listed
    /\ j \in listed /\ owner[j] # NoAgent => Kept(j)

\* What a settlement will read is what the model was told.
HeardOnce(j) ==
    /\ ~Terminal(j) => notices[j] = 0 /\ (j \in told <=> j \in killedByModel)
    /\ Terminal(j) =>
          notices[j] = IF owner[j] = NoAgent \/ announced[j] = "teardown" \/ answered[j]
                          \/ j \in told THEN 0 ELSE 1

\* The service's snapshot is everything there is.
ServiceOK == service # "up" => listed \subseteq all

Inv ==
    /\ Types /\ ServiceOK
    /\ \A a \in Agents : AgentOK(a)
    /\ \A j \in Jobs : RecordOK(j) /\ HeardOnce(j)

\* Agents are not the number that stands for none.
LEMMA AgentsAreNumbers == NoAgent \notin Agents /\ \A a \in Agents : a \in Nat
BY JobsAssumption DEF Agents, NoAgent

\* The states of a record exclude one another.
LEMMA StatusKinds ==
    ASSUME Types, NEW j \in Jobs
    PROVE  /\ status[j] = "unused" \/ Live(j) \/ Terminal(j)
           /\ ~(Live(j) /\ Terminal(j)) /\ (Live(j) \/ Terminal(j) => status[j] # "unused")
BY DEF Types, Live, Terminal, Active, Outcomes

\* A job that may still settle has its owner registered.
LEMMA OwnerRegistered ==
    ASSUME Inv, NEW j \in Jobs, Live(j), owner[j] # NoAgent
    PROVE  current # NoAgent
<1>1. owner[j] \in Agents /\ Kept(j)
  BY DEF Inv, Types, RecordOK
<1>2. current = owner[j]
  BY <1>1 DEF Inv, AgentOK, Kept
<1> QED BY <1>1, <1>2, AgentsAreNumbers

\* The limit holds when it held and no owner has one more active job.
LiveOf(o) == {j \in Jobs : owner[j] = o /\ Live(j)}

LEMMA LiveOfFinite == IsFiniteSet(Jobs) /\ \A o : IsFiniteSet(LiveOf(o))
BY JobsAssumption, FS_Subset DEF LiveOf

LEMMA LimitKept ==
    ASSUME WithinLimit, \A o \in {NoAgent} \cup Agents : LiveOf(o)' \subseteq LiveOf(o)
    PROVE  WithinLimit'
<1>1. ASSUME NEW o \in {NoAgent} \cup Agents PROVE Cardinality(LiveOf(o)') <= Limit
  <2>1. IsFiniteSet(LiveOf(o)) /\ LiveOf(o)' \subseteq LiveOf(o)
    BY LiveOfFinite
  <2>2. /\ Cardinality(LiveOf(o)') <= Cardinality(LiveOf(o))
        /\ Cardinality(LiveOf(o)') \in Nat /\ Cardinality(LiveOf(o)) \in Nat
    BY <2>1, FS_Subset, FS_CardinalityType
  <2>3. Cardinality(LiveOf(o)) <= Limit
    BY DEF WithinLimit, LiveOf
  <2> QED BY <2>2, <2>3, JobsAssumption
<1> QED BY <1>1 DEF WithinLimit, LiveOf

-----------------------------------------------------------------------------
(* Initial states.                                                         *)

LEMMA InitInv == Init => Inv
<1> SUFFICES ASSUME Init PROVE Inv
  OBVIOUS
<1> USE JobsAssumption, AgentsAreNumbers DEF Init
<1>1. Types
  BY DEF Types, Agents, Lives, Active, Outcomes, NoAgent
<1>2. ServiceOK
  BY DEF ServiceOK
<1>3. \A a \in Agents : AgentOK(a)
  BY DEF AgentOK, Agents
<1>4. \A j \in Jobs : RecordOK(j)
  BY DEF RecordOK, Live, Active
<1>5. \A j \in Jobs : HeardOnce(j)
  BY DEF HeardOnce, Terminal, Outcomes
<1> QED BY <1>1, <1>2, <1>3, <1>4, <1>5 DEF Inv

LEMMA InitLimit == Init => WithinLimit
<1> SUFFICES ASSUME Init, NEW o \in {NoAgent} \cup Agents PROVE Cardinality(LiveOf(o)) <= Limit
  BY DEF WithinLimit, LiveOf
<1>1. LiveOf(o) = {}
  BY DEF Init, LiveOf, Live, Active
<1> QED BY <1>1, FS_EmptySet, JobsAssumption

-----------------------------------------------------------------------------
(* Steps of callers and producers.                                         *)

LEMMA StartKeeps ==
    ASSUME Inv, NEW k \in Jobs, NEW o \in {NoAgent} \cup Agents, Start(k, o)
    PROVE  Inv'
<1> USE AgentsAreNumbers DEF Start, record, agents, report
<1>1. Types'
  BY DEF Inv, Types, Active
<1>2. ServiceOK'
  BY DEF ServiceOK
<1>3. o # NoAgent => o = current /\ o \in cleanups'
  BY DEF Owners
<1>4. ASSUME NEW a \in Agents PROVE AgentOK(a)'
  BY <1>3 DEF Inv, AgentOK, Owners, Types
<1>5. ASSUME NEW j \in Jobs PROVE RecordOK(j)' /\ HeardOnce(j)'
  <2>1. CASE j = k
    <3>1. status'[j] = "running" /\ owner'[j] = o /\ j \in listed'
      BY <2>1 DEF Inv, Types
    <3>2. o # NoAgent => Kept(j)'
      <4>1. o \in Agents => AgentOK(o)'
        BY <1>4
      <4> QED BY <1>3, <3>1, <4>1 DEF Kept, AgentOK
    <3>3. ~Terminal(j) /\ ~Terminal(j)'
      BY <2>1, <3>1 DEF Terminal, Outcomes
    <3> QED BY <2>1, <3>1, <3>2, <3>3 DEF Inv, RecordOK, HeardOnce, Live, Active
  <2>2. CASE j # k
    <3>1. status'[j] = status[j] /\ owner'[j] = owner[j] /\ (j \in listed' <=> j \in listed)
      BY <2>2 DEF Inv, Types
    <3>2. Kept(j) => Kept(j)'
      BY <3>1 DEF Kept
    <3> QED BY <3>1, <3>2 DEF Inv, RecordOK, HeardOnce, Live, Terminal
  <2> QED BY <2>1, <2>2
<1> QED BY <1>1, <1>2, <1>4, <1>5 DEF Inv

LEMMA StartLimit ==
    ASSUME Inv, WithinLimit, NEW k \in Jobs, NEW o \in {NoAgent} \cup Agents, Start(k, o)
    PROVE  WithinLimit'
<1>1. status' = [status EXCEPT ![k] = "running"] /\ owner' = [owner EXCEPT ![k] = o]
  BY DEF Start
<1>2. ActiveOf(o) = LiveOf(o)
  BY DEF ActiveOf, LiveOf, Inv, Types, RecordOK
<1>3. ASSUME NEW p \in {NoAgent} \cup Agents PROVE Cardinality(LiveOf(p)') <= Limit
  <2>1. CASE p = o
    <3>1. LiveOf(p)' = LiveOf(o) \cup {k}
      BY <1>1, <2>1 DEF LiveOf, Live, Active, Inv, Types
    <3>2. k \notin LiveOf(o) /\ Cardinality(LiveOf(o)) < Limit
      BY <1>2 DEF Start, LiveOf, Live, Active
    <3>3. /\ Cardinality(LiveOf(p)') = Cardinality(LiveOf(o)) + 1
          /\ Cardinality(LiveOf(o)) \in Nat
      BY <3>1, <3>2, LiveOfFinite, FS_AddElement, FS_CardinalityType
    <3> QED BY <3>2, <3>3, JobsAssumption
  <2>2. CASE p # o
    <3>1. LiveOf(p)' = LiveOf(p)
      BY <1>1, <2>2 DEF LiveOf, Live, Active, Inv, Types, Start
    <3> QED BY <3>1 DEF WithinLimit, LiveOf
  <2> QED BY <2>1, <2>2
<1> QED BY <1>3 DEF WithinLimit, LiveOf

LEMMA KillKeeps ==
    ASSUME Inv, NEW k \in Jobs, NEW byModel \in BOOLEAN, Kill(k, byModel)
    PROVE  Inv'
<1> USE DEF Kill, agents
<1>1. Types'
  BY DEF Inv, Types, Active
<1>2. ServiceOK' /\ \A a \in Agents : AgentOK(a)'
  BY DEF Inv, ServiceOK, AgentOK
<1>3. ASSUME NEW j \in Jobs PROVE RecordOK(j)' /\ HeardOnce(j)'
  <2>1. /\ status'[j] = IF j = k THEN "stopping" ELSE status[j]
        /\ owner' = owner /\ listed' = listed /\ (Kept(j) => Kept(j)')
    BY DEF Inv, Types, Kept
  <2>2. CASE j = k
    BY <2>1, <2>2 DEF Inv, RecordOK, HeardOnce, Live, Terminal, Active, Outcomes
  <2>3. CASE j # k
    BY <2>1, <2>3 DEF Inv, RecordOK, HeardOnce, Live, Terminal
  <2> QED BY <2>2, <2>3
<1> QED BY <1>1, <1>2, <1>3 DEF Inv

\* The invariant depends on nothing a wait or a producer changes.
LEMMA WaitsKeep ==
    ASSUME Inv, NEW k \in Jobs,
           Wait(k) \/ Leave(k) \/ \E outcome \in Reported : ProducerDone(k, outcome)
    PROVE  Inv'
<1> USE DEF Wait, Leave, ProducerDone, record, agents, report
<1>1. /\ UNCHANGED <<status, owner, cause, listed, killedByModel, life, current, cleanups,
                     swept, service, all, announced, answered, told, notices>>
      /\ \A j \in Jobs : status[j] = "unused" => result'[j] = result[j]
  BY DEF Inv, Types
<1>2. waiting' \in [Jobs -> 0 .. MaxWaits]
  <2>1. waiting \in [Jobs -> 0 .. MaxWaits] /\ MaxWaits \in Nat
    BY JobsAssumption DEF Inv, Types
  <2> QED BY <2>1
<1>3. result' \in [Jobs -> {"pending", "taken"} \cup Outcomes]
  BY JobsAssumption DEF Inv, Types
<1>4. Types'
  BY <1>1, <1>2, <1>3 DEF Inv, Types
<1>5. ServiceOK' /\ \A a \in Agents : AgentOK(a)'
  BY <1>1 DEF Inv, ServiceOK, AgentOK
<1>6. \A j \in Jobs : RecordOK(j)' /\ HeardOnce(j)'
  BY <1>1 DEF Inv, RecordOK, HeardOnce, Kept, Live, Terminal
<1> QED BY <1>4, <1>5, <1>6 DEF Inv

\* Terminal records are dropped: what remains is as it was.
LEMMA DropKeeps ==
    ASSUME Inv, NEW S \in SUBSET Jobs, \A j \in S : Terminal(j),
           listed' = listed \ S, killedByModel' = killedByModel \ S,
           UNCHANGED <<status, owner, cause, result, waiting, swept, all, report>>,
           life' \in [Agents -> Lives], current' \in {NoAgent} \cup Agents,
           cleanups' \in SUBSET Agents, service' \in {"up", "sweeping", "down"},
           ServiceOK', \A a \in Agents : AgentOK(a)',
           \A j \in listed' : owner[j] # NoAgent => Kept(j)'
    PROVE  Inv'
<1>1. Types'
  BY DEF Inv, Types, report
<1>2. ASSUME NEW j \in Jobs PROVE RecordOK(j)' /\ HeardOnce(j)'
  BY <1>1, StatusKinds DEF Inv, RecordOK, HeardOnce, Live, Terminal, report
<1> QED BY <1>1, <1>2 DEF Inv

LEMMA RemoveKeeps ==
    ASSUME Inv, NEW k \in Jobs, Remove(k)
    PROVE  Inv'
<1> USE DEF Remove, agents
<1>1. ServiceOK' /\ \A a \in Agents : AgentOK(a)'
  BY DEF Inv, ServiceOK, AgentOK
<1>2. \A j \in listed' : owner[j] # NoAgent => Kept(j)'
  BY DEF Inv, RecordOK, Kept, Types
<1>3. /\ life' \in [Agents -> Lives] /\ current' \in {NoAgent} \cup Agents
      /\ cleanups' \in SUBSET Agents /\ service' \in {"up", "sweeping", "down"}
  BY DEF Inv, Types
<1>4. /\ {k} \in SUBSET Jobs /\ \A j \in {k} : Terminal(j)
      /\ listed' = listed \ {k} /\ killedByModel' = killedByModel \ {k}
      /\ UNCHANGED <<status, owner, cause, result, waiting, swept, all, report>>
  OBVIOUS
<1> HIDE DEF Remove, agents
<1> QED BY <1>1, <1>2, <1>3, <1>4, DropKeeps

-----------------------------------------------------------------------------
(* Settlements.                                                            *)

\* The jobs of S settle and are announced: they are heard of once.
LEMMA AnnounceKeeps ==
    ASSUME Inv, NEW S \in SUBSET Jobs, \A j \in S : Live(j),
           NEW why \in [S -> {"producer", "kill", "teardown"}],
           Announce(S, why), owner' = owner,
           \A j \in S : status'[j] \in Outcomes,
           \A j \in Jobs \ S : status'[j] = status[j] \/ (Live(j) /\ Live(j)')
    PROVE  /\ \A j \in Jobs : HeardOnce(j)'
           /\ waiting' \in [Jobs -> 0 .. MaxWaits] /\ killedByModel' \in SUBSET Jobs
           /\ announced' \in [Jobs -> {"none", "producer", "kill", "teardown"}]
           /\ answered' \in [Jobs -> BOOLEAN] /\ told' \in SUBSET Jobs
           /\ notices' \in [Jobs -> Nat]
<1>1. /\ waiting' \in [Jobs -> 0 .. MaxWaits] /\ killedByModel' \in SUBSET Jobs
      /\ announced' \in [Jobs -> {"none", "producer", "kill", "teardown"}]
      /\ answered' \in [Jobs -> BOOLEAN] /\ told' \in SUBSET Jobs
      /\ notices' \in [Jobs -> Nat]
  <2>1. waiting' \in [Jobs -> 0 .. MaxWaits] /\ notices' \in [Jobs -> Nat]
    BY JobsAssumption DEF Inv, Types, Announce
  <2>2. killedByModel' \in SUBSET Jobs /\ told' \in SUBSET Jobs
    BY DEF Inv, Types, Announce
  <2>3. announced' \in [Jobs -> {"none", "producer", "kill", "teardown"}]
    BY DEF Inv, Types, Announce
  <2>4. answered' \in [Jobs -> BOOLEAN]
    <3>1. answered' = [j \in Jobs |-> IF j \in S THEN waiting[j] > 0 ELSE answered[j]]
      BY DEF Announce
    <3>2. \A j \in Jobs : (waiting[j] > 0) \in BOOLEAN /\ answered[j] \in BOOLEAN
      BY DEF Inv, Types
    <3> QED BY <3>1, <3>2, Zenon
  <2> QED BY <2>1, <2>2, <2>3, <2>4
<1>2. ASSUME NEW j \in S PROVE HeardOnce(j)'
  <2>1. /\ notices[j] = 0 /\ (j \in told <=> j \in killedByModel)
        /\ (owner[j] # NoAgent => current # NoAgent)
    BY StatusKinds, OwnerRegistered DEF Inv, HeardOnce
  <2>2. /\ answered'[j] = (waiting[j] > 0) /\ announced'[j] = why[j] /\ told' = told
        /\ notices'[j] = IF Reports(j, why[j]) THEN 1 ELSE 0
    BY <2>1 DEF Announce
  <2>3. Terminal(j)'
    BY DEF Terminal
  <2> QED BY <2>1, <2>2, <2>3 DEF HeardOnce, Reports, Awaited
<1>3. ASSUME NEW j \in Jobs \ S PROVE HeardOnce(j)'
  <2>1. /\ notices'[j] = notices[j] /\ answered'[j] = answered[j]
        /\ announced'[j] = announced[j] /\ told' = told
        /\ (j \in killedByModel' <=> j \in killedByModel)
    BY DEF Announce
  <2>2. Terminal(j)' <=> Terminal(j)
    BY DEF Terminal, Live, Active, Outcomes
  <2> QED BY <2>1, <2>2 DEF HeardOnce, Inv
<1> QED BY <1>1, <1>2, <1>3

LEMMA SettleKeeps ==
    ASSUME Inv, NEW k \in Jobs, Settle(k)
    PROVE  Inv'
<1> USE DEF Settle, agents
<1>1. result' \in [Jobs -> {"pending", "taken"} \cup Outcomes] /\ result[k] \in Outcomes
  BY DEF Inv, Types
<1>2. \A j \in Jobs : Kept(j) => Kept(j)'
  BY DEF Kept
<1>3. ServiceOK' /\ \A a \in Agents : AgentOK(a)'
  BY DEF Inv, ServiceOK, AgentOK
<1>4. CASE ~Terminal(k)
  <2> DEFINE why == [j \in {k} |-> IF cause[j] = "none" THEN "producer" ELSE cause[j]]
  <2>1. status' = [status EXCEPT ![k] = result[k]] /\ Announce({k}, why)
    BY <1>4 DEF Settles
  <2>2. Live(k)
    BY <1>1, <1>4, StatusKinds DEF Inv, RecordOK, Outcomes
  <2>3. why \in [{k} -> {"producer", "kill", "teardown"}]
    BY DEF Inv, Types
  <2>4. /\ status'[k] = result[k] /\ \A j \in Jobs \ {k} : status'[j] = status[j]
        /\ status' \in [Jobs -> {"unused"} \cup Active \cup Outcomes]
    BY <1>1, <2>1 DEF Inv, Types
  <2> HIDE DEF why
  <2>5. /\ \A j \in Jobs : HeardOnce(j)'
        /\ waiting' \in [Jobs -> 0 .. MaxWaits] /\ killedByModel' \in SUBSET Jobs
        /\ announced' \in [Jobs -> {"none", "producer", "kill", "teardown"}]
        /\ answered' \in [Jobs -> BOOLEAN] /\ told' \in SUBSET Jobs
        /\ notices' \in [Jobs -> Nat]
    BY <1>1, <2>1, <2>2, <2>3, <2>4, AnnounceKeeps, {k} \in SUBSET Jobs
  <2>6. Types'
    BY <1>1, <2>4, <2>5 DEF Inv, Types
  <2>7. told' = told
    BY <2>1 DEF Announce
  <2>8. ASSUME NEW j \in Jobs PROVE RecordOK(j)'
    <3>1. CASE j = k
      <4>1. status'[j] # "unused" /\ ~Live(j)'
        BY <1>1, <2>4, <3>1 DEF Live, Active, Outcomes
      <4> QED BY <1>2, <4>1 DEF Inv, RecordOK
    <3>2. CASE j # k
      BY <1>2, <2>4, <2>7, <3>2 DEF Inv, RecordOK, Live, Types
    <3> QED BY <3>1, <3>2
  <2> QED BY <1>3, <2>5, <2>6, <2>8 DEF Inv
<1>5. CASE Terminal(k)
  <2>1. UNCHANGED <<status, waiting, killedByModel, announced, answered, told, notices>>
    BY <1>5 DEF Settles, report
  <2>2. Types'
    BY <1>1, <2>1 DEF Inv, Types
  <2>3. ASSUME NEW j \in Jobs PROVE RecordOK(j)' /\ HeardOnce(j)'
    <3>1. status[j] = "unused" => result'[j] = result[j]
      BY <1>1, <1>5, StatusKinds DEF Inv, Types
    <3> QED BY <1>2, <2>1, <3>1 DEF Inv, RecordOK, HeardOnce, Live, Terminal
  <2> QED BY <1>3, <2>2, <2>3 DEF Inv
<1> QED BY <1>4, <1>5

\* What a sweep of a snapshot does to the records.
LEMMA SweepKeeps ==
    ASSUME Inv, NEW S \in SUBSET Jobs, NEW thrown \in SUBSET Jobs, Sweep(S, thrown),
           owner' = owner
    PROVE  /\ \A j \in Jobs : HeardOnce(j)'
           /\ status' \in [Jobs -> {"unused"} \cup Active \cup Outcomes]
           /\ cause' \in [Jobs -> {"none", "kill", "teardown"}]
           /\ waiting' \in [Jobs -> 0 .. MaxWaits] /\ killedByModel' \in SUBSET Jobs
           /\ announced' \in [Jobs -> {"none", "producer", "kill", "teardown"}]
           /\ answered' \in [Jobs -> BOOLEAN] /\ told' = told
           /\ notices' \in [Jobs -> Nat]
           /\ \A j \in Jobs : /\ Live(j)' => Live(j)
                              /\ status'[j] = "unused" <=> status[j] = "unused"
<1> DEFINE active == {j \in S : Live(j)}
           forced == active \cap thrown
           why == [j \in forced |-> "teardown"]
<1>1. /\ cause' = [j \in Jobs |-> IF j \in active THEN "teardown" ELSE cause[j]]
      /\ status' = [j \in Jobs |-> IF j \in forced THEN "failed"
                                   ELSE IF j \in active \ thrown THEN "stopping" ELSE status[j]]
      /\ Announce(forced, why)
  BY DEF Sweep, Forced
<1>2. forced \in SUBSET Jobs /\ \A j \in active : Live(j)
  OBVIOUS
<1>3. why \in [forced -> {"producer", "kill", "teardown"}]
  OBVIOUS
<1>4. ASSUME NEW j \in Jobs
      PROVE  /\ j \in forced => status'[j] \in Outcomes
             /\ j \notin forced => status'[j] = status[j] \/ (Live(j) /\ Live(j)')
             /\ Live(j)' => Live(j)
             /\ status'[j] = "unused" <=> status[j] = "unused"
  BY <1>1, <1>2, StatusKinds DEF Inv, Types, Live, Active, Outcomes
<1>5. /\ status' \in [Jobs -> {"unused"} \cup Active \cup Outcomes]
      /\ cause' \in [Jobs -> {"none", "kill", "teardown"}]
  BY <1>1 DEF Inv, Types, Active, Outcomes
<1>6. told' = told
  BY <1>1 DEF Announce
<1> HIDE DEF active, why
<1>7. \A j \in forced : Live(j)
  BY <1>2
<1> HIDE DEF forced
<1> QED BY <1>1, <1>2, <1>3, <1>4, <1>5, <1>6, <1>7, AnnounceKeeps

-----------------------------------------------------------------------------
(* Teardown.                                                               *)

LEMMA CleanKeeps ==
    ASSUME Inv, NEW a \in Agents, NEW thrown \in SUBSET Jobs, Clean(a, thrown)
    PROVE  Inv' /\ \A j \in Jobs : Live(j)' => Live(j)
<1> DEFINE owned == {j \in listed : owner[j] = a}
<1>1. /\ life[a] = "disposing" /\ a \in cleanups /\ Sweep(owned, thrown)
      /\ swept' = [swept EXCEPT ![a] = owned] /\ cleanups' = cleanups \ {a}
      /\ life' = [life EXCEPT ![a] = "cleaning"]
      /\ UNCHANGED <<owner, listed, result, current, service, all>>
  BY DEF Clean, Detached
<1>2. owned \in SUBSET Jobs
  BY DEF Inv, Types
<1> HIDE DEF owned
<1>3. /\ \A j \in Jobs : HeardOnce(j)'
      /\ status' \in [Jobs -> {"unused"} \cup Active \cup Outcomes]
      /\ cause' \in [Jobs -> {"none", "kill", "teardown"}]
      /\ waiting' \in [Jobs -> 0 .. MaxWaits] /\ killedByModel' \in SUBSET Jobs
      /\ announced' \in [Jobs -> {"none", "producer", "kill", "teardown"}]
      /\ answered' \in [Jobs -> BOOLEAN] /\ told' = told /\ notices' \in [Jobs -> Nat]
      /\ \A j \in Jobs : /\ Live(j)' => Live(j)
                         /\ status'[j] = "unused" <=> status[j] = "unused"
  BY <1>1, <1>2, SweepKeeps
<1>4. Types'
  BY <1>1, <1>2, <1>3 DEF Inv, Types, Lives
<1>5. ServiceOK'
  BY <1>1 DEF Inv, ServiceOK
<1>6. ASSUME NEW b \in Agents PROVE AgentOK(b)'
  BY <1>1 DEF Inv, AgentOK, Types
<1>7. ASSUME NEW j \in Jobs PROVE RecordOK(j)'
  <2>1. j \in listed /\ owner[j] # NoAgent => Kept(j)'
    <3>1. CASE j \in owned
      BY <1>1, <1>2, <3>1 DEF Kept, owned, Inv, Types
    <3>2. CASE j \notin owned
      BY <1>1, <3>2 DEF Kept, owned, Inv, Types, RecordOK
    <3> QED BY <3>1, <3>2
  <2> QED BY <1>1, <1>3, <2>1 DEF Inv, RecordOK
<1> QED BY <1>3, <1>4, <1>5, <1>6, <1>7 DEF Inv

LEMMA DisposeServiceKeeps ==
    ASSUME Inv, NEW thrown \in SUBSET Jobs, DisposeService(thrown)
    PROVE  Inv' /\ \A j \in Jobs : Live(j)' => Live(j)
<1>1. /\ service' = "sweeping" /\ Sweep(listed, thrown) /\ all' = listed
      /\ UNCHANGED <<owner, listed, result, life, current, cleanups, swept>>
  BY DEF DisposeService, agents
<1>2. listed \in SUBSET Jobs
  BY DEF Inv, Types
<1>3. /\ \A j \in Jobs : HeardOnce(j)'
      /\ status' \in [Jobs -> {"unused"} \cup Active \cup Outcomes]
      /\ cause' \in [Jobs -> {"none", "kill", "teardown"}]
      /\ waiting' \in [Jobs -> 0 .. MaxWaits] /\ killedByModel' \in SUBSET Jobs
      /\ announced' \in [Jobs -> {"none", "producer", "kill", "teardown"}]
      /\ answered' \in [Jobs -> BOOLEAN] /\ told' = told /\ notices' \in [Jobs -> Nat]
      /\ \A j \in Jobs : /\ Live(j)' => Live(j)
                         /\ status'[j] = "unused" <=> status[j] = "unused"
  BY <1>1, <1>2, SweepKeeps
<1>4. Types'
  BY <1>1, <1>3 DEF Inv, Types
<1>5. ServiceOK' /\ \A a \in Agents : AgentOK(a)'
  BY <1>1 DEF Inv, ServiceOK, AgentOK
<1>6. ASSUME NEW j \in Jobs PROVE RecordOK(j)'
  BY <1>1, <1>3 DEF Inv, RecordOK, Kept
<1> QED BY <1>3, <1>4, <1>5, <1>6 DEF Inv

LEMMA DropsKeep ==
    ASSUME Inv, (\E a \in Agents : Drop(a)) \/ DropAll
    PROVE  Inv'
<1>1. ASSUME NEW a \in Agents, Drop(a) PROVE Inv'
  <2>1. /\ life[a] = "cleaning" /\ \A j \in swept[a] : Terminal(j)
        /\ listed' = listed \ swept[a] /\ killedByModel' = killedByModel \ swept[a]
        /\ cleanups' = cleanups \ {a} /\ life' = [life EXCEPT ![a] = "closing"]
        /\ UNCHANGED <<status, owner, cause, result, waiting, current, swept, service, all,
                       report>>
    BY <1>1 DEF Drop
  <2>2. /\ life' \in [Agents -> Lives] /\ current' \in {NoAgent} \cup Agents
        /\ cleanups' \in SUBSET Agents /\ service' \in {"up", "sweeping", "down"}
        /\ swept[a] \in SUBSET Jobs
    BY <2>1 DEF Inv, Types, Lives
  <2>3. ServiceOK'
    BY <2>1 DEF Inv, ServiceOK
  <2>4. \A b \in Agents : AgentOK(b)'
    BY <2>1 DEF Inv, AgentOK, Types
  <2>5. ASSUME NEW j \in listed', owner[j] # NoAgent PROVE Kept(j)'
    <3>1. j \in Jobs /\ j \in listed /\ j \notin swept[a] /\ owner[j] \in Agents /\ Kept(j)
      BY <2>1, <2>5 DEF Inv, Types, RecordOK
    <3>2. owner[j] # a
      BY <2>1, <3>1 DEF Kept
    <3> QED BY <2>1, <3>1, <3>2 DEF Kept, Inv, Types
  <2> QED BY <2>1, <2>2, <2>3, <2>4, <2>5, DropKeeps
<1>2. ASSUME DropAll PROVE Inv'
  <2>1. /\ service # "up" /\ \A j \in all : Terminal(j)
        /\ listed' = listed \ all /\ killedByModel' = killedByModel \ all
        /\ cleanups' = {} /\ service' = "down"
        /\ UNCHANGED <<status, owner, cause, result, waiting, life, current, swept, all, report>>
    BY <1>2 DEF DropAll
  <2>2. listed' = {}
    BY <2>1 DEF Inv, ServiceOK
  <2>3. /\ life' \in [Agents -> Lives] /\ current' \in {NoAgent} \cup Agents
        /\ cleanups' \in SUBSET Agents /\ service' \in {"up", "sweeping", "down"}
        /\ all \in SUBSET Jobs
    BY <2>1 DEF Inv, Types
  <2>4. ServiceOK'
    BY <2>2 DEF ServiceOK
  <2>5. \A b \in Agents : AgentOK(b)'
    BY <2>1 DEF Inv, AgentOK
  <2> QED BY <2>1, <2>2, <2>3, <2>4, <2>5, DropKeeps
<1> QED BY <1>1, <1>2

\* The agents' own comings and goings.
LEMMA AgentsKeep ==
    ASSUME Inv, NEW a \in Agents,
           Dispose(a) \/ NothingToClean(a) \/ Unregister(a) \/ Launch(a)
    PROVE  Inv'
<1> USE AgentsAreNumbers DEF Dispose, NothingToClean, Unregister, Launch
<1>1. /\ UNCHANGED <<record, result, waiting, killedByModel, cleanups, swept, service, all,
                     report>>
      /\ life' = [life EXCEPT ![a] = life'[a]] /\ life'[a] \in Lives
      /\ current' \in {NoAgent} \cup Agents
  BY DEF Inv, Types, Lives
<1>2. Types' /\ ServiceOK'
  BY <1>1 DEF Inv, Types, ServiceOK, record, report
<1>3. ASSUME NEW b \in Agents PROVE AgentOK(b)'
  <2>1. AgentOK(a) /\ AgentOK(b) /\ life \in [Agents -> Lives]
    BY DEF Inv, Types
  <2> QED BY <2>1 DEF AgentOK
<1>4. ASSUME NEW j \in Jobs PROVE RecordOK(j)' /\ HeardOnce(j)'
  <2>1. Kept(j) /\ owner[j] # NoAgent => Kept(j)'
    <3>1. life \in [Agents -> Lives] /\ (owner[j] # NoAgent => owner[j] \in Agents)
      BY DEF Inv, Types
    <3> QED BY <1>1, <3>1 DEF Kept, record
  <2> QED BY <1>1, <2>1 DEF Inv, RecordOK, HeardOnce, Live, Terminal, record, report
<1> QED BY <1>2, <1>3, <1>4 DEF Inv

-----------------------------------------------------------------------------
(* The theorems.                                                           *)

LEMMA NextInv == Inv /\ [Next]_vars => Inv'
<1> SUFFICES ASSUME Inv, [Next]_vars PROVE Inv'
  OBVIOUS
<1>1. ASSUME NEW j \in Jobs, Caller(j) PROVE Inv'
  BY <1>1, StartKeeps, KillKeeps, WaitsKeep, RemoveKeeps DEF Caller
<1>2. ASSUME NEW j \in Jobs, Producer(j) \/ Settle(j) PROVE Inv'
  BY <1>2, WaitsKeep, SettleKeeps DEF Producer
<1>3. ASSUME NEW a \in Agents, Dispose(a) \/ Disposal(a) \/ Launch(a) PROVE Inv'
  BY <1>3, AgentsKeep, CleanKeeps, DropsKeep DEF Disposal
<1>4. ASSUME (\E thrown \in SUBSET Jobs : DisposeService(thrown)) \/ DropAll PROVE Inv'
  BY <1>4, DisposeServiceKeeps, DropsKeep
<1>5. CASE UNCHANGED vars
  BY <1>5 DEF vars, record, agents, report, Inv, Types, ServiceOK, AgentOK, RecordOK, HeardOnce,
              Kept, Live, Terminal
<1> QED BY <1>1, <1>2, <1>3, <1>4, <1>5 DEF Next

\* Every reachable state of the registry satisfies the inductive invariant.
THEOREM Invariance == Spec => []Inv
BY InitInv, NextInv, PTL DEF Spec

\* The registry's variables keep their types, and a settlement is reported at most once
\* (settle, and the settled listener of tool-jobs).
THEOREM TypeCorrect == Spec => []TypeOK
<1>1. Inv => TypeOK
  <2> SUFFICES ASSUME Inv PROVE TypeOK
    OBVIOUS
  <2>1. \A j \in Jobs : notices[j] \in 0 .. 1
    BY DEF Inv, HeardOnce
  <2>2. notices \in [Jobs -> 0 .. 1]
    BY <2>1 DEF Inv, Types
  <2> QED BY <2>2 DEF TypeOK, Inv, Types
<1> QED BY <1>1, Invariance, PTL

\* A session's agent hears of each of its jobs exactly once, whether from a wait, its own
\* kill or a notice, and of none that a teardown stopped (settle and cancelForTeardown,
\* and the listener of tool-jobs).
THEOREM HeardExactlyOnce == Spec => []CompletionToldOnce
<1>1. Inv => CompletionToldOnce
  BY DEF Inv, HeardOnce, CompletionToldOnce
<1> QED BY <1>1, Invariance, PTL

\* No job outlives the disposal of its owner, jobs started while the owner was being
\* disposed included (ensureOwnerCleanup and disposeOwned).
THEOREM NothingOrphaned == Spec => []NoOrphans
<1>1. Inv => NoOrphans
  BY DEF Inv, Types, RecordOK, Kept, NoOrphans
<1> QED BY <1>1, Invariance, PTL

\* An owner's active jobs never exceed the limit it was given (activeJobCount in start).
THEOREM LimitHolds == Spec => []WithinLimit
<1>1. Inv /\ WithinLimit /\ [Next]_vars => WithinLimit'
  <2> SUFFICES ASSUME Inv, WithinLimit, [Next]_vars PROVE WithinLimit'
    OBVIOUS
  <2>1. CASE \E j \in Jobs, o \in {NoAgent} \cup Agents : Start(j, o)
    BY <2>1, StartLimit
  <2>2. CASE ~ \E j \in Jobs, o \in {NoAgent} \cup Agents : Start(j, o)
    <3>1. owner' = owner /\ \A j \in Jobs : Live(j)' => Live(j)
      <4>1. ASSUME NEW j \in Jobs, Caller(j)
            PROVE  owner' = owner /\ \A k \in Jobs : Live(k)' => Live(k)
        BY <2>2, <4>1 DEF Caller, Kill, Wait, Leave, Remove, record, Live, Active, Inv, Types
      <4>2. ASSUME NEW j \in Jobs, Producer(j) \/ Settle(j)
            PROVE  owner' = owner /\ \A k \in Jobs : Live(k)' => Live(k)
        BY <4>2 DEF Producer, ProducerDone, Settle, record, Live, Active, Outcomes, Inv, Types
      <4>3. ASSUME NEW a \in Agents, Dispose(a) \/ Disposal(a) \/ Launch(a)
            PROVE  owner' = owner /\ \A k \in Jobs : Live(k)' => Live(k)
        <5>1. ASSUME NEW thrown \in SUBSET Jobs, Clean(a, thrown)
              PROVE  owner' = owner /\ \A k \in Jobs : Live(k)' => Live(k)
          BY <5>1, CleanKeeps DEF Clean
        <5> QED BY <4>3, <5>1 DEF Dispose, Disposal, Launch, Drop, NothingToClean, Unregister,
                                  record, Live
      <4>4. ASSUME (\E thrown \in SUBSET Jobs : DisposeService(thrown)) \/ DropAll
            PROVE  owner' = owner /\ \A k \in Jobs : Live(k)' => Live(k)
        <5>1. ASSUME NEW thrown \in SUBSET Jobs, DisposeService(thrown)
              PROVE  owner' = owner /\ \A k \in Jobs : Live(k)' => Live(k)
          BY <5>1, DisposeServiceKeeps DEF DisposeService
        <5> QED BY <4>4, <5>1 DEF DropAll, Live
      <4>5. ASSUME UNCHANGED vars
            PROVE  owner' = owner /\ \A k \in Jobs : Live(k)' => Live(k)
        BY <4>5 DEF vars, record, Live
      <4> QED BY <4>1, <4>2, <4>3, <4>4, <4>5 DEF Next
    <3> QED BY <3>1, LimitKept DEF LiveOf
  <2> QED BY <2>1, <2>2
<1> QED BY <1>1, InitLimit, Invariance, PTL DEF Spec

-----------------------------------------------------------------------------
(* The registry keeps the contract.                                        *)

\* The record the contract speaks of.
RecordOf(j) ==
    IF j \in listed THEN status[j] ELSE IF status[j] = "unused" THEN "absent" ELSE "removed"

Moves(j) == RecordOf(j)' = RecordOf(j) \/ <<RecordOf(j), RecordOf(j)'>> \in Contract!Edges

Releases(j) ==
    IF Live(j) /\ j \in listed' /\ Terminal(j)'
    THEN waiting'[j] = 0 /\ answered'[j] = (waiting[j] > 0)
    ELSE answered'[j] = answered[j] /\ (waiting'[j] > waiting[j] => Live(j))

LEMMA ContractStep ==
    ASSUME Inv, \A j \in Jobs : Moves(j) /\ Releases(j)
    PROVE  Contract!Next
<1>1. ASSUME NEW j \in Jobs PROVE RecordOf(j) \in Active <=> Live(j)
  BY StatusKinds DEF Inv, RecordOK, RecordOf, Live, Active
<1>2. ASSUME NEW j \in Jobs PROVE RecordOf(j)' \in Outcomes <=> j \in listed' /\ Terminal(j)'
  BY DEF RecordOf, Terminal, Outcomes
<1>3. /\ Contract!Active = Active /\ Contract!Outcomes = Outcomes
  BY DEF Contract!Active, Contract!Outcomes, Active, Outcomes
<1>4. ASSUME NEW j \in Jobs PROVE Contract!Waits(j)
  BY <1>1, <1>2, <1>3 DEF Contract!Waits, Contract!Settles, Releases, RecordOf
<1> QED BY <1>4 DEF Contract!Next, Moves, RecordOf

\* Steps that leave the records and what was answered alone.
LEMMA QuietStep ==
    ASSUME Inv, UNCHANGED <<status, listed, answered>>,
           \A j \in Jobs : waiting'[j] > waiting[j] => Live(j)
    PROVE  Contract!Next
<1>1. \A j \in Jobs : Moves(j)
  BY DEF Moves, RecordOf
<1>2. \A j \in Jobs : Releases(j)
  BY StatusKinds DEF Releases, Live, Terminal, Inv
<1> QED BY <1>1, <1>2, ContractStep

\* Steps that drop terminal records.
LEMMA DropStep ==
    ASSUME Inv, NEW S, \A j \in S : Terminal(j), listed' = listed \ S,
           UNCHANGED <<status, waiting, answered>>
    PROVE  Contract!Next
<1>0. \A j \in Jobs : waiting[j] \in Nat
  BY JobsAssumption DEF Inv, Types
<1>1. \A j \in Jobs : Moves(j)
  BY StatusKinds DEF Inv, Moves, RecordOf, Terminal, Contract!Edges, Contract!Outcomes, Outcomes
<1>2. \A j \in Jobs : Releases(j)
  BY <1>0, StatusKinds DEF Releases, Live, Terminal, Inv
<1> QED BY <1>1, <1>2, ContractStep

\* The jobs of S settle; others may be asked to stop.
Settling(S) ==
    /\ listed' = listed /\ \A j \in S : Live(j) /\ status'[j] \in Outcomes
    /\ \A j \in Jobs \ S : status'[j] = status[j] \/ (Live(j) /\ status'[j] = "stopping")

LEMMA AnnounceStep ==
    ASSUME Inv, NEW S \in SUBSET Jobs, NEW why, Settling(S), Announce(S, why)
    PROVE  Contract!Next
<1> USE DEF Settling
<1>1. ASSUME NEW j \in Jobs PROVE Moves(j)
  <2>1. CASE j \in S
    <3>1. j \in listed /\ RecordOf(j) \in Active /\ RecordOf(j)' \in Outcomes
      BY <2>1 DEF Inv, RecordOK, RecordOf, Live
    <3> QED BY <3>1 DEF Moves, Contract!Edges, Contract!Active, Contract!Outcomes, Active,
                        Outcomes
  <2>2. CASE j \notin S
    BY <2>2 DEF Inv, RecordOK, RecordOf, Live, Moves, Contract!Edges, Active
  <2> QED BY <2>1, <2>2
<1>2. ASSUME NEW j \in Jobs PROVE Releases(j)
  <2>1. waiting[j] \in Nat
    BY JobsAssumption DEF Inv, Types
  <2>2. CASE j \in S
    BY <2>2 DEF Announce, Releases, Inv, RecordOK, Terminal
  <2>3. CASE j \notin S
    <3>1. waiting'[j] = waiting[j] /\ answered'[j] = answered[j]
      BY <2>3 DEF Announce
    <3>2. ~(Live(j) /\ Terminal(j)')
      BY <2>3, StatusKinds DEF Inv, Live, Terminal, Active, Outcomes
    <3> QED BY <2>1, <3>1, <3>2 DEF Releases
  <2> QED BY <2>2, <2>3
<1> QED BY <1>1, <1>2, ContractStep

LEMMA SweepStep ==
    ASSUME Inv, NEW S \in SUBSET Jobs, NEW thrown \in SUBSET Jobs, Sweep(S, thrown),
           listed' = listed
    PROVE  Contract!Next
<1> DEFINE active == {j \in S : Live(j)}
           forced == active \cap thrown
           why == [j \in forced |-> "teardown"]
<1>1. /\ status' = [j \in Jobs |-> IF j \in forced THEN "failed"
                                   ELSE IF j \in active \ thrown THEN "stopping" ELSE status[j]]
      /\ Announce(forced, why)
  BY DEF Sweep, Forced
<1>2. forced \in SUBSET Jobs /\ \A j \in forced : Live(j)
  OBVIOUS
<1>3. Settling(forced)
  BY <1>1, <1>2 DEF Settling, Outcomes
<1> HIDE DEF active, forced, why
<1> QED BY <1>1, <1>2, <1>3, AnnounceStep

LEMMA StepKeepsContract ==
    ASSUME Inv, Inv', [Next]_vars
    PROVE  [Contract!Next]_(Contract!vars)
<1>0. \A j \in Jobs : waiting[j] \in Nat
  BY JobsAssumption DEF Inv, Types
<1>1. ASSUME NEW k \in Jobs, NEW o \in {NoAgent} \cup Agents, Start(k, o) PROVE Contract!Next
  <2>1. /\ status[k] = "unused" /\ status' = [status EXCEPT ![k] = "running"]
        /\ listed' = listed \cup {k} /\ UNCHANGED <<waiting, answered>>
    BY <1>1 DEF Start, report
  <2>2. ASSUME NEW j \in Jobs PROVE Moves(j)
    <3>1. CASE j = k
      BY <2>1, <3>1 DEF Inv, Types, RecordOK, Moves, RecordOf, Contract!Edges
    <3>2. CASE j # k
      BY <2>1, <3>2 DEF Inv, Types, Moves, RecordOf
    <3> QED BY <3>1, <3>2
  <2>3. ASSUME NEW j \in Jobs PROVE Releases(j)
    <3>1. ~(Live(j) /\ Terminal(j)')
      BY <2>1, StatusKinds DEF Inv, Types, Live, Terminal, Active, Outcomes
    <3> QED BY <1>0, <2>1, <3>1 DEF Releases
  <2> QED BY <2>2, <2>3, ContractStep
<1>2. ASSUME NEW k \in Jobs, NEW byModel \in BOOLEAN, Kill(k, byModel) PROVE Contract!Next
  <2>1. /\ k \in listed /\ Live(k) /\ status' = [status EXCEPT ![k] = "stopping"]
        /\ UNCHANGED <<listed, waiting, answered>>
    BY <1>2 DEF Kill
  <2>2. ASSUME NEW j \in Jobs PROVE Moves(j)
    BY <2>1 DEF Inv, Types, Live, Active, Moves, RecordOf, Contract!Edges
  <2>3. ASSUME NEW j \in Jobs PROVE Releases(j)
    <3>1. ~(Live(j) /\ Terminal(j)')
      BY <2>1, StatusKinds DEF Inv, Types, Live, Terminal, Active, Outcomes
    <3> QED BY <1>0, <2>1, <3>1 DEF Releases
  <2> QED BY <2>2, <2>3, ContractStep
<1>3. ASSUME NEW k \in Jobs, Wait(k) \/ Leave(k) PROVE Contract!Next
  <2>1. UNCHANGED <<status, listed, answered>>
    BY <1>3 DEF Wait, Leave, record, report
  <2>2. \A j \in Jobs : waiting'[j] > waiting[j] => Live(j)
    BY <1>0, <1>3 DEF Wait, Leave, Inv, Types
  <2> QED BY <2>1, <2>2, QuietStep
<1>4. ASSUME NEW k \in Jobs, Remove(k) PROVE Contract!Next
  <2> DEFINE gone == {k}
  <2>1. /\ \A j \in gone : Terminal(j)
        /\ listed' = listed \ gone /\ UNCHANGED <<status, waiting, answered>>
    BY <1>4 DEF Remove, report
  <2> HIDE DEF gone
  <2> QED BY <2>1, DropStep
<1>5. ASSUME NEW k \in Jobs, Settle(k) PROVE Contract!Next
  <2>1. CASE Terminal(k)
    <3>1. UNCHANGED <<status, listed, answered, waiting>>
      BY <1>5, <2>1 DEF Settle, Settles, report
    <3> QED BY <1>0, <3>1, QuietStep
  <2>2. CASE ~Terminal(k)
    <3> DEFINE S == {k}
               why == [j \in S |-> IF cause[j] = "none" THEN "producer" ELSE cause[j]]
    <3>1. /\ status' = [status EXCEPT ![k] = result[k]] /\ result[k] \in Outcomes
          /\ Announce(S, why) /\ listed' = listed
      BY <1>5, <2>2 DEF Settle, Settles
    <3>2. Live(k)
      BY <3>1, <2>2, StatusKinds DEF Inv, RecordOK, Outcomes
    <3>3. S \in SUBSET Jobs /\ Settling(S)
      BY <3>1, <3>2 DEF Inv, Types, Settling
    <3> HIDE DEF S, why
    <3> QED BY <3>1, <3>3, AnnounceStep
  <2> QED BY <2>1, <2>2
<1>6. ASSUME NEW a \in Agents, NEW thrown \in SUBSET Jobs, Clean(a, thrown) PROVE Contract!Next
  <2> DEFINE owned == {j \in listed : owner[j] = a}
  <2>1. owned \in SUBSET Jobs /\ Sweep(owned, thrown) /\ listed' = listed
    BY <1>6 DEF Clean, Inv, Types
  <2> HIDE DEF owned
  <2> QED BY <2>1, SweepStep
<1>7. ASSUME NEW thrown \in SUBSET Jobs, DisposeService(thrown) PROVE Contract!Next
  BY <1>7, SweepStep DEF DisposeService, Inv, Types
<1>8. ASSUME NEW a \in Agents, Drop(a) PROVE Contract!Next
  <2>1. /\ \A j \in swept[a] : Terminal(j)
        /\ listed' = listed \ swept[a] /\ UNCHANGED <<status, waiting, answered>>
    BY <1>8 DEF Drop, report
  <2> QED BY <2>1, DropStep
<1>9. ASSUME DropAll PROVE Contract!Next
  <2>1. /\ \A j \in all : Terminal(j)
        /\ listed' = listed \ all /\ UNCHANGED <<status, waiting, answered>>
    BY <1>9 DEF DropAll, report
  <2> QED BY <2>1, DropStep
<1>10. ASSUME UNCHANGED <<status, listed, waiting, answered>> PROVE Contract!Next
  BY <1>0, <1>10, QuietStep
<1>11. ASSUME NEW j \in Jobs, Caller(j) \/ Producer(j) \/ Settle(j) PROVE Contract!Next
  BY <1>1, <1>2, <1>3, <1>4, <1>5, <1>10, <1>11
     DEF Caller, Producer, ProducerDone, record, report
<1>12. ASSUME NEW a \in Agents, Dispose(a) \/ Disposal(a) \/ Launch(a) PROVE Contract!Next
  <2>1. CASE Dispose(a) \/ NothingToClean(a) \/ Unregister(a) \/ Launch(a)
    BY <1>10, <2>1 DEF Dispose, NothingToClean, Unregister, Launch, record, report
  <2>2. CASE (\E thrown \in SUBSET Jobs : Clean(a, thrown)) \/ Drop(a)
    BY <1>6, <1>8, <2>2
  <2> QED BY <1>12, <2>1, <2>2 DEF Disposal
<1>13. CASE UNCHANGED vars
  BY <1>10, <1>13 DEF vars, record, report
<1> QED BY <1>7, <1>9, <1>11, <1>12, <1>13 DEF Next

LEMMA InitContract == Init => Contract!Init
BY DEF Init, Contract!Init

\* The registry is one the Service Definition describes: a record settles once, in the step
\* that releases its waits, and is never written again (settle, drop and waitJob).
THEOREM ImplementsContract == Spec => KeepsContract
<1>1. Inv /\ Inv' /\ [Next]_vars => [Contract!Next]_(Contract!vars)
  BY StepKeepsContract
<1> QED
  BY <1>1, InitContract, Invariance, PTL DEF Spec, KeepsContract, Contract!Spec
=============================================================================
