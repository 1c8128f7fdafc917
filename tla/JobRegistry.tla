----------------------------- MODULE JobRegistry -----------------------------
(***************************************************************************)
(* Background jobs of one session: the process-local registry (jobs-local) *)
(* with its admission limit, kills, waits, settlements and teardowns, and  *)
(* the completion notices of tool-jobs, over successive agents of that     *)
(* session and jobs that have no owner.                                    *)
(*                                                                         *)
(* Producers settle when they like; one whose cancel returned settles in   *)
(* the end, and a cancel may throw. What a job outputs is left out.        *)
(***************************************************************************)
EXTENDS Naturals, FiniteSets

CONSTANTS
    Jobs,        \* ids the registry may issue
    MaxAgents,   \* bound on the agents that own the session in turn
    Limit,       \* maxConcurrentJobsPerOwner
    Reported,    \* the outcomes producers report
    MaxWaits     \* bound on concurrent waits for a job

Outcomes == {"completed", "killed", "failed"}
Active == {"running", "stopping"}

ASSUME JobsAssumption ==
    /\ Reported \subseteq Outcomes
    /\ MaxAgents \in Nat \ {0} /\ Limit \in Nat \ {0} /\ MaxWaits \in Nat
    /\ IsFiniteSet(Jobs)

VARIABLES
    status,         \* unused, or the JobStatus of the record
    owner,          \* the agent that owns the job
    cause,          \* settleCause: none until a cancel ran
    listed,         \* store: the jobs with a record
    result,         \* the producer's done: pending, an outcome, or taken
    waiting,        \* resolvers of live waits, per job
    killedByModel,  \* jobs whose kill the model asked for
    life,           \* an agent: see Lives
    current,        \* the agent registered for the session
    cleanups,       \* agents whose scope holds a cleanup of this registry
    swept,          \* what a teardown snapshot holds, per agent
    service,        \* the registry's own life: up, sweeping, down
    all,            \* what its teardown snapshot holds
    announced,      \* the cause the settled event carried
    answered,       \* a wait got the terminal projection of the job
    told,           \* jobs whose kill was the model's answer
    notices         \* completion notices sent, per job

record == <<status, owner, cause, listed>>
agents == <<life, current, cleanups, swept>>
report == <<announced, answered, told, notices>>
vars == <<record, result, waiting, killedByModel, agents, service, all, report>>

Agents == 1 .. MaxAgents
NoAgent == 0

\* disposing until the registry's cleanup runs, cleaning while it waits for its jobs,
\* closing until the agent leaves the agent registry.
Lives == {"unborn", "live", "disposing", "cleaning", "closing", "gone"}

Live(j) == status[j] \in Active
Terminal(j) == status[j] \in Outcomes

Init ==
    /\ status = [j \in Jobs |-> "unused"] /\ owner = [j \in Jobs |-> NoAgent]
    /\ cause = [j \in Jobs |-> "none"] /\ listed = {}
    /\ result = [j \in Jobs |-> "pending"] /\ waiting = [j \in Jobs |-> 0]
    /\ killedByModel = {}
    /\ life = [a \in Agents |-> IF a = 1 THEN "live" ELSE "unborn"]
    /\ current = 1 /\ cleanups = {} /\ swept = [a \in Agents |-> {}]
    /\ service = "up" /\ all = {}
    /\ announced = [j \in Jobs |-> "none"] /\ answered = [j \in Jobs |-> FALSE]
    /\ told = {} /\ notices = [j \in Jobs |-> 0]

-----------------------------------------------------------------------------
(* Callers.                                                                *)

\* activeJobCount counts what still holds resources.
ActiveOf(o) == {j \in listed : owner[j] = o /\ Live(j)}

\* Owners that start may be given: none, or the live agent of the session. A scope
\* that is being disposed takes no new cleanup.
Owners ==
    {NoAgent} \cup {a \in Agents : a = current /\ (a \in cleanups \/ life[a] = "live")}

Start(j, o) ==
    /\ service = "up" /\ status[j] = "unused" /\ o \in Owners
    /\ Cardinality(ActiveOf(o)) < Limit
    /\ status' = [status EXCEPT ![j] = "running"] /\ owner' = [owner EXCEPT ![j] = o]
    /\ listed' = listed \cup {j}
    /\ cleanups' = cleanups \cup ({o} \ {NoAgent})
    /\ UNCHANGED <<cause, result, waiting, killedByModel, life, current, swept,
                   service, all, report>>

\* A producer whose cancel throws leaves everything as it is.
Kill(j, byModel) ==
    /\ service = "up" /\ j \in listed /\ Live(j)
    /\ byModel => current # NoAgent /\ life[current] = "live"
    /\ status' = [status EXCEPT ![j] = "stopping"]
    /\ cause' = [cause EXCEPT ![j] = "kill"]
    /\ killedByModel' = IF byModel THEN killedByModel \cup {j} ELSE killedByModel
    /\ told' = IF byModel THEN told \cup {j} ELSE told
    /\ UNCHANGED <<owner, listed, result, waiting, agents, service, all,
                   announced, answered, notices>>

\* job_output with wait, a call of the live agent.
Wait(j) ==
    /\ service = "up" /\ j \in listed /\ Live(j) /\ waiting[j] < MaxWaits
    /\ current # NoAgent /\ life[current] = "live"
    /\ waiting' = [waiting EXCEPT ![j] = @ + 1]
    /\ UNCHANGED <<record, result, killedByModel, agents, service, all, report>>

\* Mutant: the deadline of a wait outlives the settlement that released it.
LeaveLate(j) ==
    /\ status[j] # "unused"
    /\ waiting' = [waiting EXCEPT ![j] = @ - 1]
    /\ UNCHANGED <<record, result, killedByModel, agents, service, all, report>>

\* Its deadline passes, or its call is aborted: its resolver leaves the set.
Leave(j) ==
    /\ waiting[j] > 0
    /\ waiting' = [waiting EXCEPT ![j] = @ - 1]
    /\ UNCHANGED <<record, result, killedByModel, agents, service, all, report>>

Remove(j) ==
    /\ service = "up" /\ j \in listed /\ Terminal(j)
    /\ listed' = listed \ {j} /\ killedByModel' = killedByModel \ {j}
    /\ UNCHANGED <<status, owner, cause, result, waiting, agents, service, all, report>>

-----------------------------------------------------------------------------
(* Settlement.                                                             *)

\* Mutant: the set is looked at after the waits were released.
ReadTooLate(j) == FALSE

Awaited(j) == waiting[j] > 0

\* tool-jobs: a settlement nobody was told of is reported to the session's agent.
Reports(j, why) ==
    /\ j \notin killedByModel /\ ~Awaited(j)
    /\ why # "teardown" /\ owner[j] # NoAgent /\ current # NoAgent

\* The jobs of S have their terminal record: their waits are released and the settled
\* events delivered.
Announce(S, why) ==
    /\ waiting' = [j \in Jobs |-> IF j \in S THEN 0 ELSE waiting[j]]
    /\ answered' = [j \in Jobs |-> IF j \in S THEN waiting[j] > 0 ELSE answered[j]]
    /\ announced' = [j \in Jobs |-> IF j \in S THEN why[j] ELSE announced[j]]
    /\ notices' = [j \in Jobs |-> IF j \in S /\ Reports(j, why[j]) THEN notices[j] + 1
                                                                   ELSE notices[j]]
    /\ killedByModel' = killedByModel \ S
    /\ UNCHANGED told

ProducerDone(j, outcome) ==
    /\ status[j] # "unused" /\ result[j] = "pending"
    /\ result' = [result EXCEPT ![j] = outcome]
    /\ UNCHANGED <<record, waiting, killedByModel, agents, service, all, report>>

\* Mutant: a late producer overwrites the record a teardown forced.
AlwaysSettles(j) == TRUE

\* The first outcome wins.
Settles(j) == ~Terminal(j)

\* The continuation of done, after the pump's last drain.
Settle(j) ==
    /\ result[j] \in Outcomes
    /\ result' = [result EXCEPT ![j] = "taken"]
    /\ IF Settles(j)
       THEN /\ status' = [status EXCEPT ![j] = result[j]]
            /\ Announce({j}, [k \in {j} |-> IF cause[j] = "none" THEN "producer" ELSE cause[j]])
       ELSE UNCHANGED <<status, waiting, killedByModel, report>>
    /\ UNCHANGED <<owner, cause, listed, agents, service, all>>

-----------------------------------------------------------------------------
(* Teardown.                                                               *)

\* Mutant: a job whose cancel threw is only logged.
ForcedNot(thrown) == {}

\* What a cancel that throws does to its job: the record is forced to failed.
Forced(thrown) == thrown

\* cancelForTeardown of what a snapshot holds; thrown are the cancels that throw.
Sweep(jobs, thrown) ==
    LET live == {j \in jobs : Live(j)}
        forced == Forced(live \cap thrown)
    IN  /\ cause' = [j \in Jobs |-> IF j \in live THEN "teardown" ELSE cause[j]]
        /\ status' = [j \in Jobs |-> IF j \in forced THEN "failed"
                                     ELSE IF j \in live \ thrown THEN "stopping" ELSE status[j]]
        /\ Announce(forced, [j \in forced |-> "teardown"])

\* The agent's tool calls are over before its scope is disposed.
Dispose(a) ==
    /\ life[a] = "live" /\ \A j \in Jobs : waiting[j] = 0
    /\ life' = [life EXCEPT ![a] = "disposing"]
    /\ UNCHANGED <<record, result, waiting, killedByModel, current, cleanups, swept,
                   service, all, report>>

\* Mutant: the cleanup stays on record until it is over.
StillAttached(a) == cleanups

Detached(a) == cleanups \ {a}

\* disposeOwned: the snapshot is taken and cancelled in one synchronous span.
Clean(a, thrown) ==
    /\ life[a] = "disposing" /\ a \in cleanups
    /\ LET owned == {j \in listed : owner[j] = a}
       IN  Sweep(owned, thrown) /\ swept' = [swept EXCEPT ![a] = owned]
    /\ cleanups' = Detached(a) /\ life' = [life EXCEPT ![a] = "cleaning"]
    /\ UNCHANGED <<owner, listed, result, current, service, all>>

\* Its jobs have settled and are dropped.
Drop(a) ==
    /\ life[a] = "cleaning" /\ \A j \in swept[a] : Terminal(j)
    /\ listed' = listed \ swept[a] /\ killedByModel' = killedByModel \ swept[a]
    /\ cleanups' = cleanups \ {a} /\ life' = [life EXCEPT ![a] = "closing"]
    /\ UNCHANGED <<status, owner, cause, result, waiting, current, swept, service, all, report>>

\* A scope without a cleanup of this registry.
NothingToClean(a) ==
    /\ life[a] = "disposing" /\ a \notin cleanups
    /\ life' = [life EXCEPT ![a] = "closing"]
    /\ UNCHANGED <<record, result, waiting, killedByModel, current, cleanups, swept,
                   service, all, report>>

\* The agent leaves the agent registry once its scope and its session's log are closed.
Unregister(a) ==
    /\ life[a] = "closing"
    /\ life' = [life EXCEPT ![a] = "gone"] /\ current' = NoAgent
    /\ UNCHANGED <<record, result, waiting, killedByModel, cleanups, swept, service, all, report>>

\* The session is resumed by another agent.
Launch(a) ==
    /\ current = NoAgent /\ life[a] = "unborn" /\ \A b \in Agents : b < a => life[b] = "gone"
    /\ life' = [life EXCEPT ![a] = "live"] /\ current' = a
    /\ UNCHANGED <<record, result, waiting, killedByModel, cleanups, swept, service, all, report>>

\* disposeAll: from here on the service is out of reach of its callers.
DisposeService(thrown) ==
    /\ service = "up" /\ service' = "sweeping"
    /\ Sweep(listed, thrown) /\ all' = listed
    /\ UNCHANGED <<owner, listed, result, agents>>

DropAll ==
    /\ service = "sweeping" /\ \A j \in all : Terminal(j)
    /\ service' = "down"
    /\ listed' = listed \ all /\ killedByModel' = killedByModel \ all /\ cleanups' = {}
    /\ UNCHANGED <<status, owner, cause, result, waiting, life, current, swept, all, report>>

-----------------------------------------------------------------------------
Caller(j) ==
    \/ \E o \in {NoAgent} \cup Agents : Start(j, o)
    \/ \E byModel \in BOOLEAN : Kill(j, byModel)
    \/ Wait(j) \/ Leave(j) \/ Remove(j)
Producer(j) == \E outcome \in Reported : ProducerDone(j, outcome)
Disposal(a) ==
    \/ \E thrown \in SUBSET Jobs : Clean(a, thrown)
    \/ Drop(a) \/ NothingToClean(a) \/ Unregister(a)

Next ==
    \/ \E j \in Jobs : Caller(j) \/ Producer(j) \/ Settle(j)
    \/ \E a \in Agents : Dispose(a) \/ Disposal(a) \/ Launch(a)
    \/ (\E thrown \in SUBSET Jobs : DisposeService(thrown)) \/ DropAll

Spec == Init /\ [][Next]_vars

\* A producer that was asked to stop stops, continuations run, disposals go on.
Fairness ==
    /\ \A j \in Jobs : WF_vars(status[j] = "stopping" /\ Producer(j)) /\ WF_vars(Settle(j))
    /\ \A a \in Agents : WF_vars(Disposal(a))
    /\ WF_vars(DropAll)

FairSpec == Spec /\ Fairness

-----------------------------------------------------------------------------
(* Properties.                                                             *)

\* Every variable keeps its type.
TypeOK ==
    /\ status \in [Jobs -> {"unused"} \cup Active \cup Outcomes]
    /\ owner \in [Jobs -> {NoAgent} \cup Agents]
    /\ cause \in [Jobs -> {"none", "kill", "teardown"}]
    /\ listed \in SUBSET Jobs
    /\ result \in [Jobs -> {"pending", "taken"} \cup Outcomes]
    /\ waiting \in [Jobs -> 0 .. MaxWaits]
    /\ killedByModel \in SUBSET Jobs
    /\ life \in [Agents -> Lives] /\ current \in {NoAgent} \cup Agents
    /\ cleanups \in SUBSET Agents /\ swept \in [Agents -> SUBSET Jobs]
    /\ service \in {"up", "sweeping", "down"} /\ all \in SUBSET Jobs
    /\ announced \in [Jobs -> {"none", "producer", "kill", "teardown"}]
    /\ answered \in [Jobs -> BOOLEAN] /\ told \in SUBSET Jobs /\ notices \in [Jobs -> 0 .. 1]

\* An owner never holds more resources than its limit, jobs that were asked to stop and
\* have not stopped included.
WithinLimit ==
    \A o \in {NoAgent} \cup Agents : Cardinality({j \in Jobs : owner[j] = o /\ Live(j)}) <= Limit

\* A session's agent hears of each of its jobs exactly once: from the wait that was
\* pending when it settled, from the kill it asked for, or else from a notice; and of
\* none that a teardown stopped.
CompletionToldOnce ==
    \A j \in Jobs : Terminal(j) /\ owner[j] # NoAgent =>
        notices[j] = IF announced[j] = "teardown" \/ answered[j] \/ j \in told THEN 0 ELSE 1

\* An agent that has been disposed leaves no job behind.
NoOrphans == \A j \in listed : owner[j] # NoAgent => life[owner[j]] \notin {"closing", "gone"}

\* Whatever settles a job that a teardown has begun to stop, the settlement says teardown,
\* so that nothing is reported to an agent that is going away (jobs-local index.ts:667).
TeardownAnnounced ==
    [][\A j \in Jobs :
          Live(j) /\ Terminal(j)' /\ (j \in all \/ \E a \in Agents : j \in swept[a])
              => announced'[j] = "teardown"]_vars

\* The registry is one the Service Definition describes.
Contract == INSTANCE JobContract
    WITH record <- [j \in Jobs |-> IF j \in listed THEN status[j]
                                   ELSE IF status[j] = "unused" THEN "absent" ELSE "removed"],
         blocked <- waiting

KeepsContract == Contract!Spec

\* An agent's disposal always ends, whatever its jobs were doing.
DisposalEnds == \A a \in Agents : life[a] = "disposing" ~> life[a] = "gone"
=============================================================================
