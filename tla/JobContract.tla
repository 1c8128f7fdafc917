----------------------------- MODULE JobContract -----------------------------
(***************************************************************************)
(* What the jobs Service Definition promises of any registry: a record is  *)
(* settled once, by one step that also releases every caller waiting for   *)
(* it, stays until it is dropped, and is never written again.              *)
(***************************************************************************)
EXTENDS Naturals

CONSTANT Jobs

VARIABLES
    record,    \* absent, a JobStatus, or removed
    blocked,   \* how many calls of wait are pending on a job
    answered   \* a pending wait got the terminal projection

vars == <<record, blocked, answered>>

Outcomes == {"completed", "killed", "failed"}
Active == {"running", "stopping"}

\* The transitions of a record.
Edges ==
    {<<"absent", "running">>, <<"running", "stopping">>}
        \cup (Active \X Outcomes) \cup (Outcomes \X {"removed"})

Init ==
    /\ record = [j \in Jobs |-> "absent"]
    /\ blocked = [j \in Jobs |-> 0]
    /\ answered = [j \in Jobs |-> FALSE]

Settles(j) == record[j] \in Active /\ record'[j] \in Outcomes

\* Only an active record is waited for, and a settlement releases whoever waits.
Waits(j) ==
    IF Settles(j)
    THEN blocked'[j] = 0 /\ answered'[j] = (blocked[j] > 0)
    ELSE /\ answered'[j] = answered[j]
         /\ blocked'[j] > blocked[j] => record[j] \in Active

Next ==
    /\ \A j \in Jobs : record'[j] = record[j] \/ <<record[j], record'[j]>> \in Edges
    /\ \A j \in Jobs : Waits(j)

Spec == Init /\ [][Next]_vars
=============================================================================
