------------------------------- MODULE TurnLog ---------------------------------
(***************************************************************************)
(* What the agent loop promises about a session log: turns are numbered    *)
(* consecutively and never overlap, steps nest in turns, an assistant      *)
(* message's tool calls are recorded and answered in model order, and a    *)
(* step closes only over answered calls.                                   *)
(***************************************************************************)
EXTENDS Integers

VARIABLES
    turn, turnOpen, stepOpen,  \* last turn number; which boundaries are open
    requests, called, answered \* calls asked for in the open step, recorded, answered

vars == <<turn, turnOpen, stepOpen, requests, called, answered>>

Init == /\ turn = 0 /\ turnOpen = FALSE /\ stepOpen = FALSE
        /\ requests = 0 /\ called = 0 /\ answered = 0

OpenTurn ==
    /\ ~turnOpen
    /\ turnOpen' = TRUE /\ turn' = turn + 1
    /\ UNCHANGED <<stepOpen, requests, called, answered>>

OpenStep ==
    /\ turnOpen /\ ~stepOpen
    /\ stepOpen' = TRUE /\ requests' = 0 /\ called' = 0 /\ answered' = 0
    /\ UNCHANGED <<turn, turnOpen>>

\* An assistant message; a step has one with tool calls at most.
Ask ==
    /\ stepOpen /\ requests = 0
    /\ requests' \in Nat
    /\ UNCHANGED <<turn, turnOpen, stepOpen, called, answered>>

Call ==
    /\ stepOpen /\ called < requests
    /\ called' = called + 1
    /\ UNCHANGED <<turn, turnOpen, stepOpen, requests, answered>>

Answer ==
    /\ stepOpen /\ answered < called
    /\ answered' = answered + 1
    /\ UNCHANGED <<turn, turnOpen, stepOpen, requests, called>>

\* Calls skipped by an abort are recorded and answered pairwise.
Skip ==
    /\ stepOpen /\ answered = called
    /\ called' = requests /\ answered' = requests
    /\ UNCHANGED <<turn, turnOpen, stepOpen, requests>>

\* The closing step answers what is left: a failed step's recovery results.
CloseStep ==
    /\ stepOpen
    /\ stepOpen' = FALSE /\ answered' = requests
    /\ UNCHANGED <<turn, turnOpen, requests, called>>

CloseTurn ==
    /\ turnOpen /\ ~stepOpen
    /\ turnOpen' = FALSE
    /\ UNCHANGED <<turn, stepOpen, requests, called, answered>>

Next == OpenTurn \/ OpenStep \/ Ask \/ Call \/ Answer \/ Skip \/ CloseStep \/ CloseTurn

Spec == Init /\ [][Next]_vars
=============================================================================
