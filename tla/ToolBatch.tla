------------------------------ MODULE ToolBatch ------------------------------
(***************************************************************************)
(* What executeToolCalls promises the step that awaits it: the tool calls  *)
(* of one assistant message are recorded in model order, their results     *)
(* are recorded in model order, a call starts only while the signal is     *)
(* live, and an abort still leaves every call answered.                    *)
(***************************************************************************)
EXTENDS Naturals

CONSTANT Requests     \* tool calls in the assistant message

VARIABLES
    called,    \* tool/call events recorded
    answered,  \* tool/result events recorded
    signal,    \* the step's abort signal is aborted
    status     \* "running", "returned" or "rejected"

batchVars == <<called, answered, signal, status>>

Init == called = 0 /\ answered = 0 /\ signal \in BOOLEAN /\ status = "running"

\* cancel, at any time: the scheduler only reads the signal.
Abort == ~signal /\ signal' = TRUE /\ UNCHANGED <<called, answered, status>>

Start ==
    /\ status = "running" /\ ~signal /\ called < Requests
    /\ called' = called + 1
    /\ UNCHANGED <<answered, signal, status>>

Commit ==
    /\ status = "running" /\ answered < called
    /\ answered' = answered + 1
    /\ UNCHANGED <<called, signal, status>>

\* Every call left is recorded with its synthetic answer.
Skip ==
    /\ status = "running" /\ signal /\ answered = called /\ called < Requests
    /\ called' = Requests /\ answered' = Requests
    /\ UNCHANGED <<signal, status>>

Return ==
    /\ status = "running" /\ answered = Requests
    /\ status' = "returned"
    /\ UNCHANGED <<called, answered, signal>>

\* A scheduler failure: the owning step answers what is left.
Reject ==
    /\ status = "running"
    /\ status' = "rejected"
    /\ UNCHANGED <<called, answered, signal>>

Next == Abort \/ Start \/ Commit \/ Skip \/ Return \/ Reject

Spec == Init /\ [][Next]_batchVars
=============================================================================
