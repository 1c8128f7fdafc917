----------------------------- MODULE MCSchedule -----------------------------
(***************************************************************************)
(* Schedule for TLC: two reminders of one session, so that they ring in    *)
(* one message when both recur.                                            *)
(***************************************************************************)
EXTENDS Schedule

CONSTANTS t1, t2, s1

MCTasks == {t1, t2}
MCSessions == {s1}
MCSessionOf == [t \in MCTasks |-> s1]
=============================================================================
