---------------------------- MODULE ReminderBook ----------------------------
(***************************************************************************)
(* What users of the schedule service rely on, whatever its timer, queue,  *)
(* clock and crashes do: a book of reminders, and the occurrences their    *)
(* sessions durably hold. Only a management call edits a reminder, and it  *)
(* writes what it was accepted for, to the reminder it was accepted for. A *)
(* delivery leaves an occurrence behind only once its session holds that   *)
(* one or a later one of its series, from the very target and rule the     *)
(* reminder has at that moment; a removed reminder never returns; what a   *)
(* session was told stays told.                                            *)
(***************************************************************************)
EXTENDS Integers

CONSTANT Tasks

VARIABLES
    book,    \* the reminder of each identity, or why there is none
    told,    \* <<reminder, occurrence>> pairs its session durably holds
    edit     \* what an accepted call has still to write: of which reminders, and as what

vars == <<book, told, edit>>

Unwritten == [status |-> "unwritten"]
Deleted == [status |-> "deleted"]

\* A reminder: every is its interval, 0 for one that rings once.
Active == [status : {"active"}, every : Nat, target : Int]
Ended == [status : {"inactive"}, every : Nat, target : Int]

NoEdit == [of |-> {}, as |-> Unwritten]

Init ==
    /\ book \in [Tasks -> {Unwritten} \cup Active]
    /\ told = {}
    /\ edit = NoEdit

\* A call creates or changes one reminder, or removes several.
Accept ==
    /\ edit = NoEdit
    /\ edit'.of \subseteq Tasks
    /\ \/ /\ edit'.as \in Active
          /\ \E t \in Tasks : edit'.of = {t} /\ book[t] \in {Unwritten} \cup Active
       \/ /\ edit'.as = Deleted
          /\ edit'.of # {} /\ \A t \in edit'.of : book[t] \in Active \cup Ended
    /\ edit' = [of |-> edit'.of, as |-> edit'.as]
    /\ UNCHANGED <<book, told>>

Without(t) == IF edit.of = {t} THEN NoEdit ELSE [edit EXCEPT !.of = @ \ {t}]

\* Its writes, one by one.
Write(t) ==
    /\ t \in edit.of
    /\ book' = [book EXCEPT ![t] = edit.as]
    /\ edit' = Without(t)
    /\ UNCHANGED told

\* One of them may fail.
Fail(t) == t \in edit.of /\ edit' = Without(t) /\ UNCHANGED <<book, told>>

\* A delivery moves one reminder on, and never between the acceptance of an edit and its writes.
Delivers(t) ==
    /\ edit = NoEdit
    /\ book[t] \in Active
    /\ book' = [book EXCEPT ![t] = book'[t]]
    /\ UNCHANGED <<told, edit>>

\* A reminder that rings once ends when its instant was told.
End(t) ==
    /\ Delivers(t)
    /\ book[t].every = 0
    /\ <<t, book[t].target>> \in told
    /\ book'[t] = [book[t] EXCEPT !.status = "inactive"]

\* A recurring one moves past the occurrence of its series that was told, however many
\* older ones it skips.
Advance(t) ==
    LET every == book[t].every
        last == book'[t].target - every
    IN  /\ Delivers(t)
        /\ every > 0
        /\ \E skipped \in 0 .. last - book[t].target : last = book[t].target + skipped * every
        /\ <<t, last>> \in told
        /\ book'[t] = [book[t] EXCEPT !.target = last + every]

\* One message may make several occurrences durable.
TellsMore == told \subseteq told' /\ told' \subseteq Tasks \X Int

Tell == TellsMore /\ UNCHANGED <<book, edit>>

\* A crash forgets what the call at work had still to write; a session may have stored
\* more than was acknowledged.
Crash == TellsMore /\ edit' = NoEdit /\ UNCHANGED book

Next ==
    \/ Accept \/ Tell \/ Crash
    \/ \E t \in Tasks : Write(t) \/ Fail(t) \/ End(t) \/ Advance(t)

Spec == Init /\ [][Next]_vars
=============================================================================
