-------------------------- MODULE ScheduleRequests --------------------------
(* Schedules, with a record of what the requests asked for: the definition  *)
(* that a schedule would have if each request was handled by itself.        *)
EXTENDS Schedules

VARIABLES wanted,  \* wanted[s]: the definition asked for, NoRow when s is to be deleted
          crossed  \* crossed[s]: a request wrote while another writer had read the row

history == <<wanted, crossed>>

-----------------------------------------------------------------------------

\* Someone has read the row of s and will write it.
Triggers(c, s) == step[c] \in {"commit", "write"} /\ target[c] = s
Edits(e, s) == editing[e] # NotEditing /\ editing[e].schedule = s
InUse(s) == (\E c \in Callers : Triggers(c, s)) \/ (\E e \in Editors : Edits(e, s))

\* A request about s has written: d is asked for.
Asked(s, d) ==
    /\ wanted' = [wanted EXCEPT ![s] = d]
    /\ crossed' = [crossed EXCEPT ![s] = @ \/ InUse(s)']

\* What the input of an update makes of what was asked for before.
Merged(e, s) ==
    LET d == wanted[s]
        input == editing[e].input
    IN IF d = NoRow THEN NoRow
       ELSE [timing |-> Given(input.timing, d.timing), enabled |-> Given(input.enabled, d.enabled),
             next |-> Never]

Ask ==
    \/ \E s \in Schedules : CreateSchedule(s) /\ Asked(s, Definition(row'[s]))
    \/ \E s \in Schedules : DeleteSchedule(s) /\ Asked(s, NoRow)
    \/ \E e \in Editors : \E s \in Schedules :
          Edits(e, s) /\ StoreEdit(e) /\ Asked(s, Merged(e, s))

GoOn ==
    \/ \E s \in Schedules : DeleteConversation(s)
    \/ \E e \in Editors : \E s \in Schedules : ReadForEdit(e, s)
    \/ \E p \in Processes : Dispatch(p)
    \/ \E h \in Hooks : Call(h)
    \/ \E c \in Callers : Fail(c)
    \/ Tick
    \/ \E s \in Schedules : LockExpires(s)
    \/ \E p \in Processes : Crash(p)

RecordedInit ==
    /\ Init
    /\ wanted = [s \in Schedules |-> NoRow]
    /\ crossed = [s \in Schedules |-> FALSE]

RecordedNext == Ask \/ (GoOn /\ UNCHANGED history)

RecordedSpec == RecordedInit /\ [][RecordedNext]_<<vars, history>>

FairRecordedSpec == RecordedSpec /\ Fairness

-----------------------------------------------------------------------------

\* A schedule is what its requests asked for: a pause, an edit or a deletion
\* stays, through any number of dispatches, calls, errors and crashes before
\* and after, unless it was made while triggerSchedule or another update had
\* read the row and not yet written it.
FollowsRequests == \A s \in Schedules : crossed[s] \/ Definition(row[s]) = wanted[s]
=============================================================================
