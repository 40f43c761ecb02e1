----------------------------- MODULE Schedules -----------------------------
(***************************************************************************)
(* Scheduled and webhook jobs: the schedules' rows with their claim, the   *)
(* dispatch loop of each API process, webhook calls, edits and deletions.  *)
(*                                                                         *)
(* A dispatch and a webhook call run the same triggerSchedule on a copy of *)
(* the row: commit the run, write the copy back with the next date, touch  *)
(* the conversation.  step[c] is the next statement of caller c that       *)
(* touches shared state.  Time is counted in minutes, the unit of cron; a  *)
(* write that computes the next date reaches the table in the same minute. *)
(***************************************************************************)
EXTENDS Naturals

CONSTANTS Schedules,  \* schedule ids
          Processes,  \* API processes; each dispatches one schedule at a time
          Hooks,      \* webhook calls
          Editors,    \* update requests
          Timings,    \* trigger types with their cron expression and zone
          Webhook,    \* the timing of a webhook job
          NextOf,     \* NextOf[t][n]: the first occurrence of t after minute n
          TimingsOf,  \* TimingsOf[s]: timings s may be created with
          EditsOf,    \* EditsOf[s]: inputs of the updates of s
          Removable,  \* schedules whose row or conversation may be deleted
          Same,       \* a field that an update does not mention
          Never, NoRow, Nobody,
          Slow,       \* TRUE: dispatches and edits may take any time
          MaxTime,    \* bound: minutes
          MaxEdits,   \* bound: updates
          MaxFaults   \* bound: transient errors and crashes

Callers == Processes \cup Hooks
Clock == 0..MaxTime
Occurrences == 1..(2 * MaxTime + 1)
Row == [timing : Timings, enabled : BOOLEAN, next : Occurrences \cup {Never}]
Edit == [timing : Timings \cup {Same}, enabled : BOOLEAN \cup {Same}]

ASSUME ScheduleAssumption ==
    /\ Processes \cap Hooks = {}
    /\ Webhook \in Timings
    /\ Never \notin Occurrences
    /\ NoRow \notin Row
    /\ Same \notin Timings \cup BOOLEAN
    /\ Nobody \notin Processes \cup Schedules
    /\ TimingsOf \in [Schedules -> SUBSET Timings]
    /\ EditsOf \in [Schedules -> SUBSET Edit]
    /\ Removable \subseteq Schedules
    /\ NextOf \in [Timings -> [Clock -> Occurrences]]
    /\ \A t \in Timings, n \in Clock : NextOf[t][n] > n
    /\ Slow \in BOOLEAN
    /\ {MaxTime, MaxEdits, MaxFaults} \subseteq Nat

VARIABLES now,      \* the minute
          row,      \* row[s]: the schedule's row, NoRow when there is none
          unused,   \* unused[s]: the id was not given out yet
          lock,     \* lock[s]: locked_by
          expired,  \* expired[s]: locked_at is more than five minutes old
          home,     \* home[s]: the schedule's conversation exists
          keys,     \* idempotency keys: a schedule and a date
          runs,     \* runs[s][o]: runs stored for occurrence o
          lastRun,  \* lastRun[s]: the minute the last one was stored in
          step,     \* step[c]: what caller c does next
          target,   \* target[c]: the schedule it triggers
          copy,     \* copy[c]: the row as it was claimed or read
          editing,  \* editing[e]: the schedule, its row as read and the input
          edits, faults

rowVars == <<row, lock, expired, unused>>
runVars == <<keys, runs, lastRun>>
callVars == <<step, target, copy>>
editVars == <<editing, edits>>
vars == <<now, rowVars, home, runVars, callVars, editVars, faults>>

-----------------------------------------------------------------------------

Edited == [schedule : Schedules, row : Row, input : Edit]
NotEditing == [schedule |-> Nobody]

TypeOK ==
    /\ now \in Clock
    /\ row \in [Schedules -> Row \cup {NoRow}]
    /\ unused \in [Schedules -> BOOLEAN]
    /\ lock \in [Schedules -> Processes \cup {Nobody}]
    /\ expired \in [Schedules -> BOOLEAN]
    /\ home \in [Schedules -> BOOLEAN]
    /\ keys \subseteq Schedules \X Occurrences
    /\ runs \in [Schedules -> [Occurrences -> Nat]]
    /\ lastRun \in [Schedules -> Clock]
    /\ step \in [Callers -> {"idle", "commit", "write", "read", "touch", "release"}]
    /\ target \in [Callers -> Schedules \cup {Nobody}]
    /\ copy \in [Callers -> Row \cup {NoRow}]
    /\ editing \in [Editors -> Edited \cup {NotEditing}]
    /\ {edits, faults} \subseteq Nat

Init ==
    /\ now = 0
    /\ row = [s \in Schedules |-> NoRow]
    /\ unused = [s \in Schedules |-> TRUE]
    /\ lock = [s \in Schedules |-> Nobody]
    /\ expired = [s \in Schedules |-> FALSE]
    /\ home = [s \in Schedules |-> TRUE]
    /\ keys = {}
    /\ runs = [s \in Schedules |-> [o \in Occurrences |-> 0]]
    /\ lastRun = [s \in Schedules |-> 0]
    /\ step = [c \in Callers |-> "idle"]
    /\ target = [c \in Callers |-> Nobody]
    /\ copy = [c \in Callers |-> NoRow]
    /\ editing = [e \in Editors |-> NotEditing]
    /\ edits = 0 /\ faults = 0

\* put("schedules", ...): an upsert that also clears the claim.
PutRow(s, r) ==
    /\ row' = [row EXCEPT ![s] = r]
    /\ lock' = [lock EXCEPT ![s] = Nobody]
    /\ expired' = [expired EXCEPT ![s] = FALSE]

NextDate(timing, enabled) ==
    IF enabled /\ timing # Webhook THEN NextOf[timing][now] ELSE Never

-----------------------------------------------------------------------------
(* Requests about schedules.                                               *)

CreateSchedule(s) ==
    /\ unused[s]
    /\ home[s]
    /\ \E timing \in TimingsOf[s] :
          PutRow(s, [timing |-> timing, enabled |-> TRUE, next |-> NextDate(timing, TRUE)])
    /\ unused' = [unused EXCEPT ![s] = FALSE]
    /\ UNCHANGED <<now, home, runVars, callVars, editVars, faults>>

\* updateSchedule reads the row; the conversation has to exist ...
ReadForEdit(e, s) ==
    /\ editing[e] = NotEditing
    /\ edits < MaxEdits
    /\ row[s] # NoRow
    /\ home[s]
    /\ \E input \in EditsOf[s] :
          editing' = [editing EXCEPT ![e] = [schedule |-> s, row |-> row[s], input |-> input]]
    /\ edits' = edits + 1
    /\ UNCHANGED <<now, rowVars, home, runVars, callVars, faults>>

Given(field, stored) == IF field = Same THEN stored ELSE field

\* Mutant of EditedRow: a field left out of the input is stored all the same.
EditedWithGaps(old, input) ==
    LET timing == Given(input.timing, old.timing) IN
    [timing |-> timing, enabled |-> input.enabled, next |-> NextDate(timing, old.enabled)]

\* Mutant of EditedRow: || for ??, so that a job cannot be paused.
EditedWithOr(old, input) ==
    LET timing == Given(input.timing, old.timing)
        enabled == input.enabled = TRUE \/ old.enabled
    IN [timing |-> timing, enabled |-> enabled, next |-> NextDate(timing, enabled)]

\* ... and stores what it read with the input merged in.
EditedRow(old, input) ==
    LET timing == Given(input.timing, old.timing)
        enabled == Given(input.enabled, old.enabled)
        retimed == timing # old.timing \/ (~old.enabled /\ enabled) \/ old.next = Never
    IN [timing |-> timing, enabled |-> enabled,
        next |-> IF retimed \/ ~enabled \/ timing = Webhook
                 THEN NextDate(timing, enabled) ELSE old.next]

StoreEdit(e) ==
    /\ editing[e] # NotEditing
    /\ PutRow(editing[e].schedule, EditedRow(editing[e].row, editing[e].input))
    /\ editing' = [editing EXCEPT ![e] = NotEditing]
    /\ UNCHANGED <<now, unused, home, runVars, callVars, edits, faults>>

DeleteSchedule(s) ==
    /\ s \in Removable
    /\ row[s] # NoRow
    /\ row' = [row EXCEPT ![s] = NoRow]
    /\ lock' = [lock EXCEPT ![s] = Nobody]
    /\ expired' = [expired EXCEPT ![s] = FALSE]
    /\ UNCHANGED <<now, unused, home, runVars, callVars, editVars, faults>>

\* clearConversation and deleteConversation leave the schedules alone.  They
\* wait for the conversation's runs to end; how far a run is is not kept here.
DeleteConversation(s) ==
    /\ s \in Removable
    /\ home[s]
    /\ home' = [home EXCEPT ![s] = FALSE]
    /\ UNCHANGED <<now, rowVars, runVars, callVars, editVars, faults>>

-----------------------------------------------------------------------------
(* triggerSchedule, by a dispatch or a webhook call.                       *)

Due(s) ==
    /\ row[s] # NoRow
    /\ row[s].enabled
    /\ row[s].next # Never
    /\ row[s].next <= now

Begin(c, s) ==
    /\ step[c] = "idle"
    /\ step' = [step EXCEPT ![c] = "commit"]
    /\ target' = [target EXCEPT ![c] = s]
    /\ copy' = [copy EXCEPT ![c] = row[s]]

Proceed(c, from, to) ==
    /\ step[c] = from
    /\ step' = [step EXCEPT ![c] = to]
    /\ UNCHANGED <<target, copy>>

Return(c) ==
    /\ step' = [step EXCEPT ![c] = "idle"]
    /\ target' = [target EXCEPT ![c] = Nobody]
    /\ copy' = [copy EXCEPT ![c] = NoRow]

\* claimDueSchedule: of the due schedules without a live claim, the one with
\* the earliest date.
Unclaimed(s) == Due(s) /\ (lock[s] = Nobody \/ expired[s])
Claim(p, s) ==
    /\ Unclaimed(s)
    /\ \A other \in Schedules : Unclaimed(other) => row[s].next <= row[other].next
    /\ Begin(p, s)
    /\ lock' = [lock EXCEPT ![s] = p]
    /\ expired' = [expired EXCEPT ![s] = FALSE]
    /\ UNCHANGED <<now, row, unused, home, runVars, editVars, faults>>

\* triggerWebhook: a webhook job that is not paused.
ReadForHook(h, s) ==
    /\ row[s] # NoRow
    /\ row[s].timing = Webhook
    /\ row[s].enabled
    /\ Begin(h, s)
    /\ UNCHANGED <<now, rowVars, home, runVars, editVars, faults>>

Key(c) == <<target[c], copy[c].next>>

\* Mutant of CommitRun: the key is not looked up first.
CommitWithoutKey(p) ==
    LET s == target[p] o == copy[p].next IN
    /\ Proceed(p, "commit", "write")
    /\ home[s]
    /\ keys' = keys \cup {Key(p)}
    /\ runs' = [runs EXCEPT ![s][o] = @ + 1]
    /\ lastRun' = [lastRun EXCEPT ![s] = now]
    /\ UNCHANGED <<now, rowVars, home, editVars, faults>>

\* The run of a date is stored under the key of schedule and date ...
CommitRun(p) ==
    LET s == target[p] o == copy[p].next IN
    /\ Proceed(p, "commit", "write")
    /\ Key(p) \notin keys
    /\ home[s]
    /\ keys' = keys \cup {Key(p)}
    /\ runs' = [runs EXCEPT ![s][o] = @ + 1]
    /\ lastRun' = [lastRun EXCEPT ![s] = now]
    /\ UNCHANGED <<now, rowVars, home, editVars, faults>>

\* ... unless it is there already.
FindRun(p) ==
    /\ Proceed(p, "commit", "write")
    /\ Key(p) \in keys
    /\ UNCHANGED <<now, rowVars, home, runVars, editVars, faults>>

\* A webhook call has a key of its own: its run is always a new one.
CommitHookRun(h) ==
    /\ Proceed(h, "commit", "write")
    /\ home[target[h]]
    /\ UNCHANGED <<now, rowVars, home, runVars, editVars, faults>>

\* Mutant of WriteBack: the next date follows the one that was dispatched.
WriteBackFromDate(c) ==
    LET s == target[c] r == copy[c]
        from == IF r.next = Never THEN now ELSE r.next IN
    /\ Proceed(c, "write", "read")
    /\ PutRow(s, [r EXCEPT !.next =
                     IF r.enabled /\ r.timing # Webhook THEN NextOf[r.timing][from] ELSE Never])
    /\ UNCHANGED <<now, unused, home, runVars, editVars, faults>>

\* The copy is written back, whatever the row says now.
WriteBack(c) ==
    LET s == target[c] r == copy[c] IN
    /\ Proceed(c, "write", "read")
    /\ PutRow(s, [r EXCEPT !.next = NextDate(r.timing, r.enabled)])
    /\ UNCHANGED <<now, unused, home, runVars, editVars, faults>>

\* The conversation is read, and stored with the time of its last message.
ReadConversation(c) ==
    /\ step[c] = "read"
    /\ IF home[target[c]] THEN Proceed(c, "read", "touch") ELSE Return(c)
    /\ UNCHANGED <<now, rowVars, home, runVars, editVars, faults>>
TouchConversation(c) ==
    /\ step[c] = "touch"
    /\ home' = [home EXCEPT ![target[c]] = TRUE]
    /\ Return(c)
    /\ UNCHANGED <<now, rowVars, runVars, editVars, faults>>

\* Mutant of Abandon: the error is ignored, the next date is written.
GoOnAfterError(c) ==
    IF step[c] = "commit" THEN Proceed(c, step[c], "write")
    ELSE IF c \in Hooks THEN Return(c) ELSE Proceed(c, step[c], "release")

\* An error ends a webhook call, and sends a dispatch to releaseScheduleClaim.
Abandon(c) == IF c \in Hooks THEN Return(c) ELSE Proceed(c, step[c], "release")

\* messages.conversation_id refers to conversations: no run without one.
CommitRefused(c) ==
    /\ step[c] = "commit"
    /\ ~home[target[c]]
    /\ c \in Hooks \/ Key(c) \notin keys
    /\ Abandon(c)
    /\ UNCHANGED <<now, rowVars, home, runVars, editVars, faults>>

Fail(c) ==
    /\ faults < MaxFaults
    /\ step[c] \in {"commit", "write", "read", "touch"}
    /\ Abandon(c)
    /\ faults' = faults + 1
    /\ UNCHANGED <<now, rowVars, home, runVars, editVars>>

\* The claim is released, whoever holds it.
ReleaseClaim(p) ==
    LET s == target[p] IN
    /\ step[p] = "release"
    /\ lock' = [lock EXCEPT ![s] = Nobody]
    /\ expired' = [expired EXCEPT ![s] = FALSE]
    /\ Return(p)
    /\ UNCHANGED <<now, row, unused, home, runVars, editVars, faults>>

-----------------------------------------------------------------------------
(* Time and crashes.                                                       *)

\* Nothing that can write a stale date is under way: no edit, and no dispatch
\* whose claim an edit has cleared.
Prompt ==
    /\ \A e \in Editors : editing[e] = NotEditing
    /\ \A p \in Processes : step[p] \in {"commit", "write"} => lock[target[p]] = p

Tick ==
    /\ now < MaxTime
    /\ Slow \/ Prompt
    /\ now' = now + 1
    /\ UNCHANGED <<rowVars, home, runVars, callVars, editVars, faults>>

LockExpires(s) ==
    /\ lock[s] # Nobody
    /\ ~expired[s]
    /\ Slow \/ target[lock[s]] # s
    /\ expired' = [expired EXCEPT ![s] = TRUE]
    /\ UNCHANGED <<now, row, lock, unused, home, runVars, callVars, editVars, faults>>

Crash(p) ==
    /\ faults < MaxFaults
    /\ faults' = faults + 1
    /\ Return(p)
    /\ UNCHANGED <<now, rowVars, home, runVars, editVars>>

-----------------------------------------------------------------------------

Dispatch(p) ==
    \/ \E s \in Schedules : Claim(p, s)
    \/ CommitRun(p) \/ FindRun(p)
    \/ CommitRefused(p) \/ WriteBack(p) \/ ReadConversation(p)
    \/ TouchConversation(p) \/ ReleaseClaim(p)

Call(h) ==
    \/ \E s \in Schedules : ReadForHook(h, s)
    \/ CommitHookRun(h)
    \/ CommitRefused(h) \/ WriteBack(h) \/ ReadConversation(h)
    \/ TouchConversation(h)

Request(s) == CreateSchedule(s) \/ DeleteSchedule(s) \/ DeleteConversation(s)

Next ==
    \/ \E s \in Schedules : Request(s)
    \/ \E e \in Editors : \E s \in Schedules : ReadForEdit(e, s)
    \/ \E e \in Editors : StoreEdit(e)
    \/ \E p \in Processes : Dispatch(p)
    \/ \E h \in Hooks : Call(h)
    \/ \E c \in Callers : Fail(c)
    \/ Tick
    \/ \E s \in Schedules : LockExpires(s)
    \/ \E p \in Processes : Crash(p)

Spec == Init /\ [][Next]_vars

\* The timer polls, a dispatch goes on, a claim left behind grows old.
Fairness ==
    /\ \A p \in Processes : WF_vars(Dispatch(p))
    /\ \A s \in Schedules : WF_vars(LockExpires(s))

FairSpec == Spec /\ Fairness

-----------------------------------------------------------------------------

\* A date of a schedule is run at most once: through a crash or an error
\* between the commit and the write-back, a claim that expires or that an
\* edit clears, and an edit that restores the old date.
OneRunPerOccurrence ==
    \A s \in Schedules, o \in Occurrences : runs[s][o] <= 1

\* After a pause of the system a schedule catches up with one run, not with
\* one per missed date: a run is only stored for a date later than the minute
\* the run before it was stored in.  (When requests are prompt.)
CatchesUpOnce ==
    [][\A s \in Schedules, o \in Occurrences :
          runs'[s][o] > runs[s][o] => o > lastRun[s]]_vars

\* A schedule that is due is run for that date: neither another schedule, an
\* edit of its title, a transient error nor a crash makes it miss it.  It does
\* when it is paused, retimed or deleted first, and when a due schedule's
\* conversation is gone: that one fails and is claimed again for ever, and
\* the dispatch loop never gets past it.
DueScheduleFires ==
    \A s \in Schedules, o \in 1..MaxTime :
        Due(s) /\ row[s].next = o ~>
            \/ runs[s][o] > 0
            \/ row[s] = NoRow \/ ~row[s].enabled
            \/ \E other \in Schedules : Due(other) /\ ~home[other]

\* "Routine definitions use version checks": what a schedule is, and whether
\* it is, only changes by a request.  The write-back of a dispatch or a
\* webhook call restores the definition it started with.
Definition(r) == IF r = NoRow THEN NoRow ELSE [r EXCEPT !.next = Never]
DefinitionFollowsRequests ==
    [][\A s \in Schedules : Definition(row'[s]) # Definition(row[s]) =>
          Request(s) \/ \E e \in Editors : StoreEdit(e)]_vars
=============================================================================
