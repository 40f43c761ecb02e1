-------------------------- MODULE SchedulesProofs --------------------------
(* What TLAPS proves of Schedules, for every value of its constants. *)
EXTENDS ScheduleRequests, TLAPS

-----------------------------------------------------------------------------
(* The invariant behind the three theorems.                                *)

\* A caller under way has a schedule and a copy of its row, a dispatch before
\* its commit a date that was due.
Carries ==
    /\ \A c \in Callers : step[c] # "idle" => target[c] \in Schedules /\ copy[c] \in Row
    /\ \A p \in Processes : step[p] = "commit" =>
          copy[p].next \in Occurrences /\ copy[p].next <= now

\* The keys count the runs.
Counted ==
    \A s \in Schedules, o \in Occurrences :
        runs[s][o] = IF <<s, o>> \in keys THEN 1 ELSE 0

SInv == TypeOK /\ Carries /\ Counted

\* A dispatch that still has its claim has the row as it is.
ClaimIsFresh ==
    \A p \in Processes :
        step[p] = "commit" /\ lock[target[p]] = p => row[target[p]] = copy[p]

\* The dates that a run of s may still be stored for.
InRow(s, o) == row[s] # NoRow /\ row[s].next = o
InDispatch(s, o) ==
    \E p \in Processes : step[p] = "commit" /\ target[p] = s /\ copy[p].next = o
InEdit(s, o) ==
    \E e \in Editors :
        editing[e] # NotEditing /\ editing[e].schedule = s /\ editing[e].row.next = o
Open(s, o) ==
    /\ InRow(s, o) \/ InDispatch(s, o) \/ InEdit(s, o)
    /\ <<s, o>> \notin keys

\* Such a date is later than the last run, and at most one of them is due.
OpenIsLater ==
    \A s \in Schedules :
        /\ lastRun[s] <= now
        /\ \A o \in Occurrences : Open(s, o) => o > lastRun[s]
OneOpenIsDue ==
    \A s \in Schedules : \A o, q \in Occurrences :
        Open(s, o) /\ Open(s, q) /\ o <= now /\ q <= now => o = q

DInv == SInv /\ ClaimIsFresh /\ OpenIsLater /\ OneOpenIsDue

-----------------------------------------------------------------------------
(* Rows and dates.                                                         *)

\* A new date is an occurrence in the future, or none.
LEMMA NewDate ==
  ASSUME TypeOK, NEW timing \in Timings, NEW enabled \in BOOLEAN
  PROVE  /\ NextDate(timing, enabled) \in Occurrences \cup {Never}
         /\ NextDate(timing, enabled) # Never => NextDate(timing, enabled) > now
<1>1. now \in Clock
  BY DEF TypeOK
<1>2. NextOf[timing][now] \in Occurrences /\ NextOf[timing][now] > now
  BY <1>1, ScheduleAssumption
<1> QED
  BY <1>2 DEF NextDate

\* What an edit stores is a row; its date is new or the one that was read.
LEMMA EditedIsRow ==
  ASSUME TypeOK, NEW old \in Row, NEW input \in Edit
  PROVE  /\ EditedRow(old, input) \in Row
         /\ \/ EditedRow(old, input).next = old.next
            \/ EditedRow(old, input).next = Never
            \/ EditedRow(old, input).next > now
<1> DEFINE timing == Given(input.timing, old.timing)
           enabled == Given(input.enabled, old.enabled)
<1>1. timing \in Timings /\ enabled \in BOOLEAN
  BY ScheduleAssumption DEF Given, Row, Edit
<1>2. /\ NextDate(timing, enabled) \in Occurrences \cup {Never}
      /\ NextDate(timing, enabled) # Never => NextDate(timing, enabled) > now
  BY <1>1, NewDate
<1>3. old.next \in Occurrences \cup {Never}
  BY DEF Row
<1>4. /\ EditedRow(old, input).timing = timing
      /\ EditedRow(old, input).enabled = enabled
      /\ \/ EditedRow(old, input).next = NextDate(timing, enabled)
         \/ EditedRow(old, input).next = old.next
      /\ EditedRow(old, input) =
            [timing |-> EditedRow(old, input).timing,
             enabled |-> EditedRow(old, input).enabled,
             next |-> EditedRow(old, input).next]
  BY DEF EditedRow
<1> HIDE DEF timing, enabled
<1> QED
  BY <1>1, <1>2, <1>3, <1>4 DEF Row

-----------------------------------------------------------------------------
(* Typing, and what callers carry.                                         *)

LEMMA InitSInv == Init => SInv
<1> SUFFICES ASSUME Init PROVE SInv
  OBVIOUS
<1>1. TypeOK
  BY ScheduleAssumption DEF Init, TypeOK, Clock, Occurrences
<1>2. Carries /\ Counted
  BY DEF Init, Carries, Counted, Callers
<1> QED
  BY <1>1, <1>2 DEF SInv

\* Writing a row keeps the types and what the callers carry.
LEMMA PutRowKeeps ==
  ASSUME SInv, NEW s \in Schedules, NEW r \in Row, PutRow(s, r),
         UNCHANGED <<now, home, runVars, faults>>,
         unused' \in [Schedules -> BOOLEAN],
         step' \in [Callers -> {"idle", "commit", "write", "read", "touch", "release"}],
         UNCHANGED <<target, copy>>,
         \A c \in Callers : step'[c] # "idle" => step[c] # "idle",
         \A p \in Processes : step'[p] = "commit" => step[p] = "commit",
         editing' \in [Editors -> Edited \cup {NotEditing}], edits' \in Nat
  PROVE  SInv'
<1>1. /\ row' \in [Schedules -> Row \cup {NoRow}]
      /\ lock' \in [Schedules -> Processes \cup {Nobody}]
      /\ expired' \in [Schedules -> BOOLEAN]
  BY DEF SInv, TypeOK, PutRow
<1>2. TypeOK'
  BY <1>1 DEF SInv, TypeOK, runVars
<1>3. Carries' /\ Counted'
  BY DEF SInv, Carries, Counted, runVars
<1> QED
  BY <1>2, <1>3 DEF SInv

\* A step of a caller that writes no row and stores no run.
LEMMA CallerKeeps ==
  ASSUME SInv,
         UNCHANGED <<now, row, unused, runVars, editVars>>,
         faults' \in Nat,
         home' \in [Schedules -> BOOLEAN],
         lock' \in [Schedules -> Processes \cup {Nobody}],
         expired' \in [Schedules -> BOOLEAN],
         step' \in [Callers -> {"idle", "commit", "write", "read", "touch", "release"}],
         target' \in [Callers -> Schedules \cup {Nobody}],
         copy' \in [Callers -> Row \cup {NoRow}],
         Carries'
  PROVE  SInv'
<1>1. TypeOK'
  BY DEF SInv, TypeOK, runVars, editVars
<1>2. Counted'
  BY DEF SInv, Counted, runVars
<1> QED
  BY <1>1, <1>2 DEF SInv

\* A caller goes on with what it carries, or returns.
LEMMA GoingOnKeeps ==
  ASSUME SInv, NEW c \in Callers,
         NEW to \in {"write", "read", "touch", "release"},
         (step[c] # "idle" /\ Proceed(c, step[c], to)) \/ Return(c)
  PROVE  /\ step' \in [Callers -> {"idle", "commit", "write", "read", "touch", "release"}]
         /\ target' \in [Callers -> Schedules \cup {Nobody}]
         /\ copy' \in [Callers -> Row \cup {NoRow}]
         /\ now' = now => Carries'
<1>1. CASE step[c] # "idle" /\ Proceed(c, step[c], to)
  <2>1. /\ step' \in [Callers -> {"idle", "commit", "write", "read", "touch", "release"}]
        /\ UNCHANGED <<target, copy>>
        /\ \A d \in Callers : step'[d] = step[d] \/ (d = c /\ step'[d] = to)
    BY <1>1 DEF Proceed, SInv, TypeOK
  <2>2. \A d \in Callers : step'[d] # "idle" => step[d] # "idle"
    BY <1>1, <2>1
  <2>3. \A p \in Processes : p \in Callers /\ (step'[p] = "commit" => step[p] = "commit")
    BY <2>1 DEF Callers
  <2>4. now' = now => Carries'
    BY <2>1, <2>2, <2>3 DEF SInv, Carries
  <2> QED
    BY <2>1, <2>4 DEF SInv, TypeOK
<1>2. CASE Return(c)
  <2>1. /\ step' \in [Callers -> {"idle", "commit", "write", "read", "touch", "release"}]
        /\ target' \in [Callers -> Schedules \cup {Nobody}]
        /\ copy' \in [Callers -> Row \cup {NoRow}]
        /\ \A d \in Callers : d # c => /\ step'[d] = step[d]
                                       /\ target'[d] = target[d]
                                       /\ copy'[d] = copy[d]
        /\ step'[c] = "idle"
    BY <1>2 DEF Return, SInv, TypeOK
  <2> QED
    BY <2>1 DEF SInv, Carries, Callers
<1> QED
  BY <1>1, <1>2

LEMMA DispatchSInv ==
  ASSUME SInv, NEW c \in Callers,
         \/ CommitRun(c) /\ c \in Processes
         \/ FindRun(c) \/ CommitHookRun(c) \/ CommitRefused(c) \/ WriteBack(c)
         \/ ReadConversation(c) \/ TouchConversation(c)
         \/ ReleaseClaim(c) \/ Fail(c)
  PROVE  SInv'
<1>1. step[c] # "idle" => target[c] \in Schedules /\ copy[c] \in Row
  BY DEF SInv, Carries
<1>2. CASE CommitRun(c) /\ c \in Processes
  <2> DEFINE s == target[c]
             o == copy[c].next
  <2>1. s \in Schedules /\ o \in Occurrences /\ step[c] = "commit" /\ <<s, o>> \notin keys
    BY <1>1, <1>2 DEF CommitRun, Proceed, SInv, Carries, Key
  <2>2. runs[s][o] = 0
    BY <2>1 DEF SInv, Counted
  <2>3. /\ keys' = keys \cup {<<s, o>>}
        /\ runs' = [runs EXCEPT ![s] = [runs[s] EXCEPT ![o] = runs[s][o] + 1]]
        /\ lastRun' = [lastRun EXCEPT ![s] = now]
        /\ UNCHANGED <<now, row, lock, expired, unused, home, editing, edits, faults>>
        /\ Proceed(c, step[c], "write")
    BY <1>2 DEF CommitRun, Key, Proceed, rowVars, editVars
  <2> HIDE DEF s, o
  <2>4. runs \in [Schedules -> [Occurrences -> Nat]]
    BY DEF SInv, TypeOK
  <2>5. ASSUME NEW t \in Schedules, NEW q \in Occurrences
        PROVE  runs'[t][q] = IF <<t, q>> \in keys' THEN 1 ELSE 0
    <3>1. runs[t][q] = IF <<t, q>> \in keys THEN 1 ELSE 0
      BY DEF SInv, Counted
    <3>2. CASE t = s /\ q = o
      BY <2>1, <2>2, <2>3, <2>4, <3>2
    <3>3. CASE ~(t = s /\ q = o)
      <4>1. runs'[t][q] = runs[t][q]
        BY <2>1, <2>3, <2>4, <3>3
      <4>2. <<t, q>> \in keys' <=> <<t, q>> \in keys
        BY <2>3, <3>3
      <4> QED
        BY <3>1, <4>1, <4>2
    <3> QED
      BY <3>2, <3>3
  <2>6. /\ runs' \in [Schedules -> [Occurrences -> Nat]]
        /\ keys' \subseteq Schedules \X Occurrences
        /\ lastRun' \in [Schedules -> Clock]
    <3>1. runs[s][o] + 1 \in Nat
      BY <2>2
    <3>2. [runs[s] EXCEPT ![o] = runs[s][o] + 1] \in [Occurrences -> Nat]
      BY <2>1, <2>4, <3>1
    <3> QED
      BY <2>1, <2>3, <2>4, <3>2 DEF SInv, TypeOK
  <2>7. /\ step' \in [Callers -> {"idle", "commit", "write", "read", "touch", "release"}]
        /\ target' \in [Callers -> Schedules \cup {Nobody}]
        /\ copy' \in [Callers -> Row \cup {NoRow}]
        /\ Carries'
    BY <2>1, <2>3, GoingOnKeeps
  <2>8. TypeOK'
    BY <2>3, <2>6, <2>7 DEF SInv, TypeOK
  <2> QED
    BY <2>5, <2>7, <2>8 DEF SInv, Counted
<1>3. CASE FindRun(c)
  BY <1>3, GoingOnKeeps, CallerKeeps DEF FindRun, Proceed, rowVars, SInv, TypeOK, editVars
<1>4. CASE CommitHookRun(c)
  BY <1>4, GoingOnKeeps, CallerKeeps DEF CommitHookRun, Proceed, rowVars, SInv, TypeOK, editVars
<1>5. CASE CommitRefused(c)
  <2>1. step[c] # "idle" /\ (Proceed(c, step[c], "release") \/ Return(c))
    BY <1>5 DEF CommitRefused, Abandon
  <2> QED
    BY <2>1, <1>5, GoingOnKeeps, CallerKeeps DEF CommitRefused, rowVars, SInv, TypeOK, editVars
<1>6. CASE WriteBack(c)
  <2> DEFINE r == [copy[c] EXCEPT !.next = NextDate(copy[c].timing, copy[c].enabled)]
  <2>1. step[c] = "write" /\ copy[c] \in Row /\ target[c] \in Schedules
    BY <1>1, <1>6 DEF WriteBack, Proceed
  <2>2. r \in Row
    <3>1. copy[c].timing \in Timings /\ copy[c].enabled \in BOOLEAN
      BY <2>1 DEF Row
    <3>2. NextDate(copy[c].timing, copy[c].enabled) \in Occurrences \cup {Never}
      BY <3>1, NewDate DEF SInv
    <3> QED
      BY <2>1, <3>2 DEF Row
  <2>3. /\ PutRow(target[c], r)
        /\ Proceed(c, step[c], "read")
        /\ UNCHANGED <<now, unused, home, runVars, editing, edits, faults>>
    BY <1>6 DEF WriteBack, Proceed, editVars
  <2> HIDE DEF r
  <2>4. \A d \in Callers : step'[d] = step[d] \/ (step[d] # "idle" /\ step'[d] = "read")
    BY <2>1, <2>3 DEF Proceed, SInv, TypeOK
  <2>5. step' \in [Callers -> {"idle", "commit", "write", "read", "touch", "release"}]
    BY <2>1, <2>3, GoingOnKeeps
  <2>6. /\ \A d \in Callers : step'[d] # "idle" => step[d] # "idle"
        /\ \A p \in Processes : step'[p] = "commit" => step[p] = "commit"
    BY <2>4 DEF Callers
  <2>7. /\ unused' \in [Schedules -> BOOLEAN]
        /\ editing' \in [Editors -> Edited \cup {NotEditing}]
        /\ edits' \in Nat
        /\ UNCHANGED <<target, copy>>
    BY <2>3 DEF SInv, TypeOK, Proceed
  <2> QED
    BY <2>1, <2>2, <2>3, <2>5, <2>6, <2>7, PutRowKeeps
<1>7. CASE ReadConversation(c)
  <2>1. step[c] # "idle" /\ (Proceed(c, step[c], "touch") \/ Return(c))
    BY <1>7 DEF ReadConversation
  <2> QED
    BY <2>1, <1>7, GoingOnKeeps, CallerKeeps DEF ReadConversation, rowVars, SInv, TypeOK, editVars
<1>8. CASE TouchConversation(c)
  <2>1. step[c] # "idle" /\ Return(c)
    BY <1>8 DEF TouchConversation
  <2> QED
    BY <2>1, <1>8, GoingOnKeeps, CallerKeeps DEF TouchConversation, rowVars, SInv, TypeOK, editVars
<1>9. CASE ReleaseClaim(c)
  <2>1. step[c] # "idle" /\ Return(c)
    BY <1>9 DEF ReleaseClaim
  <2>2. /\ lock' \in [Schedules -> Processes \cup {Nobody}]
        /\ expired' \in [Schedules -> BOOLEAN]
    BY <1>9 DEF ReleaseClaim, SInv, TypeOK
  <2> QED
    BY <2>1, <2>2, <1>9, GoingOnKeeps, CallerKeeps DEF ReleaseClaim, SInv, TypeOK, editVars
<1>10. CASE Fail(c)
  <2>1. step[c] # "idle" /\ (Proceed(c, step[c], "release") \/ Return(c))
    BY <1>10 DEF Fail, Abandon
  <2> QED
    BY <2>1, <1>10, GoingOnKeeps, CallerKeeps DEF Fail, rowVars, SInv, TypeOK, editVars
<1> QED
  BY <1>2, <1>3, <1>4, <1>5, <1>6, <1>7, <1>8, <1>9, <1>10

LEMMA RequestSInv ==
  ASSUME SInv,
         \/ \E s \in Schedules : Request(s)
         \/ \E e \in Editors : \E s \in Schedules : ReadForEdit(e, s)
         \/ \E e \in Editors : StoreEdit(e)
  PROVE  SInv'
<1> USE DEF SInv, TypeOK, callVars, editVars
<1>1. ASSUME NEW s \in Schedules, CreateSchedule(s) PROVE SInv'
  <2>1. PICK timing \in TimingsOf[s] :
           PutRow(s, [timing |-> timing, enabled |-> TRUE, next |-> NextDate(timing, TRUE)])
    BY <1>1 DEF CreateSchedule
  <2>2. timing \in Timings
    BY ScheduleAssumption
  <2>3. [timing |-> timing, enabled |-> TRUE, next |-> NextDate(timing, TRUE)] \in Row
    BY <2>2, NewDate DEF Row
  <2>4. unused' \in [Schedules -> BOOLEAN]
    BY <1>1 DEF CreateSchedule
  <2> QED
    BY <2>1, <2>3, <2>4, <1>1, PutRowKeeps DEF CreateSchedule
<1>2. ASSUME NEW s \in Schedules, DeleteSchedule(s) PROVE SInv'
  <2>1. TypeOK'
    BY <1>2 DEF DeleteSchedule, runVars
  <2>2. Carries' /\ Counted'
    BY <1>2 DEF DeleteSchedule, Carries, Counted, runVars
  <2> QED
    BY <2>1, <2>2
<1>3. ASSUME NEW s \in Schedules, DeleteConversation(s) PROVE SInv'
  <2>1. TypeOK'
    BY <1>3 DEF DeleteConversation, runVars, rowVars
  <2>2. Carries' /\ Counted'
    BY <1>3 DEF DeleteConversation, Carries, Counted, runVars
  <2> QED
    BY <2>1, <2>2
<1>4. ASSUME NEW e \in Editors, NEW s \in Schedules, ReadForEdit(e, s) PROVE SInv'
  <2>1. PICK input \in EditsOf[s] :
           editing' = [editing EXCEPT ![e] = [schedule |-> s, row |-> row[s], input |-> input]]
    BY <1>4 DEF ReadForEdit
  <2>2. input \in Edit /\ row[s] \in Row
    BY <1>4, ScheduleAssumption DEF ReadForEdit
  <2>3. editing' \in [Editors -> Edited \cup {NotEditing}]
    BY <2>1, <2>2 DEF Edited
  <2>4. edits' \in Nat
    BY <1>4 DEF ReadForEdit
  <2>5. TypeOK'
    BY <1>4, <2>3, <2>4 DEF ReadForEdit, runVars, rowVars
  <2>6. Carries' /\ Counted'
    BY <1>4 DEF ReadForEdit, Carries, Counted, runVars
  <2> QED
    BY <2>5, <2>6
<1>5. ASSUME NEW e \in Editors, StoreEdit(e) PROVE SInv'
  <2>1. editing[e] \in Edited
    BY <1>5 DEF StoreEdit
  <2>2. /\ editing[e].schedule \in Schedules
        /\ editing[e].row \in Row
        /\ editing[e].input \in Edit
    BY <2>1 DEF Edited
  <2>3. EditedRow(editing[e].row, editing[e].input) \in Row
    BY <2>2, EditedIsRow
  <2>4. editing' \in [Editors -> Edited \cup {NotEditing}]
    BY <1>5 DEF StoreEdit
  <2> QED
    BY <2>2, <2>3, <2>4, <1>5, PutRowKeeps DEF StoreEdit
<1> QED
  BY <1>1, <1>2, <1>3, <1>4, <1>5 DEF Request

\* A claim, or a webhook call that reads its job.
LEMMA BeginSInv ==
  ASSUME SInv, NEW c \in Callers, NEW s \in Schedules,
         (Claim(c, s) /\ c \in Processes) \/ (ReadForHook(c, s) /\ c \in Hooks)
  PROVE  SInv'
<1>1. Begin(c, s) /\ row[s] # NoRow
  BY DEF Claim, ReadForHook, Unclaimed, Due
<1>2. row[s] \in Row
  BY <1>1 DEF SInv, TypeOK
<1>3. /\ step' \in [Callers -> {"idle", "commit", "write", "read", "touch", "release"}]
      /\ target' \in [Callers -> Schedules \cup {Nobody}]
      /\ copy' \in [Callers -> Row \cup {NoRow}]
      /\ target'[c] = s /\ copy'[c] = row[s]
      /\ \A d \in Callers : d # c => /\ step'[d] = step[d]
                                     /\ target'[d] = target[d]
                                     /\ copy'[d] = copy[d]
  BY <1>1, <1>2 DEF Begin, SInv, TypeOK
<1>4. /\ lock' \in [Schedules -> Processes \cup {Nobody}]
      /\ expired' \in [Schedules -> BOOLEAN]
      /\ UNCHANGED <<now, row, unused, home, runVars, editVars, faults>>
  BY DEF Claim, ReadForHook, rowVars, SInv, TypeOK
<1>5. c \in Processes => row[s].next \in Occurrences /\ row[s].next <= now
  <2> SUFFICES ASSUME c \in Processes PROVE row[s].next \in Occurrences /\ row[s].next <= now
    OBVIOUS
  <2>1. Due(s)
    BY ScheduleAssumption DEF Claim, Unclaimed
  <2> QED
    BY <2>1, <1>2 DEF Due, Row
<1>6. Carries'
  <2>1. ASSUME NEW d \in Callers, step'[d] # "idle"
        PROVE  target'[d] \in Schedules /\ copy'[d] \in Row
    BY <2>1, <1>2, <1>3 DEF SInv, Carries
  <2>2. ASSUME NEW p \in Processes, step'[p] = "commit"
        PROVE  copy'[p].next \in Occurrences /\ copy'[p].next <= now'
    BY <2>2, <1>3, <1>4, <1>5 DEF SInv, Carries, Callers
  <2> QED
    BY <2>1, <2>2 DEF Carries
<1> QED
  BY <1>3, <1>4, <1>6, CallerKeeps DEF SInv, TypeOK

LEMMA NextSInv == SInv /\ [Next]_vars => SInv'
<1> SUFFICES ASSUME SInv, [Next]_vars PROVE SInv'
  OBVIOUS
<1>1. CASE \/ \E s \in Schedules : Request(s)
           \/ \E e \in Editors : \E s \in Schedules : ReadForEdit(e, s)
           \/ \E e \in Editors : StoreEdit(e)
  BY <1>1, RequestSInv
<1>2. ASSUME NEW p \in Processes, Dispatch(p) PROVE SInv'
  BY <1>2, BeginSInv, DispatchSInv DEF Dispatch, Callers
<1>3. ASSUME NEW h \in Hooks, Call(h) PROVE SInv'
  BY <1>3, BeginSInv, DispatchSInv DEF Call, Callers
<1>4. ASSUME NEW c \in Callers, Fail(c) PROVE SInv'
  BY <1>4, DispatchSInv
<1>5. CASE Tick
  <2>1. now' \in Clock /\ now' = now + 1 /\ now \in Nat
    BY <1>5, ScheduleAssumption DEF Tick, SInv, TypeOK, Clock
  <2>2. TypeOK'
    BY <1>5, <2>1 DEF Tick, SInv, TypeOK, rowVars, runVars, callVars, editVars
  <2>3. Carries' /\ Counted'
    BY <1>5, <2>1 DEF Tick, SInv, TypeOK, Carries, Counted, runVars, callVars, Occurrences
  <2> QED
    BY <2>2, <2>3 DEF SInv
<1>6. ASSUME NEW s \in Schedules, LockExpires(s) PROVE SInv'
  <2>1. TypeOK'
    BY <1>6 DEF LockExpires, SInv, TypeOK, runVars, callVars, editVars
  <2>2. Carries' /\ Counted'
    BY <1>6 DEF LockExpires, SInv, Carries, Counted, runVars, callVars
  <2> QED
    BY <2>1, <2>2 DEF SInv
<1>7. ASSUME NEW p \in Processes, Crash(p) PROVE SInv'
  <2>1. p \in Callers /\ Return(p)
    BY <1>7 DEF Crash, Callers
  <2>2. faults' \in Nat /\ UNCHANGED <<now, rowVars, home, runVars, editVars>>
    BY <1>7 DEF Crash, SInv, TypeOK
  <2> QED
    BY <2>1, <2>2, GoingOnKeeps, CallerKeeps DEF rowVars, SInv, TypeOK
<1>8. CASE UNCHANGED vars
  BY <1>8 DEF SInv, TypeOK, Carries, Counted, vars, rowVars, runVars, callVars, editVars
<1> QED
  BY <1>1, <1>2, <1>3, <1>4, <1>5, <1>6, <1>7, <1>8 DEF Next

-----------------------------------------------------------------------------
(* What holds however slow the system is.                                  *)

LEMMA SInvHolds == Spec => []SInv
<1> QED
  BY InitSInv, NextSInv, PTL DEF Spec

\* Every variable of Schedules keeps its type.
THEOREM SchedulesTyped == Spec => []TypeOK
<1>1. SInv => TypeOK
  BY DEF SInv
<1> QED
  BY <1>1, SInvHolds, PTL

\* A date is run at most once: the key stands for the one run there is,
\* whatever claims expire, edits restore and processes crash.
THEOREM OccurrencesRunOnce == Spec => []OneRunPerOccurrence
<1>1. ASSUME SInv PROVE OneRunPerOccurrence
  <2>1. ASSUME NEW s \in Schedules, NEW o \in Occurrences PROVE runs[s][o] <= 1
    <3>1. runs[s][o] = IF <<s, o>> \in keys THEN 1 ELSE 0
      BY <1>1 DEF SInv, Counted
    <3> QED
      BY <3>1
  <2> QED
    BY <2>1 DEF OneRunPerOccurrence
<1> QED
  BY <1>1, SInvHolds, PTL

-----------------------------------------------------------------------------
(* What holds when requests are prompt.                                    *)

LEMMA InitDInv == Init => DInv
<1> SUFFICES ASSUME Init PROVE DInv
  OBVIOUS
<1>1. SInv
  BY InitSInv
<1>2. ClaimIsFresh
  BY DEF Init, ClaimIsFresh, Callers
<1>3. \A s \in Schedules, o \in Occurrences : ~Open(s, o)
  BY DEF Init, Open, InRow, InDispatch, InEdit, Callers
<1>4. \A s \in Schedules : lastRun[s] <= now
  <2> SUFFICES ASSUME NEW s \in Schedules PROVE lastRun[s] <= now
    OBVIOUS
  <2>1. lastRun[s] = 0 /\ now = 0
    BY DEF Init
  <2> QED
    BY <2>1
<1> QED
  BY <1>1, <1>2, <1>3, <1>4 DEF DInv, OpenIsLater, OneOpenIsDue

\* Dates that are added are in the future.
LEMMA LaterDatesKeep ==
  ASSUME DInv, UNCHANGED <<now, keys, lastRun>>,
         \A s \in Schedules : \A o \in Occurrences : Open(s, o)' => Open(s, o) \/ o > now
  PROVE  OpenIsLater' /\ OneOpenIsDue'
<1>1. now \in Nat /\ \A s \in Schedules : lastRun[s] \in Nat
  BY ScheduleAssumption DEF DInv, SInv, TypeOK, Clock
<1>2. ASSUME NEW s \in Schedules
      PROVE  lastRun'[s] <= now' /\ \A o \in Occurrences : Open(s, o)' => o > lastRun'[s]
  <2>1. lastRun[s] <= now /\ \A o \in Occurrences : Open(s, o) => o > lastRun[s]
    BY DEF DInv, OpenIsLater
  <2> QED
    BY <1>1, <2>1 DEF Occurrences
<1>3. ASSUME NEW s \in Schedules, NEW o \in Occurrences, NEW q \in Occurrences,
             Open(s, o)', Open(s, q)', o <= now, q <= now
      PROVE  o = q
  <2>1. ~(o > now) /\ ~(q > now)
    BY <1>1, <1>3 DEF Occurrences
  <2>2. Open(s, o) /\ Open(s, q)
    BY <1>3, <2>1
  <2> QED
    BY <1>3, <2>2 DEF DInv, OneOpenIsDue
<1>4. OpenIsLater'
  BY <1>2 DEF OpenIsLater
<1>5. OneOpenIsDue'
  BY <1>3 DEF OneOpenIsDue
<1> QED
  BY <1>4, <1>5

\* Steps that begin no dispatch and no edit, store no run and let no time pass.
LEMMA QuietKeepsDInv ==
  ASSUME DInv, SInv', UNCHANGED <<now, keys, lastRun>>,
         \A s \in Schedules :
            /\ row'[s] = row[s] \/ lock'[s] = Nobody
            /\ lock'[s] = lock[s] \/ lock'[s] = Nobody
            /\ \A o \in Occurrences : InRow(s, o)' => InRow(s, o) \/ InEdit(s, o) \/ o > now,
         \A p \in Processes : step'[p] = "commit" =>
            step[p] = "commit" /\ target'[p] = target[p] /\ copy'[p] = copy[p],
         \A e \in Editors : editing'[e] = editing[e] \/ editing'[e] = NotEditing
  PROVE  DInv'
<1>1. ClaimIsFresh'
  <2> SUFFICES ASSUME NEW p \in Processes, step'[p] = "commit", lock'[target'[p]] = p
               PROVE  row'[target'[p]] = copy'[p]
    BY DEF ClaimIsFresh
  <2>1. step[p] = "commit" /\ target'[p] = target[p] /\ copy'[p] = copy[p]
    OBVIOUS
  <2>2. target[p] \in Schedules
    BY <2>1 DEF DInv, SInv, Carries, Callers
  <2>3. p # Nobody
    BY ScheduleAssumption
  <2>4. lock[target[p]] = p /\ row'[target[p]] = row[target[p]]
    BY <2>1, <2>2, <2>3
  <2> QED
    BY <2>1, <2>4 DEF DInv, ClaimIsFresh
<1>2. ASSUME NEW s \in Schedules, NEW o \in Occurrences, Open(s, o)'
      PROVE  Open(s, o) \/ o > now
  <2>1. <<s, o>> \notin keys
    BY <1>2 DEF Open
  <2>2. InDispatch(s, o)' => InDispatch(s, o)
    BY DEF InDispatch
  <2>3. InEdit(s, o)' => InEdit(s, o)
    BY DEF InEdit
  <2> QED
    BY <1>2, <2>1, <2>2, <2>3 DEF Open
<1>3. OpenIsLater' /\ OneOpenIsDue'
  BY <1>2, LaterDatesKeep
<1> QED
  BY <1>1, <1>3 DEF DInv

LEMMA ReadForEditDInv ==
  ASSUME DInv, SInv', NEW e \in Editors, NEW s \in Schedules, ReadForEdit(e, s)
  PROVE  DInv'
<1>1. PICK input \in EditsOf[s] :
         editing' = [editing EXCEPT ![e] = [schedule |-> s, row |-> row[s], input |-> input]]
  BY DEF ReadForEdit
<1>2. /\ row[s] # NoRow
      /\ UNCHANGED <<now, row, lock, keys, lastRun, step, target, copy>>
  BY DEF ReadForEdit, rowVars, runVars, callVars
<1>3. editing \in [Editors -> Edited \cup {NotEditing}]
  BY DEF DInv, SInv, TypeOK
<1>4. ASSUME NEW t \in Schedules, NEW o \in Occurrences, InEdit(t, o)'
      PROVE  InEdit(t, o) \/ InRow(t, o)
  <2>1. PICK d \in Editors : /\ editing'[d] # NotEditing
                             /\ editing'[d].schedule = t
                             /\ editing'[d].row.next = o
    BY <1>4 DEF InEdit
  <2>2. CASE d = e
    <3>1. editing'[d] = [schedule |-> s, row |-> row[s], input |-> input]
      BY <1>1, <1>3, <2>2
    <3>2. t = s /\ row[s].next = o
      BY <2>1, <3>1
    <3> QED
      BY <1>2, <3>2 DEF InRow
  <2>3. CASE d # e
    <3>1. editing'[d] = editing[d]
      BY <1>1, <1>3, <2>3
    <3> QED
      BY <2>1, <3>1 DEF InEdit
  <2> QED
    BY <2>2, <2>3
<1>5. ASSUME NEW t \in Schedules, NEW o \in Occurrences, Open(t, o)' PROVE Open(t, o)
  <2>1. InRow(t, o)' <=> InRow(t, o)
    BY <1>2 DEF InRow
  <2>2. InDispatch(t, o)' <=> InDispatch(t, o)
    BY <1>2 DEF InDispatch
  <2> QED
    BY <1>2, <1>4, <1>5, <2>1, <2>2 DEF Open
<1>6. OpenIsLater' /\ OneOpenIsDue'
  BY <1>2, <1>5, LaterDatesKeep
<1>7. ClaimIsFresh'
  BY <1>2 DEF DInv, ClaimIsFresh
<1> QED
  BY <1>6, <1>7 DEF DInv

LEMMA ClaimDInv ==
  ASSUME DInv, SInv', NEW p \in Processes, NEW s \in Schedules, Claim(p, s)
  PROVE  DInv'
<1>1. /\ row[s] # NoRow
      /\ UNCHANGED <<now, row, keys, lastRun, editing>>
      /\ lock' = [lock EXCEPT ![s] = p]
      /\ step[p] = "idle"
      /\ step' = [step EXCEPT ![p] = "commit"]
      /\ target' = [target EXCEPT ![p] = s]
      /\ copy' = [copy EXCEPT ![p] = row[s]]
  BY DEF Claim, Begin, Unclaimed, Due, runVars, editVars
<1>2. /\ lock'[s] = p
      /\ \A t \in Schedules : t # s => lock'[t] = lock[t]
      /\ target'[p] = s /\ copy'[p] = row[s]
      /\ \A d \in Processes : d # p => /\ step'[d] = step[d]
                                       /\ target'[d] = target[d]
                                       /\ copy'[d] = copy[d]
  BY <1>1 DEF DInv, SInv, TypeOK, Callers
<1>3. ClaimIsFresh'
  <2> SUFFICES ASSUME NEW d \in Processes, step'[d] = "commit", lock'[target'[d]] = d
               PROVE  row'[target'[d]] = copy'[d]
    BY DEF ClaimIsFresh
  <2>1. CASE d = p
    BY <1>1, <1>2, <2>1
  <2>2. CASE d # p
    <3>1. step[d] = "commit" /\ target'[d] = target[d] /\ copy'[d] = copy[d]
      BY <1>2, <2>2
    <3>2. target[d] \in Schedules /\ target[d] # s
      BY <1>2, <2>2, <3>1 DEF DInv, SInv, Carries, Callers
    <3>3. lock[target[d]] = d
      BY <1>2, <3>1, <3>2
    <3> QED
      BY <1>1, <3>1, <3>3 DEF DInv, ClaimIsFresh
  <2> QED
    BY <2>1, <2>2
<1>4. ASSUME NEW t \in Schedules, NEW o \in Occurrences, Open(t, o)' PROVE Open(t, o)
  <2>1. InRow(t, o)' <=> InRow(t, o)
    BY <1>1 DEF InRow
  <2>2. InEdit(t, o)' <=> InEdit(t, o)
    BY <1>1 DEF InEdit
  <2>3. InDispatch(t, o)' => InDispatch(t, o) \/ InRow(t, o)
    BY <1>1, <1>2 DEF InDispatch, InRow
  <2> QED
    BY <1>1, <1>4, <2>1, <2>2, <2>3 DEF Open
<1>5. OpenIsLater' /\ OneOpenIsDue'
  BY <1>1, <1>4, LaterDatesKeep
<1> QED
  BY <1>3, <1>5 DEF DInv

\* The run that is stored is the one that is due; every other open date is
\* in the future.
LEMMA CommitRunDInv ==
  ASSUME DInv, SInv', NEW p \in Processes, CommitRun(p)
  PROVE  /\ DInv'
         /\ \A s \in Schedules, o \in Occurrences :
               runs'[s][o] > runs[s][o] => o > lastRun[s]
<1> DEFINE s == target[p]
           o == copy[p].next
<1>1. /\ step[p] = "commit"
      /\ s \in Schedules /\ o \in Occurrences /\ o <= now
      /\ <<s, o>> \notin keys
  BY DEF CommitRun, Proceed, DInv, SInv, Carries, Callers, Key
<1>2. Open(s, o)
  BY <1>1 DEF Open, InDispatch
<1>3. /\ keys' = keys \cup {<<s, o>>}
      /\ runs' = [runs EXCEPT ![s] = [runs[s] EXCEPT ![o] = runs[s][o] + 1]]
      /\ lastRun' = [lastRun EXCEPT ![s] = now]
      /\ UNCHANGED <<now, row, lock, editing, target, copy>>
      /\ step' = [step EXCEPT ![p] = "write"]
  BY DEF CommitRun, Key, Proceed, rowVars, editVars
<1> HIDE DEF s, o
<1>4. now \in Nat /\ \A t \in Schedules : lastRun[t] \in Nat /\ lastRun[t] <= now
  BY ScheduleAssumption DEF DInv, SInv, TypeOK, Clock, OpenIsLater
<1>5. ASSUME NEW t \in Schedules, NEW q \in Occurrences, Open(t, q)'
      PROVE  Open(t, q) /\ ~(t = s /\ q = o)
  <2>1. <<t, q>> \notin keys /\ ~(t = s /\ q = o)
    BY <1>3, <1>5 DEF Open
  <2>2. \A d \in Processes : step'[d] = "commit" => step[d] = "commit"
    BY <1>3 DEF DInv, SInv, TypeOK, Callers
  <2>3. InDispatch(t, q)' => InDispatch(t, q)
    BY <1>3, <2>2 DEF InDispatch
  <2>4. (InRow(t, q)' => InRow(t, q)) /\ (InEdit(t, q)' => InEdit(t, q))
    BY <1>3 DEF InRow, InEdit
  <2> QED
    BY <1>5, <2>1, <2>3, <2>4 DEF Open
<1>6. OneOpenIsDue'
  BY <1>3, <1>5 DEF DInv, OneOpenIsDue
<1>7. OpenIsLater'
  <2> SUFFICES ASSUME NEW t \in Schedules
               PROVE  /\ lastRun'[t] <= now'
                      /\ \A q \in Occurrences : Open(t, q)' => q > lastRun'[t]
    BY DEF OpenIsLater
  <2>1. CASE t = s
    <3>1. lastRun'[t] = now
      BY <1>3, <2>1 DEF DInv, SInv, TypeOK
    <3>2. ASSUME NEW q \in Occurrences, Open(t, q)' PROVE q > now
      <4>1. Open(t, q) /\ q # o
        BY <1>5, <2>1, <3>2
      <4>2. ~(q <= now)
        BY <1>1, <1>2, <2>1, <4>1 DEF DInv, OneOpenIsDue
      <4> QED
        BY <1>4, <4>2 DEF Occurrences
    <3> QED
      BY <1>3, <1>4, <3>1, <3>2
  <2>2. CASE t # s
    <3>1. lastRun'[t] = lastRun[t]
      BY <1>3, <2>2 DEF DInv, SInv, TypeOK
    <3> QED
      BY <1>3, <1>4, <1>5, <3>1 DEF DInv, OpenIsLater
  <2> QED
    BY <2>1, <2>2
<1>8. ClaimIsFresh'
  <2>1. \A d \in Processes : step'[d] = "commit" => step[d] = "commit"
    BY <1>3 DEF DInv, SInv, TypeOK, Callers
  <2> QED
    BY <1>3, <2>1 DEF DInv, ClaimIsFresh
<1>9. ASSUME NEW t \in Schedules, NEW q \in Occurrences, runs'[t][q] > runs[t][q]
      PROVE  q > lastRun[t]
  <2>1. runs \in [Schedules -> [Occurrences -> Nat]]
    BY DEF DInv, SInv, TypeOK
  <2>2. CASE t = s /\ q = o
    BY <1>1, <1>2, <2>2 DEF DInv, OpenIsLater
  <2>3. CASE ~(t = s /\ q = o)
    <3>1. runs'[t][q] = runs[t][q] /\ runs[t][q] \in Nat
      BY <1>1, <1>3, <2>1, <2>3
    <3> QED
      BY <1>9, <3>1
  <2> QED
    BY <2>2, <2>3
<1> QED
  BY <1>6, <1>7, <1>8, <1>9 DEF DInv

\* A row is written with the date an edit has read, with a new one or none.
LEMMA PutRowKeepsDInv ==
  ASSUME DInv, SInv', NEW s \in Schedules, NEW r \in Row, PutRow(s, r),
         UNCHANGED <<now, keys, lastRun>>,
         r.next \in Occurrences => r.next > now \/ InEdit(s, r.next),
         \A p \in Processes : step'[p] = "commit" => step[p] = "commit",
         UNCHANGED <<target, copy>>,
         \A e \in Editors : editing'[e] = editing[e] \/ editing'[e] = NotEditing
  PROVE  DInv'
<1>1. /\ row'[s] = r /\ lock'[s] = Nobody
      /\ \A t \in Schedules : t # s => row'[t] = row[t] /\ lock'[t] = lock[t]
  BY DEF PutRow, DInv, SInv, TypeOK
<1>2. ASSUME NEW t \in Schedules, NEW o \in Occurrences, InRow(t, o)'
      PROVE  InRow(t, o) \/ InEdit(t, o) \/ o > now
  <2>1. CASE t = s
    <3>1. r.next = o
      BY <1>1, <1>2, <2>1 DEF InRow
    <3> QED
      BY <2>1, <3>1
  <2>2. CASE t # s
    BY <1>1, <1>2, <2>2 DEF InRow
  <2> QED
    BY <2>1, <2>2
<1>3. \A t \in Schedules : /\ row'[t] = row[t] \/ lock'[t] = Nobody
                           /\ lock'[t] = lock[t] \/ lock'[t] = Nobody
  BY <1>1
<1> QED
  BY <1>2, <1>3, QuietKeepsDInv

LEMMA RequestDInv ==
  ASSUME DInv, SInv',
         \/ \E s \in Schedules : Request(s)
         \/ \E e \in Editors : \E s \in Schedules : ReadForEdit(e, s)
         \/ \E e \in Editors : StoreEdit(e)
  PROVE  DInv'
<1>1. ASSUME NEW s \in Schedules, CreateSchedule(s) PROVE DInv'
  <2>1. PICK timing \in TimingsOf[s] :
           PutRow(s, [timing |-> timing, enabled |-> TRUE, next |-> NextDate(timing, TRUE)])
    BY <1>1 DEF CreateSchedule
  <2> DEFINE r == [timing |-> timing, enabled |-> TRUE, next |-> NextDate(timing, TRUE)]
  <2>2. timing \in Timings
    BY ScheduleAssumption
  <2>3. r \in Row /\ (r.next \in Occurrences => r.next > now)
    BY <2>2, NewDate, ScheduleAssumption DEF Row, DInv, SInv
  <2>4. UNCHANGED <<now, keys, lastRun, step, target, copy, editing>>
    BY <1>1 DEF CreateSchedule, runVars, callVars, editVars
  <2>5. PutRow(s, r)
    BY <2>1
  <2> HIDE DEF r
  <2> QED
    BY <2>3, <2>4, <2>5, PutRowKeepsDInv
<1>2. ASSUME NEW s \in Schedules, DeleteSchedule(s) PROVE DInv'
  <2>1. /\ row' = [row EXCEPT ![s] = NoRow]
        /\ lock' = [lock EXCEPT ![s] = Nobody]
        /\ UNCHANGED <<now, keys, lastRun, step, target, copy, editing>>
    BY <1>2 DEF DeleteSchedule, runVars, callVars, editVars
  <2>2. \A t \in Schedules :
           /\ row'[t] = row[t] \/ (row'[t] = NoRow /\ lock'[t] = Nobody)
           /\ lock'[t] = lock[t] \/ lock'[t] = Nobody
    BY <2>1 DEF DInv, SInv, TypeOK
  <2>3. \A t \in Schedules : \A o \in Occurrences : InRow(t, o)' => InRow(t, o)
    BY <2>2 DEF InRow
  <2> QED
    BY <2>1, <2>2, <2>3, QuietKeepsDInv
<1>3. ASSUME NEW s \in Schedules, DeleteConversation(s) PROVE DInv'
  <2>1. UNCHANGED <<now, row, lock, keys, lastRun, step, target, copy, editing>>
    BY <1>3 DEF DeleteConversation, rowVars, runVars, callVars, editVars
  <2> QED
    BY <2>1, QuietKeepsDInv DEF InRow
<1>4. ASSUME NEW e \in Editors, StoreEdit(e) PROVE DInv'
  <2> DEFINE s == editing[e].schedule
             r == EditedRow(editing[e].row, editing[e].input)
  <2>1. editing[e] \in Edited
    BY <1>4 DEF StoreEdit, DInv, SInv, TypeOK
  <2>2. /\ s \in Schedules
        /\ editing[e].row \in Row
        /\ editing[e].input \in Edit
    BY <2>1 DEF Edited
  <2>3. r \in Row /\ (r.next = editing[e].row.next \/ r.next = Never \/ r.next > now)
    BY <2>2, EditedIsRow DEF DInv, SInv
  <2>4. r.next \in Occurrences => r.next > now \/ InEdit(s, r.next)
    BY <1>4, <2>3, ScheduleAssumption DEF InEdit, StoreEdit
  <2>5. PutRow(s, r)
    BY <1>4 DEF StoreEdit
  <2>6. /\ UNCHANGED <<now, keys, lastRun, step, target, copy>>
        /\ \A d \in Editors : editing'[d] = editing[d] \/ editing'[d] = NotEditing
    BY <1>4 DEF StoreEdit, runVars, callVars, DInv, SInv, TypeOK
  <2> HIDE DEF s, r
  <2> QED
    BY <2>2, <2>3, <2>4, <2>5, <2>6, PutRowKeepsDInv
<1> QED
  BY <1>1, <1>2, <1>3, <1>4, ReadForEditDInv DEF Request

\* A caller that neither commits a run nor begins.
LEMMA DispatchDInv ==
  ASSUME DInv, SInv', NEW c \in Callers,
         \/ FindRun(c) \/ CommitHookRun(c) \/ CommitRefused(c) \/ WriteBack(c)
         \/ ReadConversation(c) \/ TouchConversation(c)
         \/ ReleaseClaim(c) \/ Fail(c)
         \/ (c \in Hooks /\ \E s \in Schedules : ReadForHook(c, s))
         \/ (c \in Processes /\ Crash(c))
  PROVE  DInv'
<1>1. /\ UNCHANGED <<now, keys, lastRun, editing>>
      /\ \A p \in Processes : step'[p] = "commit" =>
            step[p] = "commit" /\ target'[p] = target[p] /\ copy'[p] = copy[p]
  <2>1. CASE \E to \in {"write", "read", "touch", "release"} : Proceed(c, step[c], to)
    BY <2>1 DEF Proceed, DInv, SInv, TypeOK, Callers, FindRun, CommitHookRun, CommitRefused,
                WriteBack, ReadConversation, TouchConversation, ReleaseClaim, Fail,
                ReadForHook, Crash, runVars, editVars
  <2>2. CASE Return(c)
    BY <2>2 DEF Return, DInv, SInv, TypeOK, Callers, FindRun, CommitHookRun, CommitRefused,
                WriteBack, ReadConversation, TouchConversation, ReleaseClaim, Fail,
                ReadForHook, Crash, runVars, editVars
  <2>3. CASE c \in Hooks /\ \E s \in Schedules : ReadForHook(c, s)
    <3>1. PICK s \in Schedules : ReadForHook(c, s)
      BY <2>3
    <3>2. \A p \in Processes : p # c
      BY <2>3, ScheduleAssumption
    <3> QED
      BY <3>1, <3>2 DEF ReadForHook, Begin, runVars, editVars, DInv, SInv, TypeOK, Callers
  <2> QED
    BY <2>1, <2>2, <2>3 DEF FindRun, CommitHookRun, CommitRefused, WriteBack, Proceed,
       ReadConversation, TouchConversation, ReleaseClaim, Fail, Abandon, Crash
<1>2. CASE WriteBack(c)
  <2> DEFINE r == [copy[c] EXCEPT !.next = NextDate(copy[c].timing, copy[c].enabled)]
  <2>1. copy[c] \in Row /\ target[c] \in Schedules
    BY <1>2 DEF WriteBack, Proceed, DInv, SInv, Carries
  <2>2. copy[c].timing \in Timings /\ copy[c].enabled \in BOOLEAN
    BY <2>1 DEF Row
  <2>3. r \in Row /\ (r.next \in Occurrences => r.next > now)
    BY <2>1, <2>2, NewDate, ScheduleAssumption DEF Row, DInv, SInv
  <2>4. PutRow(target[c], r) /\ UNCHANGED <<target, copy>>
    BY <1>2 DEF WriteBack, Proceed
  <2> HIDE DEF r
  <2> QED
    BY <1>1, <2>1, <2>3, <2>4, PutRowKeepsDInv
<1>3. CASE ~WriteBack(c)
  <2>1. /\ row' = row
        /\ \A s \in Schedules : lock'[s] = lock[s] \/ lock'[s] = Nobody
    BY <1>3 DEF FindRun, CommitHookRun, CommitRefused, ReadConversation, TouchConversation,
                ReleaseClaim, Fail, ReadForHook, Crash, rowVars, DInv, SInv, TypeOK
  <2>2. \A s \in Schedules : \A o \in Occurrences : InRow(s, o)' => InRow(s, o)
    BY <2>1 DEF InRow
  <2> QED
    BY <1>1, <2>1, <2>2, QuietKeepsDInv
<1> QED
  BY <1>2, <1>3

\* When a minute passes, the row holds every open date of a schedule.
LEMMA TickDInv ==
  ASSUME DInv, SInv', Tick, ~Slow
  PROVE  DInv'
<1>1. /\ Prompt
      /\ now \in Nat /\ now' = now + 1
      /\ UNCHANGED <<row, lock, keys, lastRun, step, target, copy, editing>>
  BY ScheduleAssumption
     DEF Tick, DInv, SInv, TypeOK, Clock, rowVars, runVars, callVars, editVars
<1>2. \A s \in Schedules, o \in Occurrences : Open(s, o)' <=> Open(s, o)
  BY <1>1 DEF Open, InRow, InDispatch, InEdit
<1>3. ASSUME NEW s \in Schedules, NEW o \in Occurrences, Open(s, o) PROVE row[s].next = o
  <2>1. ~InEdit(s, o)
    BY <1>1 DEF Prompt, InEdit
  <2>2. ASSUME InDispatch(s, o) PROVE row[s].next = o
    <3>1. PICK p \in Processes : step[p] = "commit" /\ target[p] = s /\ copy[p].next = o
      BY <2>2 DEF InDispatch
    <3>2. lock[s] = p
      BY <1>1, <3>1 DEF Prompt
    <3> QED
      BY <3>1, <3>2 DEF DInv, ClaimIsFresh
  <2> QED
    BY <1>3, <2>1, <2>2 DEF Open, InRow
<1>4. OneOpenIsDue'
  BY <1>2, <1>3 DEF OneOpenIsDue
<1>5. OpenIsLater'
  <2> SUFFICES ASSUME NEW s \in Schedules
               PROVE  /\ lastRun[s] <= now + 1
                      /\ \A o \in Occurrences : Open(s, o)' => o > lastRun[s]
    BY <1>1 DEF OpenIsLater
  <2>1. /\ lastRun[s] <= now /\ lastRun[s] \in Nat
        /\ \A o \in Occurrences : Open(s, o) => o > lastRun[s]
    BY ScheduleAssumption DEF DInv, OpenIsLater, SInv, TypeOK, Clock
  <2> QED
    BY <1>1, <1>2, <2>1
<1>6. ClaimIsFresh'
  BY <1>1 DEF DInv, ClaimIsFresh
<1> QED
  BY <1>4, <1>5, <1>6 DEF DInv

LEMMA NextDInv == ~Slow /\ DInv /\ [Next]_vars => DInv'
<1> SUFFICES ASSUME ~Slow, DInv, [Next]_vars PROVE DInv'
  OBVIOUS
<1>1. SInv'
  BY NextSInv DEF DInv
<1>2. CASE \/ \E s \in Schedules : Request(s)
           \/ \E e \in Editors : \E s \in Schedules : ReadForEdit(e, s)
           \/ \E e \in Editors : StoreEdit(e)
  BY <1>1, <1>2, RequestDInv
<1>3. ASSUME NEW p \in Processes, Dispatch(p) PROVE DInv'
  BY <1>1, <1>3, ClaimDInv, CommitRunDInv, DispatchDInv DEF Dispatch, Callers
<1>4. ASSUME NEW h \in Hooks, Call(h) PROVE DInv'
  BY <1>1, <1>4, DispatchDInv DEF Call, Callers
<1>5. ASSUME NEW c \in Callers, Fail(c) PROVE DInv'
  BY <1>1, <1>5, DispatchDInv
<1>6. CASE Tick
  BY <1>1, <1>6, TickDInv
<1>7. ASSUME NEW s \in Schedules, LockExpires(s) PROVE DInv'
  <2>1. UNCHANGED <<now, row, lock, keys, lastRun, step, target, copy, editing>>
    BY <1>7 DEF LockExpires, runVars, callVars, editVars
  <2> QED
    BY <1>1, <2>1, QuietKeepsDInv DEF InRow
<1>8. ASSUME NEW p \in Processes, Crash(p) PROVE DInv'
  BY <1>1, <1>8, DispatchDInv DEF Callers
<1>9. CASE UNCHANGED vars
  <2>1. UNCHANGED <<now, row, lock, keys, lastRun, step, target, copy, editing>>
    BY <1>9 DEF vars, rowVars, runVars, callVars, editVars
  <2> QED
    BY <1>1, <2>1, QuietKeepsDInv DEF InRow
<1> QED
  BY <1>2, <1>3, <1>4, <1>5, <1>6, <1>7, <1>8, <1>9 DEF Next

\* After a pause of the system a schedule catches up with one run.  This
\* needs prompt requests: an edit that stores a date it read minutes ago
\* brings a missed date back.
THEOREM CatchUpIsOnce ==
  ASSUME ~Slow
  PROVE  Spec => CatchesUpOnce
<1>1. ASSUME DInv, [Next]_vars, NEW s \in Schedules, NEW o \in Occurrences,
             runs'[s][o] > runs[s][o]
      PROVE  o > lastRun[s]
  <2>1. SInv'
    BY <1>1, NextSInv DEF DInv
  <2>2. CASE \E p \in Processes : CommitRun(p)
    BY <1>1, <2>1, <2>2, CommitRunDInv
  <2>3. CASE ~\E p \in Processes : CommitRun(p)
    <3>1. runs' = runs
      BY <1>1, <2>3 DEF Next, Request, CreateSchedule, DeleteSchedule, DeleteConversation,
         ReadForEdit, StoreEdit, Dispatch, Call, Claim, ReadForHook, FindRun, CommitHookRun,
         CommitRefused, WriteBack, ReadConversation, TouchConversation, ReleaseClaim, Fail,
         Tick, LockExpires, Crash, runVars, vars
    <3>2. runs[s][o] \in Nat
      BY <1>1 DEF DInv, SInv, TypeOK
    <3> QED
      BY <1>1, <3>1, <3>2
  <2> QED
    BY <2>2, <2>3
<1>2. DInv /\ [Next]_vars =>
        [\A s \in Schedules, o \in Occurrences :
            runs'[s][o] > runs[s][o] => o > lastRun[s]]_vars
  BY <1>1
<1>3. DInv /\ [Next]_vars => DInv'
  BY NextDInv
<1> QED
  BY <1>2, <1>3, InitDInv, PTL DEF Spec, CatchesUpOnce

-----------------------------------------------------------------------------
(* What the requests asked for.                                            *)

\* As long as no request crossed a writer of s, the row and every copy of it
\* that may be written have the definition that was asked for.
AskedInv ==
    \A s \in Schedules : crossed[s] \/
        /\ Definition(row[s]) = wanted[s]
        /\ \A c \in Callers : Triggers(c, s) => Definition(copy[c]) = wanted[s]
        /\ \A e \in Editors : Edits(e, s) => Definition(editing[e].row) = wanted[s]
HistoryOK ==
    /\ wanted \in [Schedules -> Row \cup {NoRow}]
    /\ crossed \in [Schedules -> BOOLEAN]
RecordInv == SInv /\ HistoryOK /\ AskedInv

LEMMA DefinitionIs ==
  ASSUME NEW r \in Row
  PROVE  /\ Definition(r) = [timing |-> r.timing, enabled |-> r.enabled, next |-> Never]
         /\ Definition(r) \in Row /\ Definition(r) # NoRow
<1>1. r # NoRow /\ NoRow \notin Row
  BY ScheduleAssumption
<1>2. Definition(r) = [timing |-> r.timing, enabled |-> r.enabled, next |-> Never]
  BY <1>1 DEF Definition, Row
<1>3. Definition(r) \in Row
  BY <1>2 DEF Row
<1> QED
  BY <1>1, <1>2, <1>3

\* A request that has written, while nobody was to write the row.
LEMMA AskedKeeps ==
  ASSUME RecordInv, NEW s \in Schedules, NEW d \in Row \cup {NoRow}, Asked(s, d),
         ~crossed[s] /\ ~InUse(s)' => Definition(row'[s]) = d,
         \A other \in Schedules : other # s => row'[other] = row[other],
         UNCHANGED <<step, target, copy>>,
         \A e \in Editors : editing'[e] = editing[e] \/ editing'[e] = NotEditing
  PROVE  HistoryOK' /\ AskedInv'
<1>1. /\ wanted' = [wanted EXCEPT ![s] = d] /\ crossed' = [crossed EXCEPT ![s] = crossed[s] \/ InUse(s)']
  BY DEF Asked
<1>2. HistoryOK'
  <2>1. (crossed[s] \/ InUse(s)') \in BOOLEAN
    BY DEF RecordInv, HistoryOK, InUse
  <2> QED
    BY <1>1, <2>1 DEF RecordInv, HistoryOK
<1>3. ASSUME NEW other \in Schedules, ~crossed'[other]
      PROVE  /\ Definition(row'[other]) = wanted'[other]
             /\ \A c \in Callers : Triggers(c, other)' => Definition(copy'[c]) = wanted'[other]
             /\ \A e \in Editors : Edits(e, other)' => Definition(editing'[e].row) = wanted'[other]
  <2>1. CASE other = s
    <3>1. ~crossed[s] /\ ~InUse(s)' /\ wanted'[s] = d
      BY <1>1, <1>3, <2>1 DEF RecordInv, HistoryOK
    <3> QED
      BY <2>1, <3>1 DEF InUse
  <2>2. CASE other # s
    <3>1. ~crossed[other] /\ wanted'[other] = wanted[other] /\ row'[other] = row[other]
      BY <1>1, <1>3, <2>2 DEF RecordInv, HistoryOK
    <3>2. \A e \in Editors : Edits(e, other)' => Edits(e, other) /\ editing'[e] = editing[e]
      BY DEF Edits
    <3>3. \A c \in Callers : Triggers(c, other)' => Triggers(c, other)
      BY DEF Triggers
    <3> QED
      BY <3>1, <3>2, <3>3 DEF RecordInv, AskedInv
  <2> QED
    BY <2>1, <2>2
<1>4. AskedInv'
  BY <1>3 DEF AskedInv
<1> QED
  BY <1>2, <1>4

LEMMA AskKeeps ==
  ASSUME RecordInv, Ask
  PROVE  HistoryOK' /\ AskedInv'
<1>0. /\ row \in [Schedules -> Row \cup {NoRow}] /\ NoRow \notin Row
      /\ editing \in [Editors -> Edited \cup {NotEditing}]
  BY ScheduleAssumption DEF RecordInv, SInv, TypeOK
<1>1. ASSUME NEW s \in Schedules, CreateSchedule(s), Asked(s, Definition(row'[s]))
      PROVE  HistoryOK' /\ AskedInv'
  <2>1. PICK timing \in TimingsOf[s] :
           PutRow(s, [timing |-> timing, enabled |-> TRUE, next |-> NextDate(timing, TRUE)])
    BY <1>1 DEF CreateSchedule
  <2> DEFINE r == [timing |-> timing, enabled |-> TRUE, next |-> NextDate(timing, TRUE)]
  <2>2. r \in Row
    <3>1. timing \in Timings
      BY ScheduleAssumption
    <3>2. NextDate(timing, TRUE) \in Occurrences \cup {Never}
      BY <3>1, NewDate DEF RecordInv, SInv
    <3> QED
      BY <3>1, <3>2 DEF Row
  <2>3. row' = [row EXCEPT ![s] = r]
    BY <2>1 DEF PutRow
  <2> HIDE DEF r
  <2>4. row'[s] = r /\ \A other \in Schedules : other # s => row'[other] = row[other]
    BY <1>0, <2>3
  <2>5. UNCHANGED <<step, target, copy, editing>>
    BY <1>1 DEF CreateSchedule, callVars, editVars
  <2>6. PICK d \in Row : d = Definition(row'[s])
    BY <2>2, <2>4, DefinitionIs
  <2>7. Asked(s, d)
    BY <1>1, <2>6 DEF Asked
  <2> QED
    BY <2>4, <2>5, <2>6, <2>7, AskedKeeps
<1>2. ASSUME NEW s \in Schedules, DeleteSchedule(s), Asked(s, NoRow)
      PROVE  HistoryOK' /\ AskedInv'
  <2>1. row'[s] = NoRow /\ \A other \in Schedules : other # s => row'[other] = row[other]
    BY <1>0, <1>2 DEF DeleteSchedule
  <2>2. UNCHANGED <<step, target, copy, editing>>
    BY <1>2 DEF DeleteSchedule, callVars, editVars
  <2> QED
    BY <1>2, <2>1, <2>2, AskedKeeps DEF Definition
<1>3. ASSUME NEW e \in Editors, NEW s \in Schedules, Edits(e, s), StoreEdit(e), Asked(s, Merged(e, s))
      PROVE  HistoryOK' /\ AskedInv'
  <2> DEFINE old == editing[e].row
             input == editing[e].input
  <2>1. editing[e] \in Edited /\ editing[e].schedule = s /\ old \in Row /\ input \in Edit
    BY <1>0, <1>3 DEF Edits, Edited
  <2>2. row' = [row EXCEPT ![s] = EditedRow(old, input)]
    BY <1>3, <2>1 DEF StoreEdit, PutRow
  <2>3. /\ row'[s] = EditedRow(old, input) /\ EditedRow(old, input) \in Row
        /\ \A other \in Schedules : other # s => row'[other] = row[other]
    <3>1. EditedRow(old, input) \in Row
      BY <2>1, EditedIsRow DEF RecordInv, SInv
    <3> QED
      BY <1>0, <2>2, <3>1
  <2>4. /\ UNCHANGED <<step, target, copy>>
        /\ \A other \in Editors : editing'[other] = editing[other] \/ editing'[other] = NotEditing
    BY <1>0, <1>3 DEF StoreEdit, callVars
  <2>5. PICK d : d = Merged(e, s)
    OBVIOUS
  <2>6. d \in Row \cup {NoRow}
    <3>1. wanted[s] \in Row \cup {NoRow}
      BY DEF RecordInv, HistoryOK
    <3>2. \A w \in Row : [timing |-> Given(input.timing, w.timing),
                          enabled |-> Given(input.enabled, w.enabled), next |-> Never] \in Row
      BY <2>1, ScheduleAssumption DEF Row, Edit, Given
    <3> QED
      BY <2>5, <3>1, <3>2 DEF Merged
  <2>7. ASSUME ~crossed[s] PROVE Definition(row'[s]) = d
    <3>1. Definition(old) = wanted[s]
      BY <1>3, <2>7 DEF RecordInv, AskedInv
    <3>2. /\ wanted[s] = [timing |-> old.timing, enabled |-> old.enabled, next |-> Never]
          /\ wanted[s] # NoRow
      BY <2>1, <3>1, DefinitionIs
    <3>3. d = [timing |-> Given(input.timing, old.timing),
               enabled |-> Given(input.enabled, old.enabled), next |-> Never]
      <4>1. wanted[s].timing = old.timing /\ wanted[s].enabled = old.enabled
        BY <3>2
      <4> QED
        BY <2>5, <3>2, <4>1 DEF Merged
    <3>4. /\ EditedRow(old, input).timing = Given(input.timing, old.timing)
          /\ EditedRow(old, input).enabled = Given(input.enabled, old.enabled)
      BY DEF EditedRow
    <3> QED
      BY <2>3, <3>3, <3>4, DefinitionIs
  <2>8. Asked(s, d)
    BY <1>3, <2>5 DEF Asked
  <2> QED
    BY <2>3, <2>4, <2>6, <2>7, <2>8, AskedKeeps
<1> QED
  BY <1>1, <1>2, <1>3 DEF Ask

\* A step that writes no row: what is read for a later write is the row.
LEMMA ReadingKeepsAsked ==
  ASSUME RecordInv, UNCHANGED <<row, history>>,
         \A c \in Callers, s \in Schedules :
            Triggers(c, s)' => (Triggers(c, s) /\ copy'[c] = copy[c]) \/ copy'[c] = row[s],
         \A e \in Editors, s \in Schedules :
            Edits(e, s)' => (Edits(e, s) /\ editing'[e] = editing[e]) \/ editing'[e].row = row[s]
  PROVE  HistoryOK' /\ AskedInv'
<1>1. UNCHANGED <<wanted, crossed, row>>
  BY DEF history
<1>2. HistoryOK'
  BY <1>1 DEF RecordInv, HistoryOK
<1>3. ASSUME NEW s \in Schedules, ~crossed'[s]
      PROVE  /\ Definition(row'[s]) = wanted'[s]
             /\ \A c \in Callers : Triggers(c, s)' => Definition(copy'[c]) = wanted'[s]
             /\ \A e \in Editors : Edits(e, s)' => Definition(editing'[e].row) = wanted'[s]
  BY <1>1, <1>3 DEF RecordInv, AskedInv
<1> QED
  BY <1>2, <1>3 DEF AskedInv

\* A caller that goes on or returns reads nothing.
LEMMA CallerKeepsAsked ==
  ASSUME RecordInv, NEW c \in Callers, UNCHANGED <<row, editing, history>>,
         \/ \E from, to \in {"commit", "write", "read", "touch", "release"} :
               Proceed(c, from, to) /\ (to = "write" => from = "commit") /\ to # "commit"
         \/ Return(c)
  PROVE  HistoryOK' /\ AskedInv'
<1>1. ASSUME NEW d \in Callers, NEW s \in Schedules, Triggers(d, s)'
      PROVE  Triggers(d, s) /\ copy'[d] = copy[d]
  <2>1. CASE Return(c)
    BY <1>1, <2>1 DEF Return, Triggers, RecordInv, SInv, TypeOK
  <2>2. CASE ~Return(c)
    <3>1. PICK from \in {"commit", "write", "read", "touch", "release"},
               to \in {"commit", "write", "read", "touch", "release"} :
             Proceed(c, from, to) /\ (to = "write" => from = "commit") /\ to # "commit"
      BY <2>2
    <3> QED
      BY <1>1, <3>1 DEF Proceed, Triggers, RecordInv, SInv, TypeOK
  <2> QED
    BY <2>1, <2>2
<1>2. \A e \in Editors, s \in Schedules : Edits(e, s)' => Edits(e, s) /\ editing'[e] = editing[e]
  BY DEF Edits
<1> QED
  BY <1>1, <1>2, ReadingKeepsAsked

LEMMA BeginKeepsAsked ==
  ASSUME RecordInv, NEW c \in Callers, NEW s \in Schedules, Begin(c, s),
         UNCHANGED <<row, editing, history>>
  PROVE  HistoryOK' /\ AskedInv'
<1>1. ASSUME NEW d \in Callers, NEW t \in Schedules, Triggers(d, t)'
      PROVE  (Triggers(d, t) /\ copy'[d] = copy[d]) \/ copy'[d] = row[t]
  BY <1>1 DEF Begin, Triggers, RecordInv, SInv, TypeOK
<1>2. \A e \in Editors, t \in Schedules : Edits(e, t)' => Edits(e, t) /\ editing'[e] = editing[e]
  BY DEF Edits
<1> QED
  BY <1>1, <1>2, ReadingKeepsAsked

\* The write-back writes a definition that nobody has changed, unless a request
\* crossed it.
LEMMA WriteBackKeepsAsked ==
  ASSUME RecordInv, NEW c \in Callers, WriteBack(c), UNCHANGED history
  PROVE  HistoryOK' /\ AskedInv'
<1> DEFINE t == target[c]
           r == [copy[c] EXCEPT !.next = NextDate(copy[c].timing, copy[c].enabled)]
<1>1. step[c] = "write" /\ t \in Schedules /\ copy[c] \in Row
  BY DEF WriteBack, Proceed, RecordInv, SInv, Carries
<1>2. r \in Row /\ Definition(r) = Definition(copy[c])
  <2>1. copy[c].timing \in Timings /\ copy[c].enabled \in BOOLEAN
    BY <1>1 DEF Row
  <2>2. NextDate(copy[c].timing, copy[c].enabled) \in Occurrences \cup {Never}
    BY <2>1, NewDate DEF RecordInv, SInv
  <2>3. r \in Row /\ r.timing = copy[c].timing /\ r.enabled = copy[c].enabled
    BY <1>1, <2>2 DEF Row
  <2> QED
    BY <1>1, <2>3, DefinitionIs
<1>3. row' = [row EXCEPT ![t] = r] /\ UNCHANGED <<wanted, crossed, target, copy, editing>>
  BY DEF WriteBack, PutRow, Proceed, history, editVars
<1>4. Triggers(c, t)
  BY <1>1 DEF Triggers
<1>5. \A d \in Callers, s \in Schedules : Triggers(d, s)' => Triggers(d, s)
  BY <1>3 DEF WriteBack, Proceed, Triggers, RecordInv, SInv, TypeOK
<1>6. \A e \in Editors, s \in Schedules : Edits(e, s)' => Edits(e, s)
  BY <1>3 DEF Edits
<1> HIDE DEF r, t
<1>7. ASSUME NEW s \in Schedules, ~crossed[s]
      PROVE  Definition(row'[s]) = wanted[s]
  <2>1. CASE s = t
    <3>1. row'[s] = r
      BY <1>3, <2>1 DEF RecordInv, SInv, TypeOK
    <3>2. Definition(copy[c]) = wanted[s]
      BY <1>4, <1>7, <2>1 DEF RecordInv, AskedInv
    <3> QED
      BY <1>2, <3>1, <3>2
  <2>2. CASE s # t
    <3>1. row'[s] = row[s]
      BY <1>3, <2>2 DEF RecordInv, SInv, TypeOK
    <3> QED
      BY <1>7, <3>1 DEF RecordInv, AskedInv
  <2> QED
    BY <2>1, <2>2
<1> QED
  BY <1>3, <1>5, <1>6, <1>7 DEF RecordInv, AskedInv, HistoryOK

LEMMA GoOnKeepsAsked ==
  ASSUME RecordInv, GoOn, UNCHANGED history
  PROVE  HistoryOK' /\ AskedInv'
<1>1. ASSUME NEW c \in Callers,
             \/ CommitRun(c) \/ FindRun(c) \/ CommitHookRun(c) \/ CommitRefused(c)
             \/ ReadConversation(c) \/ TouchConversation(c) \/ ReleaseClaim(c) \/ Fail(c) \/ Crash(c)
      PROVE  HistoryOK' /\ AskedInv'
  <2>1. UNCHANGED <<row, editing>>
    BY <1>1 DEF CommitRun, FindRun, CommitHookRun, CommitRefused, ReadConversation, TouchConversation,
       ReleaseClaim, Fail, Crash, rowVars, editVars
  <2>2. \/ \E from, to \in {"commit", "write", "read", "touch", "release"} :
               Proceed(c, from, to) /\ (to = "write" => from = "commit") /\ to # "commit"
        \/ Return(c)
    <3>1. CASE CommitRun(c) \/ FindRun(c) \/ CommitHookRun(c)
      BY <3>1 DEF CommitRun, FindRun, CommitHookRun
    <3>2. CASE CommitRefused(c) \/ Fail(c)
      BY <3>2 DEF CommitRefused, Fail, Abandon
    <3>3. CASE ReadConversation(c) \/ TouchConversation(c) \/ ReleaseClaim(c) \/ Crash(c)
      BY <3>3 DEF ReadConversation, TouchConversation, ReleaseClaim, Crash
    <3> QED
      BY <1>1, <3>1, <3>2, <3>3
  <2> QED
    BY <2>1, <2>2, CallerKeepsAsked
<1>2. ASSUME NEW c \in Callers, NEW s \in Schedules, Claim(c, s) \/ ReadForHook(c, s)
      PROVE  HistoryOK' /\ AskedInv'
  <2>1. Begin(c, s) /\ UNCHANGED <<row, editing>>
    BY <1>2 DEF Claim, ReadForHook, rowVars, editVars
  <2> QED
    BY <2>1, BeginKeepsAsked
<1>3. ASSUME NEW e \in Editors, NEW s \in Schedules, ReadForEdit(e, s)
      PROVE  HistoryOK' /\ AskedInv'
  <2>1. UNCHANGED <<row, step, target, copy>>
    BY <1>3 DEF ReadForEdit, rowVars, callVars
  <2>2. ASSUME NEW o \in Editors, NEW t \in Schedules, Edits(o, t)'
        PROVE  (Edits(o, t) /\ editing'[o] = editing[o]) \/ editing'[o].row = row[t]
    BY <1>3, <2>2 DEF ReadForEdit, Edits, RecordInv, SInv, TypeOK
  <2>3. \A c \in Callers, t \in Schedules : Triggers(c, t)' => Triggers(c, t) /\ copy'[c] = copy[c]
    BY <2>1 DEF Triggers
  <2> QED
    BY <2>1, <2>2, <2>3, ReadingKeepsAsked
<1>4. ASSUME UNCHANGED <<row, step, target, copy, editing>>
      PROVE  HistoryOK' /\ AskedInv'
  <2>1. /\ \A c \in Callers, t \in Schedules : Triggers(c, t)' => Triggers(c, t) /\ copy'[c] = copy[c]
        /\ \A e \in Editors, t \in Schedules : Edits(e, t)' => Edits(e, t) /\ editing'[e] = editing[e]
    BY <1>4 DEF Triggers, Edits
  <2> QED
    BY <1>4, <2>1, ReadingKeepsAsked
<1>5. ASSUME NEW s \in Schedules, DeleteConversation(s) \/ LockExpires(s) \/ Tick
      PROVE  HistoryOK' /\ AskedInv'
  BY <1>4, <1>5 DEF DeleteConversation, LockExpires, Tick, rowVars, callVars, editVars
<1>6. ASSUME Tick PROVE HistoryOK' /\ AskedInv'
  BY <1>4, <1>6 DEF Tick, rowVars, callVars, editVars
<1> QED
  BY <1>1, <1>2, <1>3, <1>5, <1>6, WriteBackKeepsAsked DEF GoOn, Dispatch, Call, Callers

recordVars == <<vars, history>>

LEMMA NextRecordInv == RecordInv /\ [RecordedNext]_recordVars => RecordInv'
<1> SUFFICES ASSUME RecordInv, [RecordedNext]_recordVars PROVE RecordInv'
  OBVIOUS
<1>1. [Next]_vars
  <2>1. CASE Ask
    BY <2>1 DEF Ask, Next, Request
  <2>2. CASE GoOn
    BY <2>2 DEF GoOn, Next, Request
  <2>3. CASE UNCHANGED recordVars
    BY <2>3 DEF recordVars
  <2> QED
    BY <2>1, <2>2, <2>3 DEF RecordedNext
<1>2. SInv'
  BY <1>1, NextSInv DEF RecordInv
<1>3. HistoryOK' /\ AskedInv'
  <2>1. CASE UNCHANGED recordVars
    BY <2>1 DEF recordVars, vars, rowVars, callVars, editVars, history, RecordInv, HistoryOK, AskedInv,
       Triggers, Edits
  <2> QED
    BY <2>1, AskKeeps, GoOnKeepsAsked DEF RecordedNext
<1> QED
  BY <1>2, <1>3 DEF RecordInv

\* A pause, an edit or a deletion stays, unless it was made while triggerSchedule
\* or another update had read the row and not yet written it.
THEOREM RequestsAreFollowed == RecordedSpec => []FollowsRequests
<1>1. RecordedSpec => RecordInv /\ [][RecordedNext]_recordVars
  <2>1. ASSUME RecordedInit PROVE RecordInv
    <3>1. HistoryOK
      BY <2>1 DEF RecordedInit, HistoryOK
    <3>2. AskedInv
      BY <2>1 DEF RecordedInit, Init, AskedInv, Definition, Triggers, Edits
    <3> QED
      BY <2>1, <3>1, <3>2, InitSInv DEF RecordedInit, RecordInv
  <2> QED
    BY <2>1, PTL DEF RecordedSpec, recordVars
<1>2. RecordInv => FollowsRequests
  BY DEF RecordInv, AskedInv, FollowsRequests
<1> QED
  BY <1>1, <1>2, NextRecordInv, PTL
=============================================================================
