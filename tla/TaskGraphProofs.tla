-------------------------- MODULE TaskGraphProofs --------------------------
(* What TLAPS proves of TaskGraph, for every value of its constants. *)
EXTENDS TaskGraph, FiniteSetTheorems, WellFoundedInduction, TLAPS

-----------------------------------------------------------------------------
(* Typing.                                                                 *)

\* Parents are stored tasks, in the table and in what the requests carry.
Placed ==
    /\ \A t \in Stored : task[t].parent \in Stored \cup {None}
    /\ \A q \in Requests : step[q] # "idle" =>
          /\ draft[q] \in Row
          /\ draft[q].parent \in Stored \cup {None}
          /\ subject[q] \in Stored \cup {None}
    /\ \A q \in Requests : step[q] \in {"parent", "siblings", "walk"} =>
          draft[q].parent # None
    /\ \A q \in Requests : step[q] \in {"siblings", "walk"} =>
          found[q] \in Row /\ found[q].parent \in Stored \cup {None}
    /\ \A q \in Requests : step[q] = "walk" =>
          at[q] \in Stored /\ up[q] \in Stored \cup {None}

PInv == TypeOK /\ Placed

LEMMA InitPInv == Init => PInv
<1> SUFFICES ASSUME Init PROVE PInv
  OBVIOUS
<1>1. TypeOK
  BY DEF Init, TypeOK, Parents
<1>2. Placed
  BY DEF Init, Placed, Stored
<1> QED
  BY <1>1, <1>2 DEF PInv

\* A request for task t begins with a row whose parent is stored.  The parent
\* and the depth are the old ones unless the request moves t; a new parent is
\* to be validated, and no parent is depth 0.
Sound(t, r, check, move) ==
    /\ r.parent \in Stored \cup {None}
    /\ check => r.parent # None
    /\ t = None => move
    /\ t # None /\ ~move => r.parent = task[t].parent /\ r.depth = task[t].depth
    /\ move /\ r.parent # None => check /\ r.parent # t
    /\ move /\ r.parent = None => r.depth = 0
BeginsWell(q) ==
    \E t \in Stored \cup {None}, r \in Row, check \in BOOLEAN, move \in BOOLEAN :
        Begin(q, t, r, check, move) /\ Sound(t, r, check, move)

LEMMA AcceptBegins ==
  ASSUME PInv, NEW q \in Requests, Accept(q)
  PROVE  BeginsWell(q)
<1>0. \A t \in Stored : /\ t \in Tasks /\ task[t] \in Row
                        /\ task[t].parent \in Stored \cup {None}
                        /\ task[t].limit \in Limits /\ task[t].depth \in 0..MaxDepth
                        /\ task[t].status \in Statuses
  BY DEF PInv, TypeOK, Placed, Stored, Row
<1>1. ASSUME NEW parent \in Parents, NEW limit \in Limits, CreateTask(q, parent, limit)
      PROVE  BeginsWell(q)
  <2> DEFINE r == [parent |-> parent, depth |-> 0, limit |-> limit, status |-> "open"]
  <2>1. r \in Row /\ r.parent = parent /\ r.depth = 0
    BY TaskAssumption DEF Row, Statuses
  <2>2. parent \in Stored \cup {None} /\ Begin(q, None, r, parent # None, TRUE)
    BY <1>1 DEF CreateTask
  <2>3. Sound(None, r, parent # None, TRUE)
    BY <2>1, <2>2, TaskAssumption DEF Sound, Stored
  <2> HIDE DEF r
  <2> QED
    BY <2>1, <2>2, <2>3 DEF BeginsWell
<1>2. ASSUME NEW t \in Tasks, NEW patch \in Patches, UpdateTask(q, t, patch)
      PROVE  BeginsWell(q)
  <2> DEFINE old == task[t]
             parent == Given(patch.parent, old.parent)
             moved == parent # old.parent
             r == [parent |-> parent,
                   depth |-> IF moved /\ parent = None THEN 0 ELSE old.depth,
                   limit |-> Given(patch.limit, old.limit),
                   status |-> Given(patch.status, old.status)]
  <2>1. t \in Stored /\ (moved => parent \in (Stored \ {t}) \cup {None})
    BY <1>2 DEF UpdateTask, Stored
  <2>2. Begin(q, t, r, moved /\ parent # None, moved)
    BY <1>2 DEF UpdateTask
  <2>3. patch \in Patch
    BY TaskAssumption
  <2>4. parent \in Stored \cup {None}
    BY <1>0, <2>1
  <2>5. /\ r \in Row /\ r.parent = parent
        /\ r.depth = IF moved /\ parent = None THEN 0 ELSE old.depth
    <3>1. Given(patch.limit, old.limit) \in Limits
      BY <1>0, <2>1, <2>3 DEF Patch, Given
    <3>2. Given(patch.status, old.status) \in Statuses
      BY <1>0, <2>1, <2>3 DEF Patch, Given
    <3>3. (IF moved /\ parent = None THEN 0 ELSE old.depth) \in 0..MaxDepth
      BY <1>0, <2>1, TaskAssumption
    <3>4. parent \in Parents
      BY <2>4 DEF Parents, Stored
    <3> QED
      BY <3>1, <3>2, <3>3, <3>4 DEF Row
  <2>6. Sound(t, r, moved /\ parent # None, moved)
    BY <2>1, <2>4, <2>5, TaskAssumption DEF Sound, Stored
  <2>7. moved \in BOOLEAN
    OBVIOUS
  <2> HIDE DEF r, moved, parent
  <2> QED
    BY <2>1, <2>2, <2>5, <2>6, <2>7 DEF BeginsWell
<1>3. ASSUME NEW t \in Tasks, DelegateTask(q, t) \/ CompleteTask(q, t)
      PROVE  BeginsWell(q)
  <2>1. t \in Stored
    BY <1>3 DEF DelegateTask, CompleteTask, Stored
  <2>2. \A s \in Statuses : /\ [task[t] EXCEPT !.status = s] \in Row
                            /\ [task[t] EXCEPT !.status = s].parent = task[t].parent
                            /\ [task[t] EXCEPT !.status = s].depth = task[t].depth
    BY <1>0, <2>1 DEF Row
  <2>3. \/ Begin(q, t, [task[t] EXCEPT !.status = "open"], task[t].parent # None, FALSE)
        \/ Begin(q, t, [task[t] EXCEPT !.status = "completed"], FALSE, FALSE)
    BY <1>3 DEF DelegateTask, CompleteTask
  <2>4. "open" \in Statuses /\ "completed" \in Statuses
    BY DEF Statuses
  <2>5. \A r \in Row : r.parent = task[t].parent /\ r.depth = task[t].depth =>
           Sound(t, r, task[t].parent # None, FALSE) /\ Sound(t, r, FALSE, FALSE)
    BY <1>0, <2>1, TaskAssumption DEF Sound, Stored
  <2> QED
    BY <2>1, <2>2, <2>3, <2>4, <2>5 DEF BeginsWell
<1> QED
  BY <1>1, <1>2, <1>3 DEF Accept

LEMMA BeginPInv ==
  ASSUME PInv, NEW q \in Requests, NEW t \in Stored \cup {None}, NEW r \in Row,
         NEW check \in BOOLEAN, NEW move \in BOOLEAN,
         Begin(q, t, r, check, move), Sound(t, r, check, move)
  PROVE  PInv'
<1>1. /\ UNCHANGED <<task, found, at, up, visited>>
      /\ step' = [step EXCEPT ![q] = IF check THEN "parent" ELSE "store"]
      /\ subject' = [subject EXCEPT ![q] = t]
      /\ draft' = [draft EXCEPT ![q] = r]
      /\ moves' = [moves EXCEPT ![q] = move]
      /\ requests' = requests + 1
      /\ {raced', crossed', displaced'} \subseteq BOOLEAN
  BY DEF Begin, walkVars, PInv, TypeOK
<1>2. t \in Parents
  BY DEF Stored, Parents
<1>3. TypeOK'
  BY <1>1, <1>2 DEF PInv, TypeOK
<1>4. Stored' = Stored
  BY <1>1 DEF Stored
<1>5. /\ step'[q] \in {"parent", "store"} /\ subject'[q] = t /\ draft'[q] = r
      /\ step'[q] = "parent" => r.parent # None
      /\ \A other \in Requests : other # q => /\ step'[other] = step[other]
                                             /\ subject'[other] = subject[other]
                                             /\ draft'[other] = draft[other]
  BY <1>1 DEF PInv, TypeOK, Sound
<1>6. Placed'
  BY <1>1, <1>4, <1>5 DEF PInv, Placed, Sound
<1> QED
  BY <1>3, <1>6 DEF PInv

\* What a request leaves behind when it ends.
LEMMA EndKeeps ==
  ASSUME TypeOK, NEW q \in Requests, End(q)
  PROVE  /\ step' \in [Requests -> {"idle", "parent", "siblings", "walk", "store"}]
         /\ subject' \in [Requests -> Parents]
         /\ draft' \in [Requests -> Row \cup {NoTask}]
         /\ moves' \in [Requests -> BOOLEAN]
         /\ found' \in [Requests -> Row \cup {NoTask}]
         /\ at' \in [Requests -> Parents]
         /\ up' \in [Requests -> Parents]
         /\ visited' \in [Requests -> SUBSET Tasks]
         /\ step'[q] = "idle" /\ subject'[q] = None
         /\ \A other \in Requests : other # q =>
               /\ step'[other] = step[other]
               /\ subject'[other] = subject[other]
               /\ draft'[other] = draft[other]
               /\ moves'[other] = moves[other]
               /\ found'[other] = found[other]
               /\ at'[other] = at[other]
               /\ up'[other] = up[other]
               /\ visited'[other] = visited[other]
<1>1. None \in Parents
  BY DEF Parents
<1> QED
  BY <1>1 DEF End, TypeOK

LEMMA RefusePInv ==
  ASSUME PInv, NEW q \in Requests, Refuse(q)
  PROVE  PInv'
<1>1. End(q) /\ UNCHANGED <<task, countVars>>
  BY DEF Refuse, countVars
<1>2. TypeOK'
  BY <1>1, EndKeeps DEF PInv, TypeOK, countVars
<1>3. Stored' = Stored
  BY <1>1 DEF Stored
<1>4. Placed'
  BY <1>1, <1>3, EndKeeps DEF PInv, Placed
<1> QED
  BY <1>2, <1>4 DEF PInv

LEMMA ReadParentPInv ==
  ASSUME PInv, NEW q \in Requests, ReadParent(q)
  PROVE  PInv'
<1>1. /\ step[q] = "parent" /\ draft[q].parent \in Stored
      /\ step' = [step EXCEPT ![q] = "siblings"]
      /\ found' = [found EXCEPT ![q] = task[draft[q].parent]]
      /\ UNCHANGED <<task, subject, draft, moves, at, up, visited, countVars>>
  BY DEF ReadParent, countVars, PInv, Placed
<1>2. task[draft[q].parent] \in Row
  BY <1>1 DEF PInv, TypeOK, Stored
<1>3. TypeOK'
  BY <1>1, <1>2 DEF PInv, TypeOK, countVars
<1>4. Stored' = Stored
  BY <1>1 DEF Stored
<1>5. Placed'
  BY <1>1, <1>2, <1>4 DEF PInv, TypeOK, Placed
<1> QED
  BY <1>3, <1>5 DEF PInv

LEMMA CountSiblingsPInv ==
  ASSUME PInv, NEW q \in Requests, CountSiblings(q)
  PROVE  PInv'
<1>1. CASE Refuse(q)
  BY <1>1, RefusePInv
<1>2. CASE ~Refuse(q)
  <2>1. /\ step[q] = "siblings"
        /\ step' = [step EXCEPT ![q] = "walk"]
        /\ at' = [at EXCEPT ![q] = draft[q].parent]
        /\ up' = [up EXCEPT ![q] = found[q].parent]
        /\ UNCHANGED <<task, subject, draft, moves, found, visited, countVars>>
    BY <1>2 DEF CountSiblings, countVars
  <2>2. draft[q].parent \in Stored /\ found[q].parent \in Stored \cup {None}
    BY <2>1 DEF PInv, Placed
  <2>3. TypeOK'
    BY <2>1, <2>2 DEF PInv, TypeOK, Parents, Stored, countVars
  <2>4. Stored' = Stored
    BY <2>1 DEF Stored
  <2>5. Placed'
    BY <2>1, <2>2, <2>4 DEF PInv, TypeOK, Placed
  <2> QED
    BY <2>3, <2>5 DEF PInv
<1> QED
  BY <1>1, <1>2

LEMMA WalkUpPInv ==
  ASSUME PInv, NEW q \in Requests, WalkUp(q)
  PROVE  PInv'
<1>1. /\ step[q] = "walk" /\ up[q] # None
      /\ visited' = [visited EXCEPT ![q] = visited[q] \cup {at[q]}]
      /\ at' = [at EXCEPT ![q] = up[q]]
      /\ up' = [up EXCEPT ![q] = task[up[q]].parent]
      /\ UNCHANGED <<task, step, subject, draft, moves, found, countVars>>
  BY DEF WalkUp, countVars
<1>2. at[q] \in Stored /\ up[q] \in Stored /\ task[up[q]].parent \in Stored \cup {None}
  BY <1>1 DEF PInv, Placed
<1>3. TypeOK'
  BY <1>1, <1>2 DEF PInv, TypeOK, Parents, Stored, countVars
<1>4. Stored' = Stored
  BY <1>1 DEF Stored
<1>5. Placed'
  BY <1>1, <1>2, <1>4 DEF PInv, TypeOK, Placed
<1> QED
  BY <1>3, <1>5 DEF PInv

LEMMA ReachRootPInv ==
  ASSUME PInv, NEW q \in Requests, ReachRoot(q)
  PROVE  PInv'
<1>1. CASE Refuse(q)
  BY <1>1, RefusePInv
<1>2. CASE ~Refuse(q)
  <2> DEFINE depth == NewDepth(q)
             r == [draft[q] EXCEPT !.depth = depth]
  <2>1. /\ step[q] = "walk" /\ DepthFits(q)
        /\ step' = [step EXCEPT ![q] = "store"]
        /\ draft' = [draft EXCEPT ![q] = r]
        /\ visited' = [visited EXCEPT ![q] = visited[q] \cup {at[q]}]
        /\ UNCHANGED <<task, subject, moves, found, at, up, countVars>>
    BY <1>2 DEF ReachRoot
  <2>2. draft[q] \in Row /\ found[q] \in Row /\ at[q] \in Stored
    BY <2>1 DEF PInv, Placed
  <2>3. depth \in 0..MaxDepth
    BY <2>1, <2>2, TaskAssumption DEF DepthFits, NewDepth, Row
  <2>4. r \in Row /\ r.parent = draft[q].parent
    BY <2>2, <2>3 DEF Row
  <2> HIDE DEF r, depth
  <2>5. TypeOK'
    BY <2>1, <2>2, <2>4 DEF PInv, TypeOK, Stored, countVars
  <2>6. Stored' = Stored
    BY <2>1 DEF Stored
  <2>7. Placed'
    BY <2>1, <2>4, <2>6 DEF PInv, TypeOK, Placed
  <2> QED
    BY <2>5, <2>7 DEF PInv
<1> QED
  BY <1>1, <1>2

\* A write stores the draft under the task's own id, or a new one.
LEMMA StoreWrites ==
  ASSUME PInv, NEW q \in Requests, Store(q)
  PROVE  /\ Target(q) \in Tasks /\ draft[q] \in Row
         /\ task' = [task EXCEPT ![Target(q)] = draft[q]]
         /\ Stored' = Stored \cup {Target(q)}
         /\ subject[q] = None => Target(q) \notin Stored
         /\ subject[q] # None => Target(q) = subject[q] /\ Target(q) \in Stored
         /\ draft[q].parent \in Stored \cup {None}
         /\ End(q) /\ UNCHANGED <<requests, raced, crossed>>
<1>1. /\ step[q] = "store" /\ (subject[q] = None => Stored # Tasks)
      /\ task' = [task EXCEPT ![Target(q)] = draft[q]]
      /\ End(q) /\ UNCHANGED <<requests, raced, crossed>>
  BY DEF Store, countVars
<1>2. /\ draft[q] \in Row /\ draft[q].parent \in Stored \cup {None}
      /\ subject[q] \in Stored \cup {None}
  BY <1>1 DEF PInv, Placed
<1>3. /\ subject[q] = None => Target(q) \in Tasks /\ Target(q) \notin Stored
      /\ subject[q] # None => Target(q) = subject[q] /\ Target(q) \in Stored
  BY <1>1, <1>2 DEF Target, Stored
<1>4. Target(q) \in Tasks
  BY <1>3 DEF Stored
<1>5. Stored' = Stored \cup {Target(q)}
  <2>1. /\ task'[Target(q)] # NoTask
        /\ \A t \in Tasks : t # Target(q) => task'[t] = task[t]
    BY <1>1, <1>2, <1>4, TaskAssumption DEF PInv, TypeOK
  <2> QED
    BY <1>4, <2>1 DEF Stored
<1> QED
  BY <1>1, <1>2, <1>3, <1>4, <1>5

LEMMA StorePInv ==
  ASSUME PInv, NEW q \in Requests, Store(q)
  PROVE  PInv'
<1>1. TypeOK'
  <2>1. task' \in [Tasks -> Row \cup {NoTask}]
    BY StoreWrites DEF PInv, TypeOK
  <2>2. displaced' \in BOOLEAN
    BY DEF Store, PInv, TypeOK
  <2> QED
    BY <2>1, <2>2, StoreWrites, EndKeeps DEF PInv, TypeOK
<1>2. \A t \in Stored' : task'[t].parent \in Stored' \cup {None}
  <2> SUFFICES ASSUME NEW t \in Stored' PROVE task'[t].parent \in Stored' \cup {None}
    OBVIOUS
  <2>1. CASE t = Target(q)
    BY <2>1, StoreWrites DEF PInv, TypeOK
  <2>2. CASE t # Target(q)
    <3>1. t \in Stored /\ task'[t] = task[t]
      BY <2>2, StoreWrites DEF PInv, TypeOK, Stored
    <3> QED
      BY <3>1, StoreWrites DEF PInv, Placed
  <2> QED
    BY <2>1, <2>2
<1>3. Placed'
  <2>1. Stored \subseteq Stored'
    BY StoreWrites
  <2>2. End(q) /\ TypeOK
    BY StoreWrites DEF PInv
  <2> QED
    BY <1>2, <2>1, <2>2, EndKeeps DEF PInv, Placed
<1> QED
  BY <1>1, <1>3 DEF PInv

LEMMA NextPInv == PInv /\ [Next]_vars => PInv'
<1> SUFFICES ASSUME PInv, [Next]_vars PROVE PInv'
  OBVIOUS
<1>1. ASSUME NEW q \in Requests, Accept(q) PROVE PInv'
  BY <1>1, AcceptBegins, BeginPInv DEF BeginsWell
<1>2. ASSUME NEW q \in Requests, Handle(q) \/ Fail(q) PROVE PInv'
  BY <1>2, ReadParentPInv, CountSiblingsPInv, WalkUpPInv, ReachRootPInv, StorePInv, RefusePInv
     DEF Handle, Fail, MeetCycle
<1>3. CASE UNCHANGED vars
  BY <1>3 DEF PInv, TypeOK, Placed, Stored, vars, requestVars, walkVars, countVars
<1> QED
  BY <1>1, <1>2, <1>3 DEF Next

LEMMA PInvHolds == Spec => []PInv
<1> QED
  BY InitPInv, NextPInv, PTL DEF Spec

\* Every variable of TaskGraph keeps its type: in particular no stored depth
\* passes MaxDepth.
THEOREM TaskGraphTyped == Spec => []TypeOK
<1>1. PInv => TypeOK
  BY DEF PInv
<1> QED
  BY <1>1, PInvHolds, PTL

-----------------------------------------------------------------------------
(* No cycles.                                                              *)

\* A request that changes an existing task, and one that moves it.
Changing(q) == step[q] # "idle" /\ subject[q] # None
Moving(q) == Changing(q) /\ moves[q]

\* A move is alone among the changes; the others store the parent there is.
MovesAlone == \A q, r \in Requests : Moving(q) /\ Changing(r) => q = r
KeepsParent ==
    \A q \in Requests : Changing(q) /\ ~moves[q] =>
        draft[q].parent = task[subject[q]].parent

NothingVisited ==
    \A q \in Requests : step[q] \in {"idle", "parent", "siblings"} => visited[q] = {}

\* The tasks that a walk has passed do not include the one that moves, and
\* each has its parent among them or where the walk is.
Passed(q, ahead) ==
    /\ subject[q] \notin visited[q]
    /\ draft[q].parent \in visited[q] \cup {ahead}
    /\ \A t \in visited[q] : t \in Stored /\ task[t].parent \in visited[q] \cup {ahead}
Walked ==
    \A q \in Requests : Moving(q) =>
        /\ step[q] = "siblings" => found[q].parent = task[draft[q].parent].parent
        /\ step[q] = "walk" => up[q] = task[at[q]].parent /\ Passed(q, at[q])
        /\ step[q] = "store" => Passed(q, None)

CInv == Acyclic /\ MovesAlone /\ KeepsParent /\ Walked
FInv == PInv /\ NothingVisited /\ (~crossed => CInv)

LEMMA InitFInv == Init => FInv
<1> SUFFICES ASSUME Init PROVE FInv
  OBVIOUS
<1>1. PInv
  BY InitPInv
<1>2. NothingVisited
  BY DEF Init, NothingVisited
<1>3. Acyclic
  BY DEF Init, Acyclic, Stored
<1>4. MovesAlone /\ KeepsParent /\ Walked
  BY DEF Init, MovesAlone, KeepsParent, Walked, Moving, Changing
<1> QED
  BY <1>1, <1>2, <1>3, <1>4 DEF FInv, CInv

\* A step of one request that leaves the tasks alone: only what it does to its
\* own walk matters.
LEMMA QuietKeepsCInv ==
  ASSUME CInv, PInv, NEW q \in Requests, UNCHANGED task,
         \A other \in Requests : other # q =>
            /\ step'[other] = step[other]
            /\ subject'[other] = subject[other]
            /\ draft'[other] = draft[other]
            /\ moves'[other] = moves[other]
            /\ found'[other] = found[other]
            /\ at'[other] = at[other]
            /\ up'[other] = up[other]
            /\ visited'[other] = visited[other],
         Changing(q)' => /\ Changing(q) /\ subject'[q] = subject[q]
                         /\ moves'[q] = moves[q] /\ draft'[q].parent = draft[q].parent,
         Moving(q)' =>
            /\ step'[q] = "siblings" => found'[q].parent = task[draft'[q].parent].parent
            /\ step'[q] = "walk" => up'[q] = task[at'[q]].parent /\ Passed(q, at[q])'
            /\ step'[q] = "store" => Passed(q, None)'
  PROVE  CInv'
<1>1. Stored' = Stored
  BY DEF Stored
<1>2. Acyclic'
  BY <1>1 DEF CInv, Acyclic
<1>3. \A other \in Requests :
         /\ Changing(other)' => Changing(other) /\ subject'[other] = subject[other]
                                /\ moves'[other] = moves[other]
                                /\ draft'[other].parent = draft[other].parent
         /\ Moving(other)' => Moving(other)
  BY DEF Changing, Moving
<1>4. MovesAlone' /\ KeepsParent'
  BY <1>3 DEF CInv, MovesAlone, KeepsParent
<1>5. Walked'
  <2> SUFFICES ASSUME NEW other \in Requests, Moving(other)'
               PROVE  /\ step'[other] = "siblings" =>
                            found'[other].parent = task[draft'[other].parent].parent
                      /\ step'[other] = "walk" =>
                            up'[other] = task[at'[other]].parent /\ Passed(other, at[other])'
                      /\ step'[other] = "store" => Passed(other, None)'
    BY DEF Walked
  <2>1. CASE other = q
    BY <2>1
  <2>2. CASE other # q
    <3>1. Moving(other)
      BY <1>3
    <3> QED
      BY <1>1, <2>2, <3>1 DEF CInv, Walked, Passed
  <2> QED
    BY <2>1, <2>2
<1> QED
  BY <1>2, <1>4, <1>5 DEF CInv

LEMMA BeginCInv ==
  ASSUME FInv, NEW q \in Requests, NEW t \in Stored \cup {None}, NEW r \in Row,
         NEW check \in BOOLEAN, NEW move \in BOOLEAN,
         Begin(q, t, r, check, move), Sound(t, r, check, move)
  PROVE  NothingVisited' /\ (~crossed' => CInv')
<1>1. /\ step[q] = "idle"
      /\ UNCHANGED <<task, found, at, up, visited>>
      /\ step'[q] = IF check THEN "parent" ELSE "store"
      /\ subject'[q] = t /\ draft'[q] = r /\ moves'[q] = move
      /\ \A other \in Requests : other # q =>
            /\ step'[other] = step[other]
            /\ subject'[other] = subject[other]
            /\ draft'[other] = draft[other]
            /\ moves'[other] = moves[other]
  BY DEF Begin, walkVars, FInv, PInv, TypeOK
<1>2. crossed' = (crossed \/ (t # None /\ \E other \in Requests : Changing(other) /\ (move \/ moves[other])))
  BY DEF Begin, Changing
<1>3. NothingVisited'
  <2> SUFFICES ASSUME NEW other \in Requests, step'[other] \in {"idle", "parent", "siblings"}
               PROVE  visited'[other] = {}
    BY DEF NothingVisited
  <2> QED
    BY <1>1 DEF FInv, NothingVisited
<1>4. ASSUME ~crossed' PROVE CInv'
  <2>1. /\ CInv
        /\ t # None => \A other \in Requests : Changing(other) => ~move /\ ~moves[other]
    BY <1>2, <1>4 DEF FInv, PInv, TypeOK
  <2>2. Stored' = Stored
    BY <1>1 DEF Stored
  <2>3. Acyclic'
    BY <1>1, <2>1, <2>2 DEF CInv, Acyclic
  <2>4. MovesAlone'
    <3> SUFFICES ASSUME NEW a \in Requests, NEW b \in Requests, Moving(a)', Changing(b)', a # b
                 PROVE  FALSE
      BY DEF MovesAlone
    <3>1. CASE a # q /\ b # q
      BY <1>1, <2>1, <3>1 DEF CInv, MovesAlone, Moving, Changing
    <3>2. CASE a = q \/ b = q
      BY <1>1, <2>1, <3>2 DEF Moving, Changing
    <3> QED
      BY <3>1, <3>2
  <2>5. KeepsParent'
    <3> SUFFICES ASSUME NEW a \in Requests, Changing(a)', ~moves'[a]
                 PROVE  draft'[a].parent = task'[subject'[a]].parent
      BY DEF KeepsParent
    <3> QED
      BY <1>1, <2>1 DEF CInv, KeepsParent, Changing, Sound
  <2>6. Walked'
    <3> SUFFICES ASSUME NEW a \in Requests, Moving(a)'
                 PROVE  /\ step'[a] = "siblings" =>
                              found'[a].parent = task'[draft'[a].parent].parent
                        /\ step'[a] = "walk" =>
                              up'[a] = task'[at'[a]].parent /\ Passed(a, at[a])'
                        /\ step'[a] = "store" => Passed(a, None)'
      BY DEF Walked
    <3>1. CASE a = q
      <4>1. step'[q] = "store" => r.parent = None
        BY <1>1, <3>1 DEF Sound, Moving
      <4>2. visited'[q] = {}
        BY <1>1 DEF FInv, NothingVisited
      <4> QED
        BY <1>1, <3>1, <4>1, <4>2 DEF Passed
    <3>2. CASE a # q
      <4>1. Moving(a)
        BY <1>1, <3>2 DEF Moving, Changing
      <4> QED
        BY <1>1, <2>1, <2>2, <3>2, <4>1 DEF CInv, Walked, Passed
    <3> QED
      BY <3>1, <3>2
  <2> QED
    BY <2>3, <2>4, <2>5, <2>6 DEF CInv
<1> QED
  BY <1>3, <1>4

LEMMA RefuseCInv ==
  ASSUME FInv, NEW q \in Requests, Refuse(q)
  PROVE  NothingVisited' /\ (~crossed' => CInv')
<1>1. End(q) /\ UNCHANGED <<task, crossed>>
  BY DEF Refuse, countVars
<1>2. visited'[q] = {}
  BY <1>1 DEF End, FInv, PInv, TypeOK
<1>3. NothingVisited'
  BY <1>1, <1>2, EndKeeps DEF FInv, PInv, NothingVisited
<1>4. ~Changing(q)'
  BY <1>1, EndKeeps DEF FInv, PInv, Changing
<1> QED
  BY <1>1, <1>3, <1>4, EndKeeps, QuietKeepsCInv DEF FInv, PInv, Moving

LEMMA ReadParentCInv ==
  ASSUME FInv, NEW q \in Requests, ReadParent(q)
  PROVE  NothingVisited' /\ (~crossed' => CInv')
<1>1. /\ step[q] = "parent" /\ step'[q] = "siblings"
      /\ found'[q] = task[draft[q].parent]
      /\ \A other \in Requests : other # q =>
            step'[other] = step[other] /\ found'[other] = found[other]
      /\ UNCHANGED <<task, subject, draft, moves, at, up, visited, crossed>>
  BY DEF ReadParent, countVars, FInv, PInv, TypeOK
<1>2. NothingVisited'
  BY <1>1 DEF FInv, NothingVisited
<1> QED
  BY <1>1, <1>2, QuietKeepsCInv DEF FInv, Changing, Moving

LEMMA CountSiblingsCInv ==
  ASSUME FInv, NEW q \in Requests, CountSiblings(q)
  PROVE  NothingVisited' /\ (~crossed' => CInv')
<1>1. CASE Refuse(q)
  BY <1>1, RefuseCInv
<1>2. CASE ~Refuse(q)
  <2>1. /\ step[q] = "siblings" /\ step'[q] = "walk"
        /\ at'[q] = draft[q].parent /\ up'[q] = found[q].parent
        /\ \A other \in Requests : other # q =>
              step'[other] = step[other] /\ at'[other] = at[other] /\ up'[other] = up[other]
        /\ UNCHANGED <<task, subject, draft, moves, found, visited, crossed>>
    BY <1>2 DEF CountSiblings, countVars, FInv, PInv, TypeOK
  <2>2. visited'[q] = {}
    BY <2>1 DEF FInv, NothingVisited
  <2>3. NothingVisited'
    BY <2>1 DEF FInv, NothingVisited
  <2>4. Changing(q)' => Changing(q)
    BY <2>1 DEF Changing
  <2>5. CInv /\ Moving(q)' => up'[q] = task[at'[q]].parent /\ Passed(q, at[q])'
    BY <2>1, <2>2 DEF CInv, Walked, Moving, Changing, Passed
  <2> QED
    BY <2>1, <2>3, <2>4, <2>5, QuietKeepsCInv DEF FInv
<1> QED
  BY <1>1, <1>2

LEMMA WalkUpCInv ==
  ASSUME FInv, NEW q \in Requests, WalkUp(q)
  PROVE  NothingVisited' /\ (~crossed' => CInv')
<1>1. /\ step[q] = "walk" /\ at[q] # subject[q]
      /\ visited'[q] = visited[q] \cup {at[q]}
      /\ at'[q] = up[q] /\ up'[q] = task[up[q]].parent
      /\ \A other \in Requests : other # q =>
            /\ visited'[other] = visited[other]
            /\ at'[other] = at[other] /\ up'[other] = up[other]
      /\ UNCHANGED <<task, step, subject, draft, moves, found, crossed>>
  BY DEF WalkUp, countVars, FInv, PInv, TypeOK, Cycle
<1>2. NothingVisited'
  BY <1>1 DEF FInv, NothingVisited
<1>3. Stored' = Stored /\ at[q] \in Stored
  BY <1>1 DEF Stored, FInv, PInv, Placed
<1>4. CInv /\ Moving(q)' => Passed(q, at[q])'
  <2> SUFFICES ASSUME CInv, Moving(q)' PROVE Passed(q, at[q])'
    OBVIOUS
  <2>1. up[q] = task[at[q]].parent /\ Passed(q, at[q])
    BY <1>1 DEF CInv, Walked, Moving, Changing
  <2> QED
    BY <1>1, <1>3, <2>1 DEF Passed
<1> QED
  BY <1>1, <1>2, <1>4, QuietKeepsCInv DEF FInv, Changing

LEMMA ReachRootCInv ==
  ASSUME FInv, NEW q \in Requests, ReachRoot(q)
  PROVE  NothingVisited' /\ (~crossed' => CInv')
<1>1. CASE Refuse(q)
  BY <1>1, RefuseCInv
<1>2. CASE ~Refuse(q)
  <2>1. /\ step[q] = "walk" /\ step'[q] = "store"
        /\ at[q] # subject[q] /\ up[q] = None
        /\ visited'[q] = visited[q] \cup {at[q]}
        /\ draft'[q].parent = draft[q].parent
        /\ \A other \in Requests : other # q =>
              /\ step'[other] = step[other]
              /\ visited'[other] = visited[other]
              /\ draft'[other] = draft[other]
        /\ UNCHANGED <<task, subject, moves, found, at, up, crossed>>
    <3>1. step[q] = "walk" => draft[q] \in Row
      BY DEF FInv, PInv, Placed
    <3> QED
      BY <1>2, <3>1 DEF ReachRoot, countVars, FInv, PInv, TypeOK, Cycle, Row
  <2>2. NothingVisited'
    BY <2>1 DEF FInv, NothingVisited
  <2>3. Stored' = Stored /\ at[q] \in Stored
    BY <2>1 DEF Stored, FInv, PInv, Placed
  <2>4. CInv /\ Moving(q)' => Passed(q, None)'
    <3> SUFFICES ASSUME CInv, Moving(q)' PROVE Passed(q, None)'
      OBVIOUS
    <3>1. up[q] = task[at[q]].parent /\ Passed(q, at[q])
      BY <2>1 DEF CInv, Walked, Moving, Changing
    <3> QED
      BY <2>1, <2>3, <3>1 DEF Passed
  <2>5. Changing(q)' => Changing(q)
    BY <2>1 DEF Changing
  <2> QED
    BY <2>1, <2>2, <2>4, <2>5, QuietKeepsCInv DEF FInv
<1> QED
  BY <1>1, <1>2

\* A loop of the table after a write was one before, or passes through the task
\* that was written; its parent is not one that has it above.
LEMMA StoreAcyclic ==
  ASSUME FInv, CInv, NEW q \in Requests, Store(q)
  PROVE  Acyclic'
<1> DEFINE t == Target(q)
           parent == draft[q].parent
<1>1. /\ step[q] = "store" /\ t \in Tasks /\ parent \in Stored \cup {None}
      /\ Stored' = Stored \cup {t}
      /\ task'[t].parent = parent
      /\ \A other \in Stored : other # t => task'[other] = task[other]
      /\ subject[q] = None => t \notin Stored
      /\ subject[q] # None => t = subject[q] /\ t \in Stored
  BY StoreWrites DEF FInv, PInv, TypeOK, Store, Stored
<1>2. \A other \in Stored : task[other].parent \in Stored \cup {None}
  BY DEF FInv, PInv, Placed
<1>3. Acyclic /\ None \notin Stored
  BY TaskAssumption DEF CInv, Stored
<1> HIDE DEF t, parent
<1> SUFFICES ASSUME NEW loop \in SUBSET Stored',
                    \A other \in loop : task'[other].parent \in loop
             PROVE  loop = {}
  BY DEF Acyclic
<1>4. ASSUME NEW part \in SUBSET Stored, \A other \in part : task[other].parent \in part
      PROVE  part = {}
  BY <1>3, <1>4 DEF Acyclic
<1>5. CASE t \notin loop
  <2>1. loop \in SUBSET Stored /\ \A other \in loop : task[other].parent \in loop
    BY <1>1, <1>5
  <2> QED
    BY <2>1, <1>4
<1>6. CASE t \in loop /\ subject[q] = None
  <2>1. loop \ {t} \in SUBSET Stored
    BY <1>1
  <2>2. \A other \in loop \ {t} : task[other].parent \in loop \ {t}
    <3> SUFFICES ASSUME NEW other \in loop \ {t} PROVE task[other].parent \in loop \ {t}
      OBVIOUS
    <3>1. other \in Stored /\ task[other].parent \in loop
      BY <1>1
    <3>2. t \notin Stored /\ t # None
      BY <1>1, <1>6, TaskAssumption
    <3> QED
      BY <1>2, <3>1, <3>2
  <2>3. loop \ {t} = {}
    BY <2>1, <2>2, <1>4
  <2>4. parent \in loop /\ parent # t
    BY <1>1, <1>6, TaskAssumption
  <2> QED
    BY <2>3, <2>4
<1>7. CASE subject[q] # None /\ ~moves[q]
  <2>1. task[t].parent = parent
    BY <1>1, <1>7 DEF CInv, KeepsParent, Changing, parent
  <2>2. loop \in SUBSET Stored /\ \A other \in loop : task[other].parent \in loop
    BY <1>1, <1>7, <2>1
  <2> QED
    BY <2>2, <1>4
<1>8. CASE t \in loop /\ subject[q] # None /\ moves[q]
  <2>1. Passed(q, None)
    BY <1>1, <1>8 DEF CInv, Walked, Moving, Changing
  <2>2. parent \in loop /\ parent # None
    BY <1>1, <1>3, <1>8
  <2>3. t \notin visited[q] /\ parent \in visited[q]
    BY <1>1, <1>8, <2>1, <2>2 DEF Passed, parent
  <2> DEFINE part == loop \cap visited[q]
  <2>4. part \in SUBSET Stored
    BY <2>1 DEF Passed
  <2>5. \A other \in part : task[other].parent \in part
    <3> SUFFICES ASSUME NEW other \in part PROVE task[other].parent \in part
      OBVIOUS
    <3>1. other \in Stored /\ other # t /\ task[other].parent \in visited[q] \cup {None}
      BY <2>1, <2>3 DEF Passed
    <3>2. task[other].parent \in loop
      BY <1>1, <3>1
    <3>3. task[other].parent # None
      BY <1>1, <1>3, <3>2, <1>8
    <3> QED
      BY <3>1, <3>2, <3>3
  <2> HIDE DEF part
  <2>6. part = {}
    BY <2>4, <2>5, <1>4
  <2> QED
    BY <2>2, <2>3, <2>6 DEF part
<1> QED
  BY <1>5, <1>6, <1>7, <1>8

\* A write that another change of a task overlaps with gives no task another
\* parent.
LEMMA StoreKeepsOthers ==
  ASSUME FInv, CInv, NEW q \in Requests, Store(q),
         NEW other \in Requests, Changing(other)'
  PROVE  /\ other # q /\ Changing(other)
         /\ UNCHANGED <<step[other], subject[other], draft[other], moves[other],
                        found[other], at[other], up[other], visited[other]>>
         /\ \A t \in Stored : task'[t].parent = task[t].parent
<1>1. End(q) /\ TypeOK /\ step[q] = "store"
  BY StoreWrites DEF FInv, PInv, Store
<1>2. other # q
  BY <1>1, EndKeeps DEF Changing
<1>3. /\ Changing(other)
      /\ UNCHANGED <<step[other], subject[other], draft[other], moves[other],
                     found[other], at[other], up[other], visited[other]>>
  BY <1>1, <1>2, EndKeeps DEF Changing
<1>4. /\ \A t \in Stored : t # Target(q) => task'[t] = task[t]
      /\ task'[Target(q)] = draft[q]
      /\ subject[q] = None => Target(q) \notin Stored
      /\ subject[q] # None => Target(q) = subject[q]
  BY StoreWrites DEF FInv, PInv, TypeOK, Stored
<1>5. ~Moving(q)
  BY <1>2, <1>3 DEF CInv, MovesAlone
<1>6. \A t \in Stored : task'[t].parent = task[t].parent
  <2>1. CASE subject[q] = None
    BY <1>4, <2>1
  <2>2. CASE subject[q] # None
    <3>1. draft[q].parent = task[subject[q]].parent
      BY <1>1, <1>5, <2>2 DEF CInv, KeepsParent, Moving, Changing
    <3> QED
      BY <1>4, <2>2, <3>1
  <2> QED
    BY <2>1, <2>2
<1> QED
  BY <1>2, <1>3, <1>6

LEMMA StoreCInv ==
  ASSUME FInv, NEW q \in Requests, Store(q)
  PROVE  NothingVisited' /\ (~crossed' => CInv')
<1>1. End(q) /\ TypeOK /\ UNCHANGED crossed /\ Stored \subseteq Stored'
  BY StoreWrites DEF FInv, PInv
<1>2. NothingVisited'
  <2>1. visited'[q] = {}
    BY <1>1 DEF End, TypeOK
  <2> QED
    BY <1>1, <2>1, EndKeeps DEF FInv, NothingVisited
<1>3. ASSUME CInv PROVE CInv'
  <2>1. Acyclic'
    BY <1>3, StoreAcyclic
  <2>2. \A a \in Requests : Moving(a)' => Moving(a)
    BY <1>3, StoreKeepsOthers DEF Moving
  <2>3. MovesAlone'
    BY <1>3, <2>2, StoreKeepsOthers DEF CInv, MovesAlone, Moving
  <2>4. KeepsParent'
    <3> SUFFICES ASSUME NEW a \in Requests, Changing(a)', ~moves'[a]
                 PROVE  draft'[a].parent = task'[subject'[a]].parent
      BY DEF KeepsParent
    <3>1. subject[a] \in Stored
      BY <1>3, StoreKeepsOthers DEF Changing, FInv, PInv, Placed
    <3> QED
      BY <1>3, <3>1, StoreKeepsOthers DEF CInv, KeepsParent
  <2>5. Walked'
    <3> SUFFICES ASSUME NEW a \in Requests, Moving(a)'
                 PROVE  /\ step'[a] = "siblings" =>
                              found'[a].parent = task'[draft'[a].parent].parent
                        /\ step'[a] = "walk" =>
                              up'[a] = task'[at'[a]].parent /\ Passed(a, at[a])'
                        /\ step'[a] = "store" => Passed(a, None)'
      BY DEF Walked
    <3>1. /\ Moving(a)
          /\ UNCHANGED <<step[a], subject[a], draft[a], found[a], at[a], up[a], visited[a]>>
          /\ \A t \in Stored : task'[t].parent = task[t].parent
      BY <1>3, <2>2, StoreKeepsOthers DEF Moving
    <3>2. CASE step[a] = "siblings"
      <4>1. draft[a].parent \in Stored
        BY <3>2 DEF FInv, PInv, Placed
      <4> QED
        BY <1>3, <3>1, <3>2, <4>1 DEF CInv, Walked
    <3>3. CASE step[a] = "walk"
      <4>1. at[a] \in Stored
        BY <3>3 DEF FInv, PInv, Placed
      <4> QED
        BY <1>1, <1>3, <3>1, <3>3, <4>1 DEF CInv, Walked, Passed
    <3>4. CASE step[a] = "store"
      BY <1>1, <1>3, <3>1, <3>4 DEF CInv, Walked, Passed
    <3> QED
      BY <3>1, <3>2, <3>3, <3>4
  <2> QED
    BY <2>1, <2>3, <2>4, <2>5 DEF CInv
<1> QED
  BY <1>1, <1>2, <1>3 DEF FInv

LEMMA NextFInv == FInv /\ [Next]_vars => FInv'
<1> SUFFICES ASSUME FInv, [Next]_vars PROVE FInv'
  OBVIOUS
<1>1. PInv'
  BY NextPInv DEF FInv
<1>2. ASSUME NEW q \in Requests, Accept(q) PROVE FInv'
  BY <1>1, <1>2, AcceptBegins, BeginCInv DEF FInv, BeginsWell
<1>3. ASSUME NEW q \in Requests, Handle(q) \/ Fail(q) PROVE FInv'
  BY <1>1, <1>3, ReadParentCInv, CountSiblingsCInv, WalkUpCInv, ReachRootCInv, StoreCInv,
     RefuseCInv DEF FInv, Handle, Fail, MeetCycle
<1>4. CASE UNCHANGED vars
  BY <1>1, <1>4 DEF FInv, NothingVisited, CInv, Acyclic, MovesAlone, KeepsParent, Walked,
     Passed, Moving, Changing, Stored, vars, requestVars, walkVars, countVars
<1> QED
  BY <1>2, <1>3, <1>4 DEF Next

\* Moving tasks closes no cycle unless a move has overlapped with another
\* change of an existing task, whatever the number of tasks and of requests:
\* validateParent of relay-service.ts.
THEOREM MovesCloseNoCycle == Spec => []ForestUnlessCrossed
<1>1. FInv => ForestUnlessCrossed
  BY DEF FInv, CInv, ForestUnlessCrossed
<1> QED
  BY <1>1, InitFInv, NextFInv, PTL DEF Spec

-----------------------------------------------------------------------------
(* Limits of children.                                                     *)

Alone == \A a, b \in Requests : step[a] # "idle" /\ step[b] # "idle" => a = b

\* The write of request q gives a task one more child.
Grows(q) == draft[q].parent # None /\ (subject[q] = None \/ moves[q])

\* What was read of the parent is still so, and the room counted still there.
Fresh(q) ==
    /\ step[q] \in {"siblings", "walk"} => found[q] = task[draft[q].parent]
    /\ step[q] = "walk" \/ (step[q] = "store" /\ Grows(q)) =>
          Cardinality(Siblings(q)) < task[draft[q].parent].limit

RInv ==
    /\ crossed => raced
    /\ ~raced => Alone /\ \A q \in Requests : Fresh(q)

LEMMA InitRInv == Init => RInv
<1> QED
  BY DEF Init, RInv, Alone, Fresh

LEMMA BeginRInv ==
  ASSUME PInv, RInv, NEW q \in Requests, NEW t \in Stored \cup {None}, NEW r \in Row,
         NEW check \in BOOLEAN, NEW move \in BOOLEAN,
         Begin(q, t, r, check, move), Sound(t, r, check, move)
  PROVE  RInv'
<1>1. /\ step'[q] = IF check THEN "parent" ELSE "store"
      /\ subject'[q] = t /\ draft'[q] = r /\ moves'[q] = move
      /\ \A other \in Requests : other # q => step'[other] = step[other]
  BY DEF Begin, PInv, TypeOK
<1>2. /\ crossed' => raced'
      /\ ~raced' => ~raced /\ \A other \in Requests : step[other] = "idle"
  BY DEF Begin, RInv
<1>3. ASSUME ~raced' PROVE Alone' /\ \A other \in Requests : Fresh(other)'
  <2>1. \A other \in Requests : other # q => step'[other] = "idle"
    BY <1>1, <1>2, <1>3
  <2>2. Alone'
    BY <2>1 DEF Alone
  <2>3. Fresh(q)'
    BY <1>1 DEF Fresh, Grows, Sound
  <2>4. \A other \in Requests : other # q => Fresh(other)'
    BY <2>1 DEF Fresh
  <2> QED
    BY <2>2, <2>3, <2>4
<1> QED
  BY <1>2, <1>3 DEF RInv

\* A request that is handled alone leaves the others idle.
LEMMA HandleAlone ==
  ASSUME RInv, NEW q \in Requests, step[q] # "idle",
         UNCHANGED <<raced, crossed>>,
         \A other \in Requests : other # q => step'[other] = step[other],
         ~raced => Fresh(q)'
  PROVE  RInv'
<1>1. ASSUME ~raced PROVE Alone' /\ \A other \in Requests : Fresh(other)'
  <2>1. \A other \in Requests : other # q => step'[other] = "idle"
    BY <1>1 DEF RInv, Alone
  <2> QED
    BY <1>1, <2>1 DEF Alone, Fresh
<1> QED
  BY <1>1 DEF RInv

LEMMA EndRInv ==
  ASSUME PInv, RInv, NEW q \in Requests, step[q] # "idle", End(q), UNCHANGED <<raced, crossed>>
  PROVE  RInv'
<1>1. /\ step'[q] = "idle" /\ UNCHANGED <<raced, crossed>>
      /\ \A other \in Requests : other # q => step'[other] = step[other]
  BY EndKeeps DEF PInv, countVars
<1>2. Fresh(q)'
  BY <1>1 DEF Fresh
<1> QED
  BY <1>1, <1>2, HandleAlone

LEMMA WalkRInv ==
  ASSUME PInv, RInv, NEW q \in Requests,
         ReadParent(q) \/ CountSiblings(q) \/ WalkUp(q) \/ ReachRoot(q)
  PROVE  RInv'
<1>1. CASE Refuse(q)
  BY <1>1, EndRInv DEF Refuse, ReadParent, CountSiblings, WalkUp, ReachRoot, countVars
<1>2. CASE ~Refuse(q)
  <2>1. step[q] # "idle" /\ UNCHANGED <<task, raced, crossed, subject, moves>>
    BY <1>2 DEF ReadParent, CountSiblings, WalkUp, ReachRoot, countVars
  <2>2. \A other \in Requests : other # q => step'[other] = step[other]
    BY <1>2 DEF ReadParent, CountSiblings, WalkUp, ReachRoot, PInv, TypeOK
  <2>3. draft'[q].parent = draft[q].parent
    <3>1. step[q] = "walk" => draft[q] \in Row
      BY DEF PInv, Placed
    <3> QED
      BY <1>2, <3>1 DEF ReadParent, CountSiblings, WalkUp, ReachRoot, PInv, TypeOK, Row
  <2>4. Siblings(q)' = Siblings(q)
    BY <2>1, <2>3 DEF Siblings, Children, Stored
  <2>5. ASSUME ~raced, Fresh(q) PROVE Fresh(q)'
    <3>1. CASE ReadParent(q)
      BY <3>1, <2>3, <2>1 DEF ReadParent, PInv, TypeOK, Fresh
    <3>2. CASE CountSiblings(q)
      <4>1. step[q] = "siblings" /\ step'[q] = "walk" /\ RoomFor(q) /\ found' = found
        BY <1>2, <3>2 DEF CountSiblings, PInv, TypeOK
      <4> QED
        BY <4>1, <2>1, <2>3, <2>4, <2>5 DEF Fresh, RoomFor
    <3>3. CASE WalkUp(q)
      BY <3>3, <2>1, <2>3, <2>4, <2>5 DEF WalkUp, Fresh
    <3>4. CASE ReachRoot(q)
      <4>1. step[q] = "walk" /\ step'[q] = "store" /\ found' = found
        BY <1>2, <3>4 DEF ReachRoot, PInv, TypeOK
      <4> QED
        BY <4>1, <2>1, <2>3, <2>4, <2>5 DEF Fresh
    <3> QED
      BY <3>1, <3>2, <3>3, <3>4
  <2> QED
    BY <2>1, <2>2, <2>5, HandleAlone DEF RInv
<1> QED
  BY <1>1, <1>2

LEMMA NextRInv == PInv /\ RInv /\ [Next]_vars => RInv'
<1> SUFFICES ASSUME PInv, RInv, [Next]_vars PROVE RInv'
  OBVIOUS
<1>1. ASSUME NEW q \in Requests, Accept(q) PROVE RInv'
  BY <1>1, AcceptBegins, BeginRInv DEF BeginsWell
<1>2. ASSUME NEW q \in Requests, ReadParent(q) \/ CountSiblings(q) \/ WalkUp(q) \/ ReachRoot(q)
      PROVE  RInv'
  BY <1>2, WalkRInv
<1>3. ASSUME NEW q \in Requests, MeetCycle(q) \/ Store(q) \/ Fail(q) PROVE RInv'
  BY <1>3, EndRInv DEF MeetCycle, Store, Fail, Refuse, countVars
<1>4. CASE UNCHANGED vars
  BY <1>4 DEF RInv, Alone, Fresh, Grows, Siblings, Children, Stored,
     vars, requestVars, walkVars, countVars
<1> QED
  BY <1>1, <1>2, <1>3, <1>4 DEF Next, Handle

FanOutStep ==
    ~raced => \A p \in Stored :
        Children(p)' \subseteq Children(p) \/ Cardinality(Children(p)') <= task'[p].limit

\* The task that is written is the one new child of its parent, for which room
\* was counted.
LEMMA StoreFanOut ==
  ASSUME FInv, RInv, NEW q \in Requests, Store(q)
  PROVE  FanOutStep
<1> SUFFICES ASSUME ~raced, NEW p \in Stored
             PROVE  \/ Children(p)' \subseteq Children(p)
                    \/ Cardinality(Children(p)') <= task'[p].limit
  BY DEF FanOutStep
<1> DEFINE t == Target(q)
           parent == draft[q].parent
<1>1. /\ step[q] = "store" /\ t \in Tasks
      /\ Stored' = Stored \cup {t}
      /\ task'[t].parent = parent
      /\ \A other \in Tasks : other # t => task'[other] = task[other]
      /\ subject[q] = None => t \notin Stored
      /\ subject[q] # None => t = subject[q] /\ t \in Stored
  BY StoreWrites DEF FInv, PInv, TypeOK, Store
<1>2. CInv /\ Fresh(q)
  BY DEF FInv, RInv
<1>3. None \notin Stored
  BY TaskAssumption DEF Stored
<1> HIDE DEF t, parent
<1>4. \A other \in Children(p)' : other # t => other \in Children(p)
  BY <1>1 DEF Children, Stored
<1>5. CASE parent # p
  BY <1>1, <1>4, <1>5 DEF Children
<1>6. CASE subject[q] # None /\ ~moves[q]
  <2>1. task[t].parent = parent
    BY <1>1, <1>2, <1>6 DEF CInv, KeepsParent, Changing, parent
  <2> QED
    BY <1>1, <1>4, <1>6, <2>1 DEF Children
<1>7. CASE parent = p /\ (subject[q] = None \/ moves[q])
  <2>1. Grows(q)
    BY <1>3, <1>7 DEF Grows, parent
  <2>2. Cardinality(Siblings(q)) < task[p].limit
    BY <1>1, <1>2, <1>7, <2>1 DEF Fresh, parent
  <2>3. p # t
    <3>1. CASE subject[q] = None
      BY <1>1, <3>1
    <3>2. CASE subject[q] # None
      <4>1. Passed(q, None)
        BY <1>1, <1>2, <1>7, <3>2 DEF CInv, Walked, Moving, Changing
      <4> QED
        BY <1>1, <1>3, <1>7, <3>2, <4>1 DEF Passed, parent
    <3> QED
      BY <3>1, <3>2
  <2>4. task'[p] = task[p] /\ task[p].limit \in Nat
    BY <1>1, <2>3, TaskAssumption DEF FInv, PInv, TypeOK, Stored, Row
  <2>5. Children(p)' \subseteq Siblings(q) \cup {t} /\ t \notin Siblings(q)
    <3>1. Siblings(q) = Children(p) \ {subject[q]}
      BY <1>7 DEF Siblings, parent
    <3>2. t \notin Children(p) \ {subject[q]}
      BY <1>1 DEF Children
    <3>3. None \notin Children(p)
      BY <1>3 DEF Children
    <3> QED
      BY <1>1, <1>4, <3>1, <3>2, <3>3
  <2>6. IsFiniteSet(Siblings(q))
    <3>1. Siblings(q) \subseteq Tasks
      BY DEF Siblings, Children, Stored
    <3> QED
      BY <3>1, TaskAssumption, FS_Subset
  <2>7. /\ IsFiniteSet(Siblings(q) \cup {t})
        /\ Cardinality(Siblings(q) \cup {t}) = Cardinality(Siblings(q)) + 1
    BY <2>5, <2>6, FS_AddElement
  <2>8. Cardinality(Children(p)') <= Cardinality(Siblings(q) \cup {t})
    BY <2>5, <2>7, FS_Subset
  <2>9. /\ IsFiniteSet(Children(p)')
        /\ Cardinality(Siblings(q)) \in Nat /\ Cardinality(Children(p)') \in Nat
    BY <2>5, <2>6, <2>7, FS_Subset, FS_CardinalityType
  <2> QED
    BY <2>2, <2>4, <2>7, <2>8, <2>9
<1> QED
  BY <1>5, <1>6, <1>7

LEMMA NextFanOut == FInv /\ RInv /\ [Next]_vars => FanOutStep
<1> SUFFICES ASSUME FInv, RInv, [Next]_vars PROVE FanOutStep
  OBVIOUS
<1>1. CASE UNCHANGED task
  BY <1>1 DEF FanOutStep, Children, Stored
<1>2. ASSUME NEW q \in Requests, Store(q) PROVE FanOutStep
  BY <1>2, StoreFanOut
<1>3. ASSUME NEW q \in Requests, Accept(q) PROVE UNCHANGED task
  BY <1>3, AcceptBegins DEF FInv, BeginsWell, Begin
<1>4. ASSUME NEW q \in Requests, Handle(q) \/ Fail(q), ~Store(q) PROVE UNCHANGED task
  BY <1>4 DEF Handle, Fail, ReadParent, CountSiblings, WalkUp, MeetCycle, ReachRoot, Refuse
<1>5. CASE UNCHANGED vars
  BY <1>1, <1>5 DEF vars
<1> QED
  BY <1>1, <1>2, <1>3, <1>4, <1>5 DEF Next

\* A task gets one more child only while its limit leaves room, unless requests
\* have overlapped: the count of validateParent in relay-service.ts.
THEOREM FanOutKept == Spec => FanOutUnlessRaced
<1>1. FInv /\ RInv /\ [Next]_vars => FInv' /\ RInv' /\ FanOutStep
  BY NextFInv, NextRInv, NextFanOut DEF FInv
<1>2. Init => FInv /\ RInv
  BY InitFInv, InitRInv
<1> QED
  BY <1>1, <1>2, PTL DEF Spec, FanOutUnlessRaced, FanOutStep

-----------------------------------------------------------------------------
(* Depths.                                                                 *)

\* A row that goes below p has this depth.
DepthIn(tasks, p) == IF p = None THEN 0 ELSE tasks[p].depth + 1
DepthBelow(p) == DepthIn(task, p)

\* The depths in the table, the depth that a request has read of the parent,
\* and the depth of a row that it has put together or leaves as it was.
DepthInv ==
    ~displaced =>
        /\ \A t \in Stored : task[t].depth = DepthBelow(task[t].parent)
        /\ \A q \in Requests : step[q] \in {"siblings", "walk"} =>
              found[q].depth = task[draft[q].parent].depth
        /\ \A q \in Requests : step[q] # "idle" /\ (step[q] = "store" \/ ~moves[q]) =>
              draft[q].depth = DepthBelow(draft[q].parent)

LEMMA BeginDepth ==
  ASSUME PInv, DepthInv, NEW q \in Requests, BeginsWell(q)
  PROVE  DepthInv'
<1> SUFFICES ASSUME ~displaced' PROVE DepthInv'
  BY DEF DepthInv
<1>1. PICK t \in Stored \cup {None}, r \in Row, check \in BOOLEAN, move \in BOOLEAN :
         Begin(q, t, r, check, move) /\ Sound(t, r, check, move)
  BY DEF BeginsWell
<1>2. /\ UNCHANGED <<task, found, displaced>>
      /\ step'[q] = (IF check THEN "parent" ELSE "store")
      /\ draft'[q] = r /\ moves'[q] = move
      /\ \A other \in Requests : other # q => /\ step'[other] = step[other]
                                             /\ draft'[other] = draft[other]
                                             /\ moves'[other] = moves[other]
  BY <1>1 DEF Begin, walkVars, PInv, TypeOK
<1>3. Stored' = Stored /\ \A p : DepthBelow(p)' = DepthBelow(p)
  BY <1>2 DEF Stored, DepthBelow, DepthIn
<1>4. step'[q] = "store" \/ ~moves'[q] => r.depth = DepthBelow(r.parent)
  <2>1. CASE ~move
    BY <1>1, <1>2, <2>1 DEF Sound, DepthInv
  <2>2. CASE move
    BY <1>1, <1>2, <2>2 DEF Sound, DepthBelow, DepthIn
  <2> QED
    BY <2>1, <2>2
<1> QED
  BY <1>2, <1>3, <1>4 DEF DepthInv

LEMMA EndDepth ==
  ASSUME PInv, DepthInv, NEW q \in Requests, Refuse(q)
  PROVE  DepthInv'
<1>1. End(q) /\ UNCHANGED <<task, displaced>>
  BY DEF Refuse, countVars
<1>2. Stored' = Stored /\ \A p : DepthBelow(p)' = DepthBelow(p)
  BY <1>1 DEF Stored, DepthBelow, DepthIn
<1> QED
  BY <1>1, <1>2, EndKeeps DEF DepthInv, PInv

LEMMA WalkDepth ==
  ASSUME PInv, DepthInv, NEW q \in Requests,
         ReadParent(q) \/ CountSiblings(q) \/ WalkUp(q) \/ ReachRoot(q)
  PROVE  DepthInv'
<1>1. CASE Refuse(q)
  BY <1>1, EndDepth
<1>2. CASE ~Refuse(q)
  <2> SUFFICES ASSUME ~displaced' PROVE DepthInv'
    BY DEF DepthInv
  <2>1. /\ UNCHANGED <<task, moves, displaced>>
        /\ \A other \in Requests : other # q => /\ step'[other] = step[other]
                                               /\ draft'[other] = draft[other]
                                               /\ found'[other] = found[other]
    BY <1>2 DEF ReadParent, CountSiblings, WalkUp, ReachRoot, countVars, PInv, TypeOK
  <2>2. Stored' = Stored /\ \A p : DepthBelow(p)' = DepthBelow(p)
    BY <2>1 DEF Stored, DepthBelow, DepthIn
  <2>3. CASE ReadParent(q)
    <3>1. /\ step[q] = "parent" /\ step'[q] = "siblings" /\ draft' = draft
          /\ found'[q] = task[draft[q].parent]
      BY <2>3 DEF ReadParent, PInv, TypeOK
    <3> QED
      BY <2>1, <2>2, <3>1 DEF DepthInv
  <2>4. CASE CountSiblings(q) \/ WalkUp(q)
    <3>1. step[q] \in {"siblings", "walk"} /\ step'[q] = "walk" /\ draft' = draft /\ found' = found
      BY <1>2, <2>4 DEF CountSiblings, WalkUp, PInv, TypeOK
    <3> QED
      BY <2>1, <2>2, <3>1 DEF DepthInv
  <2>5. CASE ReachRoot(q)
    <3>1. /\ step[q] = "walk" /\ step'[q] = "store" /\ found' = found
          /\ draft' = [draft EXCEPT ![q].depth = NewDepth(q)]
      BY <1>2, <2>5 DEF ReachRoot, PInv, TypeOK
    <3>2. draft[q] \in Row /\ draft[q].parent # None
      BY <3>1 DEF PInv, Placed
    <3>3. draft'[q].depth = NewDepth(q) /\ draft'[q].parent = draft[q].parent
      BY <3>1, <3>2 DEF PInv, TypeOK, Row
    <3>4. NewDepth(q) = DepthBelow(draft[q].parent)
      BY <2>1, <3>1, <3>2 DEF DepthInv, NewDepth, DepthBelow, DepthIn
    <3> QED
      BY <2>1, <2>2, <3>1, <3>3, <3>4 DEF DepthInv
  <2> QED
    BY <2>3, <2>4, <2>5
<1> QED
  BY <1>1, <1>2

\* A write that displaces nothing leaves a parent, or one that is to be, at
\* its depth.
LEMMA StoreKeepsDepth ==
  ASSUME PInv, NEW q \in Requests, Store(q), ~displaced'
  PROVE  /\ \A t \in Stored : DepthIn(task', task[t].parent) = DepthBelow(task[t].parent)
         /\ \A other \in Requests : step[other] # "idle" =>
               DepthIn(task', draft[other].parent) = DepthBelow(draft[other].parent)
<1>1. ~Displaces(q) /\ task' = [task EXCEPT ![Target(q)] = draft[q]]
  BY DEF Store
<1>2. ASSUME NEW p \in Stored \cup {None},
             \/ \E t \in Stored : task[t].parent = p
             \/ \E other \in Requests : step[other] # "idle" /\ draft[other].parent = p
      PROVE  DepthIn(task', p) = DepthBelow(p)
  <2>1. CASE p = None
    BY <2>1 DEF DepthBelow, DepthIn
  <2>2. CASE p # None /\ p # Target(q)
    BY <1>1, <2>2 DEF PInv, TypeOK, Stored, DepthBelow, DepthIn
  <2>3. CASE p # None /\ p = Target(q)
    <3>1. p \in Stored /\ p \in Tasks
      BY <2>3 DEF Stored
    <3>2. task[p].depth = draft[q].depth
      BY <1>1, <1>2, <2>3, <3>1 DEF Displaces, Children
    <3> QED
      BY <1>1, <2>3, <3>1, <3>2 DEF PInv, TypeOK, DepthBelow, DepthIn
  <2> QED
    BY <2>1, <2>2, <2>3
<1>3. /\ \A t \in Stored : task[t].parent \in Stored \cup {None}
      /\ \A other \in Requests : step[other] # "idle" => draft[other].parent \in Stored \cup {None}
  BY DEF PInv, Placed
<1> QED
  BY <1>2, <1>3

LEMMA StoreDepth ==
  ASSUME PInv, DepthInv, NEW q \in Requests, Store(q)
  PROVE  DepthInv'
<1> SUFFICES ASSUME ~displaced' PROVE DepthInv'
  BY DEF DepthInv
<1>0. ~displaced /\ step[q] = "store"
  BY DEF Store
<1>1. /\ Target(q) \in Tasks /\ Stored' = Stored \cup {Target(q)}
      /\ task' = [task EXCEPT ![Target(q)] = draft[q]] /\ End(q)
  BY StoreWrites
<1>2. \A other \in Requests : step'[other] # "idle" =>
         /\ step[other] # "idle" /\ step'[other] = step[other] /\ draft'[other] = draft[other]
         /\ found'[other] = found[other] /\ moves'[other] = moves[other]
  BY <1>1, EndKeeps DEF PInv
<1>3. ASSUME NEW t \in Stored' PROVE task'[t].depth = DepthIn(task', task'[t].parent)
  <2>1. CASE t = Target(q)
    <3>1. task'[t] = draft[q]
      BY <1>1, <2>1 DEF PInv, TypeOK
    <3>2. draft[q].depth = DepthBelow(draft[q].parent)
      BY <1>0 DEF DepthInv
    <3> QED
      BY <1>0, <3>1, <3>2, StoreKeepsDepth
  <2>2. CASE t # Target(q)
    <3>1. t \in Stored /\ task'[t] = task[t]
      BY <1>1, <2>2 DEF PInv, TypeOK, Stored
    <3> QED
      BY <1>0, <3>1, StoreKeepsDepth DEF DepthInv
  <2> QED
    BY <2>1, <2>2
<1>4. ASSUME NEW other \in Requests, step'[other] \in {"siblings", "walk"}
      PROVE  found'[other].depth = task'[draft'[other].parent].depth
  <2>1. /\ step[other] \in {"siblings", "walk"} /\ draft'[other] = draft[other]
        /\ found[other].depth = task[draft[other].parent].depth /\ found'[other] = found[other]
    BY <1>0, <1>2, <1>4 DEF DepthInv
  <2>2. draft[other].parent # None /\ draft[other].parent \in Stored
    BY <2>1 DEF PInv, Placed
  <2>3. task'[draft[other].parent].depth + 1 = task[draft[other].parent].depth + 1
    BY <2>1, <2>2, StoreKeepsDepth DEF DepthBelow, DepthIn
  <2>4. task[draft[other].parent].depth \in Int /\ task'[draft[other].parent].depth \in Int
    <3>1. \A p \in Stored : task[p] \in Row /\ task'[p] \in Row
      BY <1>1, StoreWrites DEF PInv, TypeOK, Stored
    <3> QED
      BY <2>2, <3>1, TaskAssumption DEF Row
  <2> QED
    BY <2>1, <2>3, <2>4
<1>5. ASSUME NEW other \in Requests, step'[other] # "idle", step'[other] = "store" \/ ~moves'[other]
      PROVE  draft'[other].depth = DepthIn(task', draft'[other].parent)
  <2>1. draft[other].depth = DepthBelow(draft[other].parent)
    BY <1>0, <1>2, <1>5 DEF DepthInv
  <2> QED
    BY <1>2, <1>5, <2>1, StoreKeepsDepth
<1> QED
  BY <1>3, <1>4, <1>5 DEF DepthInv, DepthBelow

LEMMA NextDepthInv == PInv /\ DepthInv /\ [Next]_vars => DepthInv'
<1> SUFFICES ASSUME PInv, DepthInv, [Next]_vars PROVE DepthInv'
  OBVIOUS
<1>1. ASSUME NEW q \in Requests, Accept(q) PROVE DepthInv'
  BY <1>1, AcceptBegins, BeginDepth
<1>2. ASSUME NEW q \in Requests, Handle(q) \/ Fail(q) PROVE DepthInv'
  BY <1>2, WalkDepth, StoreDepth, EndDepth DEF Handle, Fail, MeetCycle
<1>3. CASE UNCHANGED vars
  BY <1>3 DEF DepthInv, DepthBelow, DepthIn, Stored, vars, requestVars, walkVars, countVars
<1> QED
  BY <1>1, <1>2, <1>3 DEF Next

\* The depth in a row is the number of tasks above it, unless a task was moved
\* with others below it: validateParent in relay-service.ts trusts it.
THEOREM DepthsAreTrue == Spec => []DepthsAddUp
<1>1. Init => PInv /\ DepthInv
  BY InitPInv DEF Init, DepthInv, Stored
<1>2. PInv /\ DepthInv /\ [Next]_vars => PInv' /\ DepthInv'
  BY NextPInv, NextDepthInv
<1>3. PInv /\ DepthInv => DepthsAddUp
  BY DEF DepthInv, DepthsAddUp, DepthBelow, DepthIn
<1> QED
  BY <1>1, <1>2, <1>3, PTL DEF Spec

\* A step up the path is a step down in depth.
LEMMA DepthAlongPath ==
  ASSUME PInv, DepthsAddUp, ~displaced, NEW n \in Nat, NEW path \in [0..n -> Stored],
         \A i \in 1..n : task[path[i - 1]].parent = path[i]
  PROVE  \A i \in 0..n : task[path[i]].depth + i = task[path[0]].depth
<1> DEFINE wrong == {i \in 0..n : task[path[i]].depth + i # task[path[0]].depth}
<1>1. \A i \in 0..n : task[path[i]].depth \in Nat /\ path[i] # None /\ path[i] \in Stored
  BY TaskAssumption DEF PInv, TypeOK, Stored, Row
<1>2. SUFFICES ASSUME wrong # {} PROVE FALSE
  OBVIOUS
<1>3. PICK i \in wrong : \A j \in wrong : <<j, i>> \notin OpToRel(<, Nat)
  <2>1. wrong \subseteq Nat
    OBVIOUS
  <2> HIDE DEF wrong
  <2> QED
    BY <1>2, <2>1, NatLessThanWellFounded, WFMin
<1>4. i # 0
  BY <1>1
<1>5. i - 1 \notin wrong
  <2>1. i \in Nat /\ i - 1 \in Nat /\ i - 1 < i
    BY <1>4
  <2>2. <<i - 1, i>> \in OpToRel(<, Nat)
    BY <2>1 DEF OpToRel
  <2> QED
    BY <1>3, <2>2
<1>6. task[path[i - 1]].depth + (i - 1) = task[path[0]].depth
  BY <1>4, <1>5
<1>7. task[path[i - 1]].depth = task[path[i]].depth + 1
  <2>1. i - 1 \in 0..n /\ i \in 1..n
    BY <1>4
  <2> QED
    BY <1>1, <2>1 DEF DepthsAddUp
<1> QED
  BY <1>1, <1>4, <1>6, <1>7

\* No task has more than the maximum of tasks above it, unless a task was moved
\* with others below it: what validateParent compares is the true depth.
THEOREM DelegationIsBounded == Spec => [](~displaced => DepthIsBounded)
<1>1. PInv /\ DepthsAddUp => (~displaced => DepthIsBounded)
  <2> SUFFICES ASSUME PInv, DepthsAddUp, ~displaced, NEW t \in Stored, Above(t, MaxDepth + 1)
               PROVE  FALSE
    BY DEF DepthIsBounded
  <2> DEFINE n == MaxDepth + 1
  <2>1. n \in Nat /\ n # 0 /\ MaxDepth \in Nat
    BY TaskAssumption
  <2>2. PICK path \in [0..n -> Stored] :
           path[0] = t /\ \A i \in 1..n : task[path[i - 1]].parent = path[i]
    BY <2>1 DEF Above
  <2> HIDE DEF n
  <2>3. task[path[n]].depth + n = task[t].depth
    <3>1. \A i \in 0..n : task[path[i]].depth + i = task[path[0]].depth
      BY <2>1, <2>2, DepthAlongPath
    <3>2. n \in 0..n
      BY <2>1
    <3> QED
      BY <2>2, <3>1, <3>2
  <2>4. task[t].depth \in 0..MaxDepth /\ task[path[n]].depth \in 0..MaxDepth
    BY <2>1, <2>2 DEF PInv, TypeOK, Stored, Row
  <2> QED
    BY <2>1, <2>3, <2>4 DEF n
<1>2. Spec => []PInv
  BY InitPInv, NextPInv, PTL DEF Spec
<1> QED
  BY <1>1, <1>2, DepthsAreTrue, PTL
=============================================================================
