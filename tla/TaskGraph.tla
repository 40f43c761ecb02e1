----------------------------- MODULE TaskGraph -----------------------------
(***************************************************************************)
(* The task hierarchy: requests that create, change, move, delegate and    *)
(* complete tasks.  A request awaits between its reads and its one write,  *)
(* so that others, of this process or another, run in between.  step[q] is *)
(* the next statement of request q that touches the tasks.                 *)
(*                                                                         *)
(* Of a task there are its parent, its depth, its limit of children and    *)
(* whether its status is terminal.  Tasks are never deleted.               *)
(***************************************************************************)
EXTENDS Naturals, FiniteSets

CONSTANTS Tasks,       \* task ids
          Requests,    \* requests that may be handled at the same time
          Limits,      \* values of budget.maxChildTasks
          Patches,     \* inputs of updateTask
          MaxDepth,    \* config.maxDelegationDepth
          MaxRequests, \* bound: requests
          None, Same, NoTask

Statuses == {"open", "completed", "cancelled"}
Parents == Tasks \cup {None}
Row == [parent : Parents, depth : 0..MaxDepth, limit : Limits, status : Statuses]
Patch == [parent : Parents \cup {Same}, limit : Limits \cup {Same},
          status : Statuses \cup {Same}]

ASSUME TaskAssumption ==
    /\ IsFiniteSet(Tasks)
    /\ None \notin Tasks
    /\ Same \notin Parents /\ Same \notin Limits /\ Same \notin Statuses
    /\ NoTask \notin Row
    /\ Limits \subseteq Nat
    /\ Patches \subseteq Patch
    /\ {MaxDepth, MaxRequests} \subseteq Nat

VARIABLES task,     \* task[t]: its row, NoTask before it is created
          step,     \* step[q]: what request q does next
          subject,  \* subject[q]: the task it changes, None when it creates one
          draft,    \* draft[q]: the row it will store
          moves,    \* moves[q]: it gives the task another parent
          found,    \* found[q]: the parent's row as read
          at, up,   \* the task that the walk is at, and its parent as read
          visited,  \* visited[q]: the tasks that the walk has passed
          requests, \* the number of requests so far
          raced,    \* history: a request began before another one had ended
          crossed,  \* history: so did two that change tasks, one of them a move
          displaced \* history: a task got another depth and kept what is below it

walkVars == <<found, at, up, visited>>
requestVars == <<step, subject, draft, moves, walkVars>>
countVars == <<requests, raced, crossed, displaced>>
vars == <<task, requestVars, countVars>>

Stored == {t \in Tasks : task[t] # NoTask}
Children(p) == {t \in Stored : task[t].parent = p}

-----------------------------------------------------------------------------

TypeOK ==
    /\ task \in [Tasks -> Row \cup {NoTask}]
    /\ step \in [Requests -> {"idle", "parent", "siblings", "walk", "store"}]
    /\ subject \in [Requests -> Parents]
    /\ draft \in [Requests -> Row \cup {NoTask}]
    /\ moves \in [Requests -> BOOLEAN]
    /\ found \in [Requests -> Row \cup {NoTask}]
    /\ at \in [Requests -> Parents]
    /\ up \in [Requests -> Parents]
    /\ visited \in [Requests -> SUBSET Tasks]
    /\ requests \in Nat
    /\ {raced, crossed, displaced} \subseteq BOOLEAN

Init ==
    /\ task = [t \in Tasks |-> NoTask]
    /\ step = [q \in Requests |-> "idle"]
    /\ subject = [q \in Requests |-> None]
    /\ draft = [q \in Requests |-> NoTask]
    /\ moves = [q \in Requests |-> FALSE]
    /\ found = [q \in Requests |-> NoTask]
    /\ at = [q \in Requests |-> None]
    /\ up = [q \in Requests |-> None]
    /\ visited = [q \in Requests |-> {}]
    /\ requests = 0
    /\ raced = FALSE
    /\ crossed = FALSE
    /\ displaced = FALSE

\* A request has read task t (or creates one) and will store row r, after
\* validateParent when check holds.
Begin(q, t, r, check, move) ==
    /\ step[q] = "idle"
    /\ requests < MaxRequests
    /\ step' = [step EXCEPT ![q] = IF check THEN "parent" ELSE "store"]
    /\ subject' = [subject EXCEPT ![q] = t]
    /\ draft' = [draft EXCEPT ![q] = r]
    /\ moves' = [moves EXCEPT ![q] = move]
    /\ requests' = requests + 1
    /\ raced' = (raced \/ \E other \in Requests : step[other] # "idle")
    /\ crossed' = (crossed \/ (t # None /\ \E other \in Requests :
                      step[other] # "idle" /\ subject[other] # None /\ (move \/ moves[other])))
    /\ UNCHANGED <<task, walkVars, displaced>>

End(q) ==
    /\ step' = [step EXCEPT ![q] = "idle"]
    /\ subject' = [subject EXCEPT ![q] = None]
    /\ draft' = [draft EXCEPT ![q] = NoTask]
    /\ moves' = [moves EXCEPT ![q] = FALSE]
    /\ found' = [found EXCEPT ![q] = NoTask]
    /\ at' = [at EXCEPT ![q] = None]
    /\ up' = [up EXCEPT ![q] = None]
    /\ visited' = [visited EXCEPT ![q] = {}]

-----------------------------------------------------------------------------
(* Requests.  One that is refused before it awaits changes nothing.        *)

\* Bound: there is an id for every task that is being created.
IdsLeft ==
    Cardinality({q \in Requests : step[q] # "idle" /\ subject[q] = None})
        < Cardinality(Tasks \ Stored)

\* createTask, also for requestAgentHelp and createDelegatedChild, which give
\* the child a limit of its parent's.
CreateTask(q, parent, limit) ==
    /\ IdsLeft
    /\ parent \in Stored \cup {None}
    /\ Begin(q, None, [parent |-> parent, depth |-> 0, limit |-> limit, status |-> "open"],
             parent # None, TRUE)

Given(field, stored) == IF field = Same THEN stored ELSE field

\* updateTask: what is not in the patch stays as read; a new parent is
\* validated, and no parent is depth 0.
UpdateTask(q, t, patch) ==
    LET old == task[t]
        parent == Given(patch.parent, old.parent)
        moved == parent # old.parent
    IN /\ old # NoTask
       /\ moved => parent \in (Stored \ {t}) \cup {None}
       /\ Begin(q, t,
                [parent |-> parent,
                 depth |-> IF moved /\ parent = None THEN 0 ELSE old.depth,
                 limit |-> Given(patch.limit, old.limit),
                 status |-> Given(patch.status, old.status)],
                moved /\ parent # None, moved)

\* delegateTask: the parent is validated, the depth found is not used.
DelegateTask(q, t) ==
    LET old == task[t] IN
    /\ old # NoTask
    /\ old.status \notin {"completed", "cancelled"}
    /\ old.parent # t
    /\ Begin(q, t, [old EXCEPT !.status = "open"], old.parent # None, FALSE)

CompleteTask(q, t) ==
    LET old == task[t] IN
    /\ old # NoTask
    /\ old.status # "cancelled"
    /\ Begin(q, t, [old EXCEPT !.status = "completed"], FALSE, FALSE)

-----------------------------------------------------------------------------
(* validateParent, and the write.                                          *)

Refuse(q) == End(q) /\ UNCHANGED <<task, countVars>>

ReadParent(q) ==
    /\ step[q] = "parent"
    /\ task[draft[q].parent] # NoTask
    /\ step' = [step EXCEPT ![q] = "siblings"]
    /\ found' = [found EXCEPT ![q] = task[draft[q].parent]]
    /\ UNCHANGED <<task, subject, draft, moves, at, up, visited, countVars>>

Siblings(q) == Children(draft[q].parent) \ {subject[q]}

\* Mutant of RoomFor: the limit may be passed by one.
RoomForOneMore(q) == Cardinality(Siblings(q)) <= found[q].limit

RoomFor(q) == Cardinality(Siblings(q)) < found[q].limit

CountSiblings(q) ==
    /\ step[q] = "siblings"
    /\ IF RoomFor(q)
       THEN /\ step' = [step EXCEPT ![q] = "walk"]
            /\ at' = [at EXCEPT ![q] = draft[q].parent]
            /\ up' = [up EXCEPT ![q] = found[q].parent]
            /\ UNCHANGED <<task, subject, draft, moves, found, visited, countVars>>
       ELSE Refuse(q)

\* Mutants of Cycle: the walk does not know where it came from, or what it
\* looks for.
CycleToSubject(q) == at[q] = subject[q]
CycleOnTheWay(q) == at[q] \in visited[q]

Cycle(q) == at[q] = subject[q] \/ at[q] \in visited[q]

\* One round of the walk towards the root: the task it is at, then the read of
\* the next one.
WalkUp(q) ==
    /\ step[q] = "walk"
    /\ ~Cycle(q)
    /\ up[q] # None
    /\ visited' = [visited EXCEPT ![q] = @ \cup {at[q]}]
    /\ at' = [at EXCEPT ![q] = up[q]]
    /\ up' = [up EXCEPT ![q] = task[up[q]].parent]
    /\ UNCHANGED <<task, step, subject, draft, moves, found, countVars>>

MeetCycle(q) ==
    /\ step[q] = "walk"
    /\ Cycle(q)
    /\ Refuse(q)

\* Mutant of DepthFits: the parent's depth is compared, not the task's.
ParentFits(q) == found[q].depth <= MaxDepth

DepthFits(q) == found[q].depth + 1 <= MaxDepth

\* Mutant of NewDepth: the parent's depth is taken over.
DepthOfParent(q) == IF moves[q] THEN found[q].depth ELSE draft[q].depth

NewDepth(q) == IF moves[q] THEN found[q].depth + 1 ELSE draft[q].depth

\* The walk has reached a root: the depth is the parent's and one more.
ReachRoot(q) ==
    /\ step[q] = "walk"
    /\ ~Cycle(q)
    /\ up[q] = None
    /\ IF DepthFits(q)
       THEN /\ step' = [step EXCEPT ![q] = "store"]
            /\ draft' = [draft EXCEPT ![q].depth = NewDepth(q)]
            /\ visited' = [visited EXCEPT ![q] = @ \cup {at[q]}]
            /\ UNCHANGED <<task, subject, moves, found, at, up, countVars>>
       ELSE Refuse(q)

\* A new task has an id of its own.
Target(q) ==
    IF subject[q] = None THEN CHOOSE new \in Tasks : task[new] = NoTask ELSE subject[q]

\* The write gives another depth to a task that has children or is about to
\* get one.
Displaces(q) ==
    LET t == Target(q) IN
    /\ t \in Stored
    /\ task[t].depth # draft[q].depth
    /\ \/ Children(t) # {}
       \/ \E other \in Requests : step[other] # "idle" /\ draft[other].parent = t

\* put("tasks", ...): the whole row, as it was put together.
Store(q) ==
    /\ step[q] = "store"
    /\ subject[q] = None => Stored # Tasks
    /\ task' = [task EXCEPT ![Target(q)] = draft[q]]
    /\ displaced' = (displaced \/ Displaces(q))
    /\ End(q)
    /\ UNCHANGED <<requests, raced, crossed>>

\* An error of the database, or a crash, ends a request before its write.
Fail(q) ==
    /\ step[q] # "idle"
    /\ Refuse(q)

-----------------------------------------------------------------------------

Accept(q) ==
    \/ \E parent \in Parents, limit \in Limits : CreateTask(q, parent, limit)
    \/ \E t \in Tasks, patch \in Patches : UpdateTask(q, t, patch)
    \/ \E t \in Tasks : DelegateTask(q, t) \/ CompleteTask(q, t)

Handle(q) ==
    \/ ReadParent(q) \/ CountSiblings(q)
    \/ WalkUp(q) \/ MeetCycle(q) \/ ReachRoot(q)
    \/ Store(q)

Next == \E q \in Requests : Accept(q) \/ Handle(q) \/ Fail(q)

Spec == Init /\ [][Next]_vars

\* A request that was accepted is handled.
FairSpec == Spec /\ \A q \in Requests : WF_vars(Handle(q))

-----------------------------------------------------------------------------

\* No set of tasks has each its parent in the set.
Acyclic ==
    \A loop \in SUBSET Stored :
        (\A t \in loop : task[t].parent \in loop) => loop = {}

\* Moving tasks about never closes a cycle, as long as no move overlaps with
\* another change of an existing task: each walks the path before it is closed.
\* New tasks, and changes that leave the parent alone, may overlap freely.
ForestUnlessCrossed == ~crossed => Acyclic

\* A task that gets one more child has room for it by its limit, as long as
\* requests do not overlap.
FanOutUnlessRaced ==
    [][~raced => \A p \in Stored :
          Children(p)' \subseteq Children(p) \/ Cardinality(Children(p)') <= task'[p].limit]_vars

\* The depth in a row is the number of tasks above it, so that the check of the
\* parent's depth bounds the delegation: it is the parent's and one more, until
\* a task is moved that others are below, or are being put below.  No other
\* overlap of requests makes it wrong, a write-back of an old row included.
DepthsAddUp ==
    ~displaced => \A t \in Stored :
        task[t].depth = IF task[t].parent = None THEN 0 ELSE task[task[t].parent].depth + 1

\* A request always gets an answer, even if overlapping requests have closed a
\* cycle or change the path while it is walked.
EveryRequestEnds == \A q \in Requests : step[q] # "idle" ~> step[q] = "idle"

\* "Maximum delegation depth": no task has more than MaxDepth tasks above it.
\* The depth kept in a row is that of the moment it was placed; when its
\* parent is moved, it stays.
Above(t, n) ==
    n = 0 \/ \E path \in [0..n -> Stored] :
                path[0] = t /\ \A i \in 1..n : task[path[i - 1]].parent = path[i]
DepthIsBounded == \A t \in Stored : ~Above(t, MaxDepth + 1)
=============================================================================
