------------------------------ MODULE Sandbox ------------------------------
(***************************************************************************)
(* The sandbox manager (services/sandbox-manager): the containers of the   *)
(* workspace computer, the commands that run in them, the one-at-a-time    *)
(* queue of browser actions and the monitor that suspends an idle          *)
(* container.  Every request of the API that reaches the manager is an     *)
(* operation of its own here: the manager carries it to its end even when  *)
(* the API has stopped waiting for it.                                     *)
(***************************************************************************)
EXTENDS Naturals, FiniteSets, SequencesExt

CONSTANTS Slots,          \* the requests of an instance
          MaxComputers,   \* bound: identities createComputer may hand out
          MaxFailures     \* bound: docker errors, dead containers, commands cut off, requests given up

ASSUME SandboxAssumption ==
    /\ IsFiniteSet(Slots)
    /\ MaxComputers \in Nat
    /\ MaxFailures \in Nat

Ids == 1..MaxComputers
NoId == 0

VARIABLES
    box,        \* the container of each computer
    used,       \* lastActivity, as the idle monitor compares it
    lock,       \* browserActionQueue: its head holds the lock
    commands,   \* the requests whose command runs in a container
    mop,        \* what the manager does for each request
    stopping,   \* containers the idle monitor is stopping
    failures    \* how many of the bounded failures have happened

sandboxVars == <<box, used, lock, commands, mop, stopping, failures>>

NoMop == [op |-> "none", id |-> NoId, pc |-> "none", tries |-> 0]

SandboxTypeOK ==
    /\ box \in [Ids -> {"none", "created", "running", "exited"}]
    /\ used \in [Ids -> {"unknown", "fresh", "old"}]
    /\ \A n \in DOMAIN lock : lock[n] \in Slots
    /\ commands \subseteq Slots
    /\ mop \in [Slots -> [op : {"create", "browser", "exec", "remove", "none"},
                          id : Ids \cup {NoId},
                          pc : {"none", "queued", "find", "make", "start", "stop",
                                "delete", "run", "running", "ok", "failed"},
                          tries : 0..2]]
    /\ stopping \subseteq Ids
    /\ failures \in 0..MaxFailures
    \* the queue is exactly the browser actions that have not ended
    /\ ToSet(lock) = {r \in Slots : /\ mop[r].op = "browser"
                                    /\ mop[r].pc \notin {"none", "ok", "failed"}}

SandboxInit ==
    /\ lock = <<>> /\ commands = {} /\ stopping = {} /\ failures = 0
    /\ mop = [r \in Slots |-> NoMop]

-----------------------------------------------------------------------------
(* The steps of an operation.                                              *)

At(r, pc) == mop[r].pc = pc
Goes(r, pc) == mop' = [mop EXCEPT ![r].pc = pc]
InBox(i) == {r \in commands : mop[r].id = i}

\* POST, DELETE: a request of the API reaches the manager.  A desktop action is a
\* navigation whose first command ends it.
Call(r, op, i) ==
    /\ mop' = [mop EXCEPT ![r] = [op |-> op, id |-> i, tries |-> 0,
                                  pc |-> IF op = "browser" THEN "queued" ELSE "find"]]
    /\ lock' = IF op = "browser" THEN Append(lock, r) ELSE lock

\* withBrowserActionLock: the next action starts when the one before released it.
NoPrevious(r) == lock # <<>>
Holds(r) == Head(lock) = r
Acquire(r) == /\ At(r, "queued") /\ Holds(r)
              /\ Goes(r, "find")
              /\ UNCHANGED <<box, used, lock, commands, stopping, failures>>

\* An operation ends; a browser action releases the lock in its finally.
HasLock(r) == lock # <<>> /\ Head(lock) = r
ReleasedWhenOk(r, pc) == IF HasLock(r) /\ pc = "ok" THEN Tail(lock) ELSE lock
Released(r, pc) == IF HasLock(r) THEN Tail(lock) ELSE lock
Ends(r, pc) == Goes(r, pc) /\ lock' = Released(r, pc)

Unmarked(i) == used
MarkActive(i) == [used EXCEPT ![i] = "fresh"]

\* findByName and inspect: what the container is decides what is done with it.
MarksAtStart(i) == MarkActive(i)
Find(r) ==
    LET i == mop[r].id IN
    /\ At(r, "find")
    /\ \/ /\ mop[r].op = "create" /\ box[i] = "none"
          /\ Goes(r, "make") /\ UNCHANGED <<used, lock>>
       \/ /\ mop[r].op = "create" /\ box[i] = "running"
          /\ used' = MarkActive(i) /\ Ends(r, "ok")
       \/ /\ mop[r].op = "create" /\ box[i] \in {"created", "exited"}
          /\ Goes(r, "start") /\ UNCHANGED <<used, lock>>
       \/ /\ mop[r].op \in {"browser", "exec"} /\ box[i] # "none"
          /\ used' = MarksAtStart(i) /\ Goes(r, "run") /\ UNCHANGED lock
       \/ /\ mop[r].op \in {"browser", "exec"} /\ box[i] = "none"
          /\ Ends(r, "failed") /\ UNCHANGED used
       \/ /\ mop[r].op = "remove" /\ box[i] = "none"
          /\ Ends(r, "ok") /\ UNCHANGED used
       \/ /\ mop[r].op = "remove" /\ box[i] = "running"
          /\ Goes(r, "stop") /\ UNCHANGED <<used, lock>>
       \/ /\ mop[r].op = "remove" /\ box[i] \in {"created", "exited"}
          /\ Goes(r, "delete") /\ UNCHANGED <<used, lock>>
    /\ UNCHANGED <<box, commands, stopping, failures>>

\* createContainer: a name that is taken by now is refused.
Make(r) ==
    LET i == mop[r].id IN
    /\ At(r, "make")
    /\ \/ box[i] = "none" /\ box' = [box EXCEPT ![i] = "created"] /\ Goes(r, "start") /\ UNCHANGED lock
       \/ box[i] # "none" /\ Ends(r, "failed") /\ UNCHANGED box
    /\ UNCHANGED <<used, commands, stopping, failures>>

\* container.start: refused when it runs already or is gone.
Start(r) ==
    LET i == mop[r].id IN
    /\ At(r, "start")
    /\ \/ /\ box[i] \in {"created", "exited"}
          /\ box' = [box EXCEPT ![i] = "running"] /\ used' = MarkActive(i) /\ Ends(r, "ok")
       \/ /\ box[i] \in {"none", "running"}
          /\ Ends(r, "failed") /\ UNCHANGED <<box, used>>
    /\ UNCHANGED <<commands, stopping, failures>>

\* A container that stops takes its commands with it.
Stopped(i) == box' = [box EXCEPT ![i] = "exited"] /\ commands' = commands \ InBox(i)

\* remove: stop, then remove without force.
Stop(r) ==
    LET i == mop[r].id IN
    /\ At(r, "stop")
    /\ \/ box[i] = "running" /\ Stopped(i) /\ Goes(r, "delete") /\ UNCHANGED lock
       \/ box[i] # "running" /\ Ends(r, "failed") /\ UNCHANGED <<box, commands>>
    /\ UNCHANGED <<used, stopping, failures>>
Delete(r) ==
    LET i == mop[r].id IN
    /\ At(r, "delete")
    /\ \/ /\ box[i] \in {"created", "exited"}
          /\ box' = [box EXCEPT ![i] = "none"] /\ used' = [used EXCEPT ![i] = "unknown"]
          /\ Ends(r, "ok")
       \/ /\ box[i] \in {"none", "running"}
          /\ Ends(r, "failed") /\ UNCHANGED <<box, used>>
    /\ UNCHANGED <<commands, stopping, failures>>

\* exec: the command is started and waited for.
Run(r) ==
    /\ At(r, "run")
    /\ \/ box[mop[r].id] = "running" /\ commands' = commands \cup {r} /\ Goes(r, "running") /\ UNCHANGED lock
       \/ box[mop[r].id] # "running" /\ Ends(r, "failed") /\ UNCHANGED commands
    /\ UNCHANGED <<box, used, stopping, failures>>
CommandEnds(r) ==
    /\ r \in commands /\ commands' = commands \ {r}
    /\ UNCHANGED <<box, used, lock, mop, stopping, failures>>

\* The command has ended: an answer, an error, or for a navigation that failed the
\* restart of Chromium and the navigation once more, under the same lock.
Answer(r) ==
    /\ At(r, "running") /\ r \notin commands
    /\ used' = MarkActive(mop[r].id)
    /\ \/ \E pc \in {"ok", "failed"} : Ends(r, pc)
       \/ /\ mop[r].op = "browser" /\ mop[r].tries < 2
          /\ mop' = [mop EXCEPT ![r].pc = "find", ![r].tries = @ + 1] /\ UNCHANGED lock
    /\ UNCHANGED <<box, commands, stopping, failures>>

\* exec gives up on a command that takes too long; the command goes on.
CutOff(r) ==
    /\ At(r, "running") /\ r \in commands /\ failures < MaxFailures
    /\ Ends(r, "failed") /\ failures' = failures + 1
    /\ UNCHANGED <<box, used, commands, stopping>>

DockerFails(r) ==
    /\ mop[r].pc \in {"find", "make", "start", "stop", "delete", "run"} /\ failures < MaxFailures
    /\ Ends(r, "failed") /\ failures' = failures + 1
    /\ UNCHANGED <<box, used, commands, stopping>>

Works(r) == Acquire(r) \/ Find(r) \/ Make(r) \/ Start(r) \/ Stop(r) \/ Delete(r) \/ Run(r) \/ Answer(r)

-----------------------------------------------------------------------------
(* The containers and the idle monitor.                                    *)

Dies(i) ==
    /\ box[i] = "running" /\ failures < MaxFailures
    /\ Stopped(i) /\ failures' = failures + 1
    /\ UNCHANGED <<used, lock, mop, stopping>>

\* Nothing has used the container for idleMilliseconds, which is far longer than
\* any operation of the manager takes.
Ages(i) ==
    /\ used[i] = "fresh" /\ ~ \E r \in Slots : mop[r].id = i /\ mop[r].pc \notin {"ok", "failed"}
    /\ InBox(i) = {}
    /\ used' = [used EXCEPT ![i] = "old"]
    /\ UNCHANGED <<box, lock, commands, mop, stopping, failures>>

\* suspendIdle: a running container seen for the first time is only noted.
Suspends(i) ==
    /\ box[i] = "running" /\ i \notin stopping
    /\ \/ used[i] = "unknown" /\ used' = [used EXCEPT ![i] = "fresh"] /\ UNCHANGED stopping
       \/ used[i] = "old" /\ stopping' = stopping \cup {i} /\ UNCHANGED used
    /\ UNCHANGED <<box, lock, commands, mop, failures>>

\* ... docker has stopped it, five seconds later: the map forgets it.
Suspended(i) ==
    /\ i \in stopping /\ stopping' = stopping \ {i}
    /\ \/ box[i] = "running" /\ Stopped(i) /\ used' = [used EXCEPT ![i] = "unknown"]
       \/ box[i] # "running" /\ UNCHANGED <<box, used, commands>>
    /\ UNCHANGED <<lock, mop, failures>>

\* browserTarget: the user opens the screen.
View(i) ==
    /\ box[i] = "running" /\ used' = MarkActive(i)
    /\ UNCHANGED <<box, lock, commands, mop, stopping, failures>>

Containers == \E i \in Ids : Dies(i) \/ Ages(i) \/ Suspends(i) \/ Suspended(i) \/ View(i)
=============================================================================
