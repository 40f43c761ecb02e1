----------------------------- MODULE Computers -----------------------------
(***************************************************************************)
(* The computer service of the API (services/api/src/computers): sessions  *)
(* of the team's browser computer, kept as rows of the repository and       *)
(* refreshed from the containers of the sandbox manager whenever one is     *)
(* read; control of the computer, taken by the user for the time of a       *)
(* lease; actions of agents and of the user; provisioning on demand.        *)
(* A request is a slot: it reads rows, waits for the manager and writes     *)
(* back, and other requests run in between.  A shared computer belongs to   *)
(* no agent, so its control is "user", with a holder and a lease, or        *)
(* "watch", with neither: the row keeps the number of the lease, 0 for      *)
(* watch.                                                                   *)
(***************************************************************************)
EXTENDS Sandbox

CONSTANTS Mixes,          \* the mixes of requests: what each slot may be asked
          MaxLeases,      \* bound: how often control is taken
          None

ASSUME ComputersAssumption ==
    /\ MaxComputers # 0
    /\ MaxLeases \in Nat
    /\ None \notin Slots

Watch == 0
Leases == 1..MaxLeases
NoRow == [status |-> "none", control |-> Watch]
Statuses == {"creating", "running", "stopped"}

VARIABLES
    asked,          \* the mix of requests at hand
    row,            \* the computers of the repository
    req,            \* the requests
    provisioning,   \* sharedComputerProvisioning: the request that creates, or None
    nextId,         \* identities handed out so far
    lapsed,         \* the leases whose time is over
    taken,          \* how many leases were given
    deleted,        \* the computers whose row was deleted
    grip            \* the lease and computer the user was told to hold, or NoGrip

serviceVars == <<asked, row, req, provisioning, nextId, lapsed, taken, deleted, grip>>
vars == <<sandboxVars, serviceVars>>

NoGrip == <<NoId, Watch>>
Acts == {"agentActs", "userActs"}
Execs == {"agentExecs", "userExecs"}
Kinds == Acts \cup Execs \cup {"list", "takeover", "return", "create", "remove"}
ByAgent(r) == req[r].kind \in {"agentActs", "agentExecs"}

NoReq == [kind |-> "none", pc |-> "idle", id |-> NoId, creates |-> FALSE,
          left |-> {}, seen |-> [i \in Ids |-> "none"], mine |-> [i \in Ids |-> NoRow],
          under |-> NoGrip]

Rows == {i \in Ids : row[i] # NoRow}

TypeOK ==
    /\ SandboxTypeOK
    /\ row \in [Ids -> [status : Statuses, control : Leases \cup {Watch}] \cup {NoRow}]
    /\ \A r \in Slots :
          /\ req[r].kind \in Kinds \cup {"none"}
          /\ req[r].pc \in {"idle", "rows", "boxes", "write", "lapse", "decide", "calls",
                            "joins", "undo", "undoBox", "erase", "done", "failed"}
          /\ req[r].left \subseteq Ids
          \* a request that has an answer keeps the manager busy only if it gave up on it
          /\ req[r].pc \in {"done", "failed"} /\ failures = 0 => mop[r].pc \in {"none", "ok", "failed"}
    /\ asked \in Mixes
    /\ provisioning \in Slots \cup {None}
    \* the promise is held by a request that is under way
    /\ provisioning # None => req[provisioning].creates /\ req[provisioning].pc \notin {"idle", "done", "failed"}
    /\ nextId \in 1..MaxComputers + 1
    /\ lapsed \subseteq 1..taken /\ taken \in 0..MaxLeases
    /\ deleted \subseteq 1..(nextId - 1)

\* No computer yet; one that runs; one that was suspended.  The manager has just started.
Init ==
    /\ SandboxInit /\ asked \in Mixes
    /\ \E b \in {"none", "running", "exited"} :
          /\ box = [i \in Ids |-> IF i = 1 THEN b ELSE "none"]
          /\ used = [i \in Ids |-> "unknown"]
          /\ row = [i \in Ids |-> IF i = 1 /\ b # "none" THEN [status |-> "running", control |-> Watch] ELSE NoRow]
          /\ nextId = IF b = "none" THEN 1 ELSE 2
    /\ req = [r \in Slots |-> NoReq]
    /\ provisioning = None /\ lapsed = {} /\ taken = 0 /\ deleted = {} /\ grip = NoGrip

-----------------------------------------------------------------------------
(* Reading computers: list, and get for one of them.                       *)

Pc(r, pc) == req[r].pc = pc
Status(b) == CASE b = "running" -> "running"
               [] b = "created" -> "creating"
               [] OTHER -> "stopped"
WithSandbox(s, b) == [s EXCEPT !.status = Status(b)]
ExpiredUnlessLive(k) == k # Watch /\ k \notin lapsed
Expired(k) == k # Watch /\ k \in lapsed

\* resolveBrowserComputer, create: the newest of the sessions that were read.
Read(r) == {i \in Ids : req[r].mine[i] # NoRow}
Newest(r) == IF Read(r) = {} THEN NoId ELSE CHOOSE i \in Read(r) : \A j \in Read(r) : j <= i

Begin(r, kind) ==
    /\ Pc(r, "idle") /\ kind \in asked[r]
    /\ \E i \in Ids \cup {NoId} :
          \* a request that names its computer names one the caller has seen
          /\ (i # NoId) = (kind \in Execs \cup {"takeover", "return", "remove"})
          /\ i # NoId => i < nextId
          /\ req' = [req EXCEPT ![r].kind = kind, ![r].pc = "rows", ![r].id = i, ![r].under = grip]
    /\ UNCHANGED <<asked, sandboxVars, row, provisioning, nextId, lapsed, taken, deleted, grip>>

\* repository.list or repository.get.
ReadRows(r) ==
    LET ids == IF req[r].id = NoId THEN Rows ELSE Rows \cap {req[r].id} IN
    /\ Pc(r, "rows")
    /\ req' = [req EXCEPT ![r].pc = IF req[r].id # NoId /\ ids = {} THEN "failed" ELSE "boxes",
                          ![r].left = ids,
                          ![r].mine = [i \in Ids |-> IF i \in ids THEN row[i] ELSE NoRow]]
    /\ UNCHANGED <<asked, sandboxVars, row, provisioning, nextId, lapsed, taken, deleted, grip>>

\* The caller goes on, or its answer is ready.
After(r) == IF req[r].kind = "list" THEN "done" ELSE "decide"

\* manager.list.
ReadBoxes(r) ==
    /\ Pc(r, "boxes")
    /\ req' = [req EXCEPT ![r].seen = box, ![r].pc = IF req[r].left = {} THEN After(r) ELSE "write"]
    /\ UNCHANGED <<asked, sandboxVars, row, provisioning, nextId, lapsed, taken, deleted, grip>>

\* repository.put of the refreshed session, lease and all, as it was read.
WriteBack(r) ==
    /\ Pc(r, "write")
    /\ \E i \in req[r].left :
          LET s == WithSandbox(req[r].mine[i], req[r].seen[i]) IN
          /\ row' = [row EXCEPT ![i] = s]
          /\ req' = [req EXCEPT ![r].mine[i] = s,
                        ![r].left = IF Expired(s.control) THEN {i} \cup @ ELSE @ \ {i},
                        ![r].pc = IF Expired(s.control) THEN "lapse"
                                  ELSE IF req[r].left = {i} THEN After(r) ELSE "write",
                        ![r].seen[i] = "none"]
    /\ UNCHANGED <<asked, sandboxVars, provisioning, nextId, lapsed, taken, deleted, grip>>

\* normalizeLease: a lease whose time is over is written back as watch.
NormalizeLease(r) ==
    /\ Pc(r, "lapse")
    /\ \E i \in req[r].left :
          /\ Expired(req[r].mine[i].control)
          /\ row' = [row EXCEPT ![i] = [req[r].mine[i] EXCEPT !.control = Watch]]
          /\ req' = [req EXCEPT ![r].mine[i].control = Watch, ![r].left = @ \ {i},
                                ![r].pc = IF req[r].left = {i} THEN After(r) ELSE "write"]
    /\ UNCHANGED <<asked, sandboxVars, provisioning, nextId, lapsed, taken, deleted, grip>>

-----------------------------------------------------------------------------
(* What a request does with the session it has read.                       *)

Target(r) == IF req[r].id # NoId THEN req[r].id ELSE Newest(r)
Session(r) == req[r].mine[Target(r)]
Answers(r, pc) == req' = [req EXCEPT ![r].pc = pc]

\* Another request holds a copy of the row that it may yet write back: it refreshes the
\* row, or read it as stopped and may wake the computer, or is waking it.
Overlapped(r, i) == \E s \in Slots \ {r} :
    \/ req[s].pc \in {"boxes", "write", "lapse"} /\ i \in req[s].left
    \/ req[s].pc \in {"write", "lapse", "decide"} /\ req[s].mine[i].status = "stopped"
    \/ /\ req[s].pc = "calls" /\ mop[s].op = "create"
       /\ mop[s].id = i \/ req[s].mine[i].status = "stopped"

\* takeover: refused unless the computer runs.
TakeOver(r) ==
    LET k == taken + 1 IN
    /\ Pc(r, "decide") /\ req[r].kind = "takeover"
    /\ \/ /\ Session(r).status = "running" /\ taken < MaxLeases
          /\ row' = [row EXCEPT ![Target(r)] = [Session(r) EXCEPT !.control = k]]
          /\ taken' = k /\ Answers(r, "done")
          /\ grip' = IF Overlapped(r, Target(r)) THEN NoGrip ELSE <<Target(r), k>>
       \/ /\ Session(r).status # "running"
          /\ Answers(r, "failed") /\ UNCHANGED <<row, taken, grip>>
    /\ UNCHANGED <<asked, sandboxVars, provisioning, nextId, lapsed, deleted>>

ReturnControl(r) ==
    /\ Pc(r, "decide") /\ req[r].kind = "return"
    /\ row' = [row EXCEPT ![Target(r)] = [Session(r) EXCEPT !.control = Watch]]
    /\ grip' = NoGrip /\ Answers(r, "done")
    /\ UNCHANGED <<asked, sandboxVars, provisioning, nextId, lapsed, taken, deleted>>

\* The checks before an action: the computer runs; an agent acts unless the user
\* controls it; the user executes commands only under a lease that is not over.
MayControl(r) ==
    IF ByAgent(r) THEN Session(r).control = Watch
    ELSE req[r].kind = "userExecs" => Session(r).control # Watch /\ ~Expired(Session(r).control)
Act(r) ==
    /\ Pc(r, "decide") /\ req[r].kind \in Acts \cup Execs /\ ~req[r].creates /\ Target(r) # NoId
    /\ ~(req[r].kind \in Acts /\ Session(r).status = "stopped")
    /\ \/ /\ Session(r).status = "running" /\ MayControl(r)
          /\ Call(r, IF req[r].kind \in Acts THEN "browser" ELSE "exec", Target(r))
          /\ Answers(r, "calls")
       \/ /\ ~(Session(r).status = "running" /\ MayControl(r))
          /\ Answers(r, "failed") /\ UNCHANGED <<mop, lock>>
    /\ UNCHANGED <<asked, box, used, commands, stopping, failures, row, provisioning, nextId, lapsed, taken, deleted, grip>>

\* wake: a suspended computer is created again under its own identity.
Wake(r) ==
    /\ Pc(r, "decide") /\ req[r].kind \in Acts \cup {"create"} /\ Target(r) # NoId
    /\ Session(r).status = "stopped"
    /\ Call(r, "create", Target(r)) /\ Answers(r, "calls")
    /\ UNCHANGED <<asked, box, used, commands, stopping, failures, row, provisioning, nextId, lapsed, taken, deleted, grip>>

ResolvedAlone(r, q, pc, s) ==
    [q EXCEPT ![r] = [@ EXCEPT !.pc = IF pc = "failed" THEN "failed"
                                     ELSE IF q[r].kind = "create" THEN "done" ELSE "decide",
                               !.mine = s, !.creates = FALSE]]

\* The session a creation ends with goes to every request that shares it.
Resolved(r, q, pc, s) ==
    [t \in Slots |->
        IF t = r \/ (provisioning = r /\ q[t].pc = "joins")
        THEN [q[t] EXCEPT !.pc = IF pc = "failed" THEN "failed"
                                 ELSE IF q[t].kind = "create" THEN "done" ELSE "decide",
                          !.mine = s, !.creates = FALSE]
        ELSE q[t]]
Resolves(r, q, pc, s) ==
    /\ req' = Resolved(r, q, pc, s)
    /\ provisioning' = IF provisioning = r THEN None ELSE provisioning

\* provisionSharedComputer: the first agent that finds no computer creates it, the
\* others wait for the same promise.
NoSingleFlight(r) == FALSE
Shares(r) == provisioning # None
Provision(r) ==
    /\ Pc(r, "decide") /\ req[r].kind \in Acts /\ Target(r) = NoId
    /\ \/ /\ req[r].kind = "userActs"
          /\ Answers(r, "failed") /\ UNCHANGED provisioning
       \/ /\ req[r].kind = "agentActs" /\ ~req[r].creates /\ Shares(r)
          /\ Answers(r, "joins") /\ UNCHANGED provisioning
       \/ /\ req[r].kind = "agentActs" /\ ~req[r].creates /\ ~Shares(r)
          /\ req' = [req EXCEPT ![r].pc = "rows", ![r].creates = TRUE]
          /\ provisioning' = r
    /\ UNCHANGED <<asked, sandboxVars, row, nextId, lapsed, taken, deleted, grip>>

\* create: with no shared computer among the sessions it read, it makes one.
Creates(r) == req[r].kind = "create" \/ req[r].creates
Create(r) ==
    /\ Pc(r, "decide") /\ Creates(r) /\ Target(r) = NoId /\ nextId <= MaxComputers
    /\ LET s == [status |-> "creating", control |-> Watch] IN
       /\ row' = [row EXCEPT ![nextId] = s]
       /\ req' = [req EXCEPT ![r].pc = "calls", ![r].mine[nextId] = s]
    /\ Call(r, "create", nextId) /\ nextId' = nextId + 1
    /\ UNCHANGED <<asked, box, used, commands, stopping, failures, provisioning, lapsed, taken, deleted, grip>>

\* ... and with one it is done, unless it has to be woken first.
Found(r) ==
    /\ Pc(r, "decide") /\ Creates(r) /\ Target(r) # NoId
    /\ Session(r).status # "stopped"
    /\ Resolves(r, req, "ok", req[r].mine)
    /\ UNCHANGED <<asked, sandboxVars, row, nextId, lapsed, taken, deleted, grip>>

RemoveComputer(r) ==
    /\ Pc(r, "decide") /\ req[r].kind = "remove"
    /\ Call(r, "remove", Target(r)) /\ Answers(r, "calls")
    /\ UNCHANGED <<asked, box, used, commands, stopping, failures, row, provisioning, nextId, lapsed, taken, deleted, grip>>

-----------------------------------------------------------------------------
(* The answers of the manager.                                             *)

\* The manager answered, or the request waits no longer (125 seconds).
GivesUp(r) == failures < MaxFailures /\ mop[r].pc \notin {"ok", "failed"} /\ failures' = failures + 1
Succeeded(r) == mop[r].pc = "ok" /\ UNCHANGED failures
Failed(r) == (mop[r].pc = "failed" /\ UNCHANGED failures) \/ GivesUp(r)
IsNew(r) == req[r].mine[mop[r].id].status = "creating"

\* create, wake: the session is written with what the manager says of the container.
CreateReturns(r) ==
    LET i == mop[r].id  s == [req[r].mine[i] EXCEPT !.status = "running"] IN
    /\ Pc(r, "calls") /\ mop[r].op = "create" /\ Succeeded(r)
    /\ row' = [row EXCEPT ![i] = s]
    /\ LET q == [req EXCEPT ![r].mine[i] = s] IN Resolves(r, q, "ok", q[r].mine)
    /\ UNCHANGED <<asked, box, used, lock, commands, mop, stopping, nextId, lapsed, taken, deleted, grip>>

\* A creation that failed deletes its row, then its container; a wake leaves both.
CreateFails(r) ==
    /\ Pc(r, "calls") /\ mop[r].op = "create" /\ Failed(r)
    /\ \/ IsNew(r) /\ Answers(r, "undo") /\ UNCHANGED provisioning
       \/ ~IsNew(r) /\ Resolves(r, req, "failed", req[r].mine)
    /\ UNCHANGED <<asked, box, used, lock, commands, mop, stopping, row, nextId, lapsed, taken, deleted, grip>>
UndoRow(r) ==
    /\ Pc(r, "undo") /\ row' = [row EXCEPT ![mop[r].id] = NoRow]
    /\ grip' = IF grip[1] = mop[r].id THEN NoGrip ELSE grip
    /\ deleted' = deleted \cup {mop[r].id} /\ Resolves(r, req, "failed", req[r].mine)
    /\ UNCHANGED <<asked, sandboxVars, nextId, lapsed, taken>>
Undo(r) ==
    /\ Pc(r, "undo") /\ row' = [row EXCEPT ![mop[r].id] = NoRow]
    /\ grip' = IF grip[1] = mop[r].id THEN NoGrip ELSE grip
    /\ deleted' = deleted \cup {mop[r].id} /\ Answers(r, "undoBox")
    /\ UNCHANGED <<asked, sandboxVars, provisioning, nextId, lapsed, taken>>
\* The manager still works on a creation the API gave up on: it finds no container
\* to remove when the creation has not come that far.
UndoBox(r) ==
    LET i == mop[r].id IN
    /\ Pc(r, "undoBox")
    /\ \/ /\ box' = [box EXCEPT ![i] = "none"] /\ commands' = commands \ InBox(i)
          /\ used' = [used EXCEPT ![i] = "unknown"] /\ UNCHANGED failures
       \/ /\ failures < MaxFailures /\ failures' = failures + 1   \* catch(() => undefined)
          /\ UNCHANGED <<box, commands, used>>
    /\ Resolves(r, req, "failed", req[r].mine)
    /\ UNCHANGED <<asked, lock, mop, stopping, row, nextId, lapsed, taken, deleted, grip>>

ActReturns(r) ==
    /\ Pc(r, "calls") /\ mop[r].op \in {"browser", "exec"}
    /\ \/ Succeeded(r) /\ Answers(r, "done")
       \/ Failed(r) /\ Answers(r, "failed")
    /\ UNCHANGED <<asked, box, used, lock, commands, mop, stopping, row, provisioning, nextId, lapsed, taken, deleted, grip>>

RemoveReturns(r) ==
    /\ Pc(r, "calls") /\ mop[r].op = "remove"
    /\ \/ Succeeded(r) /\ Answers(r, "erase")
       \/ Failed(r) /\ Answers(r, "failed")
    /\ UNCHANGED <<asked, box, used, lock, commands, mop, stopping, row, provisioning, nextId, lapsed, taken, deleted, grip>>
Erase(r) ==
    /\ Pc(r, "erase") /\ row' = [row EXCEPT ![Target(r)] = NoRow]
    /\ grip' = IF grip[1] = Target(r) THEN NoGrip ELSE grip
    /\ deleted' = deleted \cup {Target(r)} /\ Answers(r, "done")
    /\ UNCHANGED <<asked, sandboxVars, provisioning, nextId, lapsed, taken>>

Serves(r) ==
    \/ ReadRows(r) \/ ReadBoxes(r) \/ WriteBack(r) \/ NormalizeLease(r)
    \/ TakeOver(r) \/ ReturnControl(r) \/ Act(r) \/ Wake(r) \/ Provision(r)
    \/ Create(r) \/ Found(r) \/ RemoveComputer(r)
    \/ CreateReturns(r) \/ CreateFails(r) \/ Undo(r) \/ UndoBox(r)
    \/ ActReturns(r) \/ RemoveReturns(r) \/ Erase(r)

\* The time of a lease is over.
Lapse(k) ==
    /\ k <= taken /\ k \notin lapsed /\ lapsed' = lapsed \cup {k}
    /\ UNCHANGED <<asked, sandboxVars, row, req, provisioning, nextId, taken, deleted>>
    /\ grip' = IF grip[2] = k THEN NoGrip ELSE grip

Manages(r) == (Works(r) \/ CommandEnds(r)) /\ UNCHANGED serviceVars
Next ==
    \/ \E r \in Slots : \/ \E kind \in Kinds : Begin(r, kind)
                        \/ Serves(r)
                        \/ Manages(r)
                        \/ (CutOff(r) \/ DockerFails(r)) /\ UNCHANGED serviceVars
    \/ \E k \in Leases : Lapse(k)
    \/ Containers /\ UNCHANGED serviceVars

Spec == /\ Init /\ [][Next]_vars
        /\ \A r \in Slots : WF_vars(Serves(r) \/ Manages(r))

-----------------------------------------------------------------------------
(* Properties.                                                             *)

\* Two browser actions never run in the computer at once, whatever requests overlap
\* and fail, except for a command that was cut off and lives on
\* (sandboxService.withBrowserActionLock).
OneActionAtATime == Cardinality({r \in commands : mop[r].op = "browser"}) <= 1 + failures

\* However many agents ask for a computer at the same time, the team has one, and one
\* more at the most for each creation the user asked for in between; a computer that
\* was deleted and is written back by a refresh is not counted
\* (computer-service.provisionSharedComputer, create).
OneSharedComputer ==
    Cardinality(Rows \ deleted) <= 1 + Cardinality({r \in Slots : req[r].kind = "create"})

\* No container is left that no row names, once the requests are over, none of them
\* was a removal and docker did what it was asked: a creation that fails because another
\* request woke its computer first is undone (computer-service.create's
\* catch).  A removal that a wake overtakes does leave one.
Quiet == \A r \in Slots : req[r].pc \in {"idle", "done", "failed"} /\ req[r].kind # "remove"
NoOrphans == Quiet /\ failures = 0 => {i \in Ids : box[i] # "none"} \subseteq Rows

\* The idle monitor never decides to stop a container in which a command runs
\* (sandboxService.suspendIdle, markActive).
SuspensionSparesActions ==
    [][\A i \in Ids : i \in stopping' \ stopping => InBox(i) = {}]_vars

\* An agent's request that arrives while the user holds the computer, by a takeover no
\* other request overlapped, starts no command in it until control was returned or
\* the lease is over (computer-service.takeover, exec, navigateBrowser, desktopAction).
AgentsWaitForTheUser ==
    [][\A r \in commands' \ commands :
          ByAgent(r) /\ grip # NoGrip /\ grip[1] = mop[r].id => req[r].under # grip]_vars

\* From the moment the user has taken control no agent's command starts in the
\* computer, not even one whose request arrived before.
TakeoverPausesAgents ==
    [][\A r \in commands' \ commands :
          ByAgent(r) /\ grip # NoGrip => grip[1] # mop[r].id]_vars

\* Every request is answered in the end, so that there is always a time again when none
\* is under way: nobody keeps the lock or the promise of the shared computer, and
\* whoever waits for the manager goes on (computer-service, withBrowserActionLock).
EveryRequestEnds == []<>(\A r \in Slots : req[r].pc \in {"idle", "done", "failed"})
=============================================================================
