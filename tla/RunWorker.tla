----------------------------- MODULE RunWorker -----------------------------
(***************************************************************************)
(* Agent runs from the accepted message to the settled job: sendMessage,   *)
(* the RunWorker of each API process, the Codex runtime as far as it       *)
(* writes runs, agents and approvals, interrupts, process crashes and      *)
(* graceful stops.                                                         *)
(*                                                                         *)
(* A slot is one of the maxConcurrentRuns executions of process(job) that  *)
(* a worker may have active.  pc[slot] names the next statement that       *)
(* touches shared state; everything between two awaits is one action.      *)
(* An execution keeps job.attempts and the AbortController of its own.     *)
(***************************************************************************)
EXTENDS RunStore

CONSTANTS Workers,        \* API processes, each with one RunWorker
          Slots,          \* executions of all the workers
          WorkerOf,       \* the worker a slot belongs to
          Runtime,        \* "codex" or "mock", the AgentRuntime in use
          LongRuns,       \* TRUE: an execution may outlast its five minutes' lock
          MaxApprovals,   \* bound: approvals one run asks for
          MaxInterrupts,  \* bound: interrupt requests per run
          MaxFaults,      \* bound: errors thrown in executions, and crashes at two each
          MaxCrashes,     \* bound: process crashes
          MaxStops,       \* bound: graceful stops
          MaxDeletes      \* bound: agents deleted

ASSUME WorkerAssumption ==
    /\ Workers # {}
    /\ WorkerOf \in [Slots -> Workers]
    /\ Runtime \in {"codex", "mock"}
    /\ LongRuns \in BOOLEAN
    /\ {MaxApprovals, MaxInterrupts, MaxFaults, MaxCrashes, MaxStops, MaxDeletes}
          \subseteq Nat

VARIABLES pc,         \* pc[s]: what the execution in slot s does next
          job,        \* job[s]: the claimed job, NoRun when the slot is free
          claim,      \* claim[s]: job.attempts as claimed
          aborted,    \* aborted[s]: controller.signal.aborted
          registered, \* registered[s]: controllers maps the run to s's controller
          answers,    \* answers[n]: the claims that stored a reply to n
          children,   \* children[n]: the claims that created a delegated task
          task,       \* task[n]: status of the run's task
          approval,   \* approval[n]: the run's approval
          asked,      \* asked[n]: approvals requested so far
          interrupt,  \* interrupt[n]: where interruptRun(n) stands
          server,     \* server[n]: the process that serves it
          interrupts, \* interrupts[n]: interrupt requests so far
          up,         \* up[w]: the worker polls
          removing,   \* removing[a]: deleteAgent(a) has passed its checks
          errors, crashes, stops, deletes

slotVars == <<pc, job, claim, aborted, registered>>
outcomeVars == <<answers, children, task>>
approvalVars == <<approval, asked>>
interruptVars == <<interrupt, server, interrupts>>
processVars == <<up, removing, errors, crashes, stops, deletes>>
vars == <<requestVars, queueVars, agentVars, runStatus, slotVars, outcomeVars,
          approvalVars, interruptVars, processVars>>

-----------------------------------------------------------------------------

\* Steps inside the try block of process, in order.  An error in any of
\* them, the runtime's included, goes to the catch block.
TryStep == {"started", "working", "thread", "turn", "connect", "consume",
            "waiting", "poll", "resumed", "tasks", "parent", "reply",
            "completed", "rest", "complete"}
\* Steps before the reply is stored, and before a child task is.
BeforeDelegation == {"read", "prepare", "started", "working", "thread", "turn",
                     "connect", "consume", "waiting", "poll", "resumed", "tasks"}
BeforeReply == BeforeDelegation \cup {"parent", "reply"}
Step == TryStep \cup {"idle", "read", "skip", "prepare", "giveUp", "catch",
                      "drop", "failed", "failedRest", "retry"}

TypeOK ==
    /\ StoreTypeOK
    /\ pc \in [Slots -> Step]
    /\ job \in [Slots -> Runs \cup {NoRun}]
    /\ claim \in [Slots -> Nat]
    /\ aborted \in [Slots -> BOOLEAN]
    /\ registered \in [Slots -> BOOLEAN]
    /\ answers \in [Runs -> SUBSET Nat]
    /\ children \in [Runs -> SUBSET Nat]
    /\ task \in [Runs -> {"open", "waiting_agent", "completed"}]
    /\ approval \in [Runs -> {"none", "pending", "lapsed", "approved", "denied"}]
    /\ asked \in [Runs -> Nat]
    /\ interrupt \in [Runs -> {"none", "read", "put", "agent", "idle"}]
    /\ server \in [Runs -> Workers]
    /\ interrupts \in [Runs -> Nat]
    /\ up \in [Workers -> BOOLEAN]
    /\ removing \in [Agents -> BOOLEAN]
    /\ {errors, crashes, stops, deletes} \subseteq Nat

Init ==
    /\ StoreInit
    /\ pc = [s \in Slots |-> "idle"]
    /\ job = [s \in Slots |-> NoRun]
    /\ claim = [s \in Slots |-> 0]
    /\ aborted = [s \in Slots |-> FALSE]
    /\ registered = [s \in Slots |-> FALSE]
    /\ answers = [n \in Runs |-> {}]
    /\ children = [n \in Runs |-> {}]
    /\ task = [n \in Runs |-> "open"]
    /\ approval = [n \in Runs |-> "none"]
    /\ asked = [n \in Runs |-> 0]
    /\ interrupt = [n \in Runs |-> "none"]
    /\ server = [n \in Runs |-> CHOOSE w \in Workers : TRUE]
    /\ interrupts = [n \in Runs |-> 0]
    /\ up = [w \in Workers |-> TRUE]
    /\ removing = [a \in Agents |-> FALSE]
    /\ errors = 0 /\ crashes = 0 /\ stops = 0 /\ deletes = 0

-----------------------------------------------------------------------------
(* sendMessage.                                                            *)

\* The checks and the ids of a request; the client may repeat an operation.
BuildMessage(n, op) ==
    /\ opOf[n] = NoOp
    /\ exists[TargetOf[op]]
    /\ opOf' = [opOf EXCEPT ![n] = op]
    /\ UNCHANGED <<idem, queueVars, agentVars, runStatus, slotVars, outcomeVars,
                   approvalVars, interruptVars, processVars>>

CommitMessage(n) ==
    /\ opOf[n] # NoOp
    /\ runStatus[n] = "none"
    /\ StoreCommit(n) \/ StoreDuplicate(n)
    /\ UNCHANGED <<agentVars, slotVars, outcomeVars, approvalVars,
                   interruptVars, processVars>>

-----------------------------------------------------------------------------
(* RunWorker.process, one action per statement that touches shared state.  *)

At(s, step) == pc[s] = step
Goto(s, step) == pc' = [pc EXCEPT ![s] = step]

\* Only pc changes among the slots' variables.
Continue(s, from, to) ==
    /\ At(s, from)
    /\ Goto(s, to)
    /\ UNCHANGED <<job, claim, aborted, registered>>

\* controllers is keyed by run: two executions of one run in one worker
\* share the entry.
SameEntry(s, t) == WorkerOf[s] = WorkerOf[t] /\ job[s] = job[t]

\* process returns.  With the finally block the entry of its run goes too,
\* whichever execution put it there.
Leave(s, finally) ==
    /\ Goto(s, "idle")
    /\ job' = [job EXCEPT ![s] = NoRun]
    /\ claim' = [claim EXCEPT ![s] = 0]
    /\ aborted' = [aborted EXCEPT ![s] = FALSE]
    /\ registered' = [t \in Slots |-> registered[t] /\ ~(finally /\ SameEntry(s, t))]

\* poll: a free slot claims the oldest claimable job.
Claim(s) ==
    /\ up[WorkerOf[s]]
    /\ At(s, "idle")
    /\ \E n \in Runs :
        /\ ClaimJob(n)
        /\ job' = [job EXCEPT ![s] = n]
        /\ claim' = [claim EXCEPT ![s] = attempts[n] + 1]
    /\ Goto(s, "read")
    /\ UNCHANGED <<aborted, registered, requestVars, agentVars, runStatus, outcomeVars,
                   approvalVars, interruptVars, processVars>>

ReadRun(s) ==
    /\ Continue(s, "read", IF runStatus[job[s]] = "interrupted" THEN "skip" ELSE "prepare")
    /\ UNCHANGED <<requestVars, queueVars, agentVars, runStatus, outcomeVars,
                   approvalVars, interruptVars, processVars>>

\* An interrupted run is not started: completeJob and return.
SkipJob(s) ==
    /\ At(s, "skip")
    /\ CompleteJob(job[s])
    /\ Leave(s, FALSE)
    /\ UNCHANGED <<requestVars, agentVars, runStatus, outcomeVars, approvalVars,
                   interruptVars, processVars>>

\* The agent is read; when it is there the controller is registered.
Prepare(s) ==
    /\ At(s, "prepare")
    /\ IF exists[AgentOf(job[s])]
       THEN /\ Goto(s, "started")
            /\ registered' = [t \in Slots |->
                                 t = s \/ (registered[t] /\ ~SameEntry(s, t))]
       ELSE /\ Goto(s, "giveUp")
            /\ UNCHANGED registered
    /\ UNCHANGED <<job, claim, aborted, requestVars, queueVars, agentVars, runStatus,
                   outcomeVars, approvalVars, interruptVars, processVars>>

\* "Run references missing agent": the job fails, the run is left as it is.
GiveUp(s) ==
    /\ At(s, "giveUp")
    /\ FailJob(job[s], FALSE)
    /\ Leave(s, FALSE)
    /\ UNCHANGED <<requestVars, agentVars, runStatus, outcomeVars, approvalVars,
                   interruptVars, processVars>>

\* A put of the run from this execution's copy, whatever the row says now.
WriteRun(s, from, status, to) ==
    /\ Continue(s, from, to)
    /\ PutRun(job[s], status)
    /\ UNCHANGED <<requestVars, queueVars, agentVars, outcomeVars, approvalVars,
                   interruptVars, processVars>>

\* A put of the agent from this execution's copy.
WriteAgent(s, from, isWorking, to) ==
    /\ Continue(s, from, to)
    /\ PutAgent(AgentOf(job[s]), isWorking)
    /\ UNCHANGED <<requestVars, queueVars, runStatus, outcomeVars, approvalVars,
                   interruptVars, processVars>>

StartRun(s) == WriteRun(s, "started", "running", "working")
SetAgentRunning(s) == WriteAgent(s, "working", TRUE, "thread")

\* execute of the mock runtime writes nothing.
MockTurn(s) ==
    /\ Runtime = "mock"
    /\ Continue(s, "thread", "connect")
    /\ UNCHANGED <<requestVars, queueVars, agentVars, runStatus, outcomeVars,
                   approvalVars, interruptVars, processVars>>

\* ensureThread: the thread is resumed, or a new one is stored in the agent.
ResumeThread(s) ==
    /\ Runtime = "codex"
    /\ Continue(s, "thread", "turn")
    /\ UNCHANGED <<requestVars, queueVars, agentVars, runStatus, outcomeVars,
                   approvalVars, interruptVars, processVars>>
StartThread(s) == Runtime = "codex" /\ WriteAgent(s, "thread", TRUE, "turn")

\* execute: the turn is started and its id is stored in the run.
StartTurn(s) == WriteRun(s, "turn", "running", "connect")

\* consumeTurn's fetch, like the mock's wait, rejects an aborted signal.
Connect(s) ==
    /\ Continue(s, "connect", "consume")
    /\ ~aborted[s]
    /\ UNCHANGED <<requestVars, queueVars, agentVars, runStatus, outcomeVars,
                   approvalVars, interruptVars, processVars>>

\* handleApproval: the approval is stored, then the run waits for it.
RequestApproval(s) ==
    LET n == job[s] IN
    /\ Continue(s, "consume", "waiting")
    /\ Runtime = "codex"
    /\ asked[n] < MaxApprovals
    /\ asked' = [asked EXCEPT ![n] = @ + 1]
    /\ approval' = [approval EXCEPT ![n] = "pending"]
    /\ UNCHANGED <<requestVars, queueVars, agentVars, runStatus, outcomeVars,
                   interruptVars, processVars>>
\* Mutant of AwaitApproval: a status the protocol does not have.
AwaitUnknown(s) == WriteRun(s, "waiting", "waiting", "poll")
AwaitApproval(s) == WriteRun(s, "waiting", "waiting_approval", "poll")
SeeDecision(s) ==
    /\ Continue(s, "poll", "resumed")
    /\ ~aborted[s]
    /\ approval[job[s]] \in {"approved", "denied"}
    /\ UNCHANGED <<requestVars, queueVars, agentVars, runStatus, outcomeVars,
                   approvalVars, interruptVars, processVars>>
ResumeRun(s) == WriteRun(s, "resumed", "running", "consume")

\* The completed turn: frames read before an abort are still processed.
FinishTurn(s) ==
    /\ Continue(s, "consume", "tasks")
    /\ UNCHANGED <<requestVars, queueVars, agentVars, runStatus, outcomeVars,
                   approvalVars, interruptVars, processVars>>

\* Mutant of Delegate: no child was created, the parent waits all the same.
DelegateToNobody(s) ==
    /\ Runtime = "mock"
    /\ Continue(s, "tasks", "parent")
    /\ UNCHANGED <<requestVars, queueVars, agentVars, runStatus, outcomeVars,
                   approvalVars, interruptVars, processVars>>

\* A delegation, which only the mock runtime suggests, creates a child (and a
\* parent task when the run has none), then the parent waits for it ...
Delegate(s) ==
    /\ Runtime = "mock"
    /\ Continue(s, "tasks", "parent")
    /\ children' = [children EXCEPT ![job[s]] = @ \cup {claim[s]}]
    /\ UNCHANGED <<requestVars, queueVars, agentVars, runStatus, answers, task,
                   approvalVars, interruptVars, processVars>>
ParentWaits(s) ==
    /\ Continue(s, "parent", "reply")
    /\ task' = [task EXCEPT ![job[s]] = "waiting_agent"]
    /\ UNCHANGED <<requestVars, queueVars, agentVars, runStatus, answers, children,
                   approvalVars, interruptVars, processVars>>
\* ... when nothing is delegated the run's task is completed (a run without a
\* task is one whose task nobody reads) ...
FinishTask(s) ==
    /\ Continue(s, "tasks", "reply")
    /\ task' = [task EXCEPT ![job[s]] = "completed"]
    /\ UNCHANGED <<requestVars, queueVars, agentVars, runStatus, answers, children,
                   approvalVars, interruptVars, processVars>>

\* ... and with no other agent to delegate to, no task changes.
KeepTask(s) ==
    /\ Runtime = "mock"
    /\ Continue(s, "tasks", "reply")
    /\ UNCHANGED <<requestVars, queueVars, agentVars, runStatus, outcomeVars,
                   approvalVars, interruptVars, processVars>>

StoreReply(s) ==
    /\ Continue(s, "reply", "completed")
    /\ answers' = [answers EXCEPT ![job[s]] = @ \cup {claim[s]}]
    /\ UNCHANGED <<requestVars, queueVars, agentVars, runStatus, children, task,
                   approvalVars, interruptVars, processVars>>

CompleteRun(s) == WriteRun(s, "completed", "completed", "rest")
SetAgentIdle(s) == WriteAgent(s, "rest", FALSE, "complete")

FinishJob(s) ==
    /\ At(s, "complete")
    /\ CompleteJob(job[s])
    /\ Leave(s, TRUE)
    /\ UNCHANGED <<requestVars, agentVars, runStatus, outcomeVars, approvalVars,
                   interruptVars, processVars>>

\* An error of the runtime, of the codex worker or of the repository.
Throw(s) ==
    /\ pc[s] \in TryStep
    /\ errors + 2 * crashes < MaxFaults
    /\ errors' = errors + 1
    /\ Continue(s, pc[s], "catch")
    /\ UNCHANGED <<up, removing, crashes, stops, deletes, requestVars, queueVars, agentVars,
                   runStatus, outcomeVars, approvalVars, interruptVars>>

\* The abort ends the waits of the runtime.
SeeAbort(s) ==
    /\ aborted[s]
    /\ pc[s] \in {"connect", "consume", "poll"}
    /\ Continue(s, pc[s], "catch")
    /\ UNCHANGED <<requestVars, queueVars, agentVars, runStatus, outcomeVars,
                   approvalVars, interruptVars, processVars>>

\* Mutant of Catch: every error counts as an interrupt.
CatchAsInterrupt(s) ==
    /\ Continue(s, "catch", "drop")
    /\ UNCHANGED <<requestVars, queueVars, agentVars, runStatus, outcomeVars,
                   approvalVars, interruptVars, processVars>>

Catch(s) ==
    /\ Continue(s, "catch",
                IF aborted[s] \/ runStatus[job[s]] = "interrupted" THEN "drop" ELSE "failed")
    /\ UNCHANGED <<requestVars, queueVars, agentVars, runStatus, outcomeVars,
                   approvalVars, interruptVars, processVars>>

\* Interrupted: only the job is completed, run and agent stay as they are.
DropJob(s) ==
    /\ At(s, "drop")
    /\ CompleteJob(job[s])
    /\ Leave(s, TRUE)
    /\ UNCHANGED <<requestVars, agentVars, runStatus, outcomeVars, approvalVars,
                   interruptVars, processVars>>

\* Mutant of FailRun: the agent is not set idle after a failure.
FailRunOnly(s) == WriteRun(s, "failed", "failed", "retry")
FailRun(s) == WriteRun(s, "failed", "failed", "failedRest")
SetFailedAgentIdle(s) == WriteAgent(s, "failedRest", FALSE, "retry")

\* At most three claims are retried after an error.
RetryJob(s) ==
    /\ At(s, "retry")
    /\ FailJob(job[s], claim[s] < 3)
    /\ Leave(s, TRUE)
    /\ UNCHANGED <<requestVars, agentVars, runStatus, outcomeVars, approvalVars,
                   interruptVars, processVars>>

-----------------------------------------------------------------------------
(* interruptRun, served by process w; it keeps the run it read.            *)

RequestInterrupt(n, w) ==
    /\ runStatus[n] \in ActiveRun
    /\ interrupt[n] = "none"
    /\ interrupts[n] < MaxInterrupts
    /\ interrupt' = [interrupt EXCEPT ![n] = "read"]
    /\ server' = [server EXCEPT ![n] = w]
    /\ interrupts' = [interrupts EXCEPT ![n] = @ + 1]
    /\ UNCHANGED <<requestVars, queueVars, agentVars, runStatus, slotVars, outcomeVars,
                   approvalVars, processVars>>

\* interruptHandler: only an execution registered in this process is aborted.
AbortExecution(n) ==
    /\ interrupt[n] = "read"
    /\ interrupt' = [interrupt EXCEPT ![n] = "put"]
    /\ aborted' = [s \in Slots |->
                      \/ aborted[s]
                      \/ (registered[s] /\ job[s] = n /\ WorkerOf[s] = server[n])]
    /\ UNCHANGED <<server, interrupts, pc, job, claim, registered, requestVars, queueVars,
                   agentVars, runStatus, outcomeVars, approvalVars, processVars>>

PutInterrupted(n) ==
    /\ interrupt[n] = "put"
    /\ interrupt' = [interrupt EXCEPT ![n] = "agent"]
    /\ PutRun(n, "interrupted")
    /\ UNCHANGED <<server, interrupts, requestVars, queueVars, agentVars, slotVars,
                   outcomeVars, approvalVars, processVars>>

\* The agent is read: a deleted one makes the request fail here, an idle one
\* may be left alone (when its current task is another one).
ReadInterruptedAgent(n) ==
    /\ interrupt[n] = "agent"
    /\ \/ ~working[AgentOf(n)] /\ interrupt' = [interrupt EXCEPT ![n] = "none"]
       \/ exists[AgentOf(n)] /\ interrupt' = [interrupt EXCEPT ![n] = "idle"]
    /\ UNCHANGED <<server, interrupts, requestVars, queueVars, agentVars, runStatus,
                   slotVars, outcomeVars, approvalVars, processVars>>

IdleInterruptedAgent(n) ==
    /\ interrupt[n] = "idle"
    /\ interrupt' = [interrupt EXCEPT ![n] = "none"]
    /\ PutAgent(AgentOf(n), FALSE)
    /\ UNCHANGED <<server, interrupts, requestVars, queueVars, runStatus, slotVars,
                   outcomeVars, approvalVars, processVars>>

-----------------------------------------------------------------------------
(* The owner, time, and the processes.                                     *)

\* resolveApproval: only a pending approval that has not expired.
ResolveApproval(n) ==
    /\ approval[n] = "pending"
    /\ \E decision \in {"approved", "denied"} :
          approval' = [approval EXCEPT ![n] = decision]
    /\ UNCHANGED <<asked, requestVars, queueVars, agentVars, runStatus, slotVars,
                   outcomeVars, interruptVars, processVars>>

\* expiresAt passes: nothing writes "expired", the row stays pending but can
\* no longer be resolved.
ApprovalLapses(n) ==
    /\ approval[n] = "pending"
    /\ approval' = [approval EXCEPT ![n] = "lapsed"]
    /\ UNCHANGED <<asked, requestVars, queueVars, agentVars, runStatus, slotVars,
                   outcomeVars, interruptVars, processVars>>

\* deleteAgent: refused while a run of the agent is active ...
CheckRemoval(a) ==
    /\ exists[a]
    /\ ~removing[a]
    /\ deletes < MaxDeletes
    /\ \A n \in Runs : runStatus[n] \in ActiveRun => AgentOf(n) # a
    /\ removing' = [removing EXCEPT ![a] = TRUE]
    /\ deletes' = deletes + 1
    /\ UNCHANGED <<requestVars, queueVars, agentVars, runStatus, slotVars, outcomeVars,
                   approvalVars, interruptVars, up, errors, crashes, stops>>

\* ... but the row is deleted later, whatever has started meanwhile.
DeleteAgent(a) ==
    /\ removing[a]
    /\ removing' = [removing EXCEPT ![a] = FALSE]
    /\ exists' = [exists EXCEPT ![a] = FALSE]
    /\ working' = [working EXCEPT ![a] = FALSE]
    /\ UNCHANGED <<requestVars, queueVars, runStatus, slotVars, outcomeVars, approvalVars,
                   interruptVars, up, errors, crashes, stops, deletes>>

RetryDelayEnds(n) ==
    /\ BackoffElapses(n)
    /\ UNCHANGED <<requestVars, agentVars, runStatus, slotVars, outcomeVars, approvalVars,
                   interruptVars, processVars>>

\* No heartbeat renews a lock: it also expires under a live execution.
LockAges(n) ==
    /\ LockExpires(n)
    /\ LongRuns \/ \A s \in Slots : job[s] # n
    /\ UNCHANGED <<requestVars, agentVars, runStatus, slotVars, outcomeVars, approvalVars,
                   interruptVars, processVars>>

\* The process dies and is started again: its executions and requests are gone.
Crash(w) ==
    LET dead == {s \in Slots : WorkerOf[s] = w} IN
    /\ crashes < MaxCrashes
    /\ errors + 2 * crashes + 1 < MaxFaults
    /\ crashes' = crashes + 1
    /\ pc' = [s \in Slots |-> IF s \in dead THEN "idle" ELSE pc[s]]
    /\ job' = [s \in Slots |-> IF s \in dead THEN NoRun ELSE job[s]]
    /\ claim' = [s \in Slots |-> IF s \in dead THEN 0 ELSE claim[s]]
    /\ aborted' = [s \in Slots |-> s \notin dead /\ aborted[s]]
    /\ registered' = [s \in Slots |-> s \notin dead /\ registered[s]]
    /\ interrupt' = [n \in Runs |-> IF server[n] = w THEN "none" ELSE interrupt[n]]
    /\ up' = [up EXCEPT ![w] = TRUE]
    /\ UNCHANGED <<server, interrupts, removing, errors, stops, deletes, requestVars, queueVars, agentVars,
                   runStatus, outcomeVars, approvalVars>>

\* stop: no further poll, every registered execution is aborted ...
Stop(w) ==
    /\ up[w]
    /\ stops < MaxStops
    /\ stops' = stops + 1
    /\ up' = [up EXCEPT ![w] = FALSE]
    /\ aborted' = [s \in Slots |-> aborted[s] \/ (registered[s] /\ WorkerOf[s] = w)]
    /\ UNCHANGED <<pc, job, claim, registered, removing, errors, crashes, deletes, requestVars,
                   queueVars, agentVars, runStatus, outcomeVars, approvalVars, interruptVars>>

\* ... and waits for the active ones; then the process is started again.
Restart(w) ==
    /\ ~up[w]
    /\ \A s \in Slots : WorkerOf[s] = w => At(s, "idle")
    /\ up' = [up EXCEPT ![w] = TRUE]
    /\ UNCHANGED <<removing, errors, crashes, stops, deletes, requestVars, queueVars, agentVars,
                   runStatus, slotVars, outcomeVars, approvalVars, interruptVars>>

-----------------------------------------------------------------------------

\* What a slot does by itself: errors that nothing forces are left out.
Execute(s) ==
    \/ Claim(s) \/ ReadRun(s) \/ SkipJob(s) \/ Prepare(s) \/ GiveUp(s)
    \/ StartRun(s) \/ SetAgentRunning(s) \/ MockTurn(s)
    \/ ResumeThread(s) \/ StartThread(s) \/ StartTurn(s) \/ Connect(s)
    \/ RequestApproval(s) \/ AwaitApproval(s) \/ SeeDecision(s) \/ ResumeRun(s)
    \/ FinishTurn(s) \/ Delegate(s) \/ ParentWaits(s) \/ FinishTask(s)
    \/ KeepTask(s)
    \/ StoreReply(s) \/ CompleteRun(s) \/ SetAgentIdle(s) \/ FinishJob(s)
    \/ SeeAbort(s) \/ Catch(s) \/ DropJob(s)
    \/ FailRun(s) \/ SetFailedAgentIdle(s) \/ RetryJob(s)

Interrupting(n) ==
    \/ AbortExecution(n) \/ PutInterrupted(n)
    \/ ReadInterruptedAgent(n) \/ IdleInterruptedAgent(n)

Time(n) == RetryDelayEnds(n) \/ LockAges(n)

Next ==
    \/ \E n \in Runs : \E op \in Ops : BuildMessage(n, op)
    \/ \E n \in Runs : CommitMessage(n)
    \/ \E s \in Slots : Execute(s)
    \/ \E s \in Slots : Throw(s)
    \/ \E n \in Runs : \E w \in Workers : RequestInterrupt(n, w)
    \/ \E n \in Runs : Interrupting(n)
    \/ \E n \in Runs : ResolveApproval(n)
    \/ \E n \in Runs : ApprovalLapses(n)
    \/ \E n \in Runs : Time(n)
    \/ \E a \in Agents : CheckRemoval(a) \/ DeleteAgent(a)
    \/ \E w \in Workers : Crash(w)
    \/ \E w \in Workers : Stop(w)
    \/ \E w \in Workers : Restart(w)

Spec == Init /\ [][Next]_vars

\* The event loop goes on, the worker's timer polls, a turn that Codex runs
\* ends, delays and locks run out, and a stopped process is started again.
\* Nobody is bound to send, interrupt, decide, fail or crash.
Fairness ==
    /\ \A s \in Slots : WF_vars(Execute(s))
    /\ \A n \in Runs : WF_vars(Interrupting(n)) /\ WF_vars(Time(n))
    /\ \A w \in Workers : WF_vars(Restart(w))

FairSpec == Spec /\ Fairness

-----------------------------------------------------------------------------
(* What holds of every run of the system: duplicates, crashes, stops,      *)
(* interrupts and expired locks included.                                  *)

\* A clientOperationId never yields two stored runs: whatever the order in
\* which repeated requests commit, the key names the only one, and each has
\* its job.  (sendMessage is idempotent by clientOperationId.)
OneRunPerOperation ==
    \A n \in Runs : runStatus[n] # "none" =>
        /\ opOf[n] # NoOp
        /\ idem[opOf[n]] = n
        /\ jobStatus[n] # "none"

\* The number a job had when it was claimed identifies the execution: two
\* executions of one job, a reclaimed one and the one that lost its lock,
\* never have the same, and none is ahead of the queue's counter.
ClaimsAreDistinct ==
    /\ \A s \in Slots : job[s] # NoRun => claim[s] \in 1..attempts[job[s]]
    /\ \A s, t \in Slots :
          s # t /\ job[s] = job[t] /\ job[s] # NoRun => claim[s] # claim[t]

\* Retries and reclaims may repeat a side effect, but one execution never
\* does: an execution that has its reply still to store has stored none,
\* likewise for the child task, and only claims of the job stored any.
OneEffectPerClaim ==
    /\ \A n \in Runs : answers[n] \cup children[n] \subseteq 1..attempts[n]
    /\ \A s \in Slots :
          /\ pc[s] \in BeforeReply => claim[s] \notin answers[job[s]]
          /\ pc[s] \in BeforeDelegation => claim[s] \notin children[job[s]]

\* A run shown as completed has a reply in its conversation, and a task that
\* waits for another agent has a child that was really created.
NoHollowOutcome ==
    \A n \in Runs :
        /\ runStatus[n] = "completed" => answers[n] # {}
        /\ task[n] = "waiting_agent" => children[n] # {}

-----------------------------------------------------------------------------
(* What holds while no execution outlasts its lock (LongRuns = FALSE).     *)

\* A job is executed by one slot at a time, in whatever process, through
\* crashes and reclaims: claim is "safe for multiple workers".
LeaseIsExclusive ==
    \A s, t \in Slots : job[s] = job[t] /\ job[s] # NoRun => s = t

\* A settled job is never executed, retried or reclaimed again.
SettledJobStaysSettled ==
    [][\A n \in Runs : jobStatus[n] \in Settled => jobStatus'[n] = jobStatus[n]]_vars

-----------------------------------------------------------------------------
(* What holds when, moreover, nobody interrupts, stops or deletes.         *)

\* No accepted run is lost by a crash, an error or a retry: while it is not
\* in a final state its job is still in the queue or being executed, so that
\* it is replayed after a restart.
NoRunLost ==
    \A n \in Runs : runStatus[n] \in ActiveRun => jobStatus[n] \in {"queued", "running"}

\* An agent shown as working has an unsettled job.
WorkingAgentHasWork ==
    \A a \in Agents : working[a] =>
        \E n \in Runs : /\ runStatus[n] # "none"
                        /\ AgentOf(n) = a
                        /\ jobStatus[n] \in {"queued", "running"}

\* Every accepted run reaches a final state for good, and its job is settled:
\* the queue is drained through crashes, errors and retries.
EveryRunSettles ==
    \A n \in Runs : runStatus[n] # "none" ~>
        /\ jobStatus[n] \in Settled
        /\ runStatus[n] \in {"completed", "failed"}

-----------------------------------------------------------------------------
(* What the documents say, and the code does not do.                       *)

\* "Reclaim expired worker leases without duplicate completion": without an
\* error or a crash a message gets one reply.  Two executions of a run that
\* takes longer than its lock both store theirs.
OneReplyPerRun == \A n \in Runs : \A c, d \in answers[n] : c = d

\* "Record the final interrupted state": an interrupted run stays so.  The
\* execution writes its own copy of the run over it.
InterruptIsFinal ==
    [][\A n \in Runs : runStatus[n] = "interrupted" => runStatus'[n] = "interrupted"]_vars

-----------------------------------------------------------------------------
(* The queue as its users may think of it.                                 *)

HoldersOf(n) == {s \in Slots : job[s] = n}

leaseState == [n \in Runs |->
    CASE jobStatus[n] = "none"    -> "absent"
      [] jobStatus[n] = "queued"  -> "ready"
      [] jobStatus[n] = "running" -> IF HoldersOf(n) = {} THEN "orphaned" ELSE "held"
      [] OTHER                    -> "settled"]

\* The tables and the slots implement a queue with exclusive leases.
LeaseQueue == INSTANCE LeaseQueue WITH
    Items <- Runs, Holders <- Slots, state <- leaseState,
    held <- [s \in Slots |-> {n \in Runs : job[s] = n}]
ImplementsLeaseQueue == LeaseQueue!Spec
=============================================================================
