------------------------------ MODULE RunStore ------------------------------
(***************************************************************************)
(* The tables behind agent runs: the runs, the queue of jobs, the          *)
(* idempotency keys and the agents' rows, with the repository operations   *)
(* that change them.  Each operator constrains the next value of the       *)
(* tables it writes and of nothing else; RunWorker composes them.          *)
(*                                                                         *)
(* A message, its run, its job and its trigger are created together, so    *)
(* one number of Runs stands for the four.  The number is the place in the *)
(* order of createdAt.  Both repositories are atomic per operation here:   *)
(* PostgreSQL by a transaction, the in-memory one by the event loop.       *)
(***************************************************************************)
EXTENDS Naturals

CONSTANTS Ops,       \* clientOperationId values
          NoOp,      \* the operation of a number that no request uses
          Agents,    \* agent ids
          TargetOf,  \* the agent an operation's message is sent to
          MaxRuns,   \* bound: requests that may be in flight or stored
          MaxClaims  \* bound: times one job may be claimed

ASSUME StoreAssumption ==
    /\ NoOp \notin Ops
    /\ TargetOf \in [Ops -> Agents]
    /\ MaxRuns \in Nat
    /\ MaxClaims \in Nat

VARIABLES opOf,       \* opOf[n]: the operation of request n, NoOp when unused
          idem,       \* idem[op]: the run stored under the idempotency key
          jobStatus,  \* queue_jobs.status, "none" before the commit
          attempts,   \* queue_jobs.attempts
          due,        \* due[n]: availableAt has passed
          stale,      \* stale[n]: lockedAt is more than five minutes old
          runStatus,  \* Run.status, "none" before the commit
          working,    \* working[a]: Agent.status is "working", else "idle"
          exists      \* exists[a]: the agent's row is in the table

requestVars == <<opOf, idem>>
queueVars == <<jobStatus, attempts, due, stale>>
agentVars == <<working, exists>>

-----------------------------------------------------------------------------

Runs == 1..MaxRuns
NoRun == 0

JobStatus == {"none", "queued", "running", "completed", "failed"}
RunStatus == {"none", "queued", "running", "waiting_approval",
              "interrupted", "completed", "failed"}
Settled == {"completed", "failed"}
ActiveRun == {"queued", "running", "waiting_approval"}

AgentOf(n) == TargetOf[opOf[n]]

StoreTypeOK ==
    /\ opOf \in [Runs -> Ops \cup {NoOp}]
    /\ idem \in [Ops -> Runs \cup {NoRun}]
    /\ jobStatus \in [Runs -> JobStatus]
    /\ attempts \in [Runs -> Nat]
    /\ due \in [Runs -> BOOLEAN]
    /\ stale \in [Runs -> BOOLEAN]
    /\ runStatus \in [Runs -> RunStatus]
    /\ working \in [Agents -> BOOLEAN]
    /\ exists \in [Agents -> BOOLEAN]

StoreInit ==
    /\ opOf = [n \in Runs |-> NoOp]
    /\ idem = [op \in Ops |-> NoRun]
    /\ jobStatus = [n \in Runs |-> "none"]
    /\ attempts = [n \in Runs |-> 0]
    /\ due = [n \in Runs |-> FALSE]
    /\ stale = [n \in Runs |-> FALSE]
    /\ runStatus = [n \in Runs |-> "none"]
    /\ working = [a \in Agents |-> FALSE]
    /\ exists = [a \in Agents |-> TRUE]

-----------------------------------------------------------------------------
(* The entity tables.                                                      *)

PutRun(n, status) == runStatus' = [runStatus EXCEPT ![n] = status]

\* put("agents", ...) is an upsert: it brings back a row deleted meanwhile.
PutAgent(a, isWorking) ==
    /\ working' = [working EXCEPT ![a] = isWorking]
    /\ exists' = [exists EXCEPT ![a] = TRUE]

-----------------------------------------------------------------------------
(* The queue.                                                              *)

\* Mutant of StoreCommit: the key is not looked up first.
CommitWithoutLookup(n) ==
    /\ idem' = [idem EXCEPT ![opOf[n]] = n]
    /\ PutRun(n, "queued")
    /\ jobStatus' = [jobStatus EXCEPT ![n] = "queued"]
    /\ due' = [due EXCEPT ![n] = TRUE]
    /\ UNCHANGED <<opOf, attempts, stale>>

\* commitMessageRun, first use of the key: message, run, job and key at once.
StoreCommit(n) ==
    /\ idem[opOf[n]] = NoRun
    /\ idem' = [idem EXCEPT ![opOf[n]] = n]
    /\ PutRun(n, "queued")
    /\ jobStatus' = [jobStatus EXCEPT ![n] = "queued"]
    /\ due' = [due EXCEPT ![n] = TRUE]
    /\ UNCHANGED <<opOf, attempts, stale>>

\* commitMessageRun, known key: the ids made for this request are dropped
\* and the caller gets the stored run.
StoreDuplicate(n) ==
    /\ idem[opOf[n]] # NoRun
    /\ opOf' = [opOf EXCEPT ![n] = NoOp]
    /\ UNCHANGED <<idem, queueVars, runStatus>>

\* Mutants of Claimable: the age of the lock is ignored; a failed job counts
\* as queued; the lock of a dead worker is never taken over.
ClaimableWhileLocked(n) ==
    jobStatus[n] = "running" \/ (jobStatus[n] = "queued" /\ due[n])
ClaimableAfterFailure(n) ==
    \/ jobStatus[n] \in {"queued", "failed"} /\ due[n]
    \/ jobStatus[n] = "running" /\ stale[n]
ClaimableOnce(n) == jobStatus[n] = "queued" /\ due[n]

Claimable(n) ==
    \/ jobStatus[n] = "queued" /\ due[n]
    \/ jobStatus[n] = "running" /\ stale[n]

\* Mutant of ClaimJob: a reclaim does not count as an attempt.
ClaimKeepingCount(n) ==
    /\ Claimable(n)
    /\ attempts[n] < MaxClaims
    /\ jobStatus' = [jobStatus EXCEPT ![n] = "running"]
    /\ attempts' = [attempts EXCEPT ![n] = IF stale[n] THEN @ ELSE @ + 1]
    /\ stale' = [stale EXCEPT ![n] = FALSE]
    /\ UNCHANGED due

\* claim: the oldest claimable job, its lock taken anew.
ClaimJob(n) ==
    /\ Claimable(n)
    /\ \A m \in Runs : Claimable(m) => n <= m
    /\ attempts[n] < MaxClaims
    /\ jobStatus' = [jobStatus EXCEPT ![n] = "running"]
    /\ attempts' = [attempts EXCEPT ![n] = @ + 1]
    /\ stale' = [stale EXCEPT ![n] = FALSE]
    /\ UNCHANGED due

\* completeJob: unconditional, whoever holds the lock.
CompleteJob(n) ==
    /\ jobStatus' = [jobStatus EXCEPT ![n] = "completed"]
    /\ UNCHANGED <<attempts, due, stale>>

\* failJob: queued again at a later time, or failed for good.
FailJob(n, retry) ==
    /\ jobStatus' = [jobStatus EXCEPT ![n] = IF retry THEN "queued" ELSE "failed"]
    /\ due' = [due EXCEPT ![n] = IF retry THEN FALSE ELSE @]
    /\ stale' = [stale EXCEPT ![n] = FALSE]
    /\ UNCHANGED attempts

\* Time passes: the retry delay of a queued job is over.
BackoffElapses(n) ==
    /\ jobStatus[n] = "queued"
    /\ ~due[n]
    /\ due' = [due EXCEPT ![n] = TRUE]
    /\ UNCHANGED <<jobStatus, attempts, stale>>

\* Time passes: the lock of a running job is five minutes old.
LockExpires(n) ==
    /\ jobStatus[n] = "running"
    /\ ~stale[n]
    /\ stale' = [stale EXCEPT ![n] = TRUE]
    /\ UNCHANGED <<jobStatus, attempts, due>>
=============================================================================
