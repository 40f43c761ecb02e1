-------------------------- MODULE RunWorkerProofs --------------------------
(***************************************************************************)
(* What TLAPS proves of RunWorker, for every value of its constants: its   *)
(* types and the safety of one execution; then, when no execution outlasts *)
(* its lock, that a job has one holder and the tables with the slots       *)
(* implement LeaseQueue; then its outcomes, and that no run is lost.       *)
(***************************************************************************)
EXTENDS RunWorker, TLAPS

-----------------------------------------------------------------------------
(* Typing.                                                                 *)

LEMMA InitTypeOK == Init => TypeOK
<1> SUFFICES ASSUME Init PROVE TypeOK
  OBVIOUS
<1>1. StoreTypeOK
  BY StoreAssumption DEF Init, StoreInit, StoreTypeOK, JobStatus, RunStatus, NoRun, Runs
<1>2. (CHOOSE w \in Workers : TRUE) \in Workers
  BY WorkerAssumption
<1> QED
  BY <1>1, <1>2 DEF Init, TypeOK, Step, NoRun

\* Each statement of process keeps the types.
LEMMA ExecuteTypeOK ==
  ASSUME TypeOK, NEW s \in Slots, Execute(s)
  PROVE  TypeOK'
<1> USE DEF TypeOK, StoreTypeOK, JobStatus, RunStatus, Step, TryStep, NoRun,
            requestVars, queueVars, agentVars, slotVars, outcomeVars, approvalVars,
            interruptVars, processVars, Continue, At, Goto, Leave
<1>1. CASE Claim(s)
  BY <1>1 DEF Claim, ClaimJob
<1>2. CASE ReadRun(s)
  BY <1>2 DEF ReadRun
<1>3. CASE SkipJob(s)
  BY <1>3 DEF SkipJob, CompleteJob
<1>4. CASE Prepare(s)
  <2>1. registered' \in [Slots -> BOOLEAN]
    <3>1. CASE registered' = [t \in Slots |-> t = s \/ (registered[t] /\ ~SameEntry(s, t))]
      BY <3>1, Zenon
    <3>2. CASE UNCHANGED registered
      BY <3>2
    <3> QED
      BY <3>1, <3>2, <1>4, Zenon DEF Prepare
  <2>2. pc' \in [Slots -> Step]
    BY <1>4 DEF Prepare
  <2>3. UNCHANGED <<job, claim, aborted, requestVars, queueVars, agentVars, runStatus,
                    outcomeVars, approvalVars, interruptVars, processVars>>
    BY <1>4 DEF Prepare
  <2> QED
    BY <2>1, <2>2, <2>3
<1>5. CASE GiveUp(s)
  BY <1>5 DEF GiveUp, FailJob
<1>6. CASE StartRun(s)
  BY <1>6 DEF StartRun, WriteRun, PutRun
<1>7. CASE SetAgentRunning(s)
  BY <1>7 DEF SetAgentRunning, WriteAgent, PutAgent
<1>8. CASE MockTurn(s)
  BY <1>8 DEF MockTurn
<1>9. CASE ResumeThread(s)
  BY <1>9 DEF ResumeThread
<1>10. CASE StartThread(s)
  BY <1>10 DEF StartThread, WriteAgent, PutAgent
<1>11. CASE StartTurn(s)
  BY <1>11 DEF StartTurn, WriteRun, PutRun
<1>12. CASE Connect(s)
  BY <1>12 DEF Connect
<1>13. CASE RequestApproval(s)
  <2>1. /\ UNCHANGED <<job, claim, aborted, registered, requestVars, queueVars, agentVars,
                       runStatus, outcomeVars, interruptVars, processVars>>
        /\ pc' = [pc EXCEPT ![s] = "waiting"]
        /\ asked' = [asked EXCEPT ![job[s]] = asked[job[s]] + 1]
        /\ approval' = [approval EXCEPT ![job[s]] = "pending"]
    BY <1>13 DEF RequestApproval
  <2>2. ASSUME NEW n \in Runs PROVE asked'[n] \in Nat
    <3>1. asked'[n] = asked[n] \/ asked'[n] = asked[n] + 1
      BY <2>1
    <3> QED
      BY <3>1
  <2>3. asked' \in [Runs -> Nat]
    BY <2>1, <2>2
  <2> QED
    BY <2>1, <2>3
<1>14. CASE AwaitApproval(s)
  BY <1>14 DEF AwaitApproval, WriteRun, PutRun
<1>15. CASE SeeDecision(s)
  BY <1>15 DEF SeeDecision
<1>16. CASE ResumeRun(s)
  BY <1>16 DEF ResumeRun, WriteRun, PutRun
<1>17. CASE FinishTurn(s)
  BY <1>17 DEF FinishTurn
<1>18. CASE Delegate(s)
  <2>1. /\ UNCHANGED <<job, claim, aborted, registered, requestVars, queueVars, agentVars,
                       runStatus, answers, task, approvalVars, interruptVars, processVars>>
        /\ pc' = [pc EXCEPT ![s] = "parent"]
        /\ children' = [children EXCEPT ![job[s]] = children[job[s]] \cup {claim[s]}]
    BY <1>18 DEF Delegate
  <2>2. ASSUME NEW n \in Runs PROVE children'[n] \in SUBSET Nat
    <3>1. children'[n] = children[n] \/ children'[n] = children[n] \cup {claim[s]}
      BY <2>1
    <3> QED
      BY <3>1
  <2>3. children' \in [Runs -> SUBSET Nat]
    BY <2>1, <2>2
  <2> QED
    BY <2>1, <2>3
<1>19. CASE ParentWaits(s)
  BY <1>19 DEF ParentWaits
<1>20. CASE FinishTask(s)
  BY <1>20 DEF FinishTask
<1>31. CASE KeepTask(s)
  BY <1>31 DEF KeepTask
<1>21. CASE StoreReply(s)
  <2>1. /\ UNCHANGED <<job, claim, aborted, registered, requestVars, queueVars, agentVars,
                       runStatus, children, task, approvalVars, interruptVars, processVars>>
        /\ pc' = [pc EXCEPT ![s] = "completed"]
        /\ answers' = [answers EXCEPT ![job[s]] = answers[job[s]] \cup {claim[s]}]
    BY <1>21 DEF StoreReply
  <2>2. ASSUME NEW n \in Runs PROVE answers'[n] \in SUBSET Nat
    <3>1. answers'[n] = answers[n] \/ answers'[n] = answers[n] \cup {claim[s]}
      BY <2>1
    <3> QED
      BY <3>1
  <2>3. answers' \in [Runs -> SUBSET Nat]
    BY <2>1, <2>2
  <2> QED
    BY <2>1, <2>3
<1>22. CASE CompleteRun(s)
  BY <1>22 DEF CompleteRun, WriteRun, PutRun
<1>23. CASE SetAgentIdle(s)
  BY <1>23 DEF SetAgentIdle, WriteAgent, PutAgent
<1>24. CASE FinishJob(s)
  BY <1>24 DEF FinishJob, CompleteJob
<1>25. CASE SeeAbort(s)
  BY <1>25 DEF SeeAbort
<1>26. CASE Catch(s)
  BY <1>26 DEF Catch
<1>27. CASE DropJob(s)
  BY <1>27 DEF DropJob, CompleteJob
<1>28. CASE FailRun(s)
  BY <1>28 DEF FailRun, WriteRun, PutRun
<1>29. CASE SetFailedAgentIdle(s)
  BY <1>29 DEF SetFailedAgentIdle, WriteAgent, PutAgent
<1>30. CASE RetryJob(s)
  BY <1>30 DEF RetryJob, FailJob
<1> QED
  BY <1>1, <1>2, <1>3, <1>4, <1>5, <1>6, <1>7, <1>8, <1>9, <1>10, <1>11, <1>12, <1>13, <1>14,
     <1>15, <1>16, <1>17, <1>18, <1>19, <1>20, <1>21, <1>22, <1>23, <1>24, <1>25, <1>26, <1>27,
     <1>28, <1>29, <1>30, <1>31 DEF Execute

\* So does everything that happens around the executions.
LEMMA NextTypeOK == TypeOK /\ [Next]_vars => TypeOK'
<1> SUFFICES ASSUME TypeOK, [Next]_vars PROVE TypeOK'
  OBVIOUS
<1> USE DEF TypeOK, StoreTypeOK, JobStatus, RunStatus, Step, TryStep, NoRun,
            requestVars, queueVars, agentVars, slotVars, outcomeVars, approvalVars,
            interruptVars, processVars, Continue, At, Goto, Leave
<1>1. ASSUME NEW n \in Runs, NEW op \in Ops, BuildMessage(n, op) PROVE TypeOK'
  BY <1>1 DEF BuildMessage
<1>2. ASSUME NEW n \in Runs, CommitMessage(n) PROVE TypeOK'
  <2>1. CASE StoreCommit(n)
    BY <1>2, <2>1 DEF CommitMessage, StoreCommit, PutRun
  <2>2. CASE StoreDuplicate(n)
    BY <1>2, <2>2 DEF CommitMessage, StoreDuplicate
  <2> QED
    BY <1>2, <2>1, <2>2 DEF CommitMessage
<1>3. ASSUME NEW s \in Slots, Throw(s) PROVE TypeOK'
  BY <1>3 DEF Throw
<1>4. ASSUME NEW n \in Runs, NEW w \in Workers, RequestInterrupt(n, w) PROVE TypeOK'
  BY <1>4 DEF RequestInterrupt
<1>5. ASSUME NEW n \in Runs, Interrupting(n) PROVE TypeOK'
  <2>1. CASE AbortExecution(n)
    <3>1. aborted' \in [Slots -> BOOLEAN]
      BY <2>1, Zenon DEF AbortExecution
    <3>2. interrupt' = [interrupt EXCEPT ![n] = "put"]
      BY <2>1 DEF AbortExecution
    <3>3. UNCHANGED <<server, interrupts, pc, job, claim, registered, requestVars, queueVars,
                      agentVars, runStatus, outcomeVars, approvalVars, processVars>>
      BY <2>1 DEF AbortExecution
    <3> QED
      BY <3>1, <3>2, <3>3
  <2>2. CASE PutInterrupted(n)
    BY <2>2 DEF PutInterrupted, PutRun
  <2>3. CASE ReadInterruptedAgent(n)
    BY <2>3 DEF ReadInterruptedAgent
  <2>4. CASE IdleInterruptedAgent(n)
    BY <2>4 DEF IdleInterruptedAgent, PutAgent
  <2> QED
    BY <1>5, <2>1, <2>2, <2>3, <2>4 DEF Interrupting
<1>6. ASSUME NEW n \in Runs, ResolveApproval(n) PROVE TypeOK'
  BY <1>6 DEF ResolveApproval
<1>7. ASSUME NEW n \in Runs, ApprovalLapses(n) PROVE TypeOK'
  BY <1>7 DEF ApprovalLapses
<1>8. ASSUME NEW n \in Runs, Time(n) PROVE TypeOK'
  <2>1. CASE RetryDelayEnds(n)
    BY <2>1 DEF RetryDelayEnds, BackoffElapses
  <2>2. CASE LockAges(n)
    BY <2>2 DEF LockAges, LockExpires
  <2> QED
    BY <1>8, <2>1, <2>2 DEF Time
<1>9. ASSUME NEW a \in Agents, CheckRemoval(a) \/ DeleteAgent(a) PROVE TypeOK'
  <2>1. CASE CheckRemoval(a)
    BY <2>1 DEF CheckRemoval
  <2>2. CASE DeleteAgent(a)
    BY <2>2 DEF DeleteAgent
  <2> QED
    BY <1>9, <2>1, <2>2
<1>10. ASSUME NEW w \in Workers, Crash(w) PROVE TypeOK'
  BY <1>10 DEF Crash
<1>11. ASSUME NEW w \in Workers, Stop(w) PROVE TypeOK'
  BY <1>11 DEF Stop
<1>12. ASSUME NEW w \in Workers, Restart(w) PROVE TypeOK'
  BY <1>12 DEF Restart
<1>13. ASSUME NEW s \in Slots, Execute(s) PROVE TypeOK'
  BY <1>13, ExecuteTypeOK
<1>14. CASE UNCHANGED vars
  BY <1>14 DEF vars
<1> QED
  BY <1>1, <1>2, <1>3, <1>4, <1>5, <1>6, <1>7, <1>8, <1>9, <1>10, <1>11, <1>12, <1>13, <1>14 DEF Next

\* In every reachable state every variable has its type.
THEOREM TypeCorrect == Spec => []TypeOK
<1>1. QED
  BY InitTypeOK, NextTypeOK, PTL DEF Spec

-----------------------------------------------------------------------------
(* The inductive invariant.                                                *)

\* A slot that executes something holds a stored run; a key names the run
\* stored under it; requests to interrupt are about stored runs.
Stored ==
    /\ \A s \in Slots : pc[s] = "idle" <=> job[s] = NoRun
    /\ \A s \in Slots : job[s] # NoRun => runStatus[job[s]] # "none"
    /\ \A n \in Runs : jobStatus[n] # "none" => runStatus[n] # "none"
    /\ \A n \in Runs : interrupt[n] # "none" => runStatus[n] # "none"

\* Strong enough for what duplicates, retries, crashes and expired locks do.
IInv == TypeOK /\ Stored /\ OneRunPerOperation /\ ClaimsAreDistinct /\ OneEffectPerClaim

-----------------------------------------------------------------------------
(* What the steps of an execution have in common.                          *)

\* An execution goes on: it keeps its job, writes at most the run it holds,
\* and stores an effect only by leaving the steps before that effect.
GoesOn(s) ==
    /\ pc[s] # "idle"
    /\ pc' = [pc EXCEPT ![s] = pc'[s]]
    /\ pc'[s] # "idle"
    /\ pc'[s] \in BeforeReply => pc[s] \in BeforeReply
    /\ pc'[s] \in BeforeDelegation => pc[s] \in BeforeDelegation
    /\ UNCHANGED <<job, claim, requestVars, queueVars, interrupt>>
    /\ \/ UNCHANGED runStatus
       \/ \E st \in RunStatus \ {"none"} : PutRun(job[s], st)
    /\ \/ UNCHANGED answers
       \/ /\ answers' = [answers EXCEPT ![job[s]] = @ \cup {claim[s]}]
          /\ pc'[s] \notin BeforeReply
    /\ \/ UNCHANGED children
       \/ /\ children' = [children EXCEPT ![job[s]] = @ \cup {claim[s]}]
          /\ pc'[s] \notin BeforeDelegation

\* An execution returns, its job completed, failed or queued again.
Returns(s) ==
    /\ pc[s] # "idle"
    /\ Leave(s, FALSE) \/ Leave(s, TRUE)
    /\ jobStatus' = [jobStatus EXCEPT ![job[s]] = jobStatus'[job[s]]]
    /\ jobStatus'[job[s]] \in {"queued", "completed", "failed"}
    /\ \A n \in Runs : n # job[s] => stale'[n] = stale[n]
    /\ UNCHANGED <<requestVars, attempts, runStatus, answers, children, interrupt>>

LEMMA ThrowGoesOn == ASSUME TypeOK, NEW s \in Slots, Throw(s) PROVE GoesOn(s)
  BY DEF TypeOK, Throw, Continue, At, Goto, GoesOn, TryStep, BeforeReply, BeforeDelegation,
         outcomeVars, interruptVars, requestVars, queueVars

\* Every step of an execution is a claim, goes on or returns.
LEMMA ExecuteShape ==
  ASSUME TypeOK, Stored, NEW s \in Slots, Execute(s)
  PROVE  Claim(s) \/ GoesOn(s) \/ Returns(s)
<1> USE DEF TypeOK, StoreTypeOK, GoesOn, BeforeReply, BeforeDelegation, Continue, At, Goto,
            RunStatus, JobStatus, requestVars, queueVars, outcomeVars, interruptVars
<1>0. ASSUME NEW st \in RunStatus \ {"none"}, NEW from \in Step, NEW to \in Step,
             from # "idle", to # "idle", WriteRun(s, from, st, to),
             to \in BeforeReply => from \in BeforeReply,
             to \in BeforeDelegation => from \in BeforeDelegation
      PROVE  GoesOn(s)
  BY <1>0 DEF WriteRun
<1>1. ASSUME NEW x \in BOOLEAN, NEW from \in Step, NEW to \in Step,
             from # "idle", to # "idle", WriteAgent(s, from, x, to),
             to \in BeforeReply => from \in BeforeReply,
             to \in BeforeDelegation => from \in BeforeDelegation
      PROVE  GoesOn(s)
  BY <1>1 DEF WriteAgent
<1>2. CASE ReadRun(s)
  BY <1>2 DEF ReadRun
<1>3. CASE Prepare(s)
  BY <1>3 DEF Prepare
<1>4. CASE StartRun(s)
  BY <1>0, <1>4 DEF StartRun, Step, TryStep
<1>5. CASE SetAgentRunning(s)
  BY <1>1, <1>5 DEF SetAgentRunning, Step, TryStep
<1>6. CASE MockTurn(s)
  BY <1>6 DEF MockTurn
<1>7. CASE ResumeThread(s)
  BY <1>7 DEF ResumeThread
<1>8. CASE StartThread(s)
  BY <1>1, <1>8 DEF StartThread, Step, TryStep
<1>9. CASE StartTurn(s)
  BY <1>0, <1>9 DEF StartTurn, Step, TryStep
<1>10. CASE Connect(s)
  BY <1>10 DEF Connect
<1>11. CASE RequestApproval(s)
  BY <1>11 DEF RequestApproval
<1>12. CASE AwaitApproval(s)
  BY <1>0, <1>12 DEF AwaitApproval, Step, TryStep
<1>13. CASE SeeDecision(s)
  BY <1>13 DEF SeeDecision
<1>14. CASE ResumeRun(s)
  BY <1>0, <1>14 DEF ResumeRun, Step, TryStep
<1>15. CASE FinishTurn(s)
  BY <1>15 DEF FinishTurn
<1>16. CASE Delegate(s)
  BY <1>16 DEF Delegate
<1>17. CASE ParentWaits(s)
  BY <1>17 DEF ParentWaits
<1>18. CASE FinishTask(s)
  BY <1>18 DEF FinishTask
<1>32. CASE KeepTask(s)
  BY <1>32 DEF KeepTask
<1>19. CASE StoreReply(s)
  BY <1>19 DEF StoreReply
<1>20. CASE CompleteRun(s)
  BY <1>0, <1>20 DEF CompleteRun, Step, TryStep
<1>21. CASE SetAgentIdle(s)
  BY <1>1, <1>21 DEF SetAgentIdle, Step, TryStep
<1>22. CASE SeeAbort(s)
  BY <1>22 DEF SeeAbort
<1>23. CASE Catch(s)
  BY <1>23 DEF Catch
<1>24. CASE FailRun(s)
  BY <1>0, <1>24 DEF FailRun, Step, TryStep
<1>25. CASE SetFailedAgentIdle(s)
  BY <1>1, <1>25 DEF SetFailedAgentIdle, Step, TryStep
<1>26. job[s] # NoRun <=> pc[s] # "idle"
  BY DEF Stored
<1>27. CASE SkipJob(s)
  BY <1>26, <1>27 DEF SkipJob, CompleteJob, Returns, NoRun
<1>28. CASE GiveUp(s)
  BY <1>26, <1>28 DEF GiveUp, FailJob, Returns, NoRun
<1>29. CASE FinishJob(s)
  BY <1>26, <1>29 DEF FinishJob, CompleteJob, Returns, NoRun
<1>30. CASE DropJob(s)
  BY <1>26, <1>30 DEF DropJob, CompleteJob, Returns, NoRun
<1>31. CASE RetryJob(s)
  BY <1>26, <1>31 DEF RetryJob, FailJob, Returns, NoRun
<1> QED
  BY <1>2, <1>3, <1>4, <1>5, <1>6, <1>7, <1>8, <1>9, <1>10, <1>11, <1>12, <1>13, <1>14,
     <1>15, <1>16, <1>17, <1>18, <1>19, <1>20, <1>21, <1>22, <1>23, <1>24, <1>25, <1>27,
     <1>28, <1>29, <1>30, <1>31, <1>32 DEF Execute

\* Everything around the executions but requests and crashes: no slot, job or
\* outcome changes, and a lock ages only where LockAges lets it.
Quiet ==
    /\ UNCHANGED <<pc, job, claim, requestVars, jobStatus, attempts, answers, children>>
    /\ \A n \in Runs : runStatus'[n] = "none" <=> runStatus[n] = "none"
    /\ \A n \in Runs : interrupt'[n] # "none" => interrupt[n] # "none" \/ runStatus[n] # "none"
    /\ \A n \in Runs : stale'[n] => stale[n] \/ LongRuns \/ \A s \in Slots : job[s] # n

LEMMA QuietShape ==
  ASSUME TypeOK, Stored, [Next]_vars
  PROVE  \/ Quiet
         \/ \E n \in Runs : CommitMessage(n) \/ \E op \in Ops : BuildMessage(n, op)
         \/ \E s \in Slots : Claim(s) \/ GoesOn(s) \/ Returns(s)
         \/ \E w \in Workers : Crash(w)
<1> USE DEF TypeOK, StoreTypeOK, Quiet, requestVars, queueVars, agentVars, slotVars,
            outcomeVars, approvalVars, interruptVars, processVars
<1>1. ASSUME NEW s \in Slots, Execute(s) \/ Throw(s)
      PROVE  Claim(s) \/ GoesOn(s) \/ Returns(s)
  BY <1>1, ExecuteShape, ThrowGoesOn
<1>2. ASSUME NEW n \in Runs, NEW w \in Workers, RequestInterrupt(n, w) PROVE Quiet
  BY <1>2 DEF RequestInterrupt, ActiveRun
<1>3. ASSUME NEW n \in Runs, Interrupting(n) PROVE Quiet
  <2>1. CASE AbortExecution(n)
    BY <2>1 DEF AbortExecution
  <2>2. CASE PutInterrupted(n)
    BY <2>2 DEF PutInterrupted, PutRun, Stored
  <2>3. CASE ReadInterruptedAgent(n) \/ IdleInterruptedAgent(n)
    BY <2>3 DEF ReadInterruptedAgent, IdleInterruptedAgent
  <2> QED
    BY <1>3, <2>1, <2>2, <2>3 DEF Interrupting
<1>4. ASSUME NEW n \in Runs, ResolveApproval(n) \/ ApprovalLapses(n) PROVE Quiet
  BY <1>4 DEF ResolveApproval, ApprovalLapses
<1>5. ASSUME NEW n \in Runs, Time(n) PROVE Quiet
  <2>1. CASE RetryDelayEnds(n)
    BY <2>1 DEF RetryDelayEnds, BackoffElapses
  <2>2. CASE LockAges(n)
    BY <2>2 DEF LockAges, LockExpires
  <2> QED
    BY <1>5, <2>1, <2>2 DEF Time
<1>6. ASSUME NEW a \in Agents, CheckRemoval(a) \/ DeleteAgent(a) PROVE Quiet
  BY <1>6 DEF CheckRemoval, DeleteAgent
<1>7. ASSUME NEW w \in Workers, Stop(w) \/ Restart(w) PROVE Quiet
  BY <1>7 DEF Stop, Restart
<1>8. CASE UNCHANGED vars
  BY <1>8 DEF vars
<1> QED
  BY <1>1, <1>2, <1>3, <1>4, <1>5, <1>6, <1>7, <1>8 DEF Next

-----------------------------------------------------------------------------
(* Each kind of step preserves the inductive invariant.                    *)

LEMMA QuietKeeps ==
  ASSUME IInv, TypeOK', Quiet
  PROVE  IInv'
<1> USE DEF IInv, Quiet, requestVars
<1>1. Stored'
  <2>1. job \in [Slots -> Runs \cup {NoRun}]
    BY DEF TypeOK
  <2>2. UNCHANGED <<pc, job, jobStatus>>
    OBVIOUS
  <2>3. \A s \in Slots : job[s] # NoRun => runStatus'[job[s]] # "none"
    BY <2>1 DEF Stored
  <2>4. \A n \in Runs : interrupt'[n] # "none" => runStatus'[n] # "none"
    BY DEF Stored
  <2> QED
    BY <2>2, <2>3, <2>4 DEF Stored
<1>2. OneRunPerOperation'
  BY DEF OneRunPerOperation
<1>3. ClaimsAreDistinct'
  BY DEF ClaimsAreDistinct
<1>4. OneEffectPerClaim'
  BY DEF OneEffectPerClaim
<1> QED
  BY <1>1, <1>2, <1>3, <1>4

LEMMA BuildKeeps ==
  ASSUME IInv, TypeOK', NEW n \in Runs, NEW op \in Ops, BuildMessage(n, op)
  PROVE  IInv'
<1> USE DEF IInv, BuildMessage, queueVars, slotVars, outcomeVars, interruptVars
<1>1. Stored'
  BY DEF Stored
<1>2. OneRunPerOperation'
  BY DEF OneRunPerOperation, TypeOK, StoreTypeOK
<1>3. ClaimsAreDistinct'
  BY DEF ClaimsAreDistinct
<1>4. OneEffectPerClaim'
  BY DEF OneEffectPerClaim
<1> QED
  BY <1>1, <1>2, <1>3, <1>4

LEMMA CommitKeeps ==
  ASSUME IInv, TypeOK', NEW n \in Runs, CommitMessage(n)
  PROVE  IInv'
<1> USE DEF IInv, CommitMessage, slotVars, outcomeVars, interruptVars
<1>1. CASE StoreCommit(n)
  <2> USE <1>1 DEF StoreCommit, PutRun, TypeOK, StoreTypeOK
  <2>1. Stored'
    BY DEF Stored
  <2>2. OneRunPerOperation'
    <3> SUFFICES ASSUME NEW m \in Runs, runStatus'[m] # "none"
                 PROVE  opOf'[m] # NoOp /\ idem'[opOf'[m]] = m /\ jobStatus'[m] # "none"
      BY DEF OneRunPerOperation
    <3>1. CASE m = n
      BY <3>1
    <3>2. CASE m # n
      <4>1. opOf[m] # NoOp /\ idem[opOf[m]] = m /\ jobStatus[m] # "none"
        BY <3>2 DEF OneRunPerOperation
      <4>2. m # NoRun
        BY StoreAssumption DEF Runs, NoRun
      <4> QED
        BY <3>2, <4>1, <4>2
    <3> QED
      BY <3>1, <3>2
  <2>3. ClaimsAreDistinct'
    BY DEF ClaimsAreDistinct
  <2>4. OneEffectPerClaim'
    BY DEF OneEffectPerClaim
  <2> QED
    BY <2>1, <2>2, <2>3, <2>4
<1>2. CASE StoreDuplicate(n)
  <2> USE <1>2 DEF StoreDuplicate, queueVars, TypeOK, StoreTypeOK
  <2>1. Stored'
    BY DEF Stored
  <2>2. OneRunPerOperation'
    BY DEF OneRunPerOperation
  <2>3. ClaimsAreDistinct'
    BY DEF ClaimsAreDistinct
  <2>4. OneEffectPerClaim'
    BY DEF OneEffectPerClaim
  <2> QED
    BY <2>1, <2>2, <2>3, <2>4
<1> QED
  BY <1>1, <1>2

LEMMA ClaimKeeps ==
  ASSUME IInv, TypeOK', NEW s \in Slots, Claim(s)
  PROVE  IInv'
<1> PICK n \in Runs : /\ ClaimJob(n)
                      /\ job' = [job EXCEPT ![s] = n]
                      /\ claim' = [claim EXCEPT ![s] = attempts[n] + 1]
  BY DEF Claim
<1>1. /\ jobStatus' = [jobStatus EXCEPT ![n] = "running"]
      /\ attempts' = [attempts EXCEPT ![n] = @ + 1]
      /\ jobStatus[n] # "none"
      /\ pc' = [pc EXCEPT ![s] = "read"]
      /\ job[s] = NoRun
      /\ UNCHANGED <<opOf, idem, runStatus, answers, children, interrupt>>
  BY DEF Claim, ClaimJob, Claimable, At, Goto, IInv, Stored, requestVars, outcomeVars,
         interruptVars
<1>2. n # NoRun
  BY StoreAssumption DEF Runs, NoRun
<1> USE <1>1, <1>2 DEF IInv, TypeOK, StoreTypeOK
<1>3. Stored'
  BY DEF Stored
<1>4. OneRunPerOperation'
  BY DEF OneRunPerOperation
<1>5. ClaimsAreDistinct'
  BY DEF ClaimsAreDistinct
<1>6. OneEffectPerClaim'
  BY DEF OneEffectPerClaim
<1> QED
  BY <1>3, <1>4, <1>5, <1>6

LEMMA GoesOnKeeps ==
  ASSUME IInv, TypeOK', NEW s \in Slots, GoesOn(s)
  PROVE  IInv'
<1> USE DEF IInv, TypeOK, StoreTypeOK, requestVars, queueVars
<1>1. /\ UNCHANGED <<job, claim, opOf, idem, jobStatus, attempts, interrupt>>
      /\ pc' = [pc EXCEPT ![s] = pc'[s]]
      /\ pc[s] # "idle" /\ pc'[s] # "idle"
      /\ job[s] \in Runs
  BY DEF GoesOn, Stored
<1>2. \A m \in Runs : runStatus'[m] = "none" <=> runStatus[m] = "none"
  BY <1>1 DEF GoesOn, PutRun, Stored, RunStatus
<1>3. Stored'
  BY <1>1, <1>2 DEF Stored
<1>4. OneRunPerOperation'
  BY <1>1, <1>2 DEF OneRunPerOperation
<1>5. ClaimsAreDistinct'
  BY <1>1 DEF ClaimsAreDistinct
<1>6. job[s] # NoRun /\ claim[s] \in 1..attempts[job[s]]
  BY <1>1 DEF ClaimsAreDistinct, Stored
<1>7. ASSUME NEW n \in Runs PROVE answers'[n] \cup children'[n] \subseteq 1..attempts'[n]
  <2>1. answers'[n] = answers[n] \/ (n = job[s] /\ answers'[n] = answers[n] \cup {claim[s]})
    BY <1>1 DEF GoesOn
  <2>2. children'[n] = children[n] \/ (n = job[s] /\ children'[n] = children[n] \cup {claim[s]})
    BY <1>1 DEF GoesOn
  <2>3. answers[n] \cup children[n] \subseteq 1..attempts[n]
    BY DEF OneEffectPerClaim
  <2> QED
    BY <1>1, <1>6, <2>1, <2>2, <2>3
<1>8. ASSUME NEW t \in Slots, pc'[t] \in BeforeReply PROVE claim'[t] \notin answers'[job'[t]]
  <2>1. pc[t] \in BeforeReply
    BY <1>1, <1>8 DEF GoesOn
  <2>2. claim[t] \notin answers[job[t]] /\ job[t] \in Runs
    BY <2>1 DEF OneEffectPerClaim, Stored, BeforeReply, BeforeDelegation
  <2>3. CASE t = s
    BY <1>1, <1>8, <2>2, <2>3 DEF GoesOn
  <2>4. CASE t # s
    <3>1. job[t] = job[s] => claim[t] # claim[s]
      BY <1>6, <2>4 DEF ClaimsAreDistinct
    <3> QED
      BY <1>1, <2>2, <3>1 DEF GoesOn
  <2> QED
    BY <2>3, <2>4
<1>9. ASSUME NEW t \in Slots, pc'[t] \in BeforeDelegation
      PROVE  claim'[t] \notin children'[job'[t]]
  <2>1. pc[t] \in BeforeDelegation
    BY <1>1, <1>9 DEF GoesOn
  <2>2. claim[t] \notin children[job[t]] /\ job[t] \in Runs
    BY <2>1 DEF OneEffectPerClaim, Stored, BeforeDelegation
  <2>3. CASE t = s
    BY <1>1, <1>9, <2>2, <2>3 DEF GoesOn
  <2>4. CASE t # s
    <3>1. job[t] = job[s] => claim[t] # claim[s]
      BY <1>6, <2>4 DEF ClaimsAreDistinct
    <3> QED
      BY <1>1, <2>2, <3>1 DEF GoesOn
  <2> QED
    BY <2>3, <2>4
<1>10. OneEffectPerClaim'
  BY <1>7, <1>8, <1>9 DEF OneEffectPerClaim
<1> QED
  BY <1>3, <1>4, <1>5, <1>10

LEMMA ReturnsKeeps ==
  ASSUME IInv, TypeOK', NEW s \in Slots, Returns(s)
  PROVE  IInv'
<1> USE DEF IInv, TypeOK, StoreTypeOK, requestVars
<1>1. /\ pc' = [pc EXCEPT ![s] = "idle"]
      /\ job' = [job EXCEPT ![s] = NoRun]
      /\ claim' = [claim EXCEPT ![s] = 0]
      /\ job[s] \in Runs
      /\ UNCHANGED <<opOf, idem, attempts, runStatus, answers, children, interrupt>>
  BY DEF Returns, Leave, Goto, Stored
<1>2. \A m \in Runs : jobStatus'[m] # "none" <=> jobStatus[m] # "none" \/ m = job[s]
  BY <1>1 DEF Returns
<1>3. Stored'
  <2>1. job[s] # NoRun /\ runStatus[job[s]] # "none"
    BY DEF Returns, Stored
  <2>2. ASSUME NEW t \in Slots
        PROVE  /\ pc'[t] = "idle" <=> job'[t] = NoRun
               /\ job'[t] # NoRun => runStatus'[job'[t]] # "none"
    BY <1>1 DEF Stored
  <2>3. \A n \in Runs : jobStatus'[n] # "none" => runStatus'[n] # "none"
    BY <1>1, <1>2, <2>1 DEF Stored
  <2>4. \A n \in Runs : interrupt'[n] # "none" => runStatus'[n] # "none"
    BY <1>1 DEF Stored
  <2> QED
    BY <2>2, <2>3, <2>4 DEF Stored
<1>4. OneRunPerOperation'
  BY <1>1, <1>2 DEF OneRunPerOperation
<1>5. ClaimsAreDistinct'
  BY <1>1 DEF ClaimsAreDistinct
<1>6. OneEffectPerClaim'
  BY <1>1 DEF OneEffectPerClaim, BeforeReply, BeforeDelegation
<1> QED
  BY <1>3, <1>4, <1>5, <1>6

LEMMA CrashKeeps ==
  ASSUME IInv, TypeOK', NEW w \in Workers, Crash(w)
  PROVE  IInv'
<1> USE DEF IInv, TypeOK, StoreTypeOK, requestVars, queueVars, outcomeVars
<1>1. UNCHANGED <<opOf, idem, jobStatus, attempts, runStatus, answers, children>>
  BY DEF Crash
<1>2. ASSUME NEW s \in Slots
      PROVE  \/ pc'[s] = "idle" /\ job'[s] = NoRun /\ claim'[s] = 0
             \/ pc'[s] = pc[s] /\ job'[s] = job[s] /\ claim'[s] = claim[s]
  BY DEF Crash
<1>3. \A n \in Runs : interrupt'[n] = "none" \/ interrupt'[n] = interrupt[n]
  BY DEF Crash
<1>4. Stored'
  BY <1>1, <1>2, <1>3 DEF Stored
<1>5. OneRunPerOperation'
  BY <1>1 DEF OneRunPerOperation
<1>6. ClaimsAreDistinct'
  BY <1>1, <1>2 DEF ClaimsAreDistinct
<1>7. OneEffectPerClaim'
  BY <1>1, <1>2 DEF OneEffectPerClaim, BeforeReply, BeforeDelegation
<1> QED
  BY <1>4, <1>5, <1>6, <1>7

LEMMA InitIInv == Init => IInv
<1> SUFFICES ASSUME Init PROVE IInv
  OBVIOUS
<1>1. TypeOK
  BY InitTypeOK
<1>2. Stored
  BY DEF Init, StoreInit, Stored, NoRun
<1>3. OneRunPerOperation
  BY DEF Init, StoreInit, OneRunPerOperation
<1>4. ClaimsAreDistinct
  BY DEF Init, ClaimsAreDistinct
<1>5. OneEffectPerClaim
  BY DEF Init, OneEffectPerClaim, BeforeReply, BeforeDelegation
<1> QED
  BY <1>1, <1>2, <1>3, <1>4, <1>5 DEF IInv

LEMMA NextIInv == IInv /\ [Next]_vars => IInv'
<1> SUFFICES ASSUME IInv, [Next]_vars PROVE IInv'
  OBVIOUS
<1>1. TypeOK'
  BY NextTypeOK DEF IInv
<1> QED
  BY <1>1, QuietShape, QuietKeeps, BuildKeeps, CommitKeeps, ClaimKeeps, GoesOnKeeps,
     ReturnsKeeps, CrashKeeps DEF IInv

\* A clientOperationId never yields two stored runs, whatever the number of
\* repeated requests, workers, crashes and retries.
THEOREM OperationsAreIdempotent == Spec => []OneRunPerOperation
<1>1. IInv => OneRunPerOperation
  BY DEF IInv
<1> QED
  BY <1>1, InitIInv, NextIInv, PTL DEF Spec

\* The claim number fences executions: no two executions of a job share it.
THEOREM ClaimsFence == Spec => []ClaimsAreDistinct
<1>1. IInv => ClaimsAreDistinct
  BY DEF IInv
<1> QED
  BY <1>1, InitIInv, NextIInv, PTL DEF Spec

\* One execution stores at most one reply and creates at most one child task,
\* even while another execution of the same job does the same.
THEOREM EffectsAreOncePerClaim == Spec => []OneEffectPerClaim
<1>1. IInv => OneEffectPerClaim
  BY DEF IInv
<1> QED
  BY <1>1, InitIInv, NextIInv, PTL DEF Spec

-----------------------------------------------------------------------------
(* Leases: no execution outlasts its lock.                                 *)

\* A job in a slot is locked, and by that slot alone.
HeldIsLocked ==
    \A s \in Slots : job[s] # NoRun => jobStatus[job[s]] = "running" /\ ~stale[job[s]]

LeaseInv == IInv /\ HeldIsLocked /\ LeaseIsExclusive

LEMMA InitLeaseInv == Init => LeaseInv
  BY InitIInv DEF LeaseInv, HeldIsLocked, LeaseIsExclusive, Init

-----------------------------------------------------------------------------
(* Each kind of step preserves the leases.                                 *)

LEMMA QuietKeepsLease ==
  ASSUME ~LongRuns, LeaseInv, Quiet
  PROVE  (HeldIsLocked /\ LeaseIsExclusive)'
<1>1. HeldIsLocked'
  <2> SUFFICES ASSUME NEW s \in Slots, job[s] # NoRun
               PROVE  jobStatus[job[s]] = "running" /\ ~stale'[job[s]]
    BY DEF HeldIsLocked, Quiet
  <2>1. job[s] \in Runs
    BY DEF LeaseInv, IInv, TypeOK
  <2> QED
    BY <2>1 DEF LeaseInv, HeldIsLocked, Quiet
<1>2. LeaseIsExclusive'
  BY DEF LeaseInv, LeaseIsExclusive, Quiet
<1> QED
  BY <1>1, <1>2

LEMMA RequestKeepsLease ==
  ASSUME LeaseInv, NEW n \in Runs, CommitMessage(n) \/ \E op \in Ops : BuildMessage(n, op)
  PROVE  (HeldIsLocked /\ LeaseIsExclusive)'
<1> USE DEF LeaseInv, IInv, TypeOK, StoreTypeOK, queueVars, slotVars
<1>1. UNCHANGED <<job, stale>>
  BY DEF CommitMessage, StoreCommit, StoreDuplicate, BuildMessage
<1>2. \/ UNCHANGED jobStatus
      \/ runStatus[n] = "none" /\ jobStatus' = [jobStatus EXCEPT ![n] = "queued"]
  <2>1. ASSUME CommitMessage(n), StoreCommit(n)
        PROVE  runStatus[n] = "none" /\ jobStatus' = [jobStatus EXCEPT ![n] = "queued"]
    BY <2>1 DEF CommitMessage, StoreCommit
  <2>2. ASSUME StoreDuplicate(n) PROVE UNCHANGED jobStatus
    BY <2>2 DEF StoreDuplicate
  <2>3. ASSUME NEW op \in Ops, BuildMessage(n, op) PROVE UNCHANGED jobStatus
    BY <2>3 DEF BuildMessage
  <2>4. CommitMessage(n) => StoreCommit(n) \/ StoreDuplicate(n)
    BY DEF CommitMessage
  <2> QED
    BY <2>1, <2>2, <2>3, <2>4
<1>3. HeldIsLocked'
  BY <1>1, <1>2 DEF HeldIsLocked, Stored
<1>4. LeaseIsExclusive'
  BY <1>1 DEF LeaseIsExclusive
<1> QED
  BY <1>3, <1>4

\* Only a job that nobody holds can be claimed.
LEMMA ClaimableIsFree ==
  ASSUME LeaseInv, NEW n \in Runs, Claimable(n)
  PROVE  \A t \in Slots : job[t] # n
<1>1. n # NoRun
  BY StoreAssumption DEF Runs, NoRun
<1> QED
  BY <1>1 DEF LeaseInv, HeldIsLocked, Claimable

\* What a claim does to the queue and the slots.
LEMMA ClaimEffect ==
  ASSUME LeaseInv, NEW s \in Slots, Claim(s)
  PROVE  \E n \in Runs :
            /\ n # NoRun
            /\ Claimable(n)
            /\ \A t \in Slots : job[t] # n
            /\ job[s] = NoRun
            /\ job' = [job EXCEPT ![s] = n]
            /\ jobStatus' = [jobStatus EXCEPT ![n] = "running"]
            /\ stale' = [stale EXCEPT ![n] = FALSE]
<1> PICK n \in Runs : ClaimJob(n) /\ job' = [job EXCEPT ![s] = n]
  BY DEF Claim
<1>1. n # NoRun
  BY StoreAssumption DEF Runs, NoRun
<1>2. job[s] = NoRun
  BY DEF Claim, At, LeaseInv, IInv, Stored
<1> QED
  BY <1>1, <1>2, ClaimableIsFree DEF ClaimJob

LEMMA ClaimKeepsLease ==
  ASSUME LeaseInv, NEW s \in Slots, Claim(s)
  PROVE  (HeldIsLocked /\ LeaseIsExclusive)'
<1> PICK n \in Runs : /\ n # NoRun
                      /\ \A t \in Slots : job[t] # n
                      /\ job' = [job EXCEPT ![s] = n]
                      /\ jobStatus' = [jobStatus EXCEPT ![n] = "running"]
                      /\ stale' = [stale EXCEPT ![n] = FALSE]
  BY ClaimEffect
<1> USE DEF LeaseInv, IInv, TypeOK, StoreTypeOK
<1>1. HeldIsLocked'
  BY DEF HeldIsLocked
<1>2. LeaseIsExclusive'
  BY DEF LeaseIsExclusive
<1> QED
  BY <1>1, <1>2

LEMMA GoesOnKeepsLease ==
  ASSUME LeaseInv, NEW s \in Slots, GoesOn(s)
  PROVE  (HeldIsLocked /\ LeaseIsExclusive)'
  BY DEF LeaseInv, HeldIsLocked, LeaseIsExclusive, GoesOn, queueVars

\* What a return does to the queue and the slots.
LEMMA ReturnEffect ==
  ASSUME LeaseInv, NEW s \in Slots, Returns(s)
  PROVE  /\ job[s] \in Runs
         /\ job[s] # NoRun
         /\ jobStatus[job[s]] = "running"
         /\ job' = [job EXCEPT ![s] = NoRun]
         /\ jobStatus' = [jobStatus EXCEPT ![job[s]] = jobStatus'[job[s]]]
         /\ jobStatus'[job[s]] \in {"queued", "completed", "failed"}
         /\ \A n \in Runs : n # job[s] => stale'[n] = stale[n]
         /\ \A t \in Slots : t # s => job[t] # job[s]
  BY DEF LeaseInv, IInv, TypeOK, Stored, HeldIsLocked, LeaseIsExclusive, Returns, Leave

LEMMA ReturnsKeepsLease ==
  ASSUME LeaseInv, NEW s \in Slots, Returns(s)
  PROVE  (HeldIsLocked /\ LeaseIsExclusive)'
<1> USE ReturnEffect DEF LeaseInv, IInv, TypeOK, StoreTypeOK
<1>1. HeldIsLocked'
  <2> SUFFICES ASSUME NEW t \in Slots, job'[t] # NoRun
               PROVE  jobStatus'[job'[t]] = "running" /\ ~stale'[job'[t]]
    BY DEF HeldIsLocked
  <2>1. t # s /\ job'[t] = job[t] /\ job[t] \in Runs /\ job[t] # job[s]
    OBVIOUS
  <2> QED
    BY <2>1 DEF HeldIsLocked
<1>2. LeaseIsExclusive'
  BY DEF LeaseIsExclusive
<1> QED
  BY <1>1, <1>2

LEMMA CrashKeepsLease ==
  ASSUME LeaseInv, NEW w \in Workers, Crash(w)
  PROVE  (HeldIsLocked /\ LeaseIsExclusive)'
<1>1. UNCHANGED <<jobStatus, stale>>
  BY DEF Crash, queueVars
<1>2. \A t \in Slots : job'[t] = NoRun \/ job'[t] = job[t]
  BY DEF Crash
<1>3. HeldIsLocked'
  BY <1>1, <1>2 DEF LeaseInv, HeldIsLocked
<1>4. LeaseIsExclusive'
  BY <1>2 DEF LeaseInv, LeaseIsExclusive
<1> QED
  BY <1>3, <1>4

LEMMA NextLeaseInv ==
  ASSUME ~LongRuns, LeaseInv, [Next]_vars
  PROVE  LeaseInv'
<1>1. IInv'
  BY NextIInv DEF LeaseInv
<1>2. TypeOK /\ Stored
  BY DEF LeaseInv, IInv
<1>3. (HeldIsLocked /\ LeaseIsExclusive)'
  BY <1>2, QuietShape, QuietKeepsLease, RequestKeepsLease, ClaimKeepsLease, GoesOnKeepsLease,
     ReturnsKeepsLease, CrashKeepsLease
<1> QED
  BY <1>1, <1>3 DEF LeaseInv

\* A job is executed by at most one slot of all the workers, through crashes,
\* restarts and reclaims, provided that no execution outlasts its lock.
THEOREM LeasesAreExclusive == ASSUME ~LongRuns PROVE Spec => []LeaseIsExclusive
<1>1. LeaseInv /\ [Next]_vars => LeaseInv'
  BY NextLeaseInv
<1>2. LeaseInv => LeaseIsExclusive
  BY DEF LeaseInv
<1> QED
  BY <1>1, <1>2, InitLeaseInv, PTL DEF Spec

-----------------------------------------------------------------------------
(* A settled job stays settled.                                            *)

LEMMA SettledStep ==
  ASSUME LeaseInv, [Next]_vars, NEW n \in Runs, jobStatus[n] \in Settled
  PROVE  jobStatus'[n] = jobStatus[n]
<1> USE DEF LeaseInv, IInv, TypeOK, StoreTypeOK, Settled
<1>1. CASE Quiet
  BY <1>1 DEF Quiet
<1>2. ASSUME NEW m \in Runs, CommitMessage(m) PROVE jobStatus'[n] = jobStatus[n]
  <2>1. ASSUME StoreCommit(m) PROVE jobStatus'[n] = jobStatus[n]
    BY <1>2, <2>1 DEF CommitMessage, StoreCommit, Stored
  <2>2. ASSUME StoreDuplicate(m) PROVE jobStatus'[n] = jobStatus[n]
    BY <2>2 DEF StoreDuplicate, queueVars
  <2> QED
    BY <1>2, <2>1, <2>2 DEF CommitMessage
<1>3. ASSUME NEW m \in Runs, NEW op \in Ops, BuildMessage(m, op)
      PROVE  jobStatus'[n] = jobStatus[n]
  BY <1>3 DEF BuildMessage, queueVars
<1>4. ASSUME NEW s \in Slots, Claim(s) PROVE jobStatus'[n] = jobStatus[n]
  <2>1. PICK m \in Runs : Claimable(m) /\ jobStatus' = [jobStatus EXCEPT ![m] = "running"]
    BY <1>4, ClaimEffect
  <2> QED
    BY <2>1 DEF Claimable
<1>5. ASSUME NEW s \in Slots, GoesOn(s) PROVE jobStatus'[n] = jobStatus[n]
  BY <1>5 DEF GoesOn, queueVars
<1>6. ASSUME NEW s \in Slots, Returns(s) PROVE jobStatus'[n] = jobStatus[n]
  BY <1>6, ReturnEffect
<1>7. ASSUME NEW w \in Workers, Crash(w) PROVE jobStatus'[n] = jobStatus[n]
  BY <1>7 DEF Crash, queueVars
<1> QED
  BY <1>1, <1>2, <1>3, <1>4, <1>5, <1>6, <1>7, QuietShape

\* Once a job is completed or failed it is never queued, claimed or failed
\* again, provided that no execution outlasts its lock.
THEOREM SettledIsForGood == ASSUME ~LongRuns PROVE Spec => SettledJobStaysSettled
<1>1. LeaseInv /\ [Next]_vars => LeaseInv'
  BY NextLeaseInv
<1>2. LeaseInv /\ [Next]_vars
        => [\A n \in Runs : jobStatus[n] \in Settled => jobStatus'[n] = jobStatus[n]]_vars
  BY SettledStep
<1> QED
  BY <1>1, <1>2, InitLeaseInv, PTL DEF Spec, SettledJobStaysSettled

-----------------------------------------------------------------------------
(* The refinement of LeaseQueue.                                           *)

\* The abstract state of a job depends on its row and on who holds it.
LEMMA SameLease ==
  ASSUME NEW n \in Runs, jobStatus'[n] = jobStatus[n], HoldersOf(n)' = HoldersOf(n)
  PROVE  leaseState'[n] = leaseState[n]
  BY DEF leaseState

\* When rows and slots stay, the abstract step is a stutter.
LEMMA StutterStep ==
  ASSUME UNCHANGED <<job, jobStatus>>
  PROVE  UNCHANGED <<leaseState, [s \in Slots |-> {n \in Runs : job[s] = n}]>>
  BY DEF leaseState, HoldersOf

LEMMA AddStep ==
  ASSUME LeaseInv, NEW n \in Runs, CommitMessage(n), StoreCommit(n)
  PROVE  LeaseQueue!Add(n)
<1>1. UNCHANGED job
  BY DEF CommitMessage, slotVars
<1>2. jobStatus[n] = "none" /\ jobStatus' = [jobStatus EXCEPT ![n] = "queued"]
  BY DEF CommitMessage, StoreCommit, LeaseInv, IInv, Stored
<1>3. jobStatus \in [Runs -> JobStatus]
  BY DEF LeaseInv, IInv, TypeOK, StoreTypeOK
<1>4. leaseState[n] = "absent"
  BY <1>2 DEF leaseState
<1>5. leaseState' = [leaseState EXCEPT ![n] = "ready"]
  BY <1>1, <1>2, <1>3 DEF leaseState, HoldersOf
<1> QED
  BY <1>1, <1>4, <1>5 DEF LeaseQueue!Add

\* A function that differs from another at one point only.
LEMMA OnePointUpdate ==
  ASSUME NEW S, NEW f, NEW g, f = [x \in S |-> f[x]], g = [x \in S |-> g[x]],
         NEW n \in S, \A x \in S : x # n => g[x] = f[x]
  PROVE  g = [f EXCEPT ![n] = g[n]]
  OBVIOUS

LEMMA LeaseUpdate ==
  ASSUME NEW n \in Runs, \A m \in Runs : m # n => leaseState'[m] = leaseState[m]
  PROVE  leaseState' = [leaseState EXCEPT ![n] = leaseState'[n]]
<1>1. leaseState = [m \in Runs |-> leaseState[m]]
  BY DEF leaseState
<1>2. leaseState' = [m \in Runs |-> leaseState'[m]]
  BY DEF leaseState
<1> HIDE DEF leaseState
<1> QED
  BY <1>1, <1>2, OnePointUpdate

LEMMA TakeStep ==
  ASSUME LeaseInv, NEW s \in Slots, Claim(s)
  PROVE  \E n \in Runs : LeaseQueue!Take(n, s)
<1> PICK n \in Runs : /\ n # NoRun
                      /\ Claimable(n)
                      /\ \A t \in Slots : job[t] # n
                      /\ job[s] = NoRun
                      /\ job' = [job EXCEPT ![s] = n]
                      /\ jobStatus' = [jobStatus EXCEPT ![n] = "running"]
  BY ClaimEffect
<1> USE DEF LeaseInv, IInv, TypeOK, StoreTypeOK
<1>1. HoldersOf(n) = {} /\ HoldersOf(n)' = {s}
  BY DEF HoldersOf
<1>2. ASSUME NEW m \in Runs, m # n PROVE HoldersOf(m)' = HoldersOf(m)
  <2>1. m # NoRun
    BY StoreAssumption DEF Runs, NoRun
  <2> QED
    BY <1>2, <2>1 DEF HoldersOf
<1>3. leaseState[n] \in {"ready", "orphaned"}
  BY <1>1 DEF leaseState, Claimable
<1>4. leaseState'[n] = "held"
  BY <1>1 DEF leaseState
<1>5. ASSUME NEW m \in Runs, m # n PROVE leaseState'[m] = leaseState[m]
  BY <1>2, <1>5, SameLease
<1>6. leaseState' = [leaseState EXCEPT ![n] = "held"]
  BY <1>4, <1>5, LeaseUpdate
<1>7. {m \in Runs : job[s] = m} = {}
  BY StoreAssumption DEF Runs, NoRun
<1>8. [t \in Slots |-> {m \in Runs : job'[t] = m}]
        = [[t \in Slots |-> {m \in Runs : job[t] = m}] EXCEPT ![s] = {n}]
  OBVIOUS
<1> QED
  BY <1>3, <1>6, <1>7, <1>8 DEF LeaseQueue!Take

LEMMA GiveUpStep ==
  ASSUME LeaseInv, NEW s \in Slots, Returns(s)
  PROVE  \E n \in Runs : \E to \in {"ready", "settled"} : LeaseQueue!GiveUp(n, s, to)
<1> USE DEF LeaseInv, IInv, TypeOK, StoreTypeOK
<1> PICK mine \in Runs : mine = job[s]
  BY ReturnEffect
<1> PICK next \in {"ready", "settled"} :
           next = IF jobStatus'[mine] = "queued" THEN "ready" ELSE "settled"
  OBVIOUS
<1>1. /\ mine # NoRun
      /\ jobStatus[mine] = "running"
      /\ job' = [job EXCEPT ![s] = NoRun]
      /\ jobStatus' = [jobStatus EXCEPT ![mine] = jobStatus'[mine]]
      /\ jobStatus'[mine] \in {"queued", "completed", "failed"}
  BY ReturnEffect
<1>2. leaseState'[mine] = next
  BY <1>1 DEF leaseState
<1>3. ASSUME NEW m \in Runs, m # mine PROVE leaseState'[m] = leaseState[m]
  <2>1. m # NoRun
    BY StoreAssumption DEF Runs, NoRun
  <2>2. HoldersOf(m)' = HoldersOf(m)
    BY <1>1, <1>3, <2>1 DEF HoldersOf
  <2> QED
    BY <1>1, <1>3, <2>2, SameLease
<1>4. leaseState' = [leaseState EXCEPT ![mine] = next]
  BY <1>1, <1>2, <1>3, LeaseUpdate
<1>5. {m \in Runs : job[s] = m} = {mine}
  BY <1>1
<1>6. {m \in Runs : NoRun = m} = {}
  BY StoreAssumption DEF Runs, NoRun
<1>7. [t \in Slots |-> {m \in Runs : job'[t] = m}]
        = [[t \in Slots |-> {m \in Runs : job[t] = m}] EXCEPT ![s] = {}]
  <2>1. \A t \in Slots : job'[t] = IF t = s THEN NoRun ELSE job[t]
    BY <1>1
  <2>2. ASSUME NEW t \in Slots, t # s
        PROVE  {m \in Runs : job'[t] = m} = {m \in Runs : job[t] = m}
    BY <2>1, <2>2
  <2>3. {m \in Runs : job'[s] = m} = {}
    BY <1>6, <2>1
  <2> DEFINE f == [t \in Slots |-> {m \in Runs : job[t] = m}]
             g == [t \in Slots |-> {m \in Runs : job'[t] = m}]
  <2>4. f = [t \in Slots |-> f[t]] /\ g = [t \in Slots |-> g[t]]
    OBVIOUS
  <2>5. g[s] = {} /\ \A t \in Slots : t # s => g[t] = f[t]
    BY <2>2, <2>3
  <2> HIDE DEF f, g
  <2>6. g = [f EXCEPT ![s] = g[s]]
    BY <2>4, <2>5, OnePointUpdate
  <2> QED
    BY <2>5, <2>6 DEF f, g
<1>8. LeaseQueue!GiveUp(mine, s, next)
  BY <1>4, <1>5, <1>7 DEF LeaseQueue!GiveUp
<1> QED
  BY <1>8

LEMMA VanishStep ==
  ASSUME LeaseInv, NEW w \in Workers, Crash(w)
  PROVE  \E H \in SUBSET Slots : LeaseQueue!Vanish(H)
<1> DEFINE H == {s \in Slots : WorkerOf[s] = w}
           held == [s \in Slots |-> {n \in Runs : job[s] = n}]
           lost == UNION {held[h] : h \in H}
<1> USE DEF LeaseInv, IInv, TypeOK, StoreTypeOK
<1>1. /\ job' = [s \in Slots |-> IF s \in H THEN NoRun ELSE job[s]]
      /\ UNCHANGED jobStatus
  BY DEF Crash, queueVars
<1>2. \A n \in Runs : n # NoRun
  BY StoreAssumption DEF Runs, NoRun
<1>3. ASSUME NEW n \in Runs, n \in lost PROVE leaseState'[n] = "orphaned"
  <2>1. PICK h \in H : job[h] = n
    BY <1>3
  <2>2. jobStatus[n] = "running"
    BY <1>2, <2>1 DEF HeldIsLocked
  <2>3. HoldersOf(n)' = {}
    BY <1>1, <1>2, <2>1 DEF HoldersOf, LeaseIsExclusive
  <2> QED
    BY <1>1, <2>2, <2>3 DEF leaseState
<1>4. ASSUME NEW n \in Runs, n \notin lost PROVE leaseState'[n] = leaseState[n]
  <2>1. \A h \in H : job[h] # n
    BY <1>4
  <2>2. HoldersOf(n)' = HoldersOf(n)
    BY <1>1, <1>2, <2>1 DEF HoldersOf
  <2> QED
    BY <1>1, <2>2, SameLease
<1>5. leaseState' = [n \in Runs |-> IF n \in lost THEN "orphaned" ELSE leaseState[n]]
  BY <1>3, <1>4 DEF leaseState
<1>6. [s \in Slots |-> {n \in Runs : job'[s] = n}]
        = [s \in Slots |-> IF s \in H THEN {} ELSE held[s]]
  BY <1>1, <1>2
<1>7. LeaseQueue!Vanish(H)
  BY <1>5, <1>6 DEF LeaseQueue!Vanish
<1> QED
  BY <1>7

\* The queue tables and the slots of all the workers implement a queue with
\* exclusive leases, provided that no execution outlasts its lock.
THEOREM QueueRefinesLeases == ASSUME ~LongRuns PROVE Spec => ImplementsLeaseQueue
<1>1. Init => LeaseQueue!Init
  BY StoreAssumption
     DEF Init, StoreInit, LeaseQueue!Init, leaseState, HoldersOf, Runs, NoRun
<1>2. LeaseInv /\ [Next]_vars => LeaseInv'
  BY NextLeaseInv
<1>3. ASSUME LeaseInv, [Next]_vars
      PROVE  [LeaseQueue!Next]_<<leaseState, [s \in Slots |-> {n \in Runs : job[s] = n}]>>
  <2>1. CASE Quiet
    BY <2>1, StutterStep DEF Quiet
  <2>2. ASSUME NEW n \in Runs, CommitMessage(n)
        PROVE  LeaseQueue!Add(n) \/ UNCHANGED <<job, jobStatus>>
    <3>1. ASSUME StoreDuplicate(n) PROVE UNCHANGED <<job, jobStatus>>
      BY <2>2, <3>1 DEF CommitMessage, StoreDuplicate, slotVars, queueVars
    <3> QED
      BY <1>3, <2>2, <3>1, AddStep DEF CommitMessage
  <2>3. ASSUME NEW n \in Runs, NEW op \in Ops, BuildMessage(n, op)
        PROVE  UNCHANGED <<job, jobStatus>>
    BY <2>3 DEF BuildMessage, slotVars, queueVars
  <2>4. ASSUME NEW s \in Slots, GoesOn(s) PROVE UNCHANGED <<job, jobStatus>>
    BY <2>4 DEF GoesOn, queueVars
  <2>5. TypeOK /\ Stored
    BY <1>3 DEF LeaseInv, IInv
  <2> QED
    BY <1>3, <2>1, <2>2, <2>3, <2>4, <2>5, QuietShape, StutterStep, TakeStep, GiveUpStep,
       VanishStep DEF LeaseQueue!Next
<1> QED
  BY <1>1, <1>2, <1>3, InitLeaseInv, PTL DEF Spec, ImplementsLeaseQueue, LeaseQueue!Spec

-----------------------------------------------------------------------------
(* Completed runs and waiting tasks.                                       *)

\* An execution about to complete its run has stored its reply, one about to
\* let the task wait has created the child.
OutcomeIsReady ==
    \A s \in Slots :
        /\ pc[s] = "completed" => answers[job[s]] # {}
        /\ pc[s] = "parent" => children[job[s]] # {}

OutcomeInv == IInv /\ NoHollowOutcome /\ OutcomeIsReady

\* A step that stores no outcome and comes no closer to storing one.
NoOutcome ==
    /\ UNCHANGED outcomeVars
    /\ \A t \in Slots : pc'[t] \in {"completed", "parent"} =>
          pc'[t] = pc[t] /\ job'[t] = job[t]
    /\ \A n \in Runs : runStatus'[n] = "completed" => runStatus[n] = "completed"

LEMMA NoOutcomeKeeps ==
  ASSUME OutcomeInv, NoOutcome
  PROVE  (NoHollowOutcome /\ OutcomeIsReady)'
<1>1. UNCHANGED <<answers, children, task>>
  BY DEF NoOutcome, outcomeVars
<1>2. NoHollowOutcome'
  BY <1>1 DEF OutcomeInv, NoHollowOutcome, NoOutcome
<1>3. OutcomeIsReady'
  BY <1>1 DEF OutcomeInv, OutcomeIsReady, NoOutcome
<1> QED
  BY <1>2, <1>3

\* The statements of process that store nothing of a run's outcome.
Silent(s) ==
    \/ Claim(s) \/ ReadRun(s) \/ SkipJob(s) \/ Prepare(s) \/ GiveUp(s)
    \/ StartRun(s) \/ SetAgentRunning(s) \/ MockTurn(s)
    \/ ResumeThread(s) \/ StartThread(s) \/ StartTurn(s) \/ Connect(s)
    \/ RequestApproval(s) \/ AwaitApproval(s) \/ SeeDecision(s) \/ ResumeRun(s)
    \/ FinishTurn(s) \/ KeepTask(s) \/ SetAgentIdle(s) \/ FinishJob(s)
    \/ SeeAbort(s) \/ Catch(s) \/ DropJob(s)
    \/ FailRun(s) \/ SetFailedAgentIdle(s) \/ RetryJob(s)

\* An execution that goes from one statement to another of no outcome.
LEMMA ContinueIsSilent ==
  ASSUME TypeOK, NEW s \in Slots, NEW from, NEW to, Continue(s, from, to),
         to \notin {"completed", "parent"}, UNCHANGED <<outcomeVars, runStatus>>
  PROVE  NoOutcome
<1>1. pc' = [pc EXCEPT ![s] = to] /\ UNCHANGED job
  BY DEF Continue, Goto
<1> QED
  BY <1>1 DEF NoOutcome, TypeOK

LEMMA WriteIsSilent ==
  ASSUME TypeOK, NEW s \in Slots, NEW from, NEW to, NEW st, WriteRun(s, from, st, to),
         to \notin {"completed", "parent"}, st # "completed"
  PROVE  NoOutcome
<1>1. pc' = [pc EXCEPT ![s] = to] /\ UNCHANGED <<job, outcomeVars>>
  BY DEF WriteRun, Continue, Goto
<1>2. runStatus' = [runStatus EXCEPT ![job[s]] = st]
  BY DEF WriteRun, PutRun
<1> QED
  BY <1>1, <1>2 DEF NoOutcome, TypeOK, StoreTypeOK

LEMMA LeaveIsSilent ==
  ASSUME TypeOK, NEW s \in Slots, NEW finally, Leave(s, finally),
         UNCHANGED <<outcomeVars, runStatus>>
  PROVE  NoOutcome
<1>1. pc' = [pc EXCEPT ![s] = "idle"] /\ job' = [job EXCEPT ![s] = NoRun]
  BY DEF Leave, Goto
<1> QED
  BY <1>1 DEF NoOutcome, TypeOK

LEMMA SilentShape ==
  ASSUME TypeOK, NEW s \in Slots, Silent(s) \/ Throw(s)
  PROVE  NoOutcome
<1>1. CASE Claim(s)
  <2>1. pc' = [pc EXCEPT ![s] = "read"] /\ UNCHANGED <<outcomeVars, runStatus>>
    BY <1>1 DEF Claim, Goto
  <2>2. \A t \in Slots : t # s => job'[t] = job[t]
    BY <1>1 DEF Claim, TypeOK
  <2> QED
    BY <2>1, <2>2 DEF NoOutcome, TypeOK
<1>2. CASE Prepare(s)
  <2>1. \E to \in {"started", "giveUp"} : pc' = [pc EXCEPT ![s] = to]
    BY <1>2 DEF Prepare, Goto
  <2>2. UNCHANGED <<job, outcomeVars, runStatus>>
    BY <1>2 DEF Prepare
  <2> QED
    BY <2>1, <2>2 DEF NoOutcome, TypeOK
<1>3. CASE ReadRun(s)
  BY <1>3, ContinueIsSilent DEF ReadRun
<1>4. CASE Catch(s)
  BY <1>4, ContinueIsSilent DEF Catch
<1>5. CASE SetAgentRunning(s) \/ StartThread(s) \/ SetAgentIdle(s) \/ SetFailedAgentIdle(s)
  BY <1>5, ContinueIsSilent
     DEF SetAgentRunning, StartThread, SetAgentIdle, SetFailedAgentIdle, WriteAgent
<1>6. CASE MockTurn(s) \/ ResumeThread(s) \/ Connect(s) \/ RequestApproval(s)
  <2>1. UNCHANGED <<outcomeVars, runStatus>>
    BY <1>6 DEF MockTurn, ResumeThread, Connect, RequestApproval
  <2> QED
    BY <1>6, <2>1, ContinueIsSilent DEF MockTurn, ResumeThread, Connect, RequestApproval
<1>7. CASE SeeDecision(s) \/ FinishTurn(s) \/ KeepTask(s) \/ SeeAbort(s)
  BY <1>7, ContinueIsSilent DEF SeeDecision, FinishTurn, KeepTask, SeeAbort
<1>8. CASE Throw(s)
  BY <1>8, ContinueIsSilent DEF Throw
<1>9. CASE StartRun(s) \/ StartTurn(s) \/ AwaitApproval(s) \/ ResumeRun(s) \/ FailRun(s)
  BY <1>9, WriteIsSilent DEF StartRun, StartTurn, AwaitApproval, ResumeRun, FailRun
<1>10. CASE SkipJob(s) \/ GiveUp(s) \/ FinishJob(s) \/ DropJob(s) \/ RetryJob(s)
  BY <1>10, LeaveIsSilent DEF SkipJob, GiveUp, FinishJob, DropJob, RetryJob
<1> QED
  BY <1>1, <1>2, <1>3, <1>4, <1>5, <1>6, <1>7, <1>8, <1>9, <1>10 DEF Silent

\* Requests, interrupts, approvals, time, deletions and processes store none.
LEMMA AroundIsSilent ==
  ASSUME TypeOK, [Next]_vars, \A s \in Slots : ~Execute(s) /\ ~Throw(s)
  PROVE  NoOutcome
<1> USE DEF TypeOK, StoreTypeOK, NoOutcome, slotVars
<1>1. ASSUME NEW n \in Runs, NEW op \in Ops, BuildMessage(n, op) PROVE NoOutcome
  BY <1>1 DEF BuildMessage
<1>2. ASSUME NEW n \in Runs, CommitMessage(n) PROVE NoOutcome
  <2>1. UNCHANGED runStatus \/ runStatus' = [runStatus EXCEPT ![n] = "queued"]
    BY <1>2 DEF CommitMessage, StoreCommit, StoreDuplicate, PutRun
  <2> QED
    BY <1>2, <2>1 DEF CommitMessage
<1>3. ASSUME NEW n \in Runs, NEW w \in Workers, RequestInterrupt(n, w) PROVE NoOutcome
  BY <1>3 DEF RequestInterrupt
<1>4. ASSUME NEW n \in Runs, Interrupting(n) PROVE NoOutcome
  <2>1. CASE AbortExecution(n)
    BY <2>1 DEF AbortExecution
  <2>2. CASE PutInterrupted(n)
    BY <2>2 DEF PutInterrupted, PutRun
  <2>3. CASE ReadInterruptedAgent(n) \/ IdleInterruptedAgent(n)
    BY <2>3 DEF ReadInterruptedAgent, IdleInterruptedAgent
  <2> QED
    BY <1>4, <2>1, <2>2, <2>3 DEF Interrupting
<1>5. ASSUME NEW n \in Runs, ResolveApproval(n) \/ ApprovalLapses(n) \/ Time(n) PROVE NoOutcome
  BY <1>5 DEF ResolveApproval, ApprovalLapses, Time, RetryDelayEnds, LockAges
<1>6. ASSUME NEW a \in Agents, CheckRemoval(a) \/ DeleteAgent(a) PROVE NoOutcome
  BY <1>6 DEF CheckRemoval, DeleteAgent
<1>7. ASSUME NEW w \in Workers, Crash(w) PROVE NoOutcome
  BY <1>7 DEF Crash
<1>8. ASSUME NEW w \in Workers, Stop(w) \/ Restart(w) PROVE NoOutcome
  BY <1>8 DEF Stop, Restart
<1>9. CASE UNCHANGED vars
  BY <1>9 DEF vars
<1> QED
  BY <1>1, <1>2, <1>3, <1>4, <1>5, <1>6, <1>7, <1>8, <1>9 DEF Next

\* The five statements that store an outcome.
LEMMA OutcomeStep ==
  ASSUME OutcomeInv, NEW s \in Slots,
         Delegate(s) \/ ParentWaits(s) \/ FinishTask(s) \/ StoreReply(s) \/ CompleteRun(s)
  PROVE  (NoHollowOutcome /\ OutcomeIsReady)'
<1> USE DEF OutcomeInv, IInv, TypeOK, StoreTypeOK, Continue, At, Goto, NoHollowOutcome,
            OutcomeIsReady
<1>1. job[s] \in Runs
  BY DEF Stored, Delegate, ParentWaits, FinishTask, StoreReply, CompleteRun, WriteRun
<1>2. CASE Delegate(s)
  <2>1. /\ pc' = [pc EXCEPT ![s] = "parent"]
        /\ children' = [children EXCEPT ![job[s]] = children[job[s]] \cup {claim[s]}]
        /\ UNCHANGED <<job, runStatus, answers, task>>
    BY <1>2 DEF Delegate
  <2>2. \A n \in Runs : children[n] # {} => children'[n] # {}
    BY <1>1, <2>1
  <2>3. children'[job[s]] # {}
    BY <1>1, <2>1
  <2>4. NoHollowOutcome'
    BY <2>1, <2>2
  <2>5. \A t \in Slots : pc[t] = "parent" => job[t] \in Runs
    BY DEF Stored
  <2>6. OutcomeIsReady'
    BY <1>1, <2>1, <2>2, <2>3, <2>5
  <2> QED
    BY <2>4, <2>6
<1>3. CASE ParentWaits(s)
  <2>1. /\ pc[s] = "parent"
        /\ pc' = [pc EXCEPT ![s] = "reply"]
        /\ task' = [task EXCEPT ![job[s]] = "waiting_agent"]
        /\ UNCHANGED <<job, runStatus, answers, children>>
    BY <1>3 DEF ParentWaits
  <2> QED
    BY <1>1, <2>1
<1>4. CASE FinishTask(s)
  <2>1. /\ pc' = [pc EXCEPT ![s] = "reply"]
        /\ task' = [task EXCEPT ![job[s]] = "completed"]
        /\ UNCHANGED <<job, runStatus, answers, children>>
    BY <1>4 DEF FinishTask
  <2> QED
    BY <1>1, <2>1
<1>5. CASE StoreReply(s)
  <2>1. /\ pc' = [pc EXCEPT ![s] = "completed"]
        /\ answers' = [answers EXCEPT ![job[s]] = answers[job[s]] \cup {claim[s]}]
        /\ UNCHANGED <<job, runStatus, children, task>>
    BY <1>5 DEF StoreReply
  <2>2. \A n \in Runs : answers[n] # {} => answers'[n] # {}
    BY <1>1, <2>1
  <2>3. answers'[job[s]] # {}
    BY <1>1, <2>1
  <2>4. NoHollowOutcome'
    BY <2>1, <2>2
  <2>5. \A t \in Slots : pc[t] = "completed" => job[t] \in Runs
    BY DEF Stored
  <2>6. OutcomeIsReady'
    BY <1>1, <2>1, <2>2, <2>3, <2>5
  <2> QED
    BY <2>4, <2>6
<1>6. CASE CompleteRun(s)
  <2>1. /\ pc[s] = "completed"
        /\ pc' = [pc EXCEPT ![s] = "rest"]
        /\ runStatus' = [runStatus EXCEPT ![job[s]] = "completed"]
        /\ UNCHANGED <<job, answers, children, task>>
    BY <1>6 DEF CompleteRun, WriteRun, PutRun, outcomeVars
  <2> QED
    BY <1>1, <2>1
<1> QED
  BY <1>2, <1>3, <1>4, <1>5, <1>6

\* A run shown as completed has a reply and a waiting task has a child,
\* whatever crashes, repeats, is interrupted, deleted or outlasts its lock.
THEOREM OutcomesAreReal == Spec => []NoHollowOutcome
<1>1. Init => OutcomeInv
  BY InitIInv DEF Init, StoreInit, OutcomeInv, NoHollowOutcome, OutcomeIsReady
<1>2. ASSUME OutcomeInv, [Next]_vars PROVE OutcomeInv'
  <2>1. IInv' /\ TypeOK
    BY <1>2, NextIInv DEF OutcomeInv, IInv
  <2>2. \/ \E s \in Slots : \/ Silent(s) \/ Throw(s)
                            \/ Delegate(s) \/ ParentWaits(s) \/ FinishTask(s)
                            \/ StoreReply(s) \/ CompleteRun(s)
        \/ \A s \in Slots : ~Execute(s) /\ ~Throw(s)
    BY DEF Execute, Silent
  <2> QED
    BY <1>2, <2>1, <2>2, SilentShape, AroundIsSilent, NoOutcomeKeeps, OutcomeStep DEF OutcomeInv
<1>3. OutcomeInv => NoHollowOutcome
  BY DEF OutcomeInv
<1> QED
  BY <1>1, <1>2, <1>3, PTL DEF Spec

-----------------------------------------------------------------------------
(* Calm times: crashes and errors, but nobody interrupts, stops or deletes *)
(* and no execution outlasts its lock.                                     *)

Calm == ~LongRuns /\ MaxInterrupts = 0 /\ MaxStops = 0 /\ MaxDeletes = 0

\* No execution is cut short other than by an error.
Tranquil ==
    /\ \A s \in Slots : ~aborted[s] /\ pc[s] \notin {"skip", "giveUp", "drop"}
    /\ \A n \in Runs : interrupt[n] = "none" /\ runStatus[n] # "interrupted"
    /\ \A a \in Agents : exists[a] /\ ~removing[a]

\* The last statements of an execution find the run in its final state.
EndIsFinal ==
    \A s \in Slots :
        /\ pc[s] \in {"rest", "complete"} => runStatus[job[s]] = "completed"
        /\ pc[s] \in {"failedRest", "retry"} => runStatus[job[s]] = "failed"

\* Run n is of agent a, and nobody is about to settle its job.
Occupies(n, a) ==
    /\ runStatus[n] # "none"
    /\ AgentOf(n) = a
    /\ jobStatus[n] \in {"queued", "running"}
    /\ \A s \in Slots : job[s] = n => pc[s] \notin {"complete", "retry"}

WorkingIsOccupied == \A a \in Agents : working[a] => \E n \in Runs : Occupies(n, a)

CalmInv ==
    LeaseInv /\ Tranquil /\ EndIsFinal /\ NoRunLost /\ WorkingIsOccupied

-----------------------------------------------------------------------------
(* What the steps have in common.                                          *)

\* A step that none of the four parts can tell.
Still ==
    /\ UNCHANGED <<pc, job, opOf, jobStatus, runStatus, working>>
    /\ UNCHANGED <<aborted, interrupt, removing, exists>>

\* An execution goes on and writes the run, the agent or neither.
Proceeds(s) ==
    /\ pc[s] # "idle"
    /\ pc' = [pc EXCEPT ![s] = pc'[s]]
    /\ pc'[s] \notin {"idle", "skip", "giveUp", "drop"}
    /\ UNCHANGED <<job, opOf, jobStatus, aborted, interrupt, removing>>
Passes(s) ==
    /\ Proceeds(s)
    /\ pc'[s] \notin {"rest", "complete", "failedRest", "retry"}
    /\ UNCHANGED <<runStatus, working, exists>>
Writes(s, st) ==
    /\ Proceeds(s)
    /\ pc'[s] \notin {"complete", "retry"}
    /\ pc'[s] = "rest" => st = "completed"
    /\ pc'[s] = "failedRest" => st = "failed"
    /\ PutRun(job[s], st)
    /\ UNCHANGED <<working, exists>>
Occupying(s) ==
    /\ Proceeds(s)
    /\ pc'[s] \notin {"rest", "complete", "failedRest", "retry"}
    /\ PutAgent(AgentOf(job[s]), TRUE)
    /\ UNCHANGED runStatus
Resting(s) ==
    /\ Proceeds(s)
    /\ \/ pc[s] = "rest" /\ pc'[s] = "complete"
       \/ pc[s] = "failedRest" /\ pc'[s] = "retry"
    /\ PutAgent(AgentOf(job[s]), FALSE)
    /\ UNCHANGED runStatus
\* It returns from its last statement.
Ends(s) ==
    /\ pc[s] \in {"complete", "retry"}
    /\ Returns(s)
    /\ UNCHANGED <<working, exists, removing>>

\* A job in a slot is for an agent that there was.
LEMMA HeldAgent ==
  ASSUME IInv, NEW s \in Slots, pc[s] # "idle"
  PROVE  job[s] \in Runs /\ AgentOf(job[s]) \in Agents
<1>1. job[s] \in Runs /\ runStatus[job[s]] # "none"
  BY DEF IInv, Stored, TypeOK
<1>2. opOf[job[s]] \in Ops
  BY <1>1 DEF IInv, OneRunPerOperation, TypeOK, StoreTypeOK
<1> QED
  BY <1>1, <1>2, StoreAssumption DEF AgentOf

LEMMA ExecuteInCalm ==
  ASSUME CalmInv, NEW s \in Slots, Execute(s) \/ Throw(s)
  PROVE  \/ Claim(s) \/ Passes(s) \/ Occupying(s) \/ Resting(s) \/ Ends(s)
         \/ \E st \in RunStatus \ {"none", "interrupted"} : Writes(s, st)
<1>1. TypeOK /\ Stored /\ Tranquil
  BY DEF CalmInv, LeaseInv, IInv
<1> USE <1>1 DEF TypeOK, StoreTypeOK, At, Goto, Continue, Proceeds, requestVars, queueVars,
                 agentVars, interruptVars, processVars
<1>0. pc[s] # "idle" => job[s] \in Runs /\ AgentOf(job[s]) \in Agents
  BY HeldAgent DEF CalmInv, LeaseInv
<1>15. CASE ReadRun(s)
  BY <1>0, <1>15 DEF ReadRun, Passes, Tranquil
<1>16. CASE StoreReply(s) \/ SeeAbort(s)
  BY <1>16 DEF StoreReply, SeeAbort, Passes
<1>17. CASE Catch(s)
  BY <1>0, <1>17 DEF Catch, Passes, Tranquil
<1>2. CASE MockTurn(s) \/ ResumeThread(s) \/ Connect(s) \/ RequestApproval(s)
  BY <1>2 DEF MockTurn, ResumeThread, Connect, RequestApproval, Passes
<1>3. CASE SeeDecision(s) \/ FinishTurn(s) \/ Delegate(s) \/ ParentWaits(s) \/ FinishTask(s)
  BY <1>3 DEF SeeDecision, FinishTurn, Delegate, ParentWaits, FinishTask, Passes
<1>4. CASE KeepTask(s)
  BY <1>4 DEF KeepTask, Passes
<1>5. CASE Throw(s)
  BY <1>5 DEF Throw, TryStep, Passes
<1>6. CASE Prepare(s)
  BY <1>0, <1>6 DEF Prepare, Passes, Tranquil
<1>7. CASE SetAgentRunning(s) \/ StartThread(s)
  BY <1>7 DEF SetAgentRunning, StartThread, WriteAgent, PutAgent, Occupying
<1>8. CASE SetAgentIdle(s) \/ SetFailedAgentIdle(s)
  BY <1>8 DEF SetAgentIdle, SetFailedAgentIdle, WriteAgent, PutAgent, Resting
<1>9. ASSUME NEW st \in RunStatus \ {"none", "interrupted"}, NEW from, NEW to,
             from # "idle", to \notin {"idle", "complete", "retry", "skip", "giveUp", "drop"},
             to = "rest" => st = "completed", to = "failedRest" => st = "failed",
             WriteRun(s, from, st, to)
      PROVE  Writes(s, st)
  BY <1>9 DEF WriteRun, Writes
<1>10. CASE StartRun(s) \/ StartTurn(s) \/ ResumeRun(s)
  BY <1>9, <1>10 DEF StartRun, StartTurn, ResumeRun, RunStatus
<1>11. CASE AwaitApproval(s)
  BY <1>9, <1>11 DEF AwaitApproval, RunStatus
<1>12. CASE CompleteRun(s) \/ FailRun(s)
  BY <1>9, <1>12 DEF CompleteRun, FailRun, RunStatus
<1>13. CASE SkipJob(s) \/ GiveUp(s) \/ DropJob(s)
  BY <1>13 DEF SkipJob, GiveUp, DropJob, Tranquil
<1>14. CASE FinishJob(s) \/ RetryJob(s)
  <2>1. pc[s] \in {"complete", "retry"} /\ UNCHANGED working
    BY <1>14 DEF FinishJob, RetryJob
  <2>4. UNCHANGED <<exists, removing>>
    BY <1>14 DEF FinishJob, RetryJob, processVars
  <2>2. Returns(s) \/ Claim(s) \/ GoesOn(s)
    BY <1>14, ExecuteShape DEF Execute
  <2>3. pc'[s] = "idle"
    BY <1>14 DEF FinishJob, RetryJob, Leave
  <2> QED
    BY <2>1, <2>2, <2>3, <2>4 DEF Ends, Claim, GoesOn
<1> QED
  BY <1>2, <1>3, <1>4, <1>5, <1>6, <1>7, <1>8, <1>10, <1>11, <1>12, <1>13, <1>14,
     <1>15, <1>16, <1>17 DEF Execute

\* Nobody interrupts, stops or deletes.
LEMMA AroundInCalm ==
  ASSUME Calm, CalmInv, [Next]_vars, \A s \in Slots : ~Execute(s) /\ ~Throw(s)
  PROVE  \/ Still
         \/ \E n \in Runs : CommitMessage(n) \/ \E op \in Ops : BuildMessage(n, op)
         \/ \E w \in Workers : Crash(w)
<1>1. TypeOK /\ Tranquil
  BY DEF CalmInv, LeaseInv, IInv
<1> USE <1>1 DEF TypeOK, Still, requestVars, queueVars, agentVars, slotVars, interruptVars,
                 processVars
<1>2. ASSUME NEW n \in Runs, NEW w \in Workers, RequestInterrupt(n, w) PROVE FALSE
  BY <1>2 DEF RequestInterrupt, Calm
<1>3. ASSUME NEW n \in Runs, Interrupting(n) PROVE FALSE
  BY <1>3 DEF Interrupting, AbortExecution, PutInterrupted, ReadInterruptedAgent,
              IdleInterruptedAgent, Tranquil
<1>4. ASSUME NEW n \in Runs, ResolveApproval(n) \/ ApprovalLapses(n) \/ Time(n) PROVE Still
  BY <1>4 DEF ResolveApproval, ApprovalLapses, Time, RetryDelayEnds, LockAges, BackoffElapses,
              LockExpires
<1>5. ASSUME NEW a \in Agents, CheckRemoval(a) \/ DeleteAgent(a) PROVE FALSE
  BY <1>5 DEF CheckRemoval, DeleteAgent, Tranquil, Calm
<1>6. ASSUME NEW w \in Workers, Stop(w) PROVE FALSE
  BY <1>6 DEF Stop, Calm
<1>7. ASSUME NEW w \in Workers, Restart(w) PROVE Still
  BY <1>7 DEF Restart
<1>8. CASE UNCHANGED vars
  BY <1>8 DEF vars
<1> QED
  BY <1>2, <1>3, <1>4, <1>5, <1>6, <1>7, <1>8 DEF Next

-----------------------------------------------------------------------------
(* Tranquillity.                                                           *)

LEMMA TranquilStep ==
  ASSUME Calm, CalmInv, [Next]_vars
  PROVE  Tranquil'
<1>1. IInv /\ TypeOK /\ Tranquil
  BY DEF CalmInv, LeaseInv, IInv
<1> USE <1>1 DEF TypeOK, StoreTypeOK, Tranquil
<1>2. CASE Still
  BY <1>2 DEF Still
<1>3. ASSUME NEW n \in Runs, CommitMessage(n) \/ \E op \in Ops : BuildMessage(n, op)
      PROVE  Tranquil'
  <2>1. UNCHANGED runStatus \/ runStatus' = [runStatus EXCEPT ![n] = "queued"]
    BY <1>3 DEF CommitMessage, StoreCommit, StoreDuplicate, PutRun, BuildMessage
  <2>2. UNCHANGED <<aborted, pc, interrupt, exists, removing>>
    BY <1>3 DEF CommitMessage, BuildMessage, slotVars, interruptVars, agentVars, processVars
  <2> QED
    BY <2>1, <2>2
<1>4. ASSUME NEW w \in Workers, Crash(w) PROVE Tranquil'
  BY <1>4 DEF Crash, agentVars
<1>5. ASSUME NEW s \in Slots, Claim(s) PROVE Tranquil'
  BY <1>5 DEF Claim, Goto, agentVars, interruptVars, processVars
<1>6. ASSUME NEW s \in Slots, Passes(s) PROVE Tranquil'
  BY <1>6 DEF Passes, Proceeds
<1>7. ASSUME NEW s \in Slots, NEW st \in RunStatus \ {"none", "interrupted"}, Writes(s, st)
      PROVE  Tranquil'
  BY <1>7 DEF Writes, Proceeds, PutRun
<1>8. ASSUME NEW s \in Slots, Occupying(s) \/ Resting(s) PROVE Tranquil'
  <2>1. exists' = [exists EXCEPT ![AgentOf(job[s])] = TRUE]
    BY <1>8 DEF Occupying, Resting, PutAgent
  <2>2. \A a \in Agents : exists'[a]
    BY <2>1
  <2>3. Proceeds(s) /\ UNCHANGED runStatus
    BY <1>8 DEF Occupying, Resting
  <2>4. UNCHANGED <<aborted, interrupt, removing>>
    BY <2>3 DEF Proceeds
  <2>5. \A t \in Slots : pc'[t] \notin {"skip", "giveUp", "drop"}
    BY <2>3 DEF Proceeds
  <2> QED
    BY <2>2, <2>3, <2>4, <2>5
<1>9. ASSUME NEW s \in Slots, Ends(s) PROVE Tranquil'
  BY <1>9 DEF Ends, Returns, Leave, Goto
<1> QED
  BY <1>2, <1>3, <1>4, <1>5, <1>6, <1>7, <1>8, <1>9, ExecuteInCalm, AroundInCalm

-----------------------------------------------------------------------------
(* The other parts.                                                        *)

LEMMA EndStep ==
  ASSUME Calm, CalmInv, [Next]_vars
  PROVE  EndIsFinal'
<1>1. TypeOK /\ Stored /\ EndIsFinal /\ LeaseIsExclusive
  BY DEF CalmInv, LeaseInv, IInv
<1> USE <1>1 DEF TypeOK, StoreTypeOK, EndIsFinal
<1>2. CASE Still
  BY <1>2 DEF Still
<1>3. ASSUME NEW n \in Runs, CommitMessage(n) \/ \E op \in Ops : BuildMessage(n, op)
      PROVE  EndIsFinal'
  <2>1. \A m \in Runs : runStatus[m] # "none" => runStatus'[m] = runStatus[m]
    BY <1>3 DEF CommitMessage, StoreCommit, StoreDuplicate, PutRun, BuildMessage
  <2>2. UNCHANGED <<pc, job>>
    BY <1>3 DEF CommitMessage, BuildMessage, slotVars
  <2> QED
    BY <2>1, <2>2 DEF Stored
<1>4. ASSUME NEW w \in Workers, Crash(w) PROVE EndIsFinal'
  BY <1>4 DEF Crash
<1>5. ASSUME NEW s \in Slots, Claim(s) PROVE EndIsFinal'
  <2>1. \A t \in Slots : t # s => job'[t] = job[t] /\ pc'[t] = pc[t]
    BY <1>5 DEF Claim, Goto
  <2>2. pc'[s] = "read" /\ UNCHANGED runStatus
    BY <1>5 DEF Claim, Goto
  <2> QED
    BY <2>1, <2>2
<1>6. ASSUME NEW s \in Slots, Passes(s) \/ Occupying(s) PROVE EndIsFinal'
  BY <1>6 DEF Passes, Occupying, Proceeds
<1>7. ASSUME NEW s \in Slots, NEW st \in RunStatus \ {"none", "interrupted"}, Writes(s, st)
      PROVE  EndIsFinal'
  <2> SUFFICES ASSUME NEW t \in Slots
               PROVE  /\ pc'[t] \in {"rest", "complete"} => runStatus'[job'[t]] = "completed"
                      /\ pc'[t] \in {"failedRest", "retry"} => runStatus'[job'[t]] = "failed"
    OBVIOUS
  <2>1. job[s] \in Runs
    BY <1>7 DEF Writes, Proceeds, Stored
  <2>2. CASE t = s
    BY <1>7, <2>1, <2>2 DEF Writes, Proceeds, PutRun
  <2>3. CASE t # s
    <3>1. job[t] # job[s]
      BY <1>7, <2>3 DEF Writes, Proceeds, Stored, LeaseIsExclusive
    <3>2. pc'[t] = pc[t] /\ job'[t] = job[t] /\ runStatus'[job[t]] = runStatus[job[t]]
      BY <1>7, <2>3, <3>1 DEF Writes, Proceeds, PutRun
    <3> QED
      BY <3>2
  <2> QED
    BY <2>2, <2>3
<1>8. ASSUME NEW s \in Slots, Resting(s) PROVE EndIsFinal'
  BY <1>8 DEF Resting, Proceeds
<1>9. ASSUME NEW s \in Slots, Ends(s) PROVE EndIsFinal'
  BY <1>9 DEF Ends, Returns, Leave, Goto
<1> QED
  BY <1>2, <1>3, <1>4, <1>5, <1>6, <1>7, <1>8, <1>9, ExecuteInCalm, AroundInCalm

LEMMA LostStep ==
  ASSUME Calm, CalmInv, [Next]_vars
  PROVE  NoRunLost'
<1>1. TypeOK /\ Stored /\ NoRunLost /\ HeldIsLocked /\ EndIsFinal
  BY DEF CalmInv, LeaseInv, IInv
<1> USE <1>1 DEF TypeOK, StoreTypeOK, NoRunLost, ActiveRun
<1>2. CASE Still
  BY <1>2 DEF Still
<1>3. ASSUME NEW n \in Runs, CommitMessage(n) \/ \E op \in Ops : BuildMessage(n, op)
      PROVE  NoRunLost'
  <2>1. \/ UNCHANGED <<runStatus, jobStatus>>
        \/ /\ runStatus' = [runStatus EXCEPT ![n] = "queued"]
           /\ jobStatus' = [jobStatus EXCEPT ![n] = "queued"]
    BY <1>3 DEF CommitMessage, StoreCommit, StoreDuplicate, PutRun, BuildMessage, queueVars
  <2> QED
    BY <2>1
<1>4. ASSUME NEW w \in Workers, Crash(w) PROVE NoRunLost'
  BY <1>4 DEF Crash, queueVars
<1>5. ASSUME NEW s \in Slots, Claim(s) PROVE NoRunLost'
  BY <1>5 DEF Claim, ClaimJob
<1>6. ASSUME NEW s \in Slots, Passes(s) \/ Occupying(s) \/ Resting(s) PROVE NoRunLost'
  BY <1>6 DEF Passes, Occupying, Resting, Proceeds
<1>7. ASSUME NEW s \in Slots, NEW st \in RunStatus \ {"none", "interrupted"}, Writes(s, st)
      PROVE  NoRunLost'
  <2>1. jobStatus[job[s]] = "running"
    BY <1>7 DEF Writes, Proceeds, Stored, HeldIsLocked
  <2> QED
    BY <1>7, <2>1 DEF Writes, Proceeds, PutRun
<1>8. ASSUME NEW s \in Slots, Ends(s) PROVE NoRunLost'
  <2>1. runStatus[job[s]] \in {"completed", "failed"} /\ UNCHANGED runStatus
    BY <1>8 DEF Ends, EndIsFinal, Returns
  <2>2. \A n \in Runs : n # job[s] => jobStatus'[n] = jobStatus[n]
    BY <1>8 DEF Ends, Returns
  <2> QED
    BY <2>1, <2>2
<1> QED
  BY <1>2, <1>3, <1>4, <1>5, <1>6, <1>7, <1>8, ExecuteInCalm, AroundInCalm

\* A run goes on to occupy its agent when its rows stay and no other slot is
\* about to settle it.
LEMMA StillOccupied ==
  ASSUME NEW a, NEW n, Occupies(n, a),
         runStatus'[n] # "none", opOf'[n] = opOf[n], jobStatus'[n] \in {"queued", "running"},
         \A s \in Slots : job'[s] = n /\ pc'[s] \in {"complete", "retry"} =>
            job[s] = n /\ pc[s] \in {"complete", "retry"}
  PROVE  Occupies(n, a)'
  BY DEF Occupies, AgentOf

LEMMA OccupiedStep ==
  ASSUME Calm, CalmInv, [Next]_vars
  PROVE  WorkingIsOccupied'
<1>1. TypeOK /\ Stored /\ WorkingIsOccupied /\ HeldIsLocked /\ LeaseIsExclusive /\ IInv
  BY DEF CalmInv, LeaseInv, IInv
<1> USE <1>1 DEF TypeOK, StoreTypeOK
<1>2. CASE Still
  BY <1>2 DEF Still, WorkingIsOccupied, Occupies, AgentOf
<1>10. \A s \in Slots : pc[s] # "idle" =>
          job[s] \in Runs /\ jobStatus[job[s]] = "running" /\ runStatus[job[s]] # "none"
  BY DEF Stored, HeldIsLocked
<1>3. ASSUME NEW n \in Runs, CommitMessage(n) \/ \E op \in Ops : BuildMessage(n, op)
      PROVE  WorkingIsOccupied'
  <2> SUFFICES ASSUME NEW a \in Agents, working'[a] PROVE \E m \in Runs : Occupies(m, a)'
    BY DEF WorkingIsOccupied
  <2>1. UNCHANGED <<pc, job, working>>
    BY <1>3 DEF CommitMessage, BuildMessage, slotVars, agentVars
  <2>2. PICK m \in Runs : Occupies(m, a)
    BY <2>1 DEF WorkingIsOccupied
  <2>3. runStatus[m] # "none" /\ opOf[m] # NoOp
    BY <2>2 DEF Occupies, IInv, OneRunPerOperation
  <2>4. n # m
    BY <1>3, <2>3 DEF CommitMessage, BuildMessage
  <2>5. runStatus'[m] = runStatus[m] /\ opOf'[m] = opOf[m] /\ jobStatus'[m] = jobStatus[m]
    BY <1>3, <2>4 DEF CommitMessage, StoreCommit, StoreDuplicate, PutRun, BuildMessage, queueVars
  <2>6. jobStatus[m] \in {"queued", "running"}
    BY <2>2 DEF Occupies
  <2>7. Occupies(m, a)'
    BY <2>1, <2>2, <2>3, <2>5, <2>6, StillOccupied
  <2> QED
    BY <2>7
<1>4. ASSUME NEW w \in Workers, Crash(w) PROVE WorkingIsOccupied'
  <2> SUFFICES ASSUME NEW a \in Agents, working'[a] PROVE \E m \in Runs : Occupies(m, a)'
    BY DEF WorkingIsOccupied
  <2>1. UNCHANGED <<runStatus, opOf, jobStatus, working>>
    BY <1>4 DEF Crash, requestVars, queueVars, agentVars
  <2>2. PICK m \in Runs : Occupies(m, a)
    BY <2>1 DEF WorkingIsOccupied
  <2>3. \A s \in Slots : pc'[s] = "idle" \/ (pc'[s] = pc[s] /\ job'[s] = job[s])
    BY <1>4 DEF Crash
  <2>4. runStatus[m] # "none" /\ jobStatus[m] \in {"queued", "running"}
    BY <2>2 DEF Occupies
  <2>5. Occupies(m, a)'
    BY <2>1, <2>2, <2>3, <2>4, StillOccupied
  <2> QED
    BY <2>5
<1>5. ASSUME NEW s \in Slots, Claim(s) PROVE WorkingIsOccupied'
  <2> SUFFICES ASSUME NEW a \in Agents, working'[a] PROVE \E m \in Runs : Occupies(m, a)'
    BY DEF WorkingIsOccupied
  <2>1. UNCHANGED <<runStatus, opOf, working>>
    BY <1>5 DEF Claim, requestVars, agentVars
  <2>2. PICK m \in Runs : Occupies(m, a)
    BY <2>1 DEF WorkingIsOccupied
  <2>3. \A t \in Slots : pc'[t] = "read" \/ (pc'[t] = pc[t] /\ job'[t] = job[t])
    BY <1>5 DEF Claim, Goto
  <2>4. jobStatus'[m] \in {"queued", "running"} /\ runStatus[m] # "none"
    BY <1>5, <2>2 DEF Claim, ClaimJob, Occupies
  <2>5. Occupies(m, a)'
    BY <2>1, <2>2, <2>3, <2>4, StillOccupied
  <2> QED
    BY <2>5
<1>6. ASSUME NEW s \in Slots, NEW st \in RunStatus \ {"none", "interrupted"},
             Passes(s) \/ Writes(s, st) \/ Occupying(s)
      PROVE  WorkingIsOccupied'
  <2> SUFFICES ASSUME NEW a \in Agents, working'[a] PROVE \E m \in Runs : Occupies(m, a)'
    BY DEF WorkingIsOccupied
  <2>1. Proceeds(s) /\ pc'[s] \notin {"complete", "retry"}
    BY <1>6 DEF Passes, Writes, Occupying
  <2>2. \A m \in Runs : runStatus[m] # "none" => runStatus'[m] # "none"
    BY <1>6 DEF Passes, Writes, Occupying, PutRun
  <2>3. ASSUME working[a] PROVE \E m \in Runs : Occupies(m, a)'
    <3>1. PICK m \in Runs : Occupies(m, a)
      BY <2>3 DEF WorkingIsOccupied
    <3>2. runStatus'[m] # "none" /\ opOf'[m] = opOf[m] /\ jobStatus'[m] \in {"queued", "running"}
      BY <2>1, <2>2, <3>1 DEF Proceeds, Occupies
    <3>3. \A t \in Slots : t = s \/ (pc'[t] = pc[t] /\ job'[t] = job[t])
      BY <2>1 DEF Proceeds
    <3>4. Occupies(m, a)'
      BY <2>1, <3>1, <3>2, <3>3, StillOccupied
    <3> QED
      BY <3>4
  <2>4. ASSUME ~working[a] PROVE \E m \in Runs : Occupies(m, a)'
    <3>1. Occupying(s)
      BY <1>6, <2>4 DEF Passes, Writes
    <3>2. a = AgentOf(job[s])
      BY <2>4, <3>1 DEF Occupying, PutAgent
    <3>3. pc[s] # "idle" /\ UNCHANGED <<job, opOf, jobStatus, runStatus>>
      BY <3>1 DEF Occupying, Proceeds
    <3>4. \A t \in Slots : job[t] = job[s] => t = s
      BY <3>3 DEF Stored, LeaseIsExclusive
    <3>5. PICK m \in Runs : m = job[s]
      BY <1>10, <3>3
    <3>6. Occupies(m, a)'
      BY <1>10, <2>1, <3>2, <3>3, <3>4, <3>5 DEF Occupies, AgentOf
    <3> QED
      BY <3>6
  <2> QED
    BY <2>3, <2>4
<1>7. ASSUME NEW s \in Slots, Resting(s) PROVE WorkingIsOccupied'
  <2> SUFFICES ASSUME NEW a \in Agents, working'[a] PROVE \E m \in Runs : Occupies(m, a)'
    BY DEF WorkingIsOccupied
  <2>1. working' = [working EXCEPT ![AgentOf(job[s])] = FALSE]
    BY <1>7 DEF Resting, PutAgent
  <2>2. a # AgentOf(job[s]) /\ working[a]
    BY <2>1
  <2>3. PICK m \in Runs : Occupies(m, a)
    BY <2>2 DEF WorkingIsOccupied
  <2>4. m # job[s]
    BY <2>2, <2>3 DEF Occupies
  <2>5. UNCHANGED <<job, opOf, jobStatus, runStatus>>
    BY <1>7 DEF Resting, Proceeds
  <2>6. \A t \in Slots : t # s => pc'[t] = pc[t]
    BY <1>7 DEF Resting, Proceeds
  <2>7. runStatus[m] # "none" /\ jobStatus[m] \in {"queued", "running"}
    BY <2>3 DEF Occupies
  <2>8. Occupies(m, a)'
    BY <2>3, <2>4, <2>5, <2>6, <2>7, StillOccupied
  <2> QED
    BY <2>8
<1>8. ASSUME NEW s \in Slots, Ends(s) PROVE WorkingIsOccupied'
  <2> SUFFICES ASSUME NEW a \in Agents, working'[a] PROVE \E m \in Runs : Occupies(m, a)'
    BY DEF WorkingIsOccupied
  <2>1. UNCHANGED <<runStatus, opOf, working>>
    BY <1>8 DEF Ends, Returns, requestVars
  <2>2. PICK m \in Runs : Occupies(m, a)
    BY <2>1 DEF WorkingIsOccupied
  <2>3. m # job[s]
    BY <1>8, <2>2 DEF Ends, Occupies
  <2>4. jobStatus'[m] = jobStatus[m]
    BY <1>8, <2>3 DEF Ends, Returns
  <2>5. \A t \in Slots : pc'[t] = "idle" \/ (pc'[t] = pc[t] /\ job'[t] = job[t])
    BY <1>8 DEF Ends, Returns, Leave, Goto
  <2>6. runStatus[m] # "none" /\ jobStatus[m] \in {"queued", "running"}
    BY <2>2 DEF Occupies
  <2>7. Occupies(m, a)'
    BY <2>1, <2>2, <2>4, <2>5, <2>6, StillOccupied
  <2> QED
    BY <2>7
<1>9. ASSUME NEW s \in Slots, Passes(s) \/ Occupying(s) PROVE WorkingIsOccupied'
  <2>1. "queued" \in RunStatus \ {"none", "interrupted"}
    BY DEF RunStatus
  <2> QED
    BY <1>6, <1>9, <2>1
<1> QED
  BY <1>2, <1>3, <1>4, <1>5, <1>6, <1>7, <1>8, <1>9, ExecuteInCalm, AroundInCalm

LEMMA InitCalm == Calm /\ Init => CalmInv
<1> SUFFICES ASSUME Init PROVE CalmInv
  OBVIOUS
<1>1. LeaseInv
  BY InitLeaseInv
<1>2. Tranquil /\ EndIsFinal /\ NoRunLost /\ WorkingIsOccupied
  BY DEF Init, StoreInit, Tranquil, EndIsFinal, NoRunLost, WorkingIsOccupied, ActiveRun
<1> QED
  BY <1>1, <1>2 DEF CalmInv

LEMMA NextCalm == ASSUME Calm, CalmInv, [Next]_vars PROVE CalmInv'
<1>1. LeaseInv'
  BY NextLeaseInv DEF Calm, CalmInv
<1> QED
  BY <1>1, TranquilStep, EndStep, LostStep, OccupiedStep DEF CalmInv

\* An accepted run that is not in a final state has its job in the queue or in
\* execution, through crashes, errors and retries: it is replayed after a
\* restart.
THEOREM RunsAreKept == ASSUME Calm PROVE Spec => []NoRunLost
<1>1. Init => CalmInv
  BY InitCalm
<1>2. CalmInv /\ [Next]_vars => CalmInv'
  BY NextCalm
<1>3. CalmInv => NoRunLost
  BY DEF CalmInv
<1> QED
  BY <1>1, <1>2, <1>3, PTL DEF Spec

\* An agent shown as working has an unsettled job: setAgentIdle leaves none
\* busy, whatever other runs of the agent do.
THEOREM WorkersHaveWork == ASSUME Calm PROVE Spec => []WorkingAgentHasWork
<1>1. Init => CalmInv
  BY InitCalm
<1>2. CalmInv /\ [Next]_vars => CalmInv'
  BY NextCalm
<1>3. CalmInv => WorkingAgentHasWork
  BY DEF CalmInv, WorkingIsOccupied, Occupies, WorkingAgentHasWork
<1> QED
  BY <1>1, <1>2, <1>3, PTL DEF Spec
=============================================================================
