\* Two API processes, two operations to one agent: three errors, or one and a crash.
CONSTANTS
    a1 = a1  op1 = op1  op2 = op2  w1 = w1  w2 = w2  s1 = s1  s2 = s2
    NoOp = NoOp
    Ops <- TwoOps
    Agents <- OneAgent
    TargetOf <- Target
    MaxRuns = 2
    MaxClaims = 5
    Workers <- TwoProcesses
    Slots <- TwoSlots
    WorkerOf <- SlotPerProcess
    Runtime = "codex"
    LongRuns = FALSE
    MaxApprovals = 0
    MaxInterrupts = 0
    MaxFaults = 3
    MaxCrashes = 1
    MaxStops = 0
    MaxDeletes = 0
SPECIFICATION FairSpec
INVARIANTS OneRunPerOperation NoRunLost WorkingAgentHasWork
PROPERTIES EveryRunSettles
CHECK_DEADLOCK FALSE
