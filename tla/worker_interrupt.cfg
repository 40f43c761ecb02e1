\* One process and one interrupt, nothing else going wrong.
CONSTANTS
    a1 = a1  op1 = op1  op2 = op2  w1 = w1  w2 = w2  s1 = s1  s2 = s2
    NoOp = NoOp
    Ops <- OneOp
    Agents <- OneAgent
    TargetOf <- Target
    MaxRuns = 1
    MaxClaims = 2
    Workers <- OneProcess
    Slots <- TwoSlots
    WorkerOf <- SlotsOfOneProcess
    Runtime = "codex"
    LongRuns = FALSE
    MaxApprovals = 0
    MaxInterrupts = 1
    MaxFaults = 0
    MaxCrashes = 0
    MaxStops = 0
    MaxDeletes = 0
SPECIFICATION Spec
PROPERTIES InterruptIsFinal
CHECK_DEADLOCK FALSE
