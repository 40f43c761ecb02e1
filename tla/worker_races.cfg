\* One process with two slots: an execution may outlast its lock, an interrupt and an error.
CONSTANTS
    a1 = a1  op1 = op1  op2 = op2  w1 = w1  w2 = w2  s1 = s1  s2 = s2
    NoOp = NoOp
    Ops <- OneOp
    Agents <- OneAgent
    TargetOf <- Target
    MaxRuns = 1
    MaxClaims = 3
    Workers <- OneProcess
    Slots <- TwoSlots
    WorkerOf <- SlotsOfOneProcess
    Runtime = "mock"
    LongRuns = TRUE
    MaxApprovals = 0
    MaxInterrupts = 1
    MaxFaults = 1
    MaxCrashes = 0
    MaxStops = 0
    MaxDeletes = 0
SPECIFICATION Spec
SYMMETRY SlotSymmetry
INVARIANTS OneEffectPerClaim NoHollowOutcome
CHECK_DEADLOCK FALSE
