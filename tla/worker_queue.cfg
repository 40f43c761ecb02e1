\* Two API processes and one operation: a crash or two errors, a stop, an interrupt, an approval, a deletion.
CONSTANTS
    a1 = a1  op1 = op1  op2 = op2  w1 = w1  w2 = w2  s1 = s1  s2 = s2
    NoOp = NoOp
    Ops <- OneOp
    Agents <- OneAgent
    TargetOf <- Target
    MaxRuns = 1
    MaxClaims = 4
    Workers <- TwoProcesses
    Slots <- TwoSlots
    WorkerOf <- SlotPerProcess
    Runtime = "codex"
    LongRuns = FALSE
    MaxApprovals = 1
    MaxInterrupts = 1
    MaxFaults = 2
    MaxCrashes = 1
    MaxStops = 1
    MaxDeletes = 1
SPECIFICATION Spec
INVARIANTS TypeOK LeaseIsExclusive
PROPERTIES ImplementsLeaseQueue
CHECK_DEADLOCK FALSE
