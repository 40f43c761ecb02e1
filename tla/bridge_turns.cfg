\* Two executions of one agent, one codex process, one restart of the worker.
CONSTANTS
    x1 = x1  x2 = x2
    Executions <- TwoExecutions
    BufferLimit = 2
    MaxChildren = 1
    MaxPieces = 1
    MaxAsks = 1
    MaxRestarts = 1
SPECIFICATION FairSpec
INVARIANTS TypeOK ReplyIsTheTurns
PROPERTY EndsUnlessStuck
CHECK_DEADLOCK FALSE
