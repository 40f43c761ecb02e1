\* Two executions of one agent, two codex processes.
CONSTANTS
    x1 = x1  x2 = x2
    Executions <- TwoExecutions
    BufferLimit = 2
    MaxChildren = 2
    MaxPieces = 1
    MaxAsks = 1
    MaxRestarts = 0
SPECIFICATION Spec
INVARIANT DecisionsReachTheirTurn
CHECK_DEADLOCK FALSE
