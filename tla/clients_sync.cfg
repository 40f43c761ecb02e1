\* Each of the three clients, one emitter.
CONSTANTS
    e1 = e1  e2 = e2
    Delta = Delta  Demo = Demo  Wished = Wished  Unread = Unread
    Emitters <- OneEmitter
    Apps <- AllApps
    ReplayLimit = 2
    MaxWrites = 1
    MaxEvents = 2
    MaxFaults = 1
    MaxFetches = 1
SPECIFICATION FairSpec
INVARIANTS TypeOK StreamIsComplete
PROPERTIES  LiveTextGoes
CHECK_DEADLOCK FALSE
