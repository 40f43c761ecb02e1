CONSTANTS
    r1 = r1
    r2 = r2
    r3 = r3
    Slots = {r1, r2, r3}
    Mixes <- AgentsAndUser
    None = None
    MaxComputers = 2
    MaxLeases = 1
    MaxFailures = 1
SPECIFICATION Spec
INVARIANTS TypeOK OneActionAtATime OneSharedComputer NoOrphans
PROPERTIES  AgentsWaitForTheUser EveryRequestEnds
CHECK_DEADLOCK FALSE
