\* Three tasks, two requests at a time.
CONSTANTS
    t1 = t1  t2 = t2  t3 = t3  q1 = q1  q2 = q2
    None = None  Same = Same  NoTask = NoTask
    Tasks <- ThreeTasks
    Requests <- TwoRequests
    Limits <- One
    Patches <- MovesAndCancel
    MaxDepth = 2
    MaxRequests = 5
SPECIFICATION FairSpec
INVARIANTS TypeOK ForestUnlessCrossed DepthsAddUp
PROPERTIES FanOutUnlessRaced EveryRequestEnds
CHECK_DEADLOCK FALSE
