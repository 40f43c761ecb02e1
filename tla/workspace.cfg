\* Mixes of three requests over two agents, and four hundred cron expressions.
CONSTANTS
    r1 = r1  r2 = r2  r3 = r3  a1 = a1  a2 = a2  x = x  y = y
    name = name  phone = phone  pin = pin
    Slots = {r1, r2, r3}
    Mixes <- AllMixes
    None = None
    MaxFaults = 1
    Agents <- TwoAgents
    Group = Group
    Work = Work
    MaxMembers = 3
    Plan = Plan
    Firebase = Firebase
    Secrets = {x, y}
    Old = x
    Bounds <- SmallBounds
    Local <- SmallCalendar
    Horizon = 80
    Keys <- ThreeFields
    SecretKeys = {pin}
    MaxProfile = 2
SPECIFICATION Spec
INVARIANTS TypeOK   ArtifactsAreSound DisconnectedIsUnused UpdatesAreKept FirstDate
CHECK_DEADLOCK FALSE
