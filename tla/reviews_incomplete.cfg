\* A hybrid review whose change is neither low nor high risk.
CONSTANTS
    r1 = r1
    Sessions = {r1}
    Rounds = 3
    ToolCalls = 2
    EpisodeCap = 3
    Duration = 3
    Projections = {2}
    Costs = {1, 3}
    Stop = 3
    Paths = 1
    Window = 1
    HealthTtl = 1
    MaxTime = 3
    MaxCrashes = 1
    MaxFaults = 1
    MaxSetbacks = 0
SPECIFICATION FairSpec
PROPERTIES
    LowOrIncompleteStaysLocal
CHECK_DEADLOCK FALSE
