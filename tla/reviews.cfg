\* Two reviews share a campaign that has room for one reservation at a time, and may be
\* overrun; a write of one may fail, and all of it may crash.
CONSTANTS
    r1 = r1
    r2 = r2
    Sessions = {r1, r2}
    Rounds = 2
    ToolCalls = 1
    EpisodeCap = 3
    Duration = 2
    Projections = {2, 4}
    Costs = {1, 3}
    Stop = 3
    Paths = 0
    Window = 1
    HealthTtl = 1
    MaxTime = 0
    MaxCrashes = 1
    MaxFaults = 1
    MaxSetbacks = 0
SPECIFICATION Spec
INVARIANTS
    Reconciled
    WithinCampaign
PROPERTIES
    ImplementsBudget
CHECK_DEADLOCK FALSE
