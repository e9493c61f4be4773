\* One review through its whole life: time passes, the clock is set back once, the user may
\* stop the review, a write may fail, the application may crash.
CONSTANTS
    r1 = r1
    Sessions = {r1}
    Rounds = 3
    ToolCalls = 2
    EpisodeCap = 3
    Duration = 3
    Projections = {2}
    Costs = {1, 3}
    Stop = 3
    Paths = 1
    Window = 1
    HealthTtl = 1
    MaxTime = 3
    MaxCrashes = 1
    MaxFaults = 1
    MaxSetbacks = 1
SPECIFICATION FairSpec
INVARIANTS
    RecoveryAccepted
    CancelWins
PROPERTIES
    ReviewsEnd
CHECK_DEADLOCK FALSE
