\* One session of either kind, and every event any caller might offer it.
CONSTANTS
    Rounds = 3
    ToolCalls = 1
    EpisodeCap = 2
    Duration = 1
    Ticks = {0, 1}
    Reserves = {0, 2, 3}
    FinalCosts = {0, 2, 3}
SPECIFICATION LogSpec
INVARIANTS
    CompletedOnEvidence
    CloudOnlyAdmitted
    ReservationAnswered
PROPERTIES
    FallbackStaysLocal
CHECK_DEADLOCK FALSE
