\* One task over its whole life, beside one that is cancelled and cleaned up meanwhile.
CONSTANTS
    t1 = t1
    t2 = t2
    Tasks = {t1, t2}
SPECIFICATION MCSpec
INVARIANTS
    RunningHasAnEntry
    CompletionOutlivesDeadline
PROPERTIES
    CancelledForGood
    QuitEnds
CHECK_DEADLOCK FALSE
