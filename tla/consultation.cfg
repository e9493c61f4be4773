\* Two managers over every order of decisions, waits, drifts and crashes.
CONSTANTS
    m1 = m1
    m2 = m2
    Managers = {m1, m2}
    None = None
SPECIFICATION ConsultSpec
INVARIANTS
    AskedOnce
PROPERTIES
    LeavesAsApproved
    AdviceIsCurrent
    LostStopsTheTask
SYMMETRY Sym
CHECK_DEADLOCK FALSE
