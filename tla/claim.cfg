\* Three runs and clean-ups of one context, over two hosts that may die.
CONSTANTS
    h1 = h1
    h2 = h2
    a = a
    b = b
    c = c
    Hosts = {h1, h2}
    Runs = {a, b, c}
    None = None
SPECIFICATION MCSpec
INVARIANTS
    OwnerNeverRobbed
    FreeMeansClean
    CompletedForGood
PROPERTIES
    RunsEnd
CHECK_DEADLOCK FALSE
