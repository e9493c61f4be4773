\* One task, over a crash between its completion and the release of its claim.
CONSTANTS
    t1 = t1
    t2 = t2
    Tasks = {t1}
SPECIFICATION Spec
INVARIANTS
    SubmittedCanBeExported
CHECK_DEADLOCK FALSE
