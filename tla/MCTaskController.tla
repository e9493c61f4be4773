--------------------------- MODULE MCTaskController ---------------------------
(* A small instance of TaskController for TLC. *)
EXTENDS TaskController

CONSTANTS t1, t2

\* A new task, beside one an earlier process left with a lost operation, a dead
\* owner and its time spent: it can only be cancelled and cleaned up.
MCInit ==
    /\ status = [t \in Tasks |-> IF t = t1 THEN "queued" ELSE "incomplete"]
    /\ reason = [t \in Tasks |-> IF t = t1 THEN "other" ELSE "interrupted"]
    /\ policy = [t \in Tasks |-> IF t = t1 THEN "none" ELSE "live"]
    /\ claim = [t \in Tasks |-> IF t = t1 THEN "none" ELSE "orphaned"]
    /\ consult = [t \in Tasks |-> IF t = t1 THEN "none" ELSE "revoked"]
    /\ log = [t \in Tasks |-> {}] /\ blocked = Tasks \ {t1} /\ expired = Tasks \ {t1}
    /\ changed = FALSE
    /\ stage = [t \in Tasks |-> "idle"] /\ asked = [t \in Tasks |-> {}] /\ closing = FALSE

MCSpec == MCInit /\ [][Next]_vars /\ Fairness
=============================================================================
