SPECIFICATION Spec
CONSTANTS
    c1 = c1
    c2 = c2
    c3 = c3
    Callers = {c1, c2, c3}
    Calls <- Anything
CHECK_DEADLOCK FALSE
INVARIANTS
    WorkerHasTracker
    OnePastJoin
PROPERTIES
    CallsReturn
    TurnsAreSafe
    StopLeavesNothing
