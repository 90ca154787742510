\* One thread, two calls, and one monitor that fails.
CONSTANTS
    t1 = t1  t2 = t2  q1 = q1  q2 = q2
    Threads = {t1}
    Requests = {q1, q2}
    Workspaces = {"a"}
    MaxActive = 1
    TurnBound = 2
    EngineBound = 2
    IncidentBound = 1
SPECIFICATION Spec
CHECK_DEADLOCK FALSE
INVARIANTS NoStaleEvents
