\* Two threads that share room for one engine, and two calls.
CONSTANTS
    t1 = t1  t2 = t2  q1 = q1  q2 = q2
    Threads = {t1, t2}
    Requests = {q1, q2}
    Workspaces = {"a", "b"}
    MaxActive = 1
    TurnBound = 2
    EngineBound = 3
    IncidentBound = 1
SYMMETRY MCSymmetry
SPECIFICATION Spec
CHECK_DEADLOCK FALSE
INVARIANTS ClaimHasMonitor OneTurnInProgress OrderMatchesRegistry EngineInWorkspace AcceptedTurnIsHeld
PROPERTIES TerminalIsFinal
