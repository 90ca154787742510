\* Two workers, two tasks; the process may die and a write may fail.
CONSTANTS
    t1 = t1  t2 = t2  w1 = w1  w2 = w2
    NoTask = NoTask  NoWorker = NoWorker
    Tasks = {t1, t2}
    Workers = {w1, w2}
    CrashBound = 1
    FaultBound = 1
SPECIFICATION FairSpec
CHECK_DEADLOCK FALSE
INVARIANTS QueueIsQueued ExecutedOnce AcceptedKept CanceledStays RequestedNeverCompletes
PROPERTIES RecordsMoveForward AcceptedEnds
