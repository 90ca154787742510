\* One manager process at a time and an operator, two tasks for one worker.
CONSTANTS
    r1 = r1  w1 = w1  m1 = m1  m2 = m2
    NoWorker = NoWorker  NoManager = NoManager
    Runs = {r1}
    Tasks = {1, 2}
    Workers = {w1}
    Channels = {}
    RunOf <- OneRunOf
    WorkersOf <- OneWorkersOf
    MaxActive <- OneMaxActive
    WorkerSeq <- OneWorkerSeq
    Creator <- OneCreator
    Priority <- MCPriority
    Managers = {m1}
    Times = {1}
    AttemptBound = 2
    SeqBound = 18
    LineBound = 0
    CrashBound = 0
SPECIFICATION FairManagerSpec
CHECK_DEADLOCK FALSE
INVARIANTS OneChildPerWorker
PROPERTIES RunCompletes
