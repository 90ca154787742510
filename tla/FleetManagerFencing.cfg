\* Two managers that may die and an operator: the processes of their attempts.
CONSTANTS
    r1 = r1  w1 = w1  m1 = m1  m2 = m2
    NoWorker = NoWorker  NoManager = NoManager
    Runs = {r1}
    Tasks = {1}
    Workers = {w1}
    Channels = {}
    RunOf <- OneRunOf
    WorkersOf <- OneWorkersOf
    MaxActive <- OneMaxActive
    WorkerSeq <- OneWorkerSeq
    Creator <- OneCreator
    Priority <- MCPriority
    Managers = {m1, m2}
    Times = {1}
    AttemptBound = 2
    SeqBound = 18
    LineBound = 1
    CrashBound = 1
SPECIFICATION LoopSpec
CHECK_DEADLOCK FALSE
INVARIANTS OneChildPerWorker NoChildLeftBehind
PROPERTIES FencedProcessGoes
