\* Two resumes, the manager and the operator race over one task.
CONSTANTS
    r1 = r1  t1 = t1  t2 = t2  w1 = w1  s1 = s1  s2 = s2
    NoWorker = NoWorker
    Runs = {r1}
    Tasks = {t1}
    Workers = {w1}
    Channels = {}
    RunOf <- MCRunOf
    WorkersOf <- MCWorkersOf
    MaxActive <- MCMaxActive
    MaxAttempts <- MCMaxAttempts
    Times = {1, 2, 3, 4}
    AttemptBound = 3
    SeqBound = 9
    Resumers = {s1, s2}
    Timeout = 2
    ClockBound = 3
    CrashBound = 0
SPECIFICATION SchedSpec
CHECK_DEADLOCK FALSE
PROPERTIES RecoveryWithinBudget RecoveryOnlyTakesLeased
