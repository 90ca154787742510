\* A resume that may die once, issued again and again.
CONSTANTS
    r1 = r1  t1 = t1  t2 = t2  w1 = w1  s1 = s1  s2 = s2
    NoWorker = NoWorker
    Runs = {r1}
    Tasks = {t1}
    Workers = {w1}
    Channels = {"pager"}
    RunOf <- MCRunOf
    WorkersOf <- MCWorkersOf
    MaxActive <- MCMaxActive
    MaxAttempts <- MCMaxAttempts
    Times = {1, 2, 3, 4}
    AttemptBound = 2
    SeqBound = 14
    Resumers = {s1}
    Timeout = 1
    ClockBound = 3
    CrashBound = 1
SPECIFICATION FairSchedSpec
CHECK_DEADLOCK FALSE
PROPERTIES EscalationDelivered
