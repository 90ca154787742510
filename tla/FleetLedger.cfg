\* Every transaction of the ledger by any client: two tasks compete for the
\* only worker of their run; a worker of no run stands by.
CONSTANTS
    r1 = r1  t1 = t1  t2 = t2  w1 = w1  w2 = w2
    NoWorker = NoWorker
    Runs = {r1}
    Tasks = {t1, t2}
    Workers = {w1, w2}
    Channels = {"pager"}
    RunOf <- OneRunOf
    WorkersOf <- OneWorkersOf
    MaxActive <- OneMaxActive
    Times = {1}
    AttemptBound = 2
    SeqBound = 6
SPECIFICATION LedgerSpec
CHECK_DEADLOCK FALSE
INVARIANTS RunCapacity CompletedHasReceipt OneLeasePerWorker ReceiptWithinHistory EventsBelongToOwner AlertedAttemptFailed
PROPERTIES FinishedOnlyRestarts LifecycleAdvances
