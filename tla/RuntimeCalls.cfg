\* Two calls of one turn; two writes may fail and the process may die twice.
CONSTANTS
    c1 = c1  c2 = c2
    NoCall = NoCall
    Calls = {c1, c2}
    MaxPending = 2
    FaultBound = 2
    CrashBound = 2
SPECIFICATION FairSpec
CHECK_DEADLOCK FALSE
INVARIANTS OneReceipt AnswersHaveReceipts SnapshotComplete CallsBeforeCompletion
PROPERTIES CallsSettle CompletionFollows
