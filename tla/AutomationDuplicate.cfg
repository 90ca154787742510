\* A slot whose enqueue is cut short by a crash.
CONSTANTS
    a1 = a1
    NoAutomation = NoAutomation
    Tasks = {1, 2}
    Automations = {a1}
    SlotWindow = 2
    PendingWindow = 2
    ClockBound = 1
    RunBound = 2
    MishapBound = 1
SPECIFICATION Spec
CHECK_DEADLOCK FALSE
INVARIANTS OneTaskPerSlot
