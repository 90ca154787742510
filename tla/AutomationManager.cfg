\* One automation with a slot, and two mishaps: a write fails and the process dies,
\* in either order, or one of them twice.
CONSTANTS
    a1 = a1
    NoAutomation = NoAutomation
    Tasks = {1, 2}
    Automations = {a1}
    SlotWindow = 2
    PendingWindow = 2
    ClockBound = 1
    RunBound = 2
    MishapBound = 2
SPECIFICATION FairSpec
CHECK_DEADLOCK FALSE
INVARIANTS OneRunPerSlot RunTellsOutcome
PROPERTIES SlotsNotSkipped CatchesUp RunsSettle
