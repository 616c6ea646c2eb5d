CONSTANTS
    Entries = {e1, e2, e3}
    Lanes = {main}
    ProbeLanes = {}
    Waiters = {w1}
    Priorities <- TwoPriorities
    LaneTimeouts = {TRUE}
    ConcurrencyCap = 2
    GenerationCap = 1
SPECIFICATION Spec
SYMMETRY EntrySymmetry
CHECK_DEADLOCK FALSE
INVARIANTS
    QueueInDequeueOrder
    SlotHeldUntilCompletionOrReset
    LanesNeverStall
    NoMissedWakeup
    DrainedVerdictSound
PROPERTIES
    ImplementsContract
