CONSTANTS
    reminder = reminder
    report = report
    OneShots = {reminder}
    Recurring = {report}
    Added = {reminder}
    AgentTurns = {report}
    Period = 1
    Backoff = 1
    Delay = 1
    MaxAttempts = 1
    Concurrency = 1
    Horizon = 2
    EditCap = 1
    ManualCap = 1
    CrashCap = 1
SPECIFICATION Spec
CHECK_DEADLOCK FALSE
INVARIANTS
    OneRunAtATime
    NoJobIsStranded
    OneShotsSucceedOnce
PROPERTIES
    NoSlotIsSkipped
