CONSTANTS
    run1 = run1
    run2 = run2
    Runs <- GatewayRuns
    RunMixes <- RepliesOrJob
    SessionLane <- OneSession
    Suspenders = {run1}
    Configs <- MainNarrows
    Entries <- GatewayEntries
    Lanes <- GatewayLaneNames
    ProbeLanes = {}
    Priorities <- AllPriorities
    LaneTimeouts = {TRUE, FALSE}
    Waiters = {restart}
    ConcurrencyCap = 2
    GenerationCap = 1
SPECIFICATION GatewaySpec
CHECK_DEADLOCK FALSE
PROPERTIES
    RunIsAnswered
    RestartComesThrough
INVARIANTS
    OneRunPerSession
    PausedLaneResumes
