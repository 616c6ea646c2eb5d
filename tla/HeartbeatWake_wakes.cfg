SPECIFICATION FairSpec

CONSTANTS
    t1 = t1
    t2 = t2
    Targets <- TwoTargets
    Priorities <- ScheduledOrImmediate
    Delays <- AtOnceOrCoalesced
    RetryDelay = 2
    CoalesceDelay = 1
    RequestCap = 3
    RefusalCap = 2
    LifecycleCap = 2

CHECK_DEADLOCK FALSE

INVARIANTS
    RequestsKeepUrgency
    OverlapIsInherited

PROPERTIES
    EveryWakeIsHandled
