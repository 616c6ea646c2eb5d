CONSTANTS
    Deliveries = {d1}
    BestEffortSends = {}
    Recoveries = {r1}
    Drains = {whatsapp}
    Policies <- AllPolicies
    Outcomes <- AllOutcomes
    Reconciles = TRUE
    BudgetEnds = FALSE
    DiskFaults = TRUE
    MaxRetries = 2
    CrashCap = 2
SPECIFICATION Spec
CHECK_DEADLOCK FALSE
INVARIANTS
    NoDeliveryLost
    RequiredSendsAreMarked
    NoBlindReplayOfMarked
