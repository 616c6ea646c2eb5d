CONSTANTS
    Deliveries = {d1}
    BestEffortSends = {d1}
    Recoveries = {r1}
    Drains = {whatsapp}
    Policies <- AllPolicies
    Outcomes <- AllOutcomes
    Reconciles = TRUE
    BudgetEnds = TRUE
    DiskFaults = FALSE
    MaxRetries = 2
    CrashCap = 1
SPECIFICATION FairSpec
CHECK_DEADLOCK FALSE
PROPERTIES
    QueueEmpties
