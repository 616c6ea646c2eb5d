CONSTANTS
    Deliveries = {d1, d2}
    BestEffortSends = {}
    Recoveries = {r1}
    Drains = {whatsapp}
    Policies <- RequiredOnly
    Outcomes <- HonestOutcomes
    Reconciles = FALSE
    BudgetEnds = FALSE
    DiskFaults = FALSE
    MaxRetries = 2
    CrashCap = 0
SPECIFICATION Spec
CHECK_DEADLOCK FALSE
SYMMETRY DeliverySymmetry
INVARIANTS
    ClaimsAreExclusive
    NoDuplicate
    ReplaysAreBounded
PROPERTIES
    GoneStaysGone
