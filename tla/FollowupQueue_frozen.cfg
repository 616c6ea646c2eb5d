CONSTANTS
    guest1 = guest1
    guest2 = guest2
    owner = owner
    Messages = {guest1, guest2, owner}
    Fences <- NoneFenced
    Redelivered = {guest1}
    Sender <- SenderOf
    Route <- OneRoute
    Settings <- FollowupSummarize
    OverlapDrops = TRUE
    Queues = {Q1, Q2}
    NoQueue = NoQueue
    StopCap = 0
    FailCap = 0
SPECIFICATION FairSpec
PROPERTIES
    SummariesAreInjected
