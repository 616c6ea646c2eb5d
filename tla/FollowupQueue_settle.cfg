CONSTANTS
    guest1 = guest1
    guest2 = guest2
    owner = owner
    Messages = {guest1, guest2, owner}
    Fences <- OneOrNone
    Redelivered = {guest1}
    Sender <- SenderOf
    Route <- OneRoute
    Settings <- MixedSettings
    OverlapDrops = FALSE
    Queues = {Q1, Q2}
    NoQueue = NoQueue
    StopCap = 1
    FailCap = 1
SPECIFICATION FairSpec
PROPERTIES
    WaitingMessagesSettle
INVARIANTS
    NothingLost
    LifecyclesClose
    AnsweredOnceInOrder
    AuthorizationsNeverMix
