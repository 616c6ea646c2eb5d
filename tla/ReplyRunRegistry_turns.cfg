CONSTANTS
    None = None
    chat = chat
    room = room
    t1 = t1
    t2 = t2
    t3 = t3
    t4 = t4
    Keys = {chat, room}
    Turns <- FourTurns
    KeyOf <- ChatAndRoom
    KindMixes <- ThreeTurns
    Impatient = {t2}
    Observers = {o1}
    RotationCap = 1
SPECIFICATION Spec
CHECK_DEADLOCK FALSE
INVARIANTS
    TypeOK
    OneLiveBackend
    NobodyWaitsInVain
    WaitsOutlastRotation
PROPERTIES
    ImplementsTurnLock
    ForceClearSparesSuccessors
