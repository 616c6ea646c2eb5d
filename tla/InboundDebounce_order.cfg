CONSTANTS
    None = None
    alice = alice
    bob = bob
    a1 = a1
    a2 = a2
    a3 = a3
    b1 = b1
    Messages = {a1, a2, a3, b1}
    Keys = {alice, bob}
    KeyOf <- MostlyAlice
    MaxTrackedKeys = 1
    Cancellable = {alice}
SPECIFICATION FairSpec
CHECK_DEADLOCK FALSE
INVARIANTS
    HandedOnInOrder
    HandedOnOnce
    FlushesDoNotOverlap
PROPERTIES
    EveryMessageIsHandled
