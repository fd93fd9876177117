\* Three calls of any kind on one connection, with cancels and connection loss.
CONSTANTS
    t1 = t1
    t2 = t2
    t3 = t3
    Calls = {t1, t2, t3}
    Kinds <- AllKinds
    ListenCounts <- OneOrTwo
    MaxChunks = 2
    SendRoom = 1
    MaxStatements = 2
    MaxNotify = 2
    AllowCancel = TRUE
    AllowLoss = TRUE
SPECIFICATION Spec
SYMMETRY Symmetry
INVARIANTS
    TypeOK
    WaiterRegistered
    OneCommand
    OwnReplies
    ResultsComplete
    ListenExclusive
    NotificationsConserved
    HandlersLeft
PROPERTIES
    KeepsListening
    ImplementsSlot
