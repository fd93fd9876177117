\* A call that fails leaves the connection in use.
CONSTANTS
    t1 = t1
    t2 = t2
    Calls = {t1, t2}
    Kinds <- AllKinds
    ListenCounts <- OnlyOne
    MaxChunks = 1
    SendRoom = 1
    MaxStatements = 1
    MaxNotify = 1
    AllowCancel = FALSE
    AllowLoss = FALSE
SPECIFICATION Spec
INVARIANTS
    CommandHasCall
