\* Two calls; every call ends and every notification is delivered.
CONSTANTS
    t1 = t1
    t2 = t2
    Calls = {t1, t2}
    Kinds <- AllKinds
    ListenCounts <- OneOrTwo
    MaxChunks = 2
    SendRoom = 1
    MaxStatements = 2
    MaxNotify = 2
    AllowCancel = TRUE
    AllowLoss = TRUE
SPECIFICATION FairSpec
PROPERTIES
    CallsEnd
    
