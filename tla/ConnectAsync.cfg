\* One connect_async() beside tasks that open, watch and close files.
\* It ends: connected, failed, cancelled, or stuck on a silent host.
CHECK_DEADLOCK FALSE
SPECIFICATION FairSpec
CONSTANTS
    MaxFd = 4
    MaxTries = 3
    MaxSteps = 2
INVARIANTS
    TypeOK
    OnlyMovesHurt
PROPERTY
    ConnectEnds
