\* A program that waits for notifications and executes in between.
\* A call without a timeout waits for ever on a silent connection: it may stop.
CHECK_DEADLOCK FALSE
SPECIFICATION FairSpec
CONSTANTS
    MaxNotify = 3
    MaxOther = 1
    MaxSignals = 1
    Timeouts = {"forever", "finite", "bad", "huge"}
    AllowLoss = TRUE
INVARIANTS
    NotificationsInOrder
    
PROPERTIES
    CallEnds
    
