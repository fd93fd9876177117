\* Four calls of any method; the session may be lost.
CONSTANTS
    Methods <- AllMethods
    MaxCalls = 4
    MaxReads = 1
    AllowLoss = TRUE
SPECIFICATION FairSpec
INVARIANTS
    TypeOK
    KeptIsDurable
    UndoneStaysOut
    TransactionsDelimited
PROPERTIES
    CallsReturn
