\* rollback() raises in a failed transaction.
CONSTANTS
    Methods <- AllMethods
    MaxCalls = 3
    MaxReads = 1
    AllowLoss = FALSE
SPECIFICATION Spec
PROPERTIES
    RollbackActive
