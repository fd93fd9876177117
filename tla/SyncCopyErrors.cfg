\* A rejected copy is not reported.
CONSTANTS
    Methods <- AllMethods
    MaxCalls = 1
    MaxReads = 1
    AllowLoss = FALSE
SPECIFICATION Spec
INVARIANTS
    CopyErrorsRaised
