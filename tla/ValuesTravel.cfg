\* Parameters and columns of every type at the edges of their ranges.
CONSTANTS
    Params <- SomeParams
    Columns <- SomeColumns
    TextColumns <- SomeTextColumns
    SmallLimit = 128
    IntLimit = 8388608
    LongLimit = 536870912
    Hours = 2
    Minutes = 3
    Seconds = 4
    Micros = 4
    MaxGroups = 3
SPECIFICATION Spec
INVARIANTS
    TypeOK
    ParamsExact
    ResultsExact
    Readable
