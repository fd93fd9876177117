\* Five parameters of four sizes; pools with room for four bytes more, half of
\* which the header takes.
CONSTANTS
    Count = 5
    Sizes <- SomeSizes
    Lists <- OfLists
    Excess = 1
    Slack = 4
    Header = 2
SPECIFICATION Spec
INVARIANTS
    TypeOK
    PiecesDisjoint
    PiecesInBlock
