\* The life of one result, and two loops over its rows.
SPECIFICATION FairSpec
CONSTANTS
    Loops = {l1, l2}
    MaxRows = 3
    MaxKept = 1
    AllowNoMem = TRUE
INVARIANTS
    TypeOK
    ClearedOnce
    HeldIsAlive
    
    LoopYieldsAll
PROPERTIES
    LoopsEnd
