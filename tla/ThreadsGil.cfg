\* Two threads with a connection each, and one row they all write.
SPECIFICATION FairSpec
CONSTANTS
    Threads = {t1, t2}
    Nobody = Nobody
    Programs <- AllPrograms
INVARIANTS
    TypeOK
    RowComesBack
PROPERTIES
    ProgramsEnd
\* The process may stand still for good: see Frozen.
CHECK_DEADLOCK FALSE
