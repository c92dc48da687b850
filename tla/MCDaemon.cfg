SPECIFICATION FairSpec
CONSTANTS
    Inodes <- MCInodes
    Contents <- MCContents
    MaxEdits = 4
    MaxFaults = 1
    MaxQueue = 2
CHECK_DEADLOCK FALSE
INVARIANTS
    TypeOK
    HandlerHasPipe
    Configured
PROPERTIES
    NewestRuns
