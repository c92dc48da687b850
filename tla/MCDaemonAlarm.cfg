SPECIFICATION Spec
CONSTANTS
    Inodes <- MCInodes
    Contents <- MCContents
    MaxEdits = 2
    MaxFaults = 0
    MaxQueue = 2
CHECK_DEADLOCK FALSE
INVARIANTS
    NotKilled
