SPECIFICATION Spec
CONSTANTS
    SPEED_MAX = 2047
    Receivers <- MCReceivers
    Packets <- MCPackets
    MaxMessages = 3
INVARIANTS
    TypeOK
    Resync
    GivenInOrder
    NewestGiven
