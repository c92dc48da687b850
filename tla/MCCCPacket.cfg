SPECIFICATION Spec
CONSTANTS
    SPEED_MAX = 9
    Receivers <- MCReceivers
    Speeds <- MCSpeeds
    Numbers <- MCNumbers
    MaxCalls = 4
INVARIANTS
    TypeOK
    KeepsAsked
    StopsAreIdle
