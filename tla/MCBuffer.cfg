SPECIFICATION Spec
CONSTANTS
    Size = 4
    Bytes <- MCBytes
INVARIANTS
    TypeOK
    KeepsOrder
    EmptyHasRoom
