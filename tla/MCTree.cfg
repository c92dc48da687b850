SPECIFICATION Spec
CONSTANTS
    Items <- MCItems
    None = None
    Dups <- MCDups
    BlockSlots = 3
    MaxBlocks = 2
VIEW MCView
INVARIANTS
    RedBlack
    PoolSound
PROPERTY
    BagSpec
