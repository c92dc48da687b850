SPECIFICATION FairSpec
CONSTANTS
    d1 = d1
    d2 = d2
    left = left
    stop = stop
    NoPacket = NoPacket
    TicksPerMs = 2
    MsPerSec = 4
    Dpkts <- MCDpkts
    Gap <- GapMixed
    Timeout <- TimeoutMixed
    Cmds <- MCCmds
    Stops <- MCStops
    HoldTimes <- Holds
    ClockTies = FALSE
    Start = 5
    PipeCap = 2
    MaxCommands = 3
    LastCommand = 10
    Horizon = 32
    PromptFrom = 12
INVARIANTS
    TypeOK
    DeferralBounded
    NoLostWakeup
PROPERTIES
    MailboxSpec
    GapKept
    EventuallyDrained
    MotionEnds
