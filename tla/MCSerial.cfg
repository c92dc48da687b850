SPECIFICATION Spec
CONSTANTS
    SPEED_MAX = 2047
    Protocols <- MCProtocols
    Receivers <- MCReceivers
    Packets <- MCPackets
    Bursts <- MCBursts
    Reads <- MCReads
    MaxAsked = 3
    MaxOctets = 28
    MaxLosses = 1
    MaxCuts = 1
INVARIANTS
    TypeOK
    Resync
    Framed
    GivenAsAsked
