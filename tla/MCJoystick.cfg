SPECIFICATION Spec
CONSTANTS
    SPEED_MAX = 2047
    Positions <- MCPositions
    Buttons <- MCButtons
    Directives <- MCDirectives
    MaxEvents = 3
    MaxCloses = 1
    MaxCuts = 1
INVARIANTS
    TypeOK
    StickObeyed
    StopsSent
    Routed
    NothingRunsOn
    PresetsAsked
