SPECIFICATION Spec
CONSTANTS
    NChans = 2
    Listening <- MCListening
    HasReader <- MCHasReader
    NeedsResp <- MCNeedsResp
    Routes <- MCRoutes
    MaxTx = 2
    MaxFd = 5
    OpenFails = TRUE
    CloseFails = TRUE
    AcceptFails = TRUE
    Reloads = FALSE
INVARIANTS
    OpenMeansOpen
