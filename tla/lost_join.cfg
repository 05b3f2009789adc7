SPECIFICATION GraphSpec
CONSTANTS
    None = None
    State <- MCState
    Key <- MCKey
    MaxCalls = 12
    Designs <- JoinDesigns
    NextVersions <- Revised
INVARIANT AcceptedMeansGuaranteed
CHECK_DEADLOCK FALSE
