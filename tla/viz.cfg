SPECIFICATION FairSpec
CONSTANTS
    Flow = {f, g}
    State = {"S", "W", "T"}
    None = None
    Initial = "S"
    Terminal = {"T"}
    Moves <- MCMoves
    Window = 1
    TransitDuration = 1
    ReconnectDelay = 1
    TerminalStale = 1
    Stale = 2
    MaxEvents = 2
INVARIANTS EventsFollowTheLog CaughtUp ActiveFlowsAreShown
PROPERTY Reconnects
