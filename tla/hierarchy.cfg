SPECIFICATION FlowSpec
CONSTANTS
    State <- MCState
    Trigger = {"x"}
    None = 0
    Specs <- MCSpecs
INVARIANTS EntriesMatchExits BubblingIsNearest
CHECK_DEADLOCK FALSE
