SPECIFICATION FairSpec
CONSTANTS
    None = None
    State <- MCState
    Key = {"k"}
    Label = {"yes", "no"}
    ErrorClass = {"Outage", "FlowError"}
    FlowErrorClass = "FlowError"
    InstanceOf <- MCInstanceOf
    DefName = {"Subscription", "Waiting"}
    Def <- MCDef
    Name = "Subscription"
    Worker = {w1, w2}
    MaxVersion = 3
    MaxCrashes = 1
    MaxTime = 1
INVARIANT RetriesSurviveRestarts
PROPERTIES RowsFollowTheLog StoredFlowsEnd
CHECK_DEADLOCK FALSE
