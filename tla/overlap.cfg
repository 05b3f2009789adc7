SPECIFICATION Spec
CONSTANTS
    None = None
    State <- MCState
    Key <- MCKey
    Label = {"yes", "no", "other"}
    ErrorClass = {"Retryable", "FlowError"}
    FlowErrorClass = "FlowError"
    InstanceOf <- MCInstanceOf
    DefName = {"Order", "Account", "Kyc", "Score", "Spin", "Ticket"}
    Def <- MCDef
    Flow = {f1}
    Call = {c1, c2, c3}
    Root = {"Ticket"}
    UserError = {"Retryable", "FlowError"}
    ActionError = {"FlowError"}
    Event <- MCEvent
    MaxChainDepth = 4
    MaxTime = 0
    Serialized = FALSE
    Clearable = FALSE
INVARIANT RetriesUnderOverlap
PROPERTY LogIsContinuous
