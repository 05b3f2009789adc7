SPECIFICATION Spec
CONSTANTS
    None = None
    State <- MCState
    Key = {"k"}
    Label = {"yes"}
    ErrorClass = {"FlowError"}
    FlowErrorClass = "FlowError"
    InstanceOf <- MCInstanceOf
    DefName = {"Waiting", "Middle", "EmbedsMiddle"}
    Def <- MCDef
    Flow = {f1}
    Call = {c1}
    Root = {"EmbedsMiddle"}
    UserError = {"FlowError"}
    ActionError = {"FlowError"}
    Event = {{}}
    MaxChainDepth = 4
    MaxTime = 0
    Serialized = TRUE
    Clearable = FALSE
INVARIANT NeverStranded
