SPECIFICATION Spec
CONSTANTS
    None = None
    State <- MCState
    Key <- MCKey
    Label = {"yes", "no", "other"}
    ErrorClass = {"Retryable", "FlowError"}
    FlowErrorClass = "FlowError"
    InstanceOf <- MCInstanceOf
    DefName = {"Order", "Account", "Kyc", "Score", "Spin", "Ticket"}
    Def <- MCDef
    Flow = {f1}
    Call = {c1}
    Root = {"Order", "Account"}
    UserError = {"Retryable", "FlowError"}
    ActionError = {"FlowError"}
    Event <- MCEvent
    MaxChainDepth = 4
    MaxTime = 4
    Serialized = TRUE
    Clearable = TRUE
INVARIANTS TypeOK ExitConsistent GuardRetriesBounded LogMatchesState NeverStranded DataOfTakenSteps StrictAutoProduces
PROPERTIES CompletionIsFinal ImplementsLifecycle
