SPECIFICATION Spec
CONSTANTS
    State <- MCState
    Terminal = {"ok", "ko"}
    Initial = "new"
    Chains <- MCChains
    MaxCalls = 3
INVARIANTS QuietViewIsTrue StepsInOrder
PROPERTY ImplementsUseFlow
CHECK_DEADLOCK FALSE
