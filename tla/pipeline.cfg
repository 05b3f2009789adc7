SPECIFICATION Spec
CONSTANTS
    Key = {"k", "l"}
    Run = {r1}
    Steps <- MCSteps
    MaxSteps = 3
INVARIANTS StoryIsTrue StrictKeepsThePromise
CHECK_DEADLOCK FALSE
