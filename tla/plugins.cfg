SPECIFICATION Spec
CONSTANTS
    Flow = {f, g}
    Command = {m, n}
    Call = {c1, c2, c3}
    State <- MCState
    Initial = "new"
    Terminal = {"done", "ko"}
    AutoTarget <- MCAuto
    External <- MCExternal
    Unguarded = {"paid"}
    OnError <- MCOnError
    MaxCompensations = 1
    None = None
SYMMETRY MCSymmetry
INVARIANTS VersionsRise LogsAgree ReplayIsTrue CommandsRunOnce NothingAppliedNothingMoved
CHECK_DEADLOCK FALSE
