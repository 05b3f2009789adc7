SPECIFICATION FairGraphSpec
CONSTANTS
    None = None
    State <- MCState
    Key <- MCKey
    MaxCalls = 12
    Designs <- MCDesigns
    NextVersions <- Revised
INVARIANTS NoFalseAlarm SureGapsReported GraphMatchesCheck MigrationFollowsData AcceptedIsOrderable CompatibleReplacementIsSafe VersionCheckCoversInstances
PROPERTY AnalysisEnds
CHECK_DEADLOCK FALSE
