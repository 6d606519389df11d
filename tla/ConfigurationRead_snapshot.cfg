SPECIFICATION FairSpec
CONSTANTS
    Build <- TheBuild
    Letters = {"C", "D"}
    Roots = {"C", "D"}
    Contents <- TheContents
    Embedded <- TheEmbedded
    Starts <- TheStarts
    MaxChanges = 1
INVARIANT NoHelperSurvives
PROPERTY OneInstant
PROPERTY ObservationEnds
CHECK_DEADLOCK FALSE
