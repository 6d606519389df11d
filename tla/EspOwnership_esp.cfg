CONSTANTS
    Proc = {p1}
    Modes = {"signed", "shimmed", "plain"}
    Switching = FALSE
    Vendors = {"fedora/cfg", "redhat/cfg"}
    ForeignSets <- Neighbours
    Legacy = FALSE
    SmallWritesTear = FALSE
    MaxRuns = 3
    MaxFaults = 1
    MaxCuts = 2
SPECIFICATION Spec
INVARIANTS TypeOK NoSelfLockout CleanupIsComplete ClaimsAreRemovable
PROPERTIES ForeignKept
CHECK_DEADLOCK FALSE
