CONSTANTS
    Proc = {p1}
    Modes = {"signed"}
    Switching = FALSE
    Vendors = {"centos/cfg"}
    ForeignSets = {{}}
    Legacy = FALSE
    SmallWritesTear = FALSE
    MaxRuns = 3
    MaxFaults = 0
    MaxCuts = 0
SPECIFICATION Spec
INVARIANT ClaimsAreRemovable
CHECK_DEADLOCK FALSE
