SPECIFICATION HSpec
CONSTANTS
    Guid = {g1, g2, g3}
    NoGuid = NoGuid
    Foreign = Foreign
    Torn = Torn
    Ops = {"install", "restore", "tryagain", "bootlinux", "uninstall"}
    CopyPlaces = {"out", "behind"}
    Faults = {"enum", "save", "task", "esp"}
    MaxFaults = 2
    MaxCuts = 3
SYMMETRY Symmetry
INVARIANT InertUntilArming
PROPERTY StartedDeploymentKept
PROPERTY MarkedBecauseBooted
