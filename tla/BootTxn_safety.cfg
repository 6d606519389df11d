SPECIFICATION Spec
CONSTANTS
    Guid = {g1, g2, g3}
    NoGuid = NoGuid
    Foreign = Foreign
    Torn = Torn
    Ops = {"install", "repair", "restore", "tryagain", "bootlinux", "uninstall"}
    CopyPlaces = {"out", "behind", "ahead"}
    Faults = {"cmd", "enum", "save", "task", "esp", "torn"}
    MaxFaults = 2
    MaxCuts = 2
SYMMETRY Symmetry
INVARIANT TypeOK
INVARIANT RolledBackIsClean
PROPERTY CommitIsProven
PROPERTY ForeignOneShotKept
