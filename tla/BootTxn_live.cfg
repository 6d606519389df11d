SPECIFICATION FairSpec
CONSTANTS
    Guid = {g1, g2}
    NoGuid = NoGuid
    Foreign = Foreign
    Torn = Torn
    Ops = {"install", "restore", "tryagain", "bootlinux"}
    CopyPlaces = {"out", "behind"}
    Faults = {"enum", "save", "task", "esp", "cmd"}
    MaxFaults = 2
    MaxCuts = 2
INVARIANT OpenTxnIsGuarded
PROPERTY OpenTxnCloses
