SPECIFICATION HSpec
CONSTANTS
    Guid = {g1, g2}
    NoGuid = NoGuid
    Foreign = Foreign
    Torn = Torn
    Ops = {"install", "repair"}
    CopyPlaces = {"out"}
    Faults = {}
    MaxFaults = 0
    MaxCuts = 1
SYMMETRY Symmetry
PROPERTY MarkedBecauseBooted
