SPECIFICATION Spec
CONSTANTS
    Recoverers = {r1, r2}
    Overtaking = FALSE
    Faults = {"step", "boot"}
    MaxRuns = 3
    MaxFaults = 2
    MaxCuts = 2
SYMMETRY Symmetry
INVARIANT BootUntouchedIfResumable
 
 
INVARIANT InProgressIsReal
PROPERTY LinuxDiskKept
