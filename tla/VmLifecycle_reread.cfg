\* One engine pair; reading state.json may fail as well.
CONSTANTS
    Engines = {e1, e2}
    Installers = {e1}
    Removers = {e2}
    Required <- TheRequired
    MaxFiles = 4
    MaxFileBytes = 2
    MaxExpandedBytes = 4
    Reserve = 2
    MaxInt = 15
    MaxUint = 31
    Archives <- TheArchives
    Logs <- TheLogs
    Sizes = {17, 18}
    Metadata <- TheMetadata
    DiskSize = 8
    ReadsMayFail = TRUE
    MaxCrashes = 1
    MaxRemovals = 1
SPECIFICATION Spec
INVARIANT LaunchableIsClean
CHECK_DEADLOCK FALSE
