\* Two engines share one Linux disk through a crash or a power cut and an uninstall.
CONSTANTS
    Engines = {e1, e2}
    Installers = {e1}
    Removers = {e2}
    Required <- TheRequired
    MaxFiles = 4
    MaxFileBytes = 2
    MaxExpandedBytes = 4
    Reserve = 2
    MaxInt = 15
    MaxUint = 31
    Archives <- TheArchives
    Logs <- TheLogs
    Sizes = {17, 18}
    Metadata <- TheMetadata
    DiskSize = 8
    ReadsMayFail = FALSE
    MaxCrashes = 1
    MaxRemovals = 1
SPECIFICATION Spec
INVARIANTS
    LaunchableIsClean
    CredentialsGone
    NativeApart
    RuntimeIsUsable
    JoinsAreAnswered
PROPERTIES
    ImagePromise
CHECK_DEADLOCK FALSE
