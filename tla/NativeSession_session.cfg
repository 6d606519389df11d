SPECIFICATION FairSpec
CONSTANTS
    Build <- TheBuild
    Purposes = {"serve", "configuration", "install"}
    Worlds <- TheWorlds
    Hellos <- TheHellos
    Requests <- TheRequests
    MaxRequests <- TheBound
    MaxChanges = 1
    MaxEvents = 1
    MaxInstalls = 2
INVARIANT ConsentedOnly
INVARIANT OnePurpose
INVARIANT RestartIsEarned
INVARIANT OneWorker
INVARIANT PreflightCoversDeployer
INVARIANT ExitIsClean
PROPERTY EngineEnds
CHECK_DEADLOCK FALSE
