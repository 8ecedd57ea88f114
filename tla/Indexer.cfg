SPECIFICATION Spec
CONSTANTS
    Deployments <- EveryDeployment
    RootRingSize = 5
    RpcLimit = 4
    Workload <- Bounds
    MaxFaults = 1
INVARIANTS MirrorExact RootMatchesPaths
PROPERTIES CatchesUp NothingMissed SyncAnswered
