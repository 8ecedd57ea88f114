SPECIFICATION Spec
CONSTANTS
    Deployments <- OnlyLive
    RootRingSize = 4
    RpcLimit = 4
    Workload <- Bounds
    MaxFaults = 1
INVARIANT RightOrHalted
