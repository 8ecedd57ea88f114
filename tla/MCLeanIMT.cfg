SPECIFICATION Spec
CONSTANTS
    TreeDepth = 3
    RootRingSize = 3
    ZeroRoot = ZeroRoot
    Leaves = {x, y}
    Hash3 <- MCHash3
INVARIANTS
    FrontierIsReference
    MirrorAgrees
    WitnessUsable
    OpeningsAreGenuine
PROPERTY ImplementsCommitmentLog
CHECK_DEADLOCK FALSE
