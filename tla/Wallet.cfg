SPECIFICATION Spec
CONSTANTS
    DustFloor = 2
    MaxSteps = 3
    MaxIndex = 4
    OddY <- SomeOdd
    Window = 2
    ExtraWindow = 1
    MaxPasses = 64
    CollisionBatch = 2
    MaxCandidates = 3
    ValueOf <- Worth
    Worlds = {{"sdk", "mint", "rotate", "scan", "save"}, {"sdk", "mint", "rotate", "lose", "save"},
              {"sdk", "mint", "lose", "scan"}, {"sdk", "pay", "scan", "save", "probe"},
              {"page", "mint", "rotate", "pay", "scan"}, {"group", "mint", "rotate", "pay", "scan"}}
    MaxFlight = 1
    MaxNotes = 3
    MaxVersion = 1
INVARIANTS
    IndexNeverReused
    ScanComplete
    SpendablePlannable
CHECK_DEADLOCK FALSE
