SPECIFICATION Spec
CONSTANTS
    CircuitOf <- PageTasks
    Prewarmers = {"prewarm"}
    MaxCalls = 2
    MaxFaults = 1
    Lists <- Payrolls
    Deposits = {2}
    Threshold = 1
    CoSigners = {"carol"}
    MaxBatches = 2
    MaxDeposits = 2
    MaxSweeps = 1
    MaxReloads = 1
    Worlds = {{"pay", "again"}}
INVARIANT ConfirmedRowsPaid
CHECK_DEADLOCK FALSE
