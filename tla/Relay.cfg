SPECIFICATION Spec
CONSTANTS
    Clients = {anna, ben}
    Observers = {watcher}
    Appends = 2
    MaxAttempts = 3
    MaxRounds = 2
    Rerunners = {anna}
    MaxRuns = 2
    MaxFaults = 1
    MaxSweeps = 1
    ConnectUpTo = 1
INVARIANTS
    NoMissedWakeup
    AppendedOnce
    ConflictsBounded
    CollectedIsPrefix
PROPERTIES
    ImplementsChannel
    CommandsEnd
