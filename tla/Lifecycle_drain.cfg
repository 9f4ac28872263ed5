CONSTANTS
    Hosts = {h1}
    PerRunner = 2
    QueueSize = 1
    NoThread = NoThread
    Logs = TRUE
    MaxCalls = 2
    MaxShutdowns = 1
SPECIFICATION Spec
INVARIANT DrainWaitsForWork
CHECK_DEADLOCK FALSE
