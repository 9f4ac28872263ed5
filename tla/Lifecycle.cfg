CONSTANTS
    Hosts = {h1, h2}
    PerRunner = 1
    QueueSize = 1
    NoThread = NoThread
    Logs = TRUE
    MaxCalls = 2
    MaxShutdowns = 1
SPECIFICATION FairSpec
INVARIANTS TypeOK OneOpenRunner ServedClientOpen
PROPERTIES CronIsSilent EveryCallEnds ClosedWorkersExit
CHECK_DEADLOCK FALSE
