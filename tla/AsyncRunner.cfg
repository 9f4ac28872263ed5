SPECIFICATION FairSpec
CONSTANTS
    Producers = {p1, p2}
    Workers = {w1, w2}
    Closers = {c1}
    QueueSize = 2
    MaxCalls = 4
    NoThread = NoThread
INVARIANTS
    UnfinishedExact
    ItemConserved
    DropCountExact
PROPERTIES
    CleanDrainSettles
    KeepsContract
    AcceptedOpenSettles
    CallsReturn
\* The runner is quiescent once the bounded calls are made and the workers gone.
CHECK_DEADLOCK FALSE
