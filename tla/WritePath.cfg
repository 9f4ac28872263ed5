CONSTANTS
    Plain = {turn}
    Observations = {o1, o2, o3}
    Workers = {w1}
    Host = host
    MaxSeen = 2
    MaxWrites = 3
    MaxClients = 3
    MaxFaults = 2
SPECIFICATION Spec
SYMMETRY Symmetry
INVARIANTS TypeOK SeenBounded StoredOncePerPost CurrentClientOpen NothingVanishes
CHECK_DEADLOCK FALSE
