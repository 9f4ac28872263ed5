CONSTANTS
    Plain = {turn}
    Observations = {o1, o2, o3}
    Workers = {w1}
    Host = host
    MaxSeen = 2
    MaxWrites = 3
    MaxClients = 3
    MaxFaults = 2
SPECIFICATION Spec
SYMMETRY Symmetry
INVARIANT TrueIsStored
CHECK_DEADLOCK FALSE
