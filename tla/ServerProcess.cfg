SPECIFICATION Spec
CONSTANTS
    Callers = {c1, c2}
    Pids = {p1, p2, p3}
    Ports = {n1, n2}
    None = None
    MaxCalls = 3
SYMMETRY Symmetry
INVARIANTS
    TrackedUnlessRaced
PROPERTIES
    LoneStopStops
    StrangersSpared
\* The calls are bounded.
CHECK_DEADLOCK FALSE
