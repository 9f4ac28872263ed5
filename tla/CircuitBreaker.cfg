SPECIFICATION FairSpec
CONSTANTS
    Callers = {c1, c2, c3}
    Interruptible = {c3}
    Threshold = 2
    Cooldown = 2
    MaxTime = 5
INVARIANTS
    ClosedBelowThreshold
    SingleProbe
PROPERTIES
    ProbeDecides
    ContractButForLateOutcomes
\* The clock is bounded and a breaker that lost its probe refuses every call.
CHECK_DEADLOCK FALSE
