SPECIFICATION Spec
CONSTANTS
    Reqs = {r1, r2, r3}
    None = None
    Names = {a, b}
    Threads = {t1, t2}
    TurnParts = {{0, 1}}
    SearchLimit = 1
    MaxTime = 1
    Blocks = {k}
    PerPage = 1
    MaxRestarts = 1
SYMMETRY Symmetry
INVARIANTS
    OrphansAreRaced
    SavedIsKept
    AnsweredInHistory
PROPERTIES
    LoneAppendKeeps
    ResetSparesOthers
\* Requests are finite.
CHECK_DEADLOCK FALSE
