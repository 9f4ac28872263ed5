CONSTANTS
    Profiles = {p1, p2}
    Threads = {t1, t2}
    FirstProfile = p1
    FirstThread = t1
    Hermes = Hermes
    Workers = {w1, w2}
    MaxEntries = 2
    MaxHooks = 2
    MaxLost = 1
    MaxBringUps = 1
    NoText = NoText
    Absent = Absent
SPECIFICATION Spec
INVARIANT NoProfileLeak
CHECK_DEADLOCK FALSE
