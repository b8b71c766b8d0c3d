CONSTANTS
    c1 = c1
    c2 = c2
    s1 = s1
    s2 = s2
    s3 = s3
    Callers = {c1, c2}
    Slots = {s1, s2}
    MaxSessions = 2
    MaxStarts = 2
SPECIFICATION Spec
CONSTRAINT Orderly
INVARIANTS OneThread SettingApplies TimersRun StopReachesAll
PROPERTIES JoinReturns
CHECK_DEADLOCK FALSE
