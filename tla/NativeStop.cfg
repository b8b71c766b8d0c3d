CONSTANTS
    c1 = c1
    c2 = c2
    s1 = s1
    s2 = s2
    s3 = s3
    Callers = {c1}
    Slots = {s1, s2, s3}
    MaxSessions = 2
    MaxStarts = 3
SPECIFICATION Spec
PROPERTY StopReturns
CHECK_DEADLOCK FALSE
