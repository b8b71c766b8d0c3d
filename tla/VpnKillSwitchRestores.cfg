SPECIFICATION Spec
CONSTANTS
    Profiles = {p1, p2}
    NoProfile = NoProfile
    Prefs <- KillPrefs
    MaxSeamless = 1
    MaxAuto = 1
    Recs = {r1, r2}
    JoinMayTimeOut = TRUE
    MaxIntents = 1
    MaxInputs = 3
SYMMETRY Interchangeable
INVARIANT KillSwitchRestores
CHECK_DEADLOCK FALSE
