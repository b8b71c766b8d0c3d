SPECIFICATION FairSpec
CONSTANTS
    Profiles = {p1}
    NoProfile = NoProfile
    Prefs <- KillPlainPrefs
    MaxSeamless = 1
    MaxAuto = 1
    Recs = {r1, r2}
    JoinMayTimeOut = TRUE
    MaxIntents = 1
    MaxInputs = 3
PROPERTY ReconnectEnds
PROPERTY ConnectEnds
PROPERTY DisconnectTearsDown
CHECK_DEADLOCK FALSE
