SPECIFICATION Spec
CONSTANTS
    Total = 3
    Mss = 2
    SndBuf = 3
    PeerWnd = 4
    MaxRtx = 2
    DupAcks = 1
    NetCap = 1
INVARIANTS StreamIntact NothingLost SndBufConserved WindowRespected TimerRuns
PROPERTY Drains
