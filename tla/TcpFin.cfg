SPECIFICATION Spec
CONSTANTS
    Total = 3
    Mss = 2
    SndBuf = 3
    PeerWnd = 4
    MaxRtx = 2
    DupAcks = 2
    NetCap = 1
INVARIANT OneFin
