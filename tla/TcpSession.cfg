CONSTANTS
    TcpBufferSize = 3
    SndBuf = 2
    Wnd = 2
    SockBuf = 1
    UpMax = 3
    DownMax = 4
SPECIFICATION Spec
INVARIANTS UnackedIntact WindowAccounting NoLostWakeup
PROPERTIES RefinesRelay SessionEnds
CHECK_DEADLOCK FALSE
