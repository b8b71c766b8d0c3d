CONSTANTS
    TcpBufferSize = 3
    SndBuf = 2
    Wnd = 2
    SockBuf = 1
    UpMax = 3
    DownMax = 4
SPECIFICATION Spec
INVARIANT PcbValid
CHECK_DEADLOCK FALSE
