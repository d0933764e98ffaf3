CONSTANTS
    MaxSend = 3
    MaxArrive = 2
    RxCap = 1
    ChanCap = 1
    MaxPosts = 2
    MaxTimers = 1
    SendOutcomes <- MCPanicOutcomes
    RecvOutcomes <- MCRecvOk
SPECIFICATION Spec
INVARIANT NeverPanics
