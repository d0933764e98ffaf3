CONSTANTS
    MaxSend = 3
    MaxArrive = 2
    RxCap = 1
    ChanCap = 1
    MaxPosts = 2
    MaxTimers = 1
    SendOutcomes <- MCSendOutcomes
    RecvOutcomes <- MCRecvOutcomes
SPECIFICATION Spec
PROPERTY BuffersConserved
