CONSTANTS
    MaxSend = 4
    MaxArrive = 3
    RxCap = 2
    ChanCap = 2
    MaxPosts = 3
    MaxTimers = 2
    SendOutcomes <- MCSendOutcomes
    RecvOutcomes <- MCRecvOutcomes
SPECIFICATION Spec
INVARIANT TypeOK
INVARIANT WireFollowsEnqueueOrder
PROPERTY OutQueueRefinesDatagramQueue
