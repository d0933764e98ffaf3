\* Connect requests carry the protocol id, as the tracker client builds them.
\* The client writes MaxRequests requests; once the tracker has parsed them
\* both are idle.
CONSTANTS
    ConnectionIds <- MCConnectionIds
    ConnectIds <- MCProtocolIdOnly
    TransactionIds = {0, 2147483647}
    Events = {0, 3}
    Ips = {1, 65535}
    MaxHashes = 2
    MaxRequests = 2
SPECIFICATION Spec
INVARIANT TypeOK
INVARIANT RoundTrip
CHECK_DEADLOCK FALSE
