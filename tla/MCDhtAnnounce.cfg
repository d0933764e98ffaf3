\* Two trans ids, announces of ports 0 and 65535 and one foreign
\* datagram.  Once both ids are spent and the network has drained, A has
\* nothing left to send and B nothing to answer: the idle node stops.
CONSTANTS
    t1 = t1
    t2 = t2
    TransIds <- MCTransIds
    AnnouncePorts = {0, 65535}
    ForeignArgs <- MCForeignArgs
    ForeignRs <- MCForeignRs
    MaxForeign = 1
    TokenLen = 4
SPECIFICATION Spec
INVARIANT TypeOK
INVARIANT ConnectPortPreserved
INVARIANT ResponseValidatedAsExpected
CHECK_DEADLOCK FALSE
