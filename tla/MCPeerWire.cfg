\* The peer writes MaxMessages frames, one of which may announce a length
\* past MaxLength, and then has nothing more to do; the receiver is idle once
\* it has parsed them or dropped the connection, so the final state is not a
\* deadlock.  MaxLength is the longest frame an honest message of this
\* instance takes (a Request or Cancel, 17 bytes); 14 is the first length
\* past it and 2^31-1 the largest TLC holds.
CONSTANTS
    PieceIndices <- MCPieceIndices
    Offsets = {16384}
    Lengths = {16384}
    BlockLengths = {1, 2}
    TotalPieces = {9, 16}
    MaxMessages = 2
    MaxChunk = 3
    ExtNames = {"ut_metadata"}
    ExtIds = {1, 2}
    MaxLength = 17
    OversizeLengths = {14, 2147483647}
SPECIFICATION Spec
INVARIANT TypeOK
INVARIANT StreamRoundTrip
INVARIANT BitFieldCoversPieces
PROPERTY PeerWireRefinesChannel
CHECK_DEADLOCK FALSE
