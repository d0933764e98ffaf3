CONSTANTS
    ShaHashLen = 20
    AllOptMaxPieceLength = 16777216
    BalancedMaxPiecesSize = 40000
    BalancedMinPieceLength = 524288
    FileSizeMaxPiecesSize = 20000
    FileSizeMinPieceLength = 1048576
    TransferMaxPiecesSize = 60000
    TransferMinPieceLength = 1024
    CustomLengths = {}
    FileLengths <- RealFileLengths
    MaxFiles = 1
    F64Mantissa = 53
    None = None
SPECIFICATION Spec
INVARIANT PieceHashesWithinBudget
CHECK_DEADLOCK FALSE
