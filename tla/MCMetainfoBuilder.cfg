CONSTANTS
    ShaHashLen = 20
    AllOptMaxPieceLength = 16
    BalancedMaxPiecesSize = 80
    BalancedMinPieceLength = 4
    FileSizeMaxPiecesSize = 40
    FileSizeMinPieceLength = 8
    TransferMaxPiecesSize = 120
    TransferMinPieceLength = 1
    CustomLengths = {0, 5}
    FileLengths <- MCFileLengths
    MaxFiles = 2
    F64Mantissa = 7
    None = None
SPECIFICATION Spec
INVARIANT TypeOK
INVARIANT PieceLengthValid
INVARIANT PieceLengthMonotone
INVARIANT PiecesCoverFiles
CHECK_DEADLOCK FALSE
