--------------------------- MODULE MetainfoBuilder ---------------------------
(***************************************************************************)
(* MetainfoBuilder / InfoBuilder (src/packages/metainfo/src/builder/       *)
(* mod.rs): the setters that fill the root dictionary (trackers, date,     *)
(* comment, created by), the info dictionary and the piece-length          *)
(* strategy, and build_with_accessor, which picks the piece length, counts *)
(* the pieces, lays out the info dictionary (single- or multi-file) and    *)
(* puts it under "info" in the root.                                       *)
(*                                                                         *)
(* The piece-length constants are CONSTANTS so that a model can scale them *)
(* down into TLC's integer range; the algorithm is the code's.  Piece      *)
(* hashes are left out and the SHA-1 workers are external; of the tracker *)
(* URLs, comment and dates only whether their key is present is kept.     *)
(***************************************************************************)
EXTENDS Naturals, Sequences, SequencesExt

CONSTANTS
    ShaHashLen,             \* sha::SHA_HASH_LEN
    AllOptMaxPieceLength,   \* ALL_OPT_MAX_PIECE_LENGTH
    BalancedMaxPiecesSize, BalancedMinPieceLength,
    FileSizeMaxPiecesSize, FileSizeMinPieceLength,
    TransferMaxPiecesSize, TransferMinPieceLength,
    CustomLengths,          \* lengths a caller may pass as PieceLength::Custom
    FileLengths,            \* lengths of the files an accessor may report
    MaxFiles,               \* bound on the number of files an accessor reports
    F64Mantissa,            \* significand bits of f64 (53)
    None                    \* model value: Option::None / an absent key

\* The keys of the root dictionary the setters write (parse::*_KEY).
ANNOUNCE_URL_KEY == "announce"
ANNOUNCE_LIST_KEY == "announce-list"
CREATION_DATE_KEY == "creation date"
COMMENT_KEY == "comment"
CREATED_BY_KEY == "created by"
RootKeys == {ANNOUNCE_URL_KEY, ANNOUNCE_LIST_KEY, CREATION_DATE_KEY, COMMENT_KEY, CREATED_BY_KEY}

\* PieceLength, the strategy enum.
OptBalanced == [kind |-> "OptBalanced"]
OptFileSize == [kind |-> "OptFileSize"]
OptTransfer == [kind |-> "OptTransfer"]
Custom(n) == [kind |-> "Custom", len |-> n]
PieceLengths == {OptBalanced, OptFileSize, OptTransfer} \cup {Custom(n) : n \in CustomLengths}

VARIABLES
    builder,        \* which builder the caller holds: MetainfoBuilder or InfoBuilder
    pieceLength,    \* InfoBuilder.piece_length
    private,        \* the "private" key of InfoBuilder.info: None, 0 or 1
    requested,      \* history: the argument of the last set_private_flag
    root,           \* the keys present in MetainfoBuilder.root
    output          \* None before build; the built metainfo, or Panic

vars == <<builder, pieceLength, private, requested, root, output>>

(***************************************************************************)
(* u64::next_power_of_two: the smallest power of two >= n (1 for n = 0).   *)
(***************************************************************************)
RECURSIVE NextPowerOfTwoFrom(_, _)
NextPowerOfTwoFrom(n, p) == IF p >= n THEN p ELSE NextPowerOfTwoFrom(n, 2 * p)
next_power_of_two(n) == NextPowerOfTwoFrom(n, 1)

\* Integer ceiling division.
CeilDiv(a, b) == (a + b - 1) \div b

(***************************************************************************)
(* f64 arithmetic of build_with_accessor.  A finite non-negative f64 is    *)
(* the record [m, e] with value m * 2^e and m below 2^F64Mantissa; every   *)
(* operation rounds its exact result to nearest, ties to even.            *)
(***************************************************************************)
RECURSIVE BitLength(_)
BitLength(n) == IF n = 0 THEN 0 ELSE 1 + BitLength(n \div 2)

\* num * 2^s / den as a fraction of naturals.
Scaled(num, den, s) == IF s >= 0 THEN <<num * 2^s, den>> ELSE <<num, den * 2^(-s)>>

\* The integer nearest to the fraction f, ties to even.
RoundHalfEven(f) ==
    LET q == f[1] \div f[2]
        r == f[1] % f[2]
    IN  CASE 2 * r < f[2] -> q
          [] 2 * r > f[2] -> q + 1
          [] OTHER        -> IF q % 2 = 0 THEN q ELSE q + 1

\* `n as f64` for a u64 n.
ToF64(n) ==
    LET drop == BitLength(n) - F64Mantissa
    IN  IF drop <= 0 THEN [m |-> n, e |-> 0]
                     ELSE [m |-> RoundHalfEven(<<n, 2^drop>>), e |-> drop]

\* x / y for y # 0.  A power-of-two divisor only moves the exponent; any
\* other quotient is scaled so that its integer part has F64Mantissa bits.
F64Div(x, y) ==
    LET t == BitLength(x.m) - BitLength(y.m)
        k == IF LET f == Scaled(x.m, y.m, -t) IN f[1] >= f[2] THEN t ELSE t - 1
        s == F64Mantissa - 1 - k
    IN  CASE x.m = 0                         -> [m |-> 0, e |-> 0]
          [] next_power_of_two(y.m) = y.m    -> [m |-> x.m, e |-> x.e - y.e - (BitLength(y.m) - 1)]
          [] OTHER -> [m |-> RoundHalfEven(Scaled(x.m, y.m, s)), e |-> x.e - y.e - s]

\* Mutant: the quotient is cast to i64 without .ceil(), truncating it.
F64Ceil_Trunc(x) == IF x.e >= 0 THEN x.m * 2^x.e ELSE x.m \div 2^(-x.e)

\* f64::ceil, then `as i64` (exact: the range assert has passed).
F64Ceil(x) == IF x.e >= 0 THEN x.m * 2^x.e ELSE CeilDiv(x.m, 2^(-x.e))

\* total_num_pieces: (total as f64 / piece_length as f64).ceil() as i64.
TotalNumPieces(total, len) == F64Ceil(F64Div(ToF64(total), ToF64(len)))

\* Mutant: the minimum arm of the clamp returns the power of two unclamped.
calculate_piece_length_NoMinClamp(totalFileSize, maxPiecesSize, minPieceLength) ==
    LET numPieces == maxPiecesSize \div ShaHashLen
        pot       == next_power_of_two((2 * totalFileSize + numPieces) \div (2 * numPieces))
    IN  IF pot < AllOptMaxPieceLength THEN pot ELSE AllOptMaxPieceLength

\* Mutant: the cap arm returns the minimum instead of ALL_OPT_MAX_PIECE_LENGTH.
calculate_piece_length_CapToMin(totalFileSize, maxPiecesSize, minPieceLength) ==
    LET numPieces == maxPiecesSize \div ShaHashLen
        pot       == next_power_of_two((2 * totalFileSize + numPieces) \div (2 * numPieces))
    IN  CASE pot > minPieceLength /\ pot < AllOptMaxPieceLength -> pot
          [] ~(pot > minPieceLength)                            -> minPieceLength
          [] OTHER                                              -> minPieceLength

(***************************************************************************)
(* calculate_piece_length: (size / (max_pieces_size / SHA_HASH_LEN) + 0.5) *)
(* truncated, i.e. size divided by the target piece count rounded half    *)
(* up, then the next power of two, clamped by the match on                *)
(* (pot > min, pot < ALL_OPT_MAX).  The f64 arithmetic is exact here: the  *)
(* target piece counts are integers and sizes stay far below 2^53.        *)
(***************************************************************************)
calculate_piece_length(totalFileSize, maxPiecesSize, minPieceLength) ==
    LET numPieces == maxPiecesSize \div ShaHashLen
        rounded   == (2 * totalFileSize + numPieces) \div (2 * numPieces)
        pot       == next_power_of_two(rounded)
    IN  CASE pot > minPieceLength /\ pot < AllOptMaxPieceLength -> pot
          [] ~(pot > minPieceLength)                            -> minPieceLength
          [] OTHER                                              -> AllOptMaxPieceLength

(***************************************************************************)
(* determine_piece_length: Custom lengths are used verbatim.               *)
(***************************************************************************)
determine_piece_length(totalFileSize, pl) ==
    CASE pl.kind = "Custom"      -> pl.len
      [] pl.kind = "OptBalanced" -> calculate_piece_length(totalFileSize, BalancedMaxPiecesSize, BalancedMinPieceLength)
      [] pl.kind = "OptFileSize" -> calculate_piece_length(totalFileSize, FileSizeMaxPiecesSize, FileSizeMinPieceLength)
      [] pl.kind = "OptTransfer" -> calculate_piece_length(totalFileSize, TransferMaxPiecesSize, TransferMinPieceLength)

\* The minimum length of an Opt* strategy.
MinPieceLengthOf(pl) ==
    CASE pl.kind = "OptBalanced" -> BalancedMinPieceLength
      [] pl.kind = "OptFileSize" -> FileSizeMinPieceLength
      [] pl.kind = "OptTransfer" -> TransferMinPieceLength

MaxPiecesSizeOf(pl) ==
    CASE pl.kind = "OptBalanced" -> BalancedMaxPiecesSize
      [] pl.kind = "OptFileSize" -> FileSizeMaxPiecesSize
      [] pl.kind = "OptTransfer" -> TransferMaxPiecesSize

(***************************************************************************)
(* What an accessor can report: the files' lengths (access_metadata) and   *)
(* whether it names a directory (access_directory).                        *)
(***************************************************************************)
\* build_with_accessor panicked (a failed assert or index).
Panic == [kind |-> "panic"]

\* into_accessor returned an error, before build_with_accessor runs.
AccessorError == [kind |-> "error"]

Accessors == [files : BoundedSeq(FileLengths, MaxFiles), directory : BOOLEAN]

TypeOK ==
    /\ pieceLength \in PieceLengths
    /\ private \in {None, 0, 1}
    /\ requested \in {None, 0, 1}
    /\ builder \in {"MetainfoBuilder", "InfoBuilder"}
    /\ \/ output \in {None, Panic, AccessorError}
       \/ output \in [kind : {"ok"}, totalLength : Nat, pieceLength : Nat \ {0}, numPieces : Nat,
                      layout : {"single", "multi"},
                      named : BOOLEAN, fileCount : Nat, private : {None, 0, 1},
                      root : SUBSET RootKeys \cup {None}]
    /\ root \subseteq RootKeys

(***************************************************************************)
(* MetainfoBuilder::new / InfoBuilder::new: an empty info dictionary (and *)
(* root) and the OptBalanced strategy.                                     *)
(***************************************************************************)
Init ==
    /\ builder \in {"MetainfoBuilder", "InfoBuilder"}
    /\ pieceLength = OptBalanced
    /\ private = None
    /\ requested = None
    /\ root = {}
    /\ output = None

(***************************************************************************)
(* The root setters of MetainfoBuilder: Some(value) inserts the key, None  *)
(* removes it.                                                             *)
(***************************************************************************)
SetRootKey(key) ==
    /\ builder = "MetainfoBuilder"
    /\ output = None
    /\ \E opt \in {None, "some"} :
        root' = IF opt = None THEN root \ {key} ELSE root \cup {key}
    /\ UNCHANGED <<builder, pieceLength, private, requested, output>>

SetTrackers == SetRootKey(ANNOUNCE_LIST_KEY)
SetMainTracker == SetRootKey(ANNOUNCE_URL_KEY)
SetCreationDate == SetRootKey(CREATION_DATE_KEY)
SetComment == SetRootKey(COMMENT_KEY)
SetCreatedBy == SetRootKey(CREATED_BY_KEY)

SetPieceLength ==
    /\ output = None
    /\ \E pl \in PieceLengths : pieceLength' = pl
    /\ UNCHANGED <<builder, private, requested, root, output>>

(***************************************************************************)
(* InfoBuilder::set_private_flag:                                          *)
(*   opt.map(i64::from)                                                    *)
(*      .and_then(|n| dict.insert(PRIVATE_KEY, n))                         *)
(*      .or_else(|| dict.remove(PRIVATE_KEY))                              *)
(* insert returns the value the key had before, so the remove runs        *)
(* whenever the key was absent before the insert -- or opt is None.       *)
(***************************************************************************)
SetPrivateFlag ==
    /\ output = None
    /\ \E opt \in {None, 0, 1} :
        LET previous == IF opt = None THEN None ELSE private
        IN  /\ private' = IF previous = None THEN None ELSE opt
            /\ requested' = opt
    /\ UNCHANGED <<builder, pieceLength, root, output>>

(***************************************************************************)
(* build_with_accessor: total the file lengths, pick the piece length,     *)
(* count the pieces with f64 division and ceil (asserting the result is in *)
(* [0, i64::MAX], which fails on a zero piece length: inf or NaN), then    *)
(* lay out the info dictionary: multi-file when there is a directory or    *)
(* more than one file (named after the directory, or ""), otherwise single *)
(* file from files_info[0], which panics when there is no file.           *)
(***************************************************************************)
\* Mutant: the range assert on the piece count is gone; a zero piece length
\* makes the division inf or NaN, which the saturating cast turns into an
\* integer (its value does not matter here).
BuildResult_NoRangeAssert(acc, threads, optRoot) ==
    LET total == FoldSeq(+, 0, acc.files)
        len   == determine_piece_length(total, pieceLength)
        multi == acc.directory \/ Len(acc.files) > 1
    IN  IF threads = 0 \/ (~multi /\ acc.files = <<>>)
        THEN Panic
        ELSE [kind        |-> "ok",
              totalLength |-> total,
              pieceLength |-> len,
              numPieces   |-> IF len = 0 THEN 0 ELSE TotalNumPieces(total, len),
              layout      |-> IF multi THEN "multi" ELSE "single",
              named       |-> acc.directory,
              fileCount   |-> Len(acc.files),
              private     |-> private,
              root        |-> optRoot]

BuildResult(acc, threads, optRoot) ==
    LET total == FoldSeq(+, 0, acc.files)
        len   == determine_piece_length(total, pieceLength)
        multi == acc.directory \/ Len(acc.files) > 1
    IN  IF threads = 0 \/ len = 0 \/ (~multi /\ acc.files = <<>>)
        THEN Panic
        ELSE [kind        |-> "ok",
              totalLength |-> total,
              pieceLength |-> len,
              numPieces   |-> TotalNumPieces(total, len),
              layout      |-> IF multi THEN "multi" ELSE "single",
              named       |-> acc.directory,
              fileCount   |-> Len(acc.files),
              private     |-> private,
              root        |-> optRoot]

(***************************************************************************)
(* MetainfoBuilder::build: into_accessor (which may fail), then           *)
(* build_with_accessor with Some(root), the info dictionary and the        *)
(* strategy, for zero or more worker threads (zero fails the first        *)
(* assert).                                                                *)
(***************************************************************************)
Build ==
    /\ builder = "MetainfoBuilder"
    /\ output = None
    /\ \/ output' = AccessorError
       \/ \E acc \in Accessors, threads \in {0, 1} : output' = BuildResult(acc, threads, root)
    /\ UNCHANGED <<builder, pieceLength, private, requested, root>>

\* InfoBuilder::build: the same, with no root; the file is the info dictionary.
InfoBuild ==
    /\ builder = "InfoBuilder"
    /\ output = None
    /\ \/ output' = AccessorError
       \/ \E acc \in Accessors, threads \in {0, 1} : output' = BuildResult(acc, threads, None)
    /\ UNCHANGED <<builder, pieceLength, private, requested, root>>

Next ==
    \/ SetTrackers \/ SetMainTracker \/ SetCreationDate \/ SetComment \/ SetCreatedBy
    \/ SetPieceLength \/ SetPrivateFlag \/ Build \/ InfoBuild

Spec == Init /\ [][Next]_vars

-----------------------------------------------------------------------------
IsPowerOfTwo(n) == next_power_of_two(n) = n

Built == output # None /\ output.kind = "ok"
IsOpt == pieceLength.kind # "Custom"

(***************************************************************************)
(* For every Opt* strategy and every accessor, build_with_accessor picks a *)
(* power-of-two piece length between the strategy's minimum and           *)
(* ALL_OPT_MAX_PIECE_LENGTH (spec 6 and 8): the rounding, the power of two *)
(* and the three-armed clamp must agree for every total size.             *)
(***************************************************************************)
PieceLengthValid ==
    Built /\ IsOpt =>
        /\ IsPowerOfTwo(output.pieceLength)
        /\ MinPieceLengthOf(pieceLength) <= output.pieceLength
        /\ output.pieceLength <= AllOptMaxPieceLength

(***************************************************************************)
(* A bigger torrent never gets a smaller piece length: the built piece     *)
(* length is at least the one calculate_piece_length gives any smaller     *)
(* total under the same strategy.                                          *)
(***************************************************************************)
PieceLengthMonotone ==
    Built /\ IsOpt =>
        \A s \in 0..output.totalLength :
            determine_piece_length(s, pieceLength) <= output.pieceLength

(***************************************************************************)
(* Spec 8: for every Opt* strategy the piece hashes fit the strategy's     *)
(* budget, ceil(size / piece_length) * 20 <= max_pieces_size, unless the   *)
(* piece length was clamped by the 16 MiB cap.                             *)
(***************************************************************************)
PieceHashesWithinBudget ==
    Built /\ IsOpt /\ output.pieceLength < AllOptMaxPieceLength =>
        output.numPieces * ShaHashLen <= MaxPiecesSizeOf(pieceLength)

(***************************************************************************)
(* Spec 6: the "private" key is set to the 0/1 the caller passed to the    *)
(* last set_private_flag (and absent after None).                          *)
(***************************************************************************)
PrivateFlagHonoured == Built => output.private = requested

(***************************************************************************)
(* The piece count build_with_accessor hands the hasher workers is the     *)
(* exact ceil(total / piece_length): the pieces cover every byte of the    *)
(* files and the last one is not empty.  The code computes it in f64,     *)
(* which is exact only while the total fits the 53-bit significand.       *)
(***************************************************************************)
PiecesCoverFiles ==
    Built =>
        /\ output.totalLength <= output.numPieces * output.pieceLength
        /\ (output.numPieces - 1) * output.pieceLength < output.totalLength
==============================================================================
