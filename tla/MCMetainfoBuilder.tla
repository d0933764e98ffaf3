-------------------------- MODULE MCMetainfoBuilder --------------------------
(***************************************************************************)
(* MetainfoBuilder with the piece-length constants scaled into TLC's      *)
(* integer range.  The hash length stays 20; each strategy keeps an        *)
(* integral target piece count (max_pieces_size / 20) and a minimum, and  *)
(* the cap is low enough that total sizes up to 80 reach all three arms of *)
(* the clamp for every strategy.                                           *)
(***************************************************************************)
EXTENDS MetainfoBuilder

MCFileLengths == 0..40

(***************************************************************************)
(* Single files around 3000 KiB: with the code's real OptTransfer          *)
(* constants (60000 bytes of hashes, so 3000 pieces, minimum 1 KiB) a size *)
(* just above 3000 * 1024 rounds down to 1024 per piece.                   *)
(***************************************************************************)
RealFileLengths == 3072000..3074000
==============================================================================
