------------------------------ MODULE BigEndian ------------------------------
(***************************************************************************)
(* Big-endian integers as bytes (integers in 0..255): what byteorder's     *)
(* write_u16/u32::<BigEndian> write and nom's be_u16/be_u32 read.  The     *)
(* values written must stay within TLC's integers (below 2^31).            *)
(***************************************************************************)
EXTENDS Integers, Sequences, SequencesExt

\* Mutant: a byte is written without masking it to its low eight bits.
RECURSIVE BytesBE_NoMask(_, _)
BytesBE_NoMask(n, k) == IF k = 0 THEN <<>> ELSE BytesBE_NoMask(n \div 256, k - 1) \o <<n>>

\* n as k bytes, most significant first.
RECURSIVE BytesBE(_, _)
BytesBE(n, k) == IF k = 0 THEN <<>> ELSE BytesBE(n \div 256, k - 1) \o <<n % 256>>

\* The integer the bytes s encode, most significant first.
FromBE(s) == FoldLeft(LAMBDA acc, b : acc * 256 + b, 0, s)

\* A sequence of bytes.
IsBytes(s) == \A i \in DOMAIN s : s[i] \in 0..255
==============================================================================
