------------------------------- MODULE PeerWire -------------------------------
(***************************************************************************)
(* The standard peer-wire messages over a TCP stream.                      *)
(*                                                                         *)
(* From the source (src/bip_peer/src/message/standard.rs): the messages    *)
(* Have, BitField, Request, Piece and Cancel, BitFieldMessage::new and     *)
(* their parsers parse_have, parse_bitfield, parse_request, parse_piece    *)
(* and parse_cancel.  The framing around them (u32 length, u8 id, body),   *)
(* the writer and bytes_needed are not under src/ and follow spec 4.3.     *)
(*                                                                         *)
(* The sender writes frames into the stream; TCP hands the receiver the    *)
(* bytes in chunks of any size; the receiver asks bytes_needed how long    *)
(* the next frame is and parses it once it has that many bytes.  The block *)
(* carried by a Piece is data the parser does not read; its bytes are 0.   *)
(*                                                                         *)
(* Extension messages (id 20, spec 4.3) carry a sub-id: 0 is a handshake   *)
(* whose m dictionary maps extension names to sub-ids, any other sub-id    *)
(* names the extension the last handshake gave it.  Each side's nested     *)
(* protocol keeps that table and, by the NestedPeerProtocol contract       *)
(* (src/packages/peer/src/protocol/mod.rs), sees the handshake in the same *)
(* step as the frame that carries it.  The bencoded m dictionary is        *)
(* abstracted to one byte per known name: its sub-id, or 0 when absent.    *)
(*                                                                         *)
(* The remote end may misbehave: it may announce a frame longer than the  *)
(* receiver's configured maximum.  bytes_needed then fails, and by the     *)
(* PeerProtocol contract the connection is dropped.                        *)
(***************************************************************************)
EXTENDS Integers, Sequences, SequencesExt, BigEndian

CONSTANTS
    PieceIndices,   \* piece indices messages carry (u32 values below 2^31)
    Offsets,        \* block offsets
    Lengths,        \* block lengths of Request and Cancel
    BlockLengths,   \* lengths of the blocks Piece messages carry
    TotalPieces,    \* piece counts a BitField is built for
    MaxMessages,    \* bound on the messages the sender writes
    MaxChunk,       \* bound on the bytes TCP hands over at once
    ExtNames,       \* extension names a handshake may map
    ExtIds,         \* sub-ids a handshake may give them (1..255)
    MaxLength,      \* the receiver's configured maximum frame length
    OversizeLengths \* lengths a misbehaving peer announces (> MaxLength - 4)

BITS_PER_BYTE == 8

\* The messages without a body, by id (spec 4.3).
Choke == [kind |-> "Choke"]
Unchoke == [kind |-> "Unchoke"]
Interested == [kind |-> "Interested"]
NotInterested == [kind |-> "NotInterested"]
KeepAlive == [kind |-> "KeepAlive"]

\* The extension handshake with m dictionary map, and an extension message
\* for name written with sub-id id.
ExtHandshake(map) == [kind |-> "ExtHandshake", m |-> map]
ExtMessage(name, id) == [kind |-> "Ext", name |-> name, id |-> id]

\* What the parser gives for a sub-id no handshake has mapped.
UnknownExt(id) == [kind |-> "UnknownExt", id |-> id]

\* HaveMessage::new
HaveMessage(index) == [kind |-> "Have", index |-> index]

\* RequestMessage::new, PieceMessage::new, CancelMessage::new
RequestMessage(index, offset, length) ==
    [kind |-> "Request", index |-> index, offset |-> offset, length |-> length]
PieceMessage(index, offset, length) ==
    [kind |-> "Piece", index |-> index, offset |-> offset, length |-> length]
CancelMessage(index, offset, length) ==
    [kind |-> "Cancel", index |-> index, offset |-> offset, length |-> length]

\* Mutant: the byte count rounds down, dropping the last partial byte.
BitFieldMessage_new_Floor(total_pieces) ==
    [kind |-> "BitField", bytes |-> [i \in 1..(total_pieces \div BITS_PER_BYTE) |-> 0]]

(***************************************************************************)
(* BitFieldMessage::new: one bit per piece, all clear, in                  *)
(* ceil(total_pieces / 8) bytes.                                           *)
(***************************************************************************)
BitFieldMessage_new(total_pieces) ==
    LET bytes_needed == IF total_pieces % BITS_PER_BYTE = 0
                        THEN total_pieces \div BITS_PER_BYTE
                        ELSE (total_pieces \div BITS_PER_BYTE) + 1
    IN  [kind |-> "BitField", bytes |-> [i \in 1..bytes_needed |-> 0]]

(***************************************************************************)
(* The frame the writer produces (spec 4.3): u32 length of id and body,    *)
(* then the id and the body; a keepalive is a zero length alone.          *)
(***************************************************************************)
U32(n) == BytesBE(n, 4)

ExtOrder == SetToSeq(ExtNames)

HandshakeBytes(map) ==
    [i \in DOMAIN ExtOrder |-> IF ExtOrder[i] \in DOMAIN map THEN map[ExtOrder[i]] ELSE 0]

Body(m) ==
    CASE m.kind = "Have"     -> U32(m.index)
      [] m.kind = "BitField" -> m.bytes
      [] m.kind = "Request"  -> U32(m.index) \o U32(m.offset) \o U32(m.length)
      [] m.kind = "Piece"    -> U32(m.index) \o U32(m.offset) \o [i \in 1..m.length |-> 0]
      [] m.kind = "Cancel"   -> U32(m.index) \o U32(m.offset) \o U32(m.length)
      [] m.kind = "ExtHandshake" -> <<0>> \o HandshakeBytes(m.m)
      [] m.kind = "Ext"      -> <<m.id>>
      [] OTHER               -> <<>>

MessageId ==
    [Choke |-> 0, Unchoke |-> 1, Interested |-> 2, NotInterested |-> 3,
     Have |-> 4, BitField |-> 5, Request |-> 6, Piece |-> 7, Cancel |-> 8,
     ExtHandshake |-> 20, Ext |-> 20]

Frame(m) ==
    IF m = KeepAlive THEN U32(0)
    ELSE U32(1 + Len(Body(m))) \o <<MessageId[m.kind]>> \o Body(m)

(***************************************************************************)
(* The parsers of standard.rs, on the body after the id.  parse_bitfield   *)
(* and parse_piece are given len by the caller: the body length for the    *)
(* bitfield, the block length (frame length - 9) for the piece, which      *)
(* parse_piece takes as the block length without reading the block.       *)
(***************************************************************************)
parse_have(bytes) == HaveMessage(FromBE(SubSeq(bytes, 1, 4)))

parse_bitfield(bytes, len) == [kind |-> "BitField", bytes |-> SubSeq(bytes, 1, len)]

\* Mutant: the tuple is read as (offset, index, length).
parse_request_Swapped(bytes) ==
    RequestMessage(FromBE(SubSeq(bytes, 5, 8)), FromBE(SubSeq(bytes, 1, 4)), FromBE(SubSeq(bytes, 9, 12)))

parse_request(bytes) ==
    RequestMessage(FromBE(SubSeq(bytes, 1, 4)), FromBE(SubSeq(bytes, 5, 8)), FromBE(SubSeq(bytes, 9, 12)))

parse_piece(bytes, len) ==
    PieceMessage(FromBE(SubSeq(bytes, 1, 4)), FromBE(SubSeq(bytes, 5, 8)), len)

parse_cancel(bytes) ==
    CancelMessage(FromBE(SubSeq(bytes, 1, 4)), FromBE(SubSeq(bytes, 5, 8)), FromBE(SubSeq(bytes, 9, 12)))

(***************************************************************************)
(* The receiver's side of spec 4.3: bytes_needed is the whole frame once   *)
(* the length prefix is in, none before, and an error when the frame would *)
(* exceed MaxLength; a complete frame is dispatched on its id to the       *)
(* parser of its message.                                                  *)
(***************************************************************************)
NotYet == -1
TooLong == -2

\* Mutant: the frame length is taken to include its own prefix byte count once more.
bytes_needed_PlusOne(buf) ==
    IF Len(buf) < 4 THEN NotYet
    ELSE LET len == FromBE(SubSeq(buf, 1, 4))
         IN  IF len > MaxLength - 4 THEN TooLong ELSE 5 + len

bytes_needed(buf) ==
    IF Len(buf) < 4 THEN NotYet
    ELSE LET len == FromBE(SubSeq(buf, 1, 4))
         IN  IF len > MaxLength - 4 THEN TooLong ELSE 4 + len

\* The handshake's m dictionary read back from its bytes.
ParseHandshake(bytes) ==
    LET mapped == {i \in DOMAIN ExtOrder : bytes[i] # 0}
    IN  ExtHandshake([n \in {ExtOrder[i] : i \in mapped} |->
                         bytes[CHOOSE i \in mapped : ExtOrder[i] = n]])

\* An extension message resolved through the nested protocol's table.
ParseExtension(body, table) ==
    IF body[1] = 0 THEN ParseHandshake(SubSeq(body, 2, Len(body)))
    ELSE IF \E n \in DOMAIN table : table[n] = body[1]
         THEN ExtMessage(CHOOSE n \in DOMAIN table : table[n] = body[1], body[1])
         ELSE UnknownExt(body[1])

ParseFrame(frame, table) ==
    LET length == FromBE(SubSeq(frame, 1, 4))
        id     == frame[5]
        body   == SubSeq(frame, 6, Len(frame))
    IN  IF length = 0 THEN KeepAlive
        ELSE CASE id = 0 -> Choke
               [] id = 1 -> Unchoke
               [] id = 2 -> Interested
               [] id = 3 -> NotInterested
               [] id = 4 -> parse_have(body)
               [] id = 5 -> parse_bitfield(body, length - 1)
               [] id = 6 -> parse_request(body)
               [] id = 7 -> parse_piece(body, length - 9)
               [] id = 8 -> parse_cancel(body)
               [] id = 20 -> ParseExtension(body, table)

\* The m dictionaries: partial maps of names to distinct sub-ids.
ExtMaps ==
    UNION {{map \in [names -> ExtIds] : \A a, b \in names : a # b => map[a] # map[b]} :
              names \in SUBSET ExtNames}

\* The messages the sender may write.
Messages ==
    {KeepAlive, Choke, Unchoke, Interested, NotInterested}
    \cup {HaveMessage(i) : i \in PieceIndices}
    \cup {BitFieldMessage_new(n) : n \in TotalPieces}
    \cup {RequestMessage(i, o, l) : i \in PieceIndices, o \in Offsets, l \in Lengths}
    \cup {PieceMessage(i, o, l) : i \in PieceIndices, o \in Offsets, l \in BlockLengths}
    \cup {CancelMessage(i, o, l) : i \in PieceIndices, o \in Offsets, l \in Lengths}
    \cup {ExtHandshake(map) : map \in ExtMaps}
    \cup {ExtMessage(n, i) : n \in ExtNames, i \in ExtIds}

\* What a misbehaving peer writes: a length prefix past the maximum.
Oversized(len) == [kind |-> "Oversized", length |-> len]
IsOversized(m) == m.kind = "Oversized"

VARIABLES
    sent,       \* history: the messages the sender wrote, in order
    stream,     \* bytes written and not yet handed to the receiver
    inbuf,      \* bytes the receiver holds and has not parsed
    received,   \* the messages the receiver parsed, in order
    advertised, \* the sender's nested table: m of the last handshake it wrote
    nested,     \* the receiver's nested table: m of the last handshake it parsed
    dropped     \* the receiver dropped the connection

vars == <<sent, stream, inbuf, received, advertised, nested, dropped>>

TypeOK ==
    /\ sent \in Seq(Messages \cup {Oversized(l) : l \in OversizeLengths})
    /\ IsBytes(stream) /\ IsBytes(inbuf)
    /\ Len(received) <= Len(sent)
    /\ advertised \in ExtMaps /\ nested \in ExtMaps
    /\ dropped \in BOOLEAN

NoExtensions == [n \in {} |-> 0]

Init ==
    /\ sent = <<>> /\ stream = <<>> /\ inbuf = <<>> /\ received = <<>>
    /\ advertised = NoExtensions /\ nested = NoExtensions
    /\ dropped = FALSE

(***************************************************************************)
(* The sender writes a frame.  An extension message goes out under the     *)
(* sub-id its own last handshake gave the name, and writing a handshake    *)
(* is seen by its nested protocol (sent_message) in the same step.        *)
(***************************************************************************)
Writable(m) == m.kind = "Ext" => m.name \in DOMAIN advertised /\ advertised[m.name] = m.id

Write ==
    /\ ~dropped /\ Len(sent) < MaxMessages
    /\ \E m \in Messages :
        /\ Writable(m)
        /\ sent' = Append(sent, m)
        /\ stream' = stream \o Frame(m)
        /\ advertised' = IF m.kind = "ExtHandshake" THEN m.m ELSE advertised
    /\ UNCHANGED <<inbuf, received, nested, dropped>>

\* A misbehaving peer announces a frame longer than the receiver accepts.
WriteOversized ==
    /\ ~dropped /\ Len(sent) < MaxMessages
    /\ \E l \in OversizeLengths :
        /\ sent' = Append(sent, Oversized(l))
        /\ stream' = stream \o U32(l)
    /\ UNCHANGED <<inbuf, received, advertised, nested, dropped>>

\* TCP hands the receiver the next 1..MaxChunk bytes of an open connection.
Deliver ==
    /\ ~dropped
    /\ \E k \in 1..MaxChunk :
        /\ k <= Len(stream)
        /\ inbuf' = inbuf \o SubSeq(stream, 1, k)
        /\ stream' = SubSeq(stream, k + 1, Len(stream))
    /\ UNCHANGED <<sent, received, advertised, nested, dropped>>

(***************************************************************************)
(* The receiver parses one frame once bytes_needed says it has it all, and *)
(* a handshake reaches its nested protocol (received_message) before the   *)
(* next frame is parsed.                                                   *)
(***************************************************************************)
Receive ==
    LET n   == bytes_needed(inbuf)
        msg == ParseFrame(SubSeq(inbuf, 1, n), nested)
    IN  /\ ~dropped /\ n >= 0 /\ Len(inbuf) >= n
        /\ received' = Append(received, msg)
        /\ inbuf' = SubSeq(inbuf, n + 1, Len(inbuf))
        /\ nested' = IF msg.kind = "ExtHandshake" THEN msg.m ELSE nested
        /\ UNCHANGED <<sent, stream, advertised, dropped>>

\* bytes_needed failed: the connection is dropped and nothing more is read.
DropConnection ==
    /\ ~dropped /\ bytes_needed(inbuf) = TooLong
    /\ dropped' = TRUE
    /\ UNCHANGED <<sent, stream, inbuf, received, advertised, nested>>

Next == Write \/ WriteOversized \/ Deliver \/ Receive \/ DropConnection

Spec == Init /\ [][Next]_vars /\ WF_vars(Deliver) /\ WF_vars(Receive) /\ WF_vars(DropConnection)

-----------------------------------------------------------------------------
(***************************************************************************)
(* Spec 8, round trip over the stream: however TCP splits the bytes, the  *)
(* receiver parses exactly the messages the sender wrote, in order -- an   *)
(* extension message resolved to the name the sender meant, whatever       *)
(* handshakes re-mapped the sub-ids before it.                             *)
(***************************************************************************)
StreamRoundTrip == IsPrefix(received, sent)

(***************************************************************************)
(* Spec 4.3, a bitfield has a bit for every piece: each BitField the      *)
(* receiver gets carries at least one bit per piece of the torrent it was *)
(* built for (the one it stands at the same position in sent).           *)
(***************************************************************************)
BitFieldCoversPieces ==
    \A i \in DOMAIN received :
        received[i].kind = "BitField" =>
            \E n \in TotalPieces :
                sent[i] = BitFieldMessage_new(n) /\ BITS_PER_BYTE * Len(received[i].bytes) >= n

==============================================================================
