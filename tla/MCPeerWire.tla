------------------------------ MODULE MCPeerWire ------------------------------
(***************************************************************************)
(* PeerWire for TLC: piece indices at both ends of the u32 values TLC      *)
(* holds, the 16 KiB block of the request, blocks of one and two bytes,    *)
(* and bitfields for 9 and 16 pieces (one bit past a byte, and two bytes   *)
(* exactly).                                                               *)
(***************************************************************************)
EXTENDS PeerWire

MCPieceIndices == {0, 2147483647}

\* What the peer wrote before it misbehaved: the messages the channel promises.
WellFormedPrefix(s) ==
    LET i == SelectInSeq(s, IsOversized) IN IF i = 0 THEN s ELSE SubSeq(s, 1, i - 1)

Channel == INSTANCE MessageChannel WITH sent <- WellFormedPrefix(sent), received <- received

(***************************************************************************)
(* The framed codec over TCP implements MessageChannel: every Receive      *)
(* step (bytes_needed, then the parse of one frame through the current     *)
(* extension table) obtains exactly the next message the peer wrote       *)
(* before it misbehaved, however Deliver chunked the bytes, and under the *)
(* fairness of Deliver, Receive and DropConnection every such message is   *)
(* eventually parsed -- the receiver never waits for bytes that will not  *)
(* come nor holds a whole frame, and a drop loses none of them.           *)
(***************************************************************************)
PeerWireRefinesChannel == Channel!Spec
====
