---------------------------- MODULE TrackerRequest ----------------------------
(***************************************************************************)
(* The UDP tracker request codec (src/packages/utracker/src/request.rs):   *)
(* TrackerRequest::write_bytes and parse_request, between a client that    *)
(* writes requests into datagrams and a tracker that parses them.          *)
(*                                                                         *)
(* Bytes are integers in 0..255.  A u64 connection id is the pair <<hi,    *)
(* lo>> of its 32-bit halves, written hi first (big-endian).  The bodies   *)
(* of announce and scrape requests (AnnounceRequest, ScrapeRequest, not    *)
(* under src/) follow spec 4.5 with their fixed-width fields cut down to   *)
(* the ones the dispatch depends on: the event, the IP address (4 or 16    *)
(* bytes by family) and the port; an info hash is one byte.                *)
(***************************************************************************)
EXTENDS Integers, Sequences, SequencesExt, BigEndian

CONSTANTS
    ConnectionIds,  \* connection ids for announce and scrape requests
    ConnectIds,     \* connection ids connect requests are built with
    TransactionIds, \* transaction ids (u32 values below 2^31)
    Events,         \* announce events (spec 4.5: 0..3)
    Ips,            \* IP address values (small, written over 4 or 16 bytes)
    MaxHashes,      \* bound on the info hashes of a scrape
    MaxRequests     \* bound on the requests a behaviour writes

\* CONNECT_ID_PROTOCOL_ID = 0x0417_2710_1980 as <<hi, lo>>.
CONNECT_ID_PROTOCOL_ID == <<1047, 655366528>>

\* The action ids of crate:: (spec 4.5).
CONNECT_ACTION_ID == 0
ANNOUNCE_IPV4_ACTION_ID == 1
SCRAPE_ACTION_ID == 2
ANNOUNCE_IPV6_ACTION_ID == 4

\* RequestType.
Connect == [kind |-> "Connect"]
Announce(family, event, ip, port) ==
    [kind |-> "Announce", family |-> family, event |-> event, ip |-> ip, port |-> port]
Scrape(hashes) == [kind |-> "Scrape", hashes |-> hashes]

\* TrackerRequest::new.
TrackerRequest(conn, trans, type) == [conn |-> conn, trans |-> trans, type |-> type]

\* What parse_request returns on a nom error.
ParseError == [kind |-> "error"]

\* write_u64::<BigEndian> of a connection id.
U64Bytes(c) == BytesBE(c[1], 4) \o BytesBE(c[2], 4)

IpLen(family) == IF family = "v4" THEN 4 ELSE 16

(***************************************************************************)
(* AnnounceRequest::write_bytes and ScrapeRequest::write_bytes (spec 4.5,  *)
(* cut down as said above).                                                *)
(***************************************************************************)
BodyBytes(type) ==
    IF type.kind = "Announce"
    THEN BytesBE(type.event, 4) \o BytesBE(type.ip, IpLen(type.family)) \o BytesBE(type.port, 2)
    ELSE IF type.kind = "Scrape" THEN type.hashes ELSE <<>>

(***************************************************************************)
(* TrackerRequest::write_bytes: connection id, then the action id (an      *)
(* announce's by the family of its source IP), the transaction id and the  *)
(* body.                                                                   *)
(***************************************************************************)
ActionId(type) ==
    CASE type.kind = "Connect"                            -> CONNECT_ACTION_ID
      [] type.kind = "Announce" /\ type.family = "v4"     -> ANNOUNCE_IPV4_ACTION_ID
      [] type.kind = "Announce" /\ type.family = "v6"     -> ANNOUNCE_IPV6_ACTION_ID
      [] type.kind = "Scrape"                             -> SCRAPE_ACTION_ID

\* Mutant: every announce is written with the IPv4 action id.
write_bytes_V4Only(req) ==
    U64Bytes(req.conn)
    \o BytesBE(IF req.type.kind = "Announce" THEN ANNOUNCE_IPV4_ACTION_ID ELSE ActionId(req.type), 4)
    \o BytesBE(req.trans, 4) \o BodyBytes(req.type)

write_bytes(req) ==
    U64Bytes(req.conn) \o BytesBE(ActionId(req.type), 4) \o BytesBE(req.trans, 4) \o BodyBytes(req.type)

(***************************************************************************)
(* AnnounceRequest::from_bytes_v4 / _v6 and ScrapeRequest::from_bytes:     *)
(* the body after the 16-byte header; a body too short is a nom error.     *)
(* A scrape takes every remaining info hash and needs at least one.        *)
(***************************************************************************)
ParseAnnounce(family, body) ==
    LET n == IpLen(family)
    IN  IF Len(body) < 4 + n + 2 THEN ParseError
        ELSE Announce(family, FromBE(SubSeq(body, 1, 4)),
                      FromBE(SubSeq(body, 5, 4 + n)), FromBE(SubSeq(body, 5 + n, 6 + n)))

ParseScrape(body) == IF body = <<>> THEN ParseError ELSE Scrape(body)

(***************************************************************************)
(* parse_request: read the u64 connection id, u32 action and u32           *)
(* transaction id, then match (connection id, action): a connect only      *)
(* with the protocol id, the other actions with any id, anything else an   *)
(* error (ErrorKind::Switch).                                              *)
(***************************************************************************)
parse_request(bytes) ==
    IF Len(bytes) < 16 THEN ParseError
    ELSE
    LET cid    == <<FromBE(SubSeq(bytes, 1, 4)), FromBE(SubSeq(bytes, 5, 8))>>
        action == FromBE(SubSeq(bytes, 9, 12))
        trans  == FromBE(SubSeq(bytes, 13, 16))
        body   == SubSeq(bytes, 17, Len(bytes))
        Wrap(type) == IF type = ParseError THEN ParseError ELSE TrackerRequest(cid, trans, type)
    IN  CASE cid = CONNECT_ID_PROTOCOL_ID /\ action = CONNECT_ACTION_ID -> TrackerRequest(cid, trans, Connect)
          [] action = ANNOUNCE_IPV4_ACTION_ID -> Wrap(ParseAnnounce("v4", body))
          [] action = SCRAPE_ACTION_ID        -> Wrap(ParseScrape(body))
          [] action = ANNOUNCE_IPV6_ACTION_ID -> Wrap(ParseAnnounce("v6", body))
          [] OTHER                            -> ParseError

(***************************************************************************)
(* The requests a client can build: connect requests with the ids of       *)
(* ConnectIds, announces and scrapes with those of ConnectionIds.          *)
(***************************************************************************)
RequestTypes ==
    {Announce(f, e, i, p) : f \in {"v4", "v6"}, e \in Events, i \in Ips, p \in {0, 6881, 65535}}
    \cup {Scrape(h) : h \in BoundedSeq({7, 200}, MaxHashes) \ {<<>>}}

Requests ==
    {TrackerRequest(c, t, Connect) : c \in ConnectIds, t \in TransactionIds}
    \cup {TrackerRequest(c, t, r) : c \in ConnectionIds, t \in TransactionIds, r \in RequestTypes}

VARIABLES
    written,    \* history: the requests the client wrote, in order
    datagrams,  \* datagrams in flight to the tracker, in order
    parsed      \* what the tracker's parse_request returned, in order

vars == <<written, datagrams, parsed>>

TypeOK ==
    /\ written \in Seq(Requests)
    /\ \A i \in DOMAIN datagrams : IsBytes(datagrams[i])
    /\ Len(parsed) <= Len(written)

Init == written = <<>> /\ datagrams = <<>> /\ parsed = <<>>

\* The client builds a request and writes it into one datagram.
WriteRequest ==
    /\ Len(written) < MaxRequests
    /\ \E req \in Requests :
        /\ written' = Append(written, req)
        /\ datagrams' = Append(datagrams, write_bytes(req))
    /\ UNCHANGED parsed

\* The tracker receives the next datagram and parses it.
ParseRequest ==
    /\ datagrams # <<>>
    /\ parsed' = Append(parsed, parse_request(Head(datagrams)))
    /\ datagrams' = Tail(datagrams)
    /\ UNCHANGED written

Next == WriteRequest \/ ParseRequest

Spec == Init /\ [][Next]_vars

-----------------------------------------------------------------------------
(***************************************************************************)
(* Spec 8, round trip: every request the client wrote is parsed back by    *)
(* the tracker as the same request (connection id, action dispatch by IP   *)
(* family, transaction id and body).                                       *)
(***************************************************************************)
RoundTrip == \A i \in DOMAIN parsed : parsed[i] = written[i]
==============================================================================
