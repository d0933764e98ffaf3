----------------------------- MODULE DhtAnnounce -----------------------------
(***************************************************************************)
(* A DHT node A that issues ping, find_node, get_peers and announce_peer   *)
(* queries, a node B that answers announce_peer, foreign nodes that send   *)
(* hand-made messages, and a UDP network that loses and duplicates         *)
(* datagrams.                                                              *)
(*                                                                         *)
(* From the source (src/packages/dht/src/message/): AnnouncePeerRequest    *)
(* encode and from_parts, AnnouncePeerResponse encode and from_parts, and  *)
(* ResponseType::from_parts, which dispatches a response on the kind the   *)
(* caller expects for its transaction id, and ResponseValidate's           *)
(* validate_nodes and validate_values.  The caller's transaction table     *)
(* (trans id -> ExpectedResponse, spec 4.4), the ping messages and the     *)
(* find_node and get_peers response parsers are modelled from the spec.    *)
(*                                                                         *)
(* A bencoded value is abstracted to its type and one integer: the value   *)
(* of an int, the length of a byte string (only lengths are validated);   *)
(* a list also keeps its elements.  A dictionary is a function from its    *)
(* keys to such values.                                                    *)
(***************************************************************************)
EXTENDS Integers, FiniteSets, Sequences

CONSTANTS
    TransIds,       \* transaction ids A may use (each at most once)
    AnnouncePorts,  \* ports A may announce explicitly
    ForeignArgs,    \* argument dictionaries foreign nodes may send to B
    ForeignRs,      \* "r" values foreign nodes may send to A
    MaxForeign,     \* bound on foreign datagrams
    TokenLen        \* length of the token A echoes

Ben(type, n) == [type |-> type, n |-> n, elems |-> <<>>]
BInt(n)   == Ben("int", n)
BBytes(n) == Ben("bytes", n)
BList(es) == [type |-> "list", n |-> Len(es), elems |-> es]

\* ConnectPort
Implied     == [kind |-> "implied", n |-> 0]
Explicit(n) == [kind |-> "explicit", n |-> n]

\* ExpectedResponse values the table holds; "None" is an absent entry.
Kinds == {"Ping", "FindNode", "GetPeers", "AnnouncePeer"}

VARIABLES
    net,        \* datagrams in flight (a set: a datagram may be delivered again)
    table,      \* A's transaction table: trans id -> ExpectedResponse
    used,       \* trans ids A has issued
    announced,  \* announces B accepted: what was sent and what B parsed
    foreign,    \* foreign datagrams sent so far
    lastParse   \* history: the expected kind and result of A's last parse

vars == <<net, table, used, announced, foreign, lastParse>>

(***************************************************************************)
(* BDictAccess lookups with BConvert: a missing key or a value of the      *)
(* wrong type is an error.                                                 *)
(***************************************************************************)
HasType(d, k, type) == k \in DOMAIN d /\ d[k].type = type

\* NodeId::from_hash / InfoHash::from_hash accept exactly 20 bytes.
ValidHash(d, k) == HasType(d, k, "bytes") /\ d[k].n = 20

(***************************************************************************)
(* ResponseValidate::validate_nodes: CompactNodeInfo::new accepts a byte   *)
(* string whose length is a multiple of 26 (spec 3, compact node info).    *)
(***************************************************************************)
validate_nodes(nodes) == nodes.n % 26 = 0

\* CompactValueInfo::new (spec 3): every value is a 6-byte compact endpoint.
CompactValueInfo_new(values) == \A i \in DOMAIN values.elems : values.elems[i].n = 6

\* Mutant: the loop that rejects a non-bytes value is gone.
validate_values_NoTypeCheck(values) == CompactValueInfo_new(values)

(***************************************************************************)
(* ResponseValidate::validate_values: every element must be a byte string  *)
(* (bencode.bytes() is Some), then CompactValueInfo::new.                  *)
(***************************************************************************)
validate_values(values) ==
    /\ \A i \in DOMAIN values.elems : values.elems[i].type = "bytes"
    /\ CompactValueInfo_new(values)

(***************************************************************************)
(* The kind-specific response parsers (spec 4.4): ping and announce_peer  *)
(* validate the 20-byte id; find_node also nodes; get_peers the id, a     *)
(* token, and the nodes (bytes) and values (list) that are present with   *)
(* their type, at least one of them, each validated.                      *)
(***************************************************************************)
FindNodeAccepted(r) == ValidHash(r, "id") /\ HasType(r, "nodes", "bytes") /\ validate_nodes(r["nodes"])

GetPeersAccepted(r) ==
    LET hasNodes  == HasType(r, "nodes", "bytes")
        hasValues == HasType(r, "values", "list")
    IN  /\ ValidHash(r, "id") /\ HasType(r, "token", "bytes")
        /\ hasNodes \/ hasValues
        /\ hasNodes => validate_nodes(r["nodes"])
        /\ hasValues => validate_values(r["values"])

KindAccepted(r, kind) ==
    CASE kind = "FindNode" -> FindNodeAccepted(r)
      [] kind = "GetPeers" -> GetPeersAccepted(r)
      [] OTHER             -> ValidHash(r, "id")

\* Mutant: encode swaps the tuple, writing Explicit(n) as (port 0, implied n).
AnnounceArgs_Swapped(port) ==
    LET shown == IF port = Implied THEN <<0, 1>> ELSE <<0, port.n>>
    IN  [k \in {"id", "implied_port", "info_hash", "port", "token"} |->
            CASE k = "implied_port" -> BInt(shown[2])
              [] k = "port"         -> BInt(shown[1])
              [] k = "token"        -> BBytes(TokenLen)
              [] OTHER              -> BBytes(20)]

(***************************************************************************)
(* AnnouncePeerRequest::encode: both port and implied_port are always      *)
(* present; Implied is sent as (port 0, implied_port 1), Explicit(n) as    *)
(* (port n, implied_port 0).                                               *)
(***************************************************************************)
AnnounceArgs(port) ==
    LET shown == IF port = Implied THEN <<0, 1>> ELSE <<port.n, 0>>
    IN  [k \in {"id", "implied_port", "info_hash", "port", "token"} |->
            CASE k = "implied_port" -> BInt(shown[2])
              [] k = "port"         -> BInt(shown[1])
              [] k = "token"        -> BBytes(TokenLen)
              [] OTHER              -> BBytes(20)]

(***************************************************************************)
(* AnnouncePeerRequest::from_parts: id and info_hash must be 20-byte       *)
(* strings and token a string; then implied_port, if it is an int other    *)
(* than 0, makes the port Implied (any other type or 0 falls through);     *)
(* otherwise port must be an int and becomes Explicit of                   *)
(* unsigned_abs(port) as u16, i.e. |port| mod 2^16.                        *)
(***************************************************************************)
IsImplied(a) == HasType(a, "implied_port", "int") /\ a["implied_port"].n # 0

\* Mutant: the port is kept as unsigned_abs() without the cast to u16.
AsU16_NoCast(i) == IF i < 0 THEN -i ELSE i

AsU16(i) == (IF i < 0 THEN -i ELSE i) % 65536

AnnounceAccepted(a) ==
    /\ ValidHash(a, "id") /\ ValidHash(a, "info_hash") /\ HasType(a, "token", "bytes")
    /\ IsImplied(a) \/ HasType(a, "port", "int")

AnnouncePort(a) == IF IsImplied(a) THEN Implied ELSE Explicit(AsU16(a["port"].n))

\* AnnouncePeerResponse::encode (and the ping response, spec 4.4): r = {id}.
ResponseR == [k \in {"id"} |-> BBytes(20)]

(***************************************************************************)
(* ResponseType::from_parts: look up the "r" dictionary first, then        *)
(* dispatch on the expected kind to its parser (AnnouncePeerResponse::     *)
(* from_parts; the others from the spec).  ExpectedResponse::None is       *)
(* UnsolicitedResponse.  A reply's "r"                                     *)
(* is isDict = FALSE when it is missing or not a dictionary.               *)
(***************************************************************************)
ParseResponse(isDict, r, expected) ==
    CASE ~isDict                                   -> "invalid"
      [] isDict /\ expected = "None"               -> "unsolicited"
      [] isDict /\ expected # "None" /\ KindAccepted(r, expected)  -> "ok"
      [] isDict /\ expected # "None" /\ ~KindAccepted(r, expected) -> "invalid"

\* The port A meant to announce; NoIntent for pings and foreign queries.
NoIntent == [kind |-> "none", n |-> 0]

Query(from, t, q, a, intent) ==
    [dir |-> "query", from |-> from, trans |-> t, q |-> q, a |-> a, intent |-> intent]
Reply(t, isDict, r) == [dir |-> "reply", trans |-> t, isDict |-> isDict, r |-> r]

NoParse == [expected |-> "None", result |-> "none", r |-> <<>>]

TypeOK ==
    /\ table \in [TransIds -> Kinds \cup {"None"}]
    /\ used \subseteq TransIds
    /\ foreign \in 0..MaxForeign
    /\ \A x \in announced : x.port = Implied \/ (x.port.kind = "explicit" /\ x.port.n \in 0..65535)
    /\ lastParse = NoParse \/ (/\ lastParse.expected \in Kinds \cup {"None"}
                              /\ lastParse.result \in {"ok", "invalid", "unsolicited"})

Init ==
    /\ net = {}
    /\ table = [t \in TransIds |-> "None"]
    /\ used = {}
    /\ announced = {}
    /\ foreign = 0
    /\ lastParse = NoParse

(***************************************************************************)
(* A issues a query on a fresh trans id and records what it expects.      *)
(***************************************************************************)
SendAnnounce ==
    \E t \in TransIds \ used, port \in {Implied} \cup {Explicit(p) : p \in AnnouncePorts} :
        /\ table' = [table EXCEPT ![t] = "AnnouncePeer"]
        /\ used' = used \cup {t}
        /\ net' = net \cup {Query("A", t, "announce_peer", AnnounceArgs(port), port)}
        /\ UNCHANGED <<announced, foreign, lastParse>>

SendPing ==
    \E t \in TransIds \ used :
        /\ table' = [table EXCEPT ![t] = "Ping"]
        /\ used' = used \cup {t}
        /\ net' = net \cup {Query("A", t, "ping", [k \in {"id"} |-> BBytes(20)], NoIntent)}
        /\ UNCHANGED <<announced, foreign, lastParse>>

\* find_node and get_peers go to nodes outside the modelled network; their
\* replies, if any, arrive as foreign replies.
SendLookup ==
    \E t \in TransIds \ used, kind \in {"FindNode", "GetPeers"} :
        /\ table' = [table EXCEPT ![t] = kind]
        /\ used' = used \cup {t}
        /\ UNCHANGED <<net, announced, foreign, lastParse>>

(***************************************************************************)
(* B handles a query: an announce_peer is parsed with from_parts; an       *)
(* accepted one is recorded and answered with AnnouncePeerResponse, a      *)
(* rejected one gets no reply.  A ping is answered with its response.      *)
(* Replies to foreign nodes leave the modelled network.                    *)
(***************************************************************************)
ReplyTo(m) == IF m.from = "A" THEN net \cup {Reply(m.trans, TRUE, ResponseR)} ELSE net

HandlePing ==
    \E m \in net :
        /\ m.dir = "query" /\ m.q = "ping"
        /\ net' = ReplyTo(m)
        /\ UNCHANGED <<table, used, announced, foreign, lastParse>>

HandleAnnounce ==
    \E m \in net :
        /\ m.dir = "query" /\ m.q = "announce_peer"
        /\ AnnounceAccepted(m.a)
        /\ announced' = announced \cup
               {[from |-> m.from, intent |-> m.intent, args |-> m.a, port |-> AnnouncePort(m.a)]}
        /\ net' = ReplyTo(m)
        /\ UNCHANGED <<table, used, foreign, lastParse>>

(***************************************************************************)
(* A handles a reply: parse it against the expected kind of its trans id  *)
(* (None when the id is not in the table).  A reply to a transaction in    *)
(* the table, valid or not, ends it and removes it (spec 4.4:              *)
(* InvalidResponse is a transaction failure); any other reply is dropped   *)
(* whatever error it parsed to.                                            *)
(***************************************************************************)
HandleReply ==
    \E m \in net :
        /\ m.dir = "reply"
        /\ LET expected == table[m.trans]
               res      == ParseResponse(m.isDict, m.r, expected)
           IN  /\ lastParse' = [expected |-> expected, result |-> res, r |-> m.r]
               /\ table' = IF expected = "None" THEN table
                            ELSE [table EXCEPT ![m.trans] = "None"]
        /\ UNCHANGED <<net, used, announced, foreign>>

\* A's transaction timer fires before any reply was handled.
TimeoutTransaction ==
    \E t \in TransIds :
        /\ table[t] # "None"
        /\ table' = [table EXCEPT ![t] = "None"]
        /\ UNCHANGED <<net, used, announced, foreign, lastParse>>

(***************************************************************************)
(* The environment: the network loses datagrams (delivery does not remove  *)
(* them, so every datagram may also be delivered again), foreign nodes    *)
(* send hand-made announce_peer queries to B and forged replies to A.     *)
(***************************************************************************)
Lose ==
    \E m \in net :
        /\ net' = net \ {m}
        /\ UNCHANGED <<table, used, announced, foreign, lastParse>>

ForeignQuery ==
    \E a \in ForeignArgs :
        /\ foreign < MaxForeign
        /\ foreign' = foreign + 1
        /\ net' = net \cup {Query("F", "foreign", "announce_peer", a, NoIntent)}
        /\ UNCHANGED <<table, used, announced, lastParse>>

ForeignReply ==
    \E t \in TransIds, r \in ForeignRs, isDict \in BOOLEAN :
        /\ foreign < MaxForeign
        /\ foreign' = foreign + 1
        /\ net' = net \cup {Reply(t, isDict, r)}
        /\ UNCHANGED <<table, used, announced, lastParse>>

Next ==
    \/ SendAnnounce \/ SendPing \/ SendLookup \/ HandlePing \/ HandleAnnounce \/ HandleReply
    \/ TimeoutTransaction \/ Lose \/ ForeignQuery \/ ForeignReply

Spec == Init /\ [][Next]_vars

-----------------------------------------------------------------------------
(***************************************************************************)
(* Scenario 5 of the spec: whatever port A announces, B's from_parts      *)
(* reads back the same ConnectPort from what encode wrote -- Implied from *)
(* (port 0, implied_port 1), Explicit(n) from (port n, implied_port 0).   *)
(***************************************************************************)
ConnectPortPreserved ==
    \A x \in announced : x.from = "A" => x.port = x.intent

(***************************************************************************)
(* Spec 4.4: when implied_port is absent or zero "port is used": the      *)
(* Explicit port B accepts is the integer the sender put under "port".    *)
(***************************************************************************)
ExplicitPortIsSentPort ==
    \A x \in announced : x.port.kind = "explicit" => x.port.n = x.args["port"].n

(***************************************************************************)
(* Spec 4.4: "receiving a response whose transaction id is not in the     *)
(* table is an UnsolicitedResponse error", whatever else is wrong with it. *)
(***************************************************************************)
UnknownTransIsUnsolicited ==
    lastParse # NoParse /\ lastParse.expected = "None" => lastParse.result = "unsolicited"

\* The validation rules of spec 4.4, as the reference the parsers are held to.
CompactNodes(v) == v.type = "bytes" /\ v.n % 26 = 0
CompactValues(v) ==
    v.type = "list" /\ \A i \in DOMAIN v.elems : v.elems[i].type = "bytes" /\ v.elems[i].n = 6
Present(r, k, Ok(_)) == k \in DOMAIN r /\ Ok(r[k])

WellFormedReply(kind, r) ==
    /\ Present(r, "id", LAMBDA v : v.type = "bytes" /\ v.n = 20)
    /\ kind = "FindNode" => Present(r, "nodes", CompactNodes)
    /\ kind = "GetPeers" =>
           /\ Present(r, "token", LAMBDA v : v.type = "bytes")
           /\ Present(r, "values", CompactValues) \/ Present(r, "nodes", CompactNodes)


(***************************************************************************)
(* Spec 4.4 validation rules: a reply A accepts satisfies the rules of the *)
(* kind A recorded for its transaction when it sent the query -- a 20-byte *)
(* id; for find_node, nodes a multiple of 26 bytes; for get_peers, a      *)
(* token and either values, each a 6-byte string, or such nodes -- however *)
(* replies are forged, duplicated, or delayed past the timeout.           *)
(***************************************************************************)
ResponseValidatedAsExpected ==
    lastParse.result = "ok" => WellFormedReply(lastParse.expected, lastParse.r)
==============================================================================
