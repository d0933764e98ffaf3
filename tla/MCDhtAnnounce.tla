---------------------------- MODULE MCDhtAnnounce ----------------------------
(***************************************************************************)
(* Two transaction ids, explicit ports at both ends of u16, and foreign    *)
(* messages that vary one field at a time from a well-formed announce.     *)
(***************************************************************************)
EXTENDS DhtAnnounce

CONSTANTS t1, t2

MCTransIds == {t1, t2}

\* Stands for a key left out of a dictionary.
Absent == Ben("absent", 0)

\* A well-formed announce_peer argument dictionary with the given port
\* and implied_port entries.
ArgsWith(port, implied) ==
    LET keys == {"id", "info_hash", "token"}
                \cup (IF port = Absent THEN {} ELSE {"port"})
                \cup (IF implied = Absent THEN {} ELSE {"implied_port"})
    IN  [k \in keys |-> CASE k = "port"         -> port
                          [] k = "implied_port" -> implied
                          [] k = "token"        -> BBytes(4)
                          [] OTHER              -> BBytes(20)]

MCForeignArgs ==
    {ArgsWith(p, i) : p \in {Absent, BInt(6881), BInt(72417), BInt(-6881), BBytes(2)},
                      i \in {Absent, BInt(0), BInt(1), BInt(2), BBytes(1)}}
    \cup {[k \in {"id", "info_hash", "token", "port"} |->
              IF k = "id" THEN BBytes(19) ELSE IF k = "port" THEN BInt(6881) ELSE BBytes(20)]}

\* A reply dictionary of 20-byte id plus the given entries.
RWith(keys, val(_)) == [k \in {"id"} \cup keys |-> IF k = "id" THEN BBytes(20) ELSE val(k)]

(***************************************************************************)
(* Replies: for ping and announce_peer a good id, a short id, an int id or *)
(* an empty dictionary; for find_node nodes of 26 or 25 bytes; for         *)
(* get_peers a value of 6 bytes, of 5 bytes or an int 6, two nodes, and     *)
(* nodes of the wrong type with no values.                                 *)
(***************************************************************************)
MCForeignRs ==
    {[k \in {"id"} |-> BBytes(20)], [k \in {"id"} |-> BBytes(19)],
     [k \in {"id"} |-> BInt(1)], [k \in {} |-> BInt(0)],
     RWith({"nodes"}, LAMBDA k : BBytes(26)),
     RWith({"nodes"}, LAMBDA k : BBytes(25)),
     RWith({"token", "values"}, LAMBDA k : IF k = "token" THEN BBytes(4) ELSE BList(<<BBytes(6)>>)),
     RWith({"token", "values"}, LAMBDA k : IF k = "token" THEN BBytes(4) ELSE BList(<<BBytes(5)>>)),
     RWith({"token", "values"}, LAMBDA k : IF k = "token" THEN BBytes(4) ELSE BList(<<BInt(6)>>)),
     RWith({"token", "nodes"}, LAMBDA k : IF k = "token" THEN BBytes(4) ELSE BBytes(52)),
     RWith({"token", "nodes"}, LAMBDA k : IF k = "token" THEN BBytes(4) ELSE BList(<<>>))}
==============================================================================
