--------------------------- MODULE MCTrackerRequest ---------------------------
(***************************************************************************)
(* Connection ids: the protocol id, a small one and one with both halves   *)
(* at the top of TLC's integers; transaction ids at both ends.             *)
(***************************************************************************)
EXTENDS TrackerRequest

MCConnectionIds == {CONNECT_ID_PROTOCOL_ID, <<0, 5>>, <<2147483647, 2147483647>>}
MCProtocolIdOnly == {CONNECT_ID_PROTOCOL_ID}
==============================================================================
