---------------------------- MODULE MCPeerConns ----------------------------
(* Two proxies; px1 writes more.                                           *)
EXTENDS PeerConns

CONSTANTS px1, px2

OtherOne == [p \in Proxies |-> IF p = px1 THEN px2 ELSE px1]
Writes == [p \in Proxies |-> IF p = px1 THEN 3 ELSE 1]
=============================================================================
