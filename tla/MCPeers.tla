------------------------------- MODULE MCPeers -------------------------------
(* Instances of Peers for TLC: the model values are in the configurations. *)
EXTENDS Peers

CONSTANTS s, r1, r2, x

Visits_s == {<<s, x>>}
=============================================================================
