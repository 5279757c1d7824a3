----------------------------- MODULE MCLogStore -----------------------------
(* Objects of one and two blocks from two servers.                         *)
EXTENDS LogStore

Sizes == [n \in Names |-> IF n = 1 THEN 1 ELSE 2]
Origins == [n \in Names |-> n % 2]
=============================================================================
