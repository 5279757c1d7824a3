----------------------------- MODULE MCRestart -----------------------------
(* Objects of one and two blocks from one server.                          *)
EXTENDS Restart

Sizes == [n \in Names |-> IF n = 1 THEN 1 ELSE 2]
Origins == [n \in Names |-> 0]
=============================================================================
