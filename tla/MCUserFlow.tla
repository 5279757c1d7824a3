----------------------------- MODULE MCUserFlow -----------------------------
(* An instance of UserFlow for TLC: the bytes each user sends.             *)
EXTENDS UserFlow
Bytes == [x \in Sides |-> IF x = "R" THEN 1 ELSE 3]
=============================================================================
