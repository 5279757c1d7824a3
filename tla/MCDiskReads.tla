---------------------------- MODULE MCDiskReads -----------------------------
(* Two objects of one and three blocks in one group, and one of one block. *)
EXTENDS DiskReads

OwnerOf == [o \in Offset |-> CASE o = 0 -> 1 [] o \in 1 .. 3 -> 2 [] OTHER -> 3]
ToGroupEnd == [o \in Offset |-> IF o < 4 THEN 4 - o ELSE LogLength - o]
=============================================================================
