--------------------------- MODULE MCChunkDelivery ---------------------------
(* Two receivers: r1 has two connections, r2 one, whose chunks r1 keeps.   *)
(* A tree names its chunk twice.                                           *)
EXTENDS ChunkDelivery

CONSTANTS r1, r2, a

OwnerOf == [c \in Conns |-> IF c < 3 THEN r1 ELSE r2]
HomeOf  == [r \in {r1, r2} |-> [h \in Chunks |-> IF r = r1 THEN S ELSE r1]]
TwoNames == {<<a, a>>}
=============================================================================
