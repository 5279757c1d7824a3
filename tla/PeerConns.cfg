CONSTANTS
  px1 = px1
  px2 = px2
  Proxies = {px1, px2}
  Other <- OtherOne
  g_MaxPeerConns = 2
  Kinds = {"name", "chunk"}
  MaxConns = 6
  MaxWrites <- Writes
  MaxBreaks = 1
SPECIFICATION Spec
CHECK_DEADLOCK FALSE
INVARIANT ChunkSlotFound
INVARIANT EmptySlotOnlyIf
INVARIANT LostOnlyIf
INVARIANT FlowOrder
