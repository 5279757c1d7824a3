SPECIFICATION LiveSpec
CONSTANTS
    S = S
    r1 = r1
    r2 = r2
    a = a
    None = None
    Rs = {r1, r2}
    Chunks = {a}
    Small = {}
    Warm = {a}
    Trees <- TwoNames
    Conns = {1, 2, 3}
    Owner <- OwnerOf
    Home <- HomeOf
    MaxTrees = 2
    PutQueueSize = 1
    BrokenAtS = {3}
    BrokenAtR = {1}
CHECK_DEADLOCK FALSE
INVARIANT EveryNameServed
INVARIANT NothingKeptForEver
INVARIANT SenderKeeps
PROPERTY EveryTreeRebuilt
