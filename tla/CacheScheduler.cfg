CONSTANTS MaxCacheConns = 2
          Gets = {g1}
          KeepAlives = {k1, k2}
          Puts = {p1, p2}
          Chunks = {c1, c2}
          NoTrans = NoTrans
          NoChunk = NoChunk
          MaxPutDiskQueue = 0
          KeepAliveLimit = 2
          RemoteChunks = {c2}
SPECIFICATION FairSpec
INVARIANT OnePlace
INVARIANT KeptUntilPutDone
PROPERTY NeverLost
PROPERTY GetsAnswered
