CONSTANTS Window = 2
          HighWater = 1
          Threshold = 1
          RecvBuf = 1
          MinRabin = 2
          MaxChunk = 1
          SkipFirst = TRUE
          MaxBytes <- Bytes
          MayClose = {"R", "S"}
          MayReset = {"R"}
CHECK_DEADLOCK FALSE
SPECIFICATION FairSpec
INVARIANT InOrder
INVARIANT ClosedAfterAll
INVARIANT WriteBufferNeverFull
PROPERTY EndsAtBoth
