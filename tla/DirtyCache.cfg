CONSTANTS
  url1 = url1
  url2 = url2
  Names = {url1, url2}
  Copies = {1, 2, 3}
  Name <- MCName
  Readers = {1, 2}
  Size = 2
  RemFileSize = 4
  CharHalf = 2
  Cells = {11, 12, 13}
  Spare = {14}
SPECIFICATION FairSpec
CHECK_DEADLOCK FALSE
INVARIANT LocksCounted
INVARIANT LocksGivenBack
PROPERTY SentOwnBlocks
PROPERTY DirtyGoes
