CONSTANTS
  Names = {1, 2}
  Size <- Sizes
  Server <- Origins
  RemFileSize = 4
  WriteBufferSize = 4
  MaxBatchSize = 3
  Threshold = 0
  CharHalf = 4
  Ways = 3
  MaxPuts = 4
SPECIFICATION FairSpec
CHECK_DEADLOCK FALSE
INVARIANT NotOvertaken
PROPERTY WrittenIsFound
PROPERTY WaitingIsWritten
