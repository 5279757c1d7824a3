CONSTANTS
  Names = {1, 2}
  Size <- Sizes
  Server <- Origins
  RemFileSize = 3
  WriteBufferSize = 3
  MaxBatchSize = 2
  Threshold = 0
  CharHalf = 4
  Ways = 2
  MaxPuts = 3
  IndexChunks = 2
  MaxCrashes = 1
SPECIFICATION RSpec
CHECK_DEADLOCK FALSE
INVARIANT ConfinedDamage
PROPERTY SavedSurvives
