CONSTANTS
  Readers = {r1, r2}
  LogLength = 5
  Owner <- OwnerOf
  Left <- ToGroupEnd
  WriteOffset = 5
  ReadBufferSize = 1
  BufferSize = 2
  NumberCutoff = 3
  HocSize = 2
  CharHalf = 4
SPECIFICATION FairSpec
INVARIANT SweepOrder
INVARIANT SendsObject
PROPERTY EveryReaderEnds
