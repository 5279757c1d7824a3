CONSTANTS
  Byte = {0, 1}
  DocLength = 9
  Levels = 3
  Window = 2
  MinChunkSize = 3
  MaxChunkSize = 8
  Strengths <- Fingers
  MaxNames = 2
  MaxSends = 2
SPECIFICATION Spec
CHECK_DEADLOCK FALSE
INVARIANT CandidatesCover
INVARIANT CutAgain
INVARIANT HintsClosed
