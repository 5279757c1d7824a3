CONSTANTS
  Clients = {1, 2}
  MaxRequests = 2
  Blocks = 2
  Fds = {1, 2}
  CLimit = 1
SPECIFICATION FairSpec
CHECK_DEADLOCK FALSE
INVARIANT NoDangling
INVARIANT NothingForgotten
PROPERTY EveryClientServed
