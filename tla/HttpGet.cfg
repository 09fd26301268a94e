SPECIFICATION MCFairSpec
CONSTANTS
  Chunk = 2
  BufChunks = 3
  MaxHeader = 7
  MaxBody = 7
INVARIANTS
  BodyIsKept
  SuccessIsWhole
  StaysDefined
PROPERTIES
  TransferIsAsAssumed
  WholeResponseEnds
\* httpGetFile returns.
CHECK_DEADLOCK FALSE
