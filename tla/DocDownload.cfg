SPECIFICATION MCFairSpec
CONSTANTS
  Names = {n1, n2}
  Versions = {v1}
  Zero = zero
  Odd = odd
  MaxDocs = 2
  MaxQueued = 1
  MaxRequests = 2
  MaxPublished = 1
  MaxRestarts = 1
INVARIANTS
  FalseReportsAreKnown
  LeakedIsEmpty
PROPERTIES
  UpToDateIsKept
  TasksEnd
\* The worker may wait for a task that never comes, or a transfer never end.
CHECK_DEADLOCK FALSE
