SPECIFICATION Spec
CONSTANTS
  Depths = {8, 16, 32}
  MaxCaptures = 3
INVARIANTS
  OnlyFailuresLeak
  ResultIsTrue
  StaysDefined
\* The worker waits for a screenshot that never comes, or has gone astray.
CHECK_DEADLOCK FALSE
