SPECIFICATION FairSpec
CONSTANTS
  Producers = {p1, p2}
  Tasks = {t1, t2, t3, t4}
  Worker = w
  None = none
  CanStop = TRUE
INVARIANTS
  ListExclusive
  NoLostWakeup
  StopTakesAtMostOne
PROPERTIES
  QueueSpec
  AddedIsWorked
\* An idle worker waits for the event for ever, and AddTask is called only so often.
CHECK_DEADLOCK FALSE
