SPECIFICATION Spec
CONSTANTS
  Producers = {p1}
  Tasks = {t1, t2}
  Worker = w
  None = none
  CanStop = FALSE
INVARIANT
  OneTakePerAdd
CHECK_DEADLOCK FALSE
