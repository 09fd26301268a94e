SPECIFICATION MCFairSpec
CONSTANTS
  Ids = {1, 2, 3}
  Kinds = {"userlogin", "docdown", "docplay", "sccut", "senceupdate"}
  Subtypes = {"set"}
  MaxSessions = 2
INVARIANTS
  AnswersTrue
  LabelNotStuck
PROPERTIES
  ServiceSpec
  TasksAreAnswered
\* The server stops sending some time.
CHECK_DEADLOCK FALSE
