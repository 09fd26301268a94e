SPECIFICATION FairSpec
CONSTANTS
  MaxLogins = 3
  MaxUnderWay = 2
  MaxVerdicts = 1
  ClosePages = {0}
INVARIANTS
  NeverLeftWaiting
  CrashIsInDisConnect
  RegisteredOnce
  SessionIsTheOneAsked
  SuccessIsTrue
PROPERTY
  WaitEnds
CHECK_DEADLOCK FALSE
