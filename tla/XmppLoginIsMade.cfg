SPECIFICATION Spec
CONSTANTS
  MaxLogins = 2
  MaxUnderWay = 2
  MaxVerdicts = 0
  ClosePages = {0}
INVARIANT
  LoginIsMade
CHECK_DEADLOCK FALSE
