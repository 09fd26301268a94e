SPECIFICATION Spec
CONSTANTS
  UnderInfo = {"ulogin", "guest", "uid", "upass", "last", "next"}
  UnderLast = {"upass"}
  Spots <- MCSpots
  MaxPosted = 1
INVARIANTS
  ScreenIsCurrent
  ClickIsOnPage
PROPERTIES
  ErasesOnlyTurned
  NoPhantomClick
\* The dialog may be closed.
CHECK_DEADLOCK FALSE
