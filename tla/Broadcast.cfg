SPECIFICATION BroadcastSpec
CONSTANTS
  Jids = {a, b}
  MaxMembers = 3
INVARIANTS
  NoUseAfterDelete
  NothingIsLeaked
  OnlineServedInTurn
\* Send returns, or never ends in a clone.
CHECK_DEADLOCK FALSE
