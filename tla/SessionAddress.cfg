SPECIFICATION MCSpec
CONSTANTS
  Users <- MCUsers
  Servers <- MCServers
  Ids <- MCIds
  Passes <- MCPasses
  MaxLogins = 2
  MaxRequests = 1
  Digits = {"1"}
  Letters <- MCLetters
  UrlLetters = {"1", "a", ":", "/"}
  MaxLength = 8
INVARIANTS
  TypeOK
  UnitKeepsLogin
  LoginIsOwn
  PartsAreFound
\* The program waits for the user and the server, who need not do anything.
CHECK_DEADLOCK FALSE
