SPECIFICATION PayloadSpec
CONSTANTS
  Texts <- MCTexts
  Size <- MCSize
  DocTexts = {"short", "foreign", "lossy"}
  MaxDocs = 2
  Empty = "empty"
  Foreign = {"foreign"}
  Lossy = "lossy"
INVARIANTS
  ReplyIsAboutRequest
  MessageSurvives
\* A payload that cannot be read is the end.
CHECK_DEADLOCK FALSE
