SPECIFICATION Spec
CHECK_DEADLOCK FALSE
CONSTANTS
  Folders = {a}
  Root = root
  File = file
  MaxWrites = 2
  MaxMoves = 1
  MaxPreviews = 1
CONSTRAINT Focus
ACTION_CONSTRAINT Prompt
INVARIANTS OwnWritesShown UrlsRevoked
