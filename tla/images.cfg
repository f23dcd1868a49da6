CONSTANTS
  Place = {1, 2, 3}
  Requests <- Asked
  Standings <- Roles
  maxFocusIDs = 1
  MaxTiles = 2
  minTokenLife = 2
  Lifetimes = {1, 4}
  Limit <- Limits
  None = None
  MaxMeddling = 1
SPECIFICATION FairSpec
INVARIANTS
  TypeOK
  ImagesTellTheBoard
  NoTokenRunsOut
PROPERTIES
  EveryCallAnswers
CHECK_DEADLOCK FALSE
