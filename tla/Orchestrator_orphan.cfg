SPECIFICATION FairSpec
CONSTANTS
  r1 = r1
  r2 = r2
  c1 = c1
  Repos = {r1}
  Clients = {c1, c2}
  MaxEngines = 1
  MaxRequests = 2
  MaxEdits = 0
  Settings <- OnlyBare
  None = none
PROPERTIES EnginesAreReleased
CHECK_DEADLOCK FALSE
