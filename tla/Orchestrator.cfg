SPECIFICATION FairSpec
CONSTANTS
  r1 = r1
  r2 = r2
  c1 = c1
  Repos = {r1, r2}
  Clients = {c1, c2}
  MaxEngines = 1
  MaxRequests = 2
  MaxEdits = 1
  Settings <- Each
  None = none
CHECK_DEADLOCK FALSE
INVARIANTS RegisteredIsLive NoOrphanEngine WithinBudget ServedByCurrentConfig GateHolds
PROPERTIES RequestsEnd UnsharedAreReleased
