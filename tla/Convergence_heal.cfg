SPECIFICATION FairSpec
CONSTANTS
  Nobody = Nobody
  c1 = c1
  c2 = c2
  Daemons = {d1, d2}
  Clients = {c1, c2}
  Scenarios <- Mixes
  Incumbents = {d1, Nobody}
  ConnectsFail = FALSE
  DaemonsCrash = FALSE
CHECK_DEADLOCK FALSE
PROPERTIES DisplacedExitSparesSuccessor
