SPECIFICATION FairSpec
CONSTANTS
  Nobody = Nobody
  c1 = c1
  c2 = c2
  Daemons = {d1, d2}
  Clients = {c1, c2}
  Scenarios <- Mixes
  Incumbents = {d1, Nobody}
  ConnectsFail = TRUE
  DaemonsCrash = TRUE
CHECK_DEADLOCK FALSE
INVARIANTS StrangersAreSpared RestartRenews
PROPERTIES ReprobeGuards StopMeansStopped OrphansExit ClientsConclude
