SPECIFICATION PartsSpec
CONSTANTS
  Conns = {c1, c2}
  Reqs = {r1, r2, r3}
  None = none
  Calls = {x, y}
CHECK_DEADLOCK FALSE
INVARIANTS HoldsAreBalanced FilesTellTheTruth WaitsAreAccounted OutcomeIsTrue
PROPERTIES IdleExitOnlyWhenIdle IdleDaemonExits ShutdownCompletes EveryCallEnds
