SPECIFICATION PartsSpec
CONSTANTS
  MaxId = 3
  MaxOps = 2
  Threshold = 2
  ORPHAN_GRACE_TICKS = 2
CHECK_DEADLOCK FALSE
INVARIANTS SettledExactlyOnce WaitIsBounded NoAbandonedChild ReapedForCause
PROPERTIES KillsHaveCause KeepsPromise HandshakesEnd NoZombies
