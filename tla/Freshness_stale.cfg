SPECIFICATION PartsSpec
CONSTANTS
  f1 = f1
  f2 = f2
  Files = {f1, f2}
  Contents = {0, 1, 2, 3}
  Environments <- Forgetful
  None = none
  Resolution = 3
  Window = 3
  MaxTime = 7
  MaxWrites = 4
INVARIANT WarmIsCold
CHECK_DEADLOCK FALSE
