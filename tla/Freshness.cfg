SPECIFICATION PartsSpec
CONSTANTS
  f1 = f1
  f2 = f2
  Files = {f1, f2}
  Contents = {0, 1, 2, 3}
  Environments <- Mixes
  None = none
  Resolution = 3
  Window = 3
  MaxTime = 7
  MaxWrites = 4
INVARIANTS ColdEqualsWarm AnchorIsHonest UnverifiedIsSticky NoChangeIsMissed
PROPERTY OneViewPerBatch
CHECK_DEADLOCK FALSE
