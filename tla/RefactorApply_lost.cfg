SPECIFICATION Spec
CONSTANTS
  Files = {a, b}
  Spots = {m, n}
  Ignored = {n}
  Unsaved = {b}
  MaxSteps = 3
  MaxOther = 1
CHECK_DEADLOCK FALSE
INVARIANT ReportIsTrue
