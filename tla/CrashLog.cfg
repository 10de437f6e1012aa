SPECIFICATION Spec
CONSTANTS
  Nobody = Nobody
  Processes = {p1, p2, p3}
  MaxCalls = 2
  PromoteCap = 1
SYMMETRY Symmetry
CHECK_DEADLOCK FALSE
INVARIANTS FatalsAreTrue NoFatalLost
