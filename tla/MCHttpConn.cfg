CONSTANTS
  Conn = {c1, c2}
  MaxReq = 2
  MaxBuilds = 4
SPECIFICATION MCSpec
INVARIANTS OwnAnswer ExecutedOnce WholeList
PROPERTY Served
CHECK_DEADLOCK FALSE
