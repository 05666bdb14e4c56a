CONSTANTS
  Conn = {c1, c2}
  MaxReq = 2
  MaxBuilds = 1
SPECIFICATION Spec
INVARIANT PersistentUnchanged
CHECK_DEADLOCK FALSE
