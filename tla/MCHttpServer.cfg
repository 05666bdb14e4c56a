CONSTANTS
  Conn = {c1, c2}
  Messages <- Posts
  SLOTS = 2
  DEV_SIZE = 2
  MaxReq = 3
  KAIGUAN1 = 1
  KAIGUAN2 = 2
  MENCI = 3
  WET = 8
  DRY = 6
SPECIFICATION Spec
INVARIANTS OwnPage SlotsComeRoundClean RegisteredOnce
PROPERTY OwnCommand
SYMMETRY Alike
CHECK_DEADLOCK FALSE
