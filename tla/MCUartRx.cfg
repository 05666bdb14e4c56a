CONSTANTS
  MOD = 8
  BUFSIZE = 5
  SYNC1 = 4
  SYNC2 = 2
  LineBytes = {0, 1, 2, 3, 4}
  MaxBytes = 12
SPECIFICATION MCSpec
INVARIANTS InFrame DataComplete
PROPERTY FramingSpec
CHECK_DEADLOCK FALSE
