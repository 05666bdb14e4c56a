CONSTANTS
  Threads = {serial, http, main}
  FLEN = 3
  MAXFILES = 2
  Conns = {c1, c2}
  FMAX = 1
  MaxCalls = 3
SPECIFICATION LogSpec
INVARIANTS LogBalanced PageHasFrames
PROPERTIES FrameWhole
SYMMETRY Alike
CHECK_DEADLOCK FALSE
