CONSTANTS
  MOD = 12
  BUFSIZE = 7
  SYNC1 = 10
  SYNC2 = 8
  AA = 9
  C0 = 7
  AB = 6
  Messages <- TwoMessages
  States5 <- TwoStates
  Noise = {0, 4, 7, 9, 10}
  MaxSent = 3
  MaxFaults = 2
SPECIFICATION LinkSpec
INVARIANTS OverrunNeedsFault
PROPERTIES CleanFrameArrives SaneFrameEnds ProtoFrameArrives ProtoFrameEnds
CHECK_DEADLOCK FALSE
