CONSTANTS
  Fixed <- MCFixed
  New = {4, 5}
  Switches = {1}
  Plug = 2
  Channels <- MCChannels
  DEV_SIZE = 5
  LQ = 200
  FCS = 255
  NameLen <- MCNameLen
  Printed <- MCPrinted
  SENSOR = 66
  REST = 1604
  BUF = 2000
  MaxFrames = 4
SPECIFICATION Spec
INVARIANTS HouseComplete StateAsReported ListCurrent ListFits
CHECK_DEADLOCK FALSE
