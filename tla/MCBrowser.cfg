CONSTANTS
  Lights = {1}
  Switches = {2}
  CHANNELS = 1
  DEV_SIZE = 2
  SHORTCUT = 9
  TARGET = 1
  Values = {0}
  MaxEvents = 4
  MaxPosts = 1
  MaxLost = 1
  MaxUp = 1
  MaxMain = 2
SPECIFICATION Spec
INVARIANTS TableCurrent ListParses
PROPERTIES OneBinding PressFlips
CHECK_DEADLOCK FALSE
