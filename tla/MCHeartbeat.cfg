CONSTANTS
  DEVSIZE = 2
  Leak = {1}
  HEARTS = 4
  MaxBeats = 5
SPECIFICATION MCSpec
INVARIANTS HeartExact OwnNotice
PROPERTIES OfflineIsSilent CheckRepeats
