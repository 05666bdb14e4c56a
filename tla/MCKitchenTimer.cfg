CONSTANT HOLD = 4
SPECIFICATION TimerSpec
INVARIANTS TimerTypeOK TimerExact OffEndsTimer
PROPERTY AutoOff
