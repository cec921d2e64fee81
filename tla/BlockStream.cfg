CONSTANTS
  BlockSize = 2
  Bytes = 6
  MaxCall = 5
  MaxFaults = 2
SPECIFICATION Spec
INVARIANT NoFalseAlarm
PROPERTY IsAChannel
CHECK_DEADLOCK FALSE
