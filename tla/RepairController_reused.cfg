SPECIFICATION Spec
CONSTANTS
  a = a  b = b
  Name <- OnePod
  NoName = none
  InitialPods <- OnePod
  NamesReused = TRUE
  EVENT_CHANNEL_CAPACITY = 1
  MaxStream = 2
  MaxPods = 3
  MaxTransient = 0
  MaxFaults = 0
PROPERTY DeletesOnlyFailed
CHECK_DEADLOCK FALSE
