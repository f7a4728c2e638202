SPECIFICATION FairSpec
CONSTANTS
  a = a  b = b
  Name <- TwoPods
  NoName = none
  InitialPods <- OnePod
  NamesReused = FALSE
  EVENT_CHANNEL_CAPACITY = 1
  MaxStream = 2
  MaxPods = 2
  MaxTransient = 1
  MaxFaults = 2
INVARIANT TypeOK
PROPERTY DeletesOnlyFailed MeshesPods EventuallyMeshed
CHECK_DEADLOCK FALSE
