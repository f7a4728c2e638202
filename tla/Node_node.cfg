SPECIFICATION NodeSpec
CONSTANTS
  a = a
  Name <- OnePod
  NoName = none
  InitialPods <- OnePod
  NamesReused = TRUE
  EVENT_CHANNEL_CAPACITY = 1
  MaxStream = 2
  MaxPods = 3
  MaxTransient = 1
  MaxFaults = 1
  MaxU64 = 100000
  Timeouts <- MCTimeouts
INVARIANT TimeoutIsAsked
PROPERTY ImplementsRepairController EventuallyValidated
CHECK_DEADLOCK FALSE
