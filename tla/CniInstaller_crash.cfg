SPECIFICATION Spec
CONSTANTS
  p1 = p1  p2 = p2
  Plugin = {p1, p2}
  Linkerd = linkerd
  NotAMap = notamap
  Bases <- TwoBases
  InitialFiles <- TwoFiles
  ProviderWrites <- NoWrites
  SourceReads <- FromEnv
  KubeCAFile = FALSE
  IOFaults = {"revert"}
  Environment = {"kill", "signal"}
  QueueCap = 4
  MaxWrites = 0
  MaxRotations = 1
  MaxRestarts = 2
INVARIANT KeepsConfig
PROPERTY NeverLosesConfig
CHECK_DEADLOCK FALSE
