SPECIFICATION FairSpec
CONSTANTS
  p1 = p1  p2 = p2
  Plugin = {p1, p2}
  Linkerd = linkerd
  NotAMap = notamap
  Bases <- TwoBases
  InitialFiles <- Broken
  ProviderWrites <- NoWrites
  SourceReads <- FromEnv
  KubeCAFile = FALSE
  IOFaults = {"token"}
  Environment = {"signal"}
  QueueCap = 4
  MaxWrites = 0
  MaxRotations = 0
  MaxRestarts = 0
PROPERTY ErrorIsReturned
CHECK_DEADLOCK FALSE
