SPECIFICATION Spec
CONSTANTS
  p1 = p1  p2 = p2
  Plugin = {p1, p2}
  Linkerd = linkerd
  NotAMap = notamap
  Bases <- OneBase
  InitialFiles <- Ordinary
  ProviderWrites <- BothWrites
  SourceReads <- FromEnv
  KubeCAFile = FALSE
  IOFaults = {}
  Environment = {}
  QueueCap = 4
  MaxWrites = 1
  MaxRotations = 0
  MaxRestarts = 0
INVARIANT SettledKeepsProviderConfig
CHECK_DEADLOCK FALSE
