SPECIFICATION Spec
CONSTANTS
  p1 = p1  p2 = p2
  Plugin = {p1, p2}
  Linkerd = linkerd
  NotAMap = notamap
  Bases <- OneBase
  InitialFiles <- Ordinary
  ProviderWrites <- NoWrites
  SourceReads <- FromEnv
  KubeCAFile = FALSE
  IOFaults = {}
  Environment = {"signal"}
  QueueCap = 4
  MaxWrites = 0
  MaxRotations = 0
  MaxRestarts = 0
INVARIANT RemovedMeansClean
CHECK_DEADLOCK FALSE
