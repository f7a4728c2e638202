SPECIFICATION Spec
CONSTANTS
  p1 = p1  p2 = p2
  Plugin = {p1, p2}
  Linkerd = linkerd
  NotAMap = notamap
  Bases <- TwoBases
  InitialFiles <- Broken
  ProviderWrites <- BothWrites
  SourceReads <- AnySource
  KubeCAFile = FALSE
  IOFaults <- AllFaults
  Environment = {"signal", "inplace", "delete"}
  QueueCap = 3
  MaxWrites = 1
  MaxRotations = 1
  MaxRestarts = 0
INVARIANT TypeOK InjectionInv
CHECK_DEADLOCK FALSE
