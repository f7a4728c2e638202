SPECIFICATION FairSpec
CONSTANTS
  p1 = p1  p2 = p2
  Plugin = {p1, p2}
  Linkerd = linkerd
  NotAMap = notamap
  Bases <- OneBase
  InitialFiles <- Ordinary
  ProviderWrites <- BothWrites
  SourceReads <- FromEnv
  KubeCAFile = FALSE
  IOFaults = {}
  Environment = {"delete", "move", "signal", "kill"}
  QueueCap = 4
  MaxWrites = 1
  MaxRotations = 1
  MaxRestarts = 1
INVARIANT ServiceInv SettledInjected SettledKubeconfigFresh HashedIsLogged RemovalInv JoinedRemovalIsClean
PROPERTY Settles TerminatesAfterSignal ServesRuntime EventuallyServes
CHECK_DEADLOCK FALSE
