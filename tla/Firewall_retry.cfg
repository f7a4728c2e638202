SPECIFICATION FairSpec
CONSTANTS
  MaxPort = 5
  IptablesMultiportLimit = 2
  Installed <- MCInstalled
  Options <- MCOptions
  Packets <- MCPackets
  MaxFailures = 2
  MaxRuns = 2
INVARIANT FirewallInv RedirectsOnlyAsked DoneIsAsked JumpsOnce CleanedIsEmpty
PROPERTY Converges
CHECK_DEADLOCK FALSE
