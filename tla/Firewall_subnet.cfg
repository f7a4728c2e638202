SPECIFICATION FairSpec
CONSTANTS
  MaxPort = 5
  IptablesMultiportLimit = 2
  Installed <- MCInstalled
  Options <- SubnetOptions
  Packets <- MCPackets
  MaxFailures = 0
  MaxRuns = 0
PROPERTY Converges
CHECK_DEADLOCK FALSE
