SPECIFICATION PluginSpec
CONSTANTS
  MaxPort = 5
  IptablesMultiportLimit = 2
  Installed <- MCInstalled
  Options <- MCConfs
  Packets <- MCPackets
  MaxFailures = 2
  MaxRuns = 0
  Pods <- MCPods
  Namespaces <- MCNamespaces
  ApiService <- MCApiService
  DefaultPorts <- MCDefaultPorts
  MaxEdits = 1
INVARIANT PluginInv AddIsIntended OnlyMeshedTouched ControlPlaneReachesApi
PROPERTY AddSucceeds
CHECK_DEADLOCK FALSE
