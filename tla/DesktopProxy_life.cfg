SPECIFICATION Spec
CONSTANTS
  Builtin <- MCBuiltin
  Google <- MCGoogle
  Aliases <- MCAliases
  Regions <- MCRegions
  LocalNames <- MCLocalNames
  LocalZones <- MCLocalZones
  PrivateIps <- MCPrivateIps
  FixedHosts <- MCFixedHosts
  GateHosts <- MCGateHosts
  Hosts <- MCHosts
  Visited <- MCVisited
  Attempts = 2
  Requests <- MCRequests
  Own <- MCOwn
  None = None
  MaxCommands = 2
  MaxTrouble = 2
  MaxBytes = 1
INVARIANTS UserSettingsBack PacAgrees TrafficOnce
CHECK_DEADLOCK FALSE
