SPECIFICATION FairSpec
CONSTANTS
  c1 = c1
  c2 = c2
  Conns <- MCConns
  Cap = 2
  Ips = {"local", "remote"}
  Loopback = {"local"}
  Hosts = {"code", "video"}
  Compliant = {"code"}
  StrictAi = {}
  Video = {"video"}
  Endpoints = {"cf", "vc", "rn"}
  GateLists <- MCGateLists
  Class <- MCClass
  Offsets = {0}
  MaxAttempts = 2
  MaxFailures = 2
  None = None
INVARIANTS CompliantEgress LockoutHolds
PROPERTIES EstablishEnds DrainedRelayEnds
