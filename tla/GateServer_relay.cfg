SPECIFICATION FairSpec
CONSTANTS
  s1 = s1
  s2 = s2
  Sessions <- MCSessions
  Tenants = {"u"}
  Exempt = {"adm"}
  Tunnel = "tunnel"
  Quota <- MCQuota
  Limit <- MCLimitLoose
  Chunks = {2}
  MaxLeftover = 1
PROPERTY ConnectEnds
INVARIANTS SlotsBalanced ChargedExactly OverrunBounded
