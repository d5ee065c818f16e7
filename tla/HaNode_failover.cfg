SPECIFICATION Spec
CONSTANTS
  u1 = u1
  p1 = p1
  p2 = p2
  Users = {u1}
  Passwords = {p1, p2}
  NoUser = NoUser
  Endless = {FALSE}
  MaxEdits = 3
  Sessions = {s1}
  Clients <- MCClients
  NoCred = NoCred
  ClientToken = ClientToken
  PonyToken = PonyToken
  HasClientToken = TRUE
  AllowLoopback = FALSE
  None = None
  Hosts = {"cloud", "video"}
  Compliant = {"cloud"}
  StrictAi = {}
  Video = {"video"}
  Endpoints = {"cf", "vc", "rn"}
  Class <- MCClass
  Gates <- MCGates
  Offsets = {0}
  MaxAttempts = 2
INVARIANT EngineEgress
PROPERTY FlagFollowsEngine
