SPECIFICATION Spec
CONSTANTS
  MaxVersion = 1
  Torn = Torn
  NoFile = NoFile
  Legacy = {"ok", "bad"}
  Valid = {"ok"}
  NewRoute = "new"
  Phrases = {p1, p2}
  Importers = {i1, i2, i3}
  Ttl = 0
  Slack = 0
  MaxSkew = 1
  MaxClock = 1
  NoPhrase = NoPhrase
  MaxPid = 4
  HasPeers = TRUE
  Units = {"absent", "server", "serve"}
  NoPid = NoPid
  Metered <- MCMetered
  HasVercel = TRUE
  Percents = {79, 80}
  Threshold = 80
  Critical = 95
  Webhook = TRUE
  MaxTicks = 3
  None = None
  MaxLoad = 5
  MaxTrouble = 1
INVARIANTS UpMeansReachable  AllOrNothing LegacyNeverLost AlertPerCrossing PhraseOnce
CHECK_DEADLOCK FALSE
