SPECIFICATION Spec
CONSTANTS
  n1 = n1
  n2 = n2
  h1 = h1
  t1 = t1
  t2 = t2
  Workers = {w1, w2}
  Names = {n1, n2}
  Hosts = {h1}
  BadInput = BadInput
  Edges = {"worker", "b"}
  NewRoutes <- MCNewRoutes
  Edits <- MCEdits
  None = None
  Keep = Keep
  NoRow = NoRow
  MaxWrites = 3
  Tokens = {t1, t2}
  LiveTokens = {t1}
  Reqs = {r1}
  Targets <- MCTargets
  PrimaryAttempts = 2
  BackupAttempts = 2
  MaxChunks = 1
INVARIANTS ResendOnlyByFailover SentWhereRouted
PROPERTIES LagsBehindStore RequestAnswered
CHECK_DEADLOCK FALSE
