SPECIFICATION Spec
CONSTANTS
  Threads = {"ui", "conn"}
  Secrets = {s1, s2}
  Urls <- MCUrls
  DefaultUrl = "default"
  SecureUrls = {"default"}
  CompliantUrls <- MCCompliantUrls
  None = None
  Retry = 2
  MaxCommands = 1
  MaxTrouble = 1
INVARIANTS ClearedStaysEmpty SavedIsRead
PROPERTY EngineConverges
CHECK_DEADLOCK FALSE
