SPECIFICATION FairPoolSpec
CONSTANTS
  Endpoints = {"cf", "vercel", "vps"}
  Vercel = {"vercel"}
  Vps = {"vps"}
  Tokens = {"A", "B"}
  Configs <- MCConfigs
  NoPoolConfig = NoPoolConfig
  Orders <- MCOrders
  Answers <- MCAnswers
  Size = 2
  FuseAt = 2
PROPERTIES StaleDrained TaskEnds
INVARIANTS OneCredential WithinPlan
