SPECIFICATION AccessSpec
CONSTANTS
  h1 = h1
  h2 = h2
  i1 = i1
  i2 = i2
  c1 = c1
  t1 = t1
  t2 = t2
  Handlers <- MCHandlers
  Ids <- MCIds
  Clients <- MCClients
  Tokens <- MCTokens
  JtiOf <- MCJtiOf
  SubOf <- MCSubOf
  Password = Password
  Secret = Secret
  Nobody = Nobody
  KeySets <- MCKeySets
  Requests <- MCRequests
  Base = 2
  IsPublic <- MCIsPublic
  Answers <- MCAnswers
  NL = NL
  NoId = NoId
  MaxFile = 6
  CrashMidCall = TRUE
  FileMayFail = TRUE
INVARIANTS AdmittedSoundly
