SPECIFICATION FairUsageSpec
CONSTANTS
  k1 = k1
  k2 = k2
  Keys <- MCKeys
  MaxHour = 1
  MaxCount <- MCMaxCount
INVARIANTS Conserved NeverBackdated
PROPERTY Persisted
