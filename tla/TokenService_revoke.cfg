SPECIFICATION Spec
CONSTANTS
  w1 = w1
  w2 = w2
  t1 = t1
  t2 = t2
  t3 = t3
  Workers <- MCWorkers
  Names = {"a"}
  Admin = "admin"
  Ids <- MCIds
  Lifetimes <- MCLifetimes
  None = None
  NoRow = NoRow
  MaxTime = 2
  StoreMayFail = FALSE
SYMMETRY Sym
INVARIANT RevokeSticks
