CONSTANTS
  Conn = {c1, c2, c3}
  Branch = {main, b1}
  DefaultBranch = main
  ConnBudget = 2
  ProvBudget = 1
SPECIFICATION FairSpec
INVARIANTS
  TypeOK
  NoQueryForCachedBranch
  ServedHasDatabase
  NoCreateOverExisting
PROPERTIES
  LockDiscipline
  EnsureReturns
