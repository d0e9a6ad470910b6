CONSTANTS
  hook = hook
  cli = cli
  t1 = t1
  t2 = t2
  Client <- MCClient
  Branch = {"main", "dev"}
  DefaultBranch = "main"
  NoBranch = NoBranch
  Conventional = {"main"}
  Base = "base"
  Table <- MCTable
  Extra = {"v1"}
  MaxAbandoned = 1
SPECIFICATION Spec
SYMMETRY Symmetry
INVARIANTS
  TypeOK
  PartialIsExplained
PROPERTIES
  CreatedIsWhole
  CleanupDropsOwn
