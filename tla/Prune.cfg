CONSTANTS
  Proc = {pruner, p1}
  Pruner = pruner
  Name <- MCName
  Branch <- MCBranch
  Sanitized <- MCSanitized
  Base = "main"
  Default = "main"
  Detached = "detached HEAD"
  NoRebase = "no rebase"
  Unlisted = {"detached-head"}
  Managed = {"main", "detached_head"}
SPECIFICATION Spec
INVARIANT TypeOK
PROPERTY
  SparesBranchesInUse
