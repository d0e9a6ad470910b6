CONSTANTS
  Conn = {c1, c2}
  Branch <- MCBranch
  Name <- MCName
  Detached = "detached HEAD"
  NoRebase = "no rebase"
  Sanitized <- MCSanitized
  Main = "main"
  Transient = {"topic"}
SYMMETRY Symmetry
SPECIFICATION Spec
INVARIANTS
  TypeOK
  NoSharedDatabase
