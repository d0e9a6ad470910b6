CONSTANTS
  Process = {"proxy", "cli"}
  Thread = {"t1", "t2", "t3"}
  ProcessOf <- MCProcessOf
  Name = {"b1"}
  Page = {"first", "last"}
  MaxVersion = 1
  Hole = Hole
SPECIFICATION Spec
INVARIANTS
  TypeOK
  OneCopier
  UnmarkedIsSnapshot
PROPERTY NoOverwriteWithinProcess
