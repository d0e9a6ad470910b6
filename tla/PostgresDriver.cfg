CONSTANTS
  Proc = {p1, p2}
  Name = {main, b1}
  Base = main
  Client = {s1, s2}
  MaxLate = 2
SPECIFICATION DriverSpec
INVARIANT DriverTypeOK
PROPERTY ImplementsBranchStore
