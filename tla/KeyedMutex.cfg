CONSTANTS
  Proc = {p1, p2, p3}
  Key = {k1, k2}
  Entry = {e1, e2, e3, e4}
  NoEntry = NoEntry
SPECIFICATION FairSpec
INVARIANTS
  TypeOK
  MutualExclusion
  NoLeakedEntry
  LockedHasOneOwner
PROPERTIES
  ImplementsKeyLock
  LockGranted
