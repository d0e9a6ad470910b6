CONSTANTS
  Conn = {c1, c2}
  MaxSlots = 1
CHECK_DEADLOCK FALSE
SPECIFICATION FairSpec
INVARIANTS
  TypeOK
  SlotsExact
  WaitGroupExact
  OpenSocketsTracked
  QuiescentWhenStopped
PROPERTIES
  NoAddAfterDrain
  AcceptLoopEnds
  HandshakeEnds
  StopReturnsUnlessMissed
