CONSTANT MaxLength = 4
SPECIFICATION SqlSpec
INVARIANT DollarBodiesEnd
CHECK_DEADLOCK FALSE
