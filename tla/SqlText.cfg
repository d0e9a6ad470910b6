CONSTANT MaxLength = 4
SPECIFICATION SqlSpec
INVARIANTS SplitsAtCode PolicySeesCode
CHECK_DEADLOCK FALSE
