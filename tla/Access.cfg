SPECIFICATION Spec

CONSTANTS
  Bit = {1, 2}
  MaxIf = 2
  Room = {1, 2}
  Level = {0, 1, 2, 3}

INVARIANTS
  XTypeOK
  AnswerIsPermitted

CHECK_DEADLOCK FALSE
