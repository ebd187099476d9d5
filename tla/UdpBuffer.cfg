SPECIFICATION Spec

CONSTANTS
  Thread = {t1, t2}
  t1 = t1
  t2 = t2
  MaxCalls = 2
  Handle = {1, 2}
  Written = {0, 3, 7}
  Kilo = 4
  Word = 32
  MaxLimit = 14
  Default = 13
  Floor = 2

INVARIANTS
  UTypeOK
  AloneExact
  CheckedIsGranted
  GrantedSpared

CHECK_DEADLOCK FALSE
