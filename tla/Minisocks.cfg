SPECIFICATION FairSpec

CONSTANTS
  Thread = {t1, t2}
  t1 = t1
  t2 = t2
  Reply = 2
  MaxData = 1
  Env = {"absent", "bad", "name"}
  Faults = {"lookup", "split", "short", "nonblocking"}

INVARIANTS
  MTypeOK
  SuccessIsTunnel
  ServerFound

PROPERTIES
  Returns

CHECK_DEADLOCK FALSE
