SPECIFICATION FairSpec

CONSTANTS
  Started = {"job", "session"}
  Option = {"h", "C", "S", "D", "R", "other", "bad"}
  MaxArgs = 3
  Sig = {"TERM", "INT", "QUIT"}

INVARIANTS
  STypeOK
  NoOrphan
  OnlyAsAsked
  KillReachesRelay

PROPERTIES
  AllExit
  SignalEndsAll

CHECK_DEADLOCK FALSE
