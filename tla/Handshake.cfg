SPECIFICATION FairSpec

CONSTANTS
  MaxSaid = 5
  Faults = {"reset", "sigpipe", "break", "bind", "reject", "foreign", "short"}

INVARIANTS
  HTypeOK
  GrantedMeansConnected
  CleanStart
  NoStandoff

PROPERTIES
  AnsweredOnce
  Answered
  ServerChildEnds

CHECK_DEADLOCK FALSE
