SPECIFICATION Spec

CONSTANTS
  ClientBytes = 3
  ServerBytes = 1
  MaxSent <- MCMaxSent
  RcvBuffer = 2
  TcpBuf = 1
  UdtBuf = 2
  ClientFaults = {"break", "pollerr", "eintr"}
  ServerFaults = {"reset", "sigpipe", "linger"}
  Faults <- MCFaults

INVARIANTS
  TypeOK
  StreamIntegrity
  StopSignalled
  JoinBeforeClose
  OneWayDrains
  NothingDropped
PROPERTIES
  ImplementsPipe

CHECK_DEADLOCK FALSE
