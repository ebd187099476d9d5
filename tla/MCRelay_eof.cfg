SPECIFICATION Spec

CONSTANTS
  ClientBytes = 2
  ServerBytes = 1
  MaxSent <- MCMaxSent
  RcvBuffer = 1
  TcpBuf = 1
  UdtBuf = 1
  ClientFaults = {}
  ServerFaults = {}
  Faults <- MCFaults

INVARIANTS
  EofDrains

CHECK_DEADLOCK FALSE
