SPECIFICATION FairSpec

CONSTANTS
  ClientBytes = 4
  ServerBytes = 1
  MaxSent <- MCMaxSent
  RcvBuffer = 1
  TcpBuf = 1
  UdtBuf = 1
  ClientFaults = {"pollerr"}
  ServerFaults = {"reset", "sigpipe"}
  Faults <- MCFaults

PROPERTIES
  Teardown

CHECK_DEADLOCK FALSE
