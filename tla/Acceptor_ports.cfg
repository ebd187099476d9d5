SPECIFICATION FairSpec

CONSTANTS
  Mode = {"rendezvous"}
  MaxConn = 1
  Handle = {1}
  Allowed = {1}
  Misfit = {}
  Port = {1, 2}
  PeerPort = 3
  Faults = {}

PROPERTIES
  EveryoneAccepted

CHECK_DEADLOCK FALSE
