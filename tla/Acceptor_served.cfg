SPECIFICATION Spec

CONSTANTS
  Mode = {"client"}
  MaxConn = 2
  Handle = {1, 2}
  Allowed = {1, 2}
  Misfit = {}
  Port = {1}
  PeerPort = 3
  Faults = {}

INVARIANTS
  ServedByOwnChild

CHECK_DEADLOCK FALSE
