SPECIFICATION FairSpec

CONSTANTS
  Mode = {"client", "server", "rendezvous"}
  MaxConn = 4
  Handle = {1, 2}
  Allowed = {1, 3, 4}
  Misfit = {3}
  Port = {1, 2}
  PeerPort = 3
  Faults = {"udt", "bind", "thread"}

INVARIANTS
  ATypeOK
  ApartServed
  OnlyKnownLeaks

PROPERTIES
  EqualPortsAccepted

CHECK_DEADLOCK FALSE
