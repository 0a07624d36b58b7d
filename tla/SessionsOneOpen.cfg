\* Three connections of an application spoke, which has no port.
SPECIFICATION Spec
CONSTANTS
  c1 = c1
  c2 = c2
  c3 = c3
  s1 = s1
  p1 = p1
  p2 = p2
  Conns = {c1, c2, c3}
  Spokes = {s1}
  Ports = {p1}
  PortsOf <- NoPorts
  NoConn = NoConn
  NoSpoke = NoSpoke
  MaxSid = 0

CHECK_DEADLOCK FALSE
INVARIANT
  OneOpenSession
