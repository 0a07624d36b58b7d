\* Listeners left behind by a bind error, under fairness.
SPECIFICATION FairSpec
CONSTANTS
  c1 = c1
  c2 = c2
  c3 = c3
  s1 = s1
  p1 = p1
  p2 = p2
  Conns = {c1, c2}
  Spokes = {s1}
  Ports = {p1, p2}
  PortsOf <- TwoPorts
  NoConn = NoConn
  NoSpoke = NoSpoke
  MaxSid = 0

CHECK_DEADLOCK FALSE
PROPERTY
  ListenersTerminate
