\* Two connections contend for a spoke with two ports, and a TCP client arrives
\* at one of their listeners.
SPECIFICATION FairSpec
CONSTANTS
  c1 = c1
  c2 = c2
  c3 = c3
  s1 = s1
  p1 = p1
  p2 = p2
  Conns = {c1, c2}
  Spokes = {s1}
  Ports = {p1, p2}
  PortsOf <- TwoPorts
  NoConn = NoConn
  NoSpoke = NoSpoke
  MaxSid = 1
CHECK_DEADLOCK FALSE
INVARIANTS
  TypeOK
  NoZombieEntry
  StaleEntryIsTransient
  ConnectedCoversMap
  
  StreamsOpenCovers
PROPERTIES
  DeadConnectionSettles
  PortsReleased
