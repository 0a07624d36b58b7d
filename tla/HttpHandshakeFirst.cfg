\* A request sent between attach_hub and the Challenge.
SPECIFICATION Spec
CONSTANTS
  r1 = r1
  r2 = r2
  Reqs = {r1}
  NoReq = NoReq
  AllowedReqs = {r1}
  ChanCap = 2
  MaxSessions = 1
  MaxSid = 1
CHECK_DEADLOCK FALSE
INVARIANT
  HandshakeComesFirst
