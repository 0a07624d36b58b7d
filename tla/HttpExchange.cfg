\* The proxy against HttpExchange and the promise of an answer: two requests
\* over a channel of one frame.
SPECIFICATION FairSpec
CONSTANTS
  r1 = r1
  r2 = r2
  Reqs = {r1, r2}
  NoReq = NoReq
  AllowedReqs = {r1}
  ChanCap = 1
  MaxSessions = 1
  MaxSid = 2
CHECK_DEADLOCK FALSE
PROPERTIES
  ImplementsExchange
  EveryRequestAnswered
