\* Two requests, one of them with a refused path, over two sessions.
SPECIFICATION Spec
CONSTANTS
  r1 = r1
  r2 = r2
  Reqs = {r1, r2}
  NoReq = NoReq
  AllowedReqs = {r1}
  ChanCap = 2
  MaxSessions = 2
  MaxSid = 2
CHECK_DEADLOCK FALSE
INVARIANTS
  TypeOK
  AnswerIsOwn
  LeakOnlyOnDisconnect
  NoSenderDropped
  OnlyAdmittedExecuted
