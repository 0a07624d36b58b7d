\* Two kernel replicas, one task, an old and a new topic, two MCP sessions and
\* requests, settings with every kind of entry; each part has its own bound.
SPECIFICATION PlatformSpec
CONSTANTS
  Kernels = {k1, k2}
  Tasks = {t1}
  Lease = 2
  Interval = 1
  Never = Never
  MaxSchedEvents = 3
  Topics = {old, new}
  LegacyTopics = {old}
  Bodies = {good, typo, loose, huge}
  SyntaxOk = {good, loose, huge}
  SemanticOk = {good, typo, huge}
  TooBig = {huge}
  NoBody = NoBody
  NoTopic = NoTopic
  Enforce = TRUE
  MaxKbEvents = 3
  Requests = {r1, r2}
  NoRequest = NoRequest
  Sids = {s1, s2}
  NoSid = NoSid
  MaxMcpEvents = 4
  app = app
  edge = edge
  tA = tA
  tB = tB
  api = api
  hX = hX
  hY = hY
  SpokeIds = {app, edge}
  AppSpokes = {app}
  Tokens = {tA, tB}
  Default = default
  Names = {default, api}
  Hosts = {hX, hY}
  Unset = Unset
  Blank = Blank
  SpokeSettings <- MCSpokeSettings
  TargetSettings <- MCTargetSettings
  BackoffMin = 1
  BackoffMax = 30
  MaxSessions = 12
CHECK_DEADLOCK FALSE
INVARIANTS
  RunsDoNotOverlap OnceFiresOnce StaysScheduled
  NewBodiesPass
  OneTransport NotFoundIsExcused
  AcceptedAsWritten RoutesAsWritten
  DelayIsExponential
PROPERTIES
  ClaimIsCurrent RecurringRuns UpsertEnds
  LockIsPassedOn
