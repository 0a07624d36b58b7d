\* Two kernel replicas, two task workers, two spawns, one of them an
\* orchestrator, and three events: submits, cancels, answers, forces, faults.
SPECIFICATION SpawnFairSpec
CONSTANTS
  Kernels = {k1, k2}
  Workers = {w1, w2}
  Ids = {1, 2}
  NoId = NoId
  NoWorker = NoWorker
  NoKernel = NoKernel
  Priority <- Prio
  Parent <- Par
  Orchestrated = {2}
  SerialCycle = 99
  PickupSize = 5
  MaxTurns = 2
  MaxEvents = 3
CHECK_DEADLOCK FALSE
INVARIANTS
  SpawnTypeOK
  OneRunner
  AnswersConserved
  OrphansNeedFaults
  SerialsMoveOn
PROPERTIES
  FinishedIsFinal
  SpawnSettles
