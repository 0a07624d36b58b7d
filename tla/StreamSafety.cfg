\* Two streams, one with an unknown target, over channels of one
\* place.
SPECIFICATION Spec
CONSTANTS
  Sids = {1, 2}
  NoTarget = {2}
  MaxChunks <- TwoAndOne
  FrameCap = 1
  StreamCap = 1
CHECK_DEADLOCK FALSE
INVARIANTS
  TypeOK
  InOrder
  DrainedComplete
  ResponseComplete
