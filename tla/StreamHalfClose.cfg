\* A peer that half-closes before the target answers.
SPECIFICATION Spec
CONSTANTS
  Sids = {1}
  NoTarget = {}
  MaxChunks <- One
  FrameCap = 2
  StreamCap = 1
CHECK_DEADLOCK FALSE
INVARIANT
  HalfCloseKeepsResponse
