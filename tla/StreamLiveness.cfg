\* Stream 1 with two chunks each way next to stream 2, whose target is
\* unknown, over channels of one place.
SPECIFICATION FairSpec
CONSTANTS
  Sids = {1, 2}
  NoTarget = {2}
  MaxChunks <- TwoAndNone
  FrameCap = 1
  StreamCap = 1
CHECK_DEADLOCK FALSE
PROPERTY
  CloseTakesEffect
