SPECIFICATION FairSpec
CONSTANTS
  Loop = {l1, l2}
  Caller = {c1, c2}
  NoLoop = none
  BufferSize = 1
  MaxRetries = 1
  MaxReadings = 3
INVARIANTS TypeOK ReadingsAreOnce LoopIsKnown
PROPERTIES StopSettles StopReturns BufferDrains
