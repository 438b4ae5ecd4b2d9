SPECIFICATION Spec
CONSTANTS
  Slots = {s1, s2, s3, s4}
  NoSock = NoSock
  MaxRuns = 2
  MaxFaults = 2
  MaxMsgs = 3
  MaxAttempts = 1
  BufferCap = 2
  FlushBatch = 1
  StoreCap = 2
  NoteCap = 2
  MaxGen = 2
  MaxAsks = 2
INVARIANT SoleSocket StatusAgrees ShownOnce
PROPERTY Recovers
CHECK_DEADLOCK FALSE
