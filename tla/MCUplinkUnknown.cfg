CONSTANTS
  Message <- MCMessages
  r1 = r1
  r2 = r2
  Readers <- MCReader
  FifoDepth = 2
  MaxFaults = 0

SPECIFICATION PathSpec

CHECK_DEADLOCK FALSE

INVARIANTS
  CompleteFramesDecoded
