CONSTANTS
  Message <- MCDamaged
  r1 = r1
  r2 = r2
  Readers <- MCReader
  FifoDepth = 2
  MaxFaults = 1

SPECIFICATION PathSpec

CHECK_DEADLOCK FALSE

INVARIANTS
  PathTypeOK
  UplinkAccounted
  StreamDecoded

PROPERTIES
  BestEffort
