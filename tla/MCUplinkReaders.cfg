CONSTANTS
  Message <- MCOvertaken
  r1 = r1
  r2 = r2
  Readers <- MCReaders
  FifoDepth = 2
  MaxFaults = 1

SPECIFICATION PathSpec

SYMMETRY Symmetry

CHECK_DEADLOCK FALSE

PROPERTIES
  BestEffort
