CONSTANTS
  c1 = c1
  c2 = c2
  Callers <- MCCallers
  MaxHandles = 2
  MaxClears = 0
  TxAttempts = 2

SPECIFICATION SerialFairSpec

INVARIANTS
  SerialTypeOK
  NoDeafPort
  CurrentIsOpen

PROPERTIES
  ReadersRetire
