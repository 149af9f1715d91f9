CONSTANTS
  LiveMod = 4
  IdMod = 3
  RxMod = 16
  RetryLimit = 3
  MaxStaged = 1
  MaxSid = 1
  MaxReq = 3
  MaxAccepted = 4
  FullReads = FALSE
  ClientFrames <- MCClientFrames

SPECIFICATION FairSpec

PROPERTIES
  SilentClientGivenUp
