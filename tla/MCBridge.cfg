CONSTANTS
  LiveMod = 4
  IdMod = 5
  RxMod = 16
  RetryLimit = 3
  MaxStaged = 2
  MaxSid = 2
  MaxReq = 3
  MaxAccepted = 3
  FullReads = TRUE
  ClientFrames <- MCClientFrames

SPECIFICATION Spec

INVARIANTS
  TypeOK
  KeepaliveArmed
  NegotiatedBeforeKeepalive
  CountersInStep
  RetriesBounded
  AcceptedWasIssued
  AcceptedInOrder
  DelayOnlyInKeepalive

PROPERTIES
  ResendRepeatsRequest
  StreamHaltReported
