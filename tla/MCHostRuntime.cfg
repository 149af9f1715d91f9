CONSTANTS
  Live = {0, 1, 2}
  BridgeFrames <- MCLinkFrames
  MaxRx = 1
  OpenAttempts = 1

SPECIFICATION HostSpec

INVARIANTS
  HostTypeOK
  KeepaliveProven
  ConnectStageReady
  ErrorIsInert
