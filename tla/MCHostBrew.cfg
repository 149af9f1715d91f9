CONSTANTS
  Live = {0, 1, 2}
  BridgeFrames <- MCBrewFrames
  MaxRx = 1
  OpenAttempts = 2

SPECIFICATION HostSpec

PROPERTIES
  OneShotDonePerBrew
