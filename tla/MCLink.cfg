CONSTANTS
  LiveMod = 4
  IdMod = 3
  RxMod = 8
  RetryLimit = 2
  MaxSid = 1
  MaxLine = 1

SPECIFICATION LinkLiveSpec

INVARIANTS
  LinkTypeOK
  NoGhostAfterReport
  NoGhostComing

PROPERTIES
  LossLearned
