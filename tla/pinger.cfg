SPECIFICATION FairSpec
CONSTANTS
  MaxEpoch = 3
  Capacity = 2
  MaxRetries = 1
  MaxStarts = 2
  MaxLate = 1
INVARIANTS
  TypeOK
  SavedWasSent
  PingedIsSynced
  ShutdownDrains
PROPERTIES
  NoRepeat
  StopsOnSignal
  RewardsAreRecognised
