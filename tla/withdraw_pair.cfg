SPECIFICATION Spec
CONSTANTS
  h1 = h1
  h2 = h2
  h3 = h3
  s1 = s1
  s2 = s2
  Hashes = {h1, h2}
  Slots = {s1, s2}
  Kind <- CallTransfer
  WantsStorage <- NoStorage
  Cooldown = 2
  StorageCost = 2
  Stake = 3
  Reserve = 2
  Amounts = {1, 2}
  Rewards = {0, 1}
  MaxEpoch = 3
  AdminVerifies = TRUE
  BadResults = FALSE
SYMMETRY SlotSymmetry
CHECK_DEADLOCK FALSE
INVARIANTS
  PendingIsSumOfClaims
  TrackerLedger
  Solvency
  ResidualIsBacked
PROPERTIES
  RecognisedIsEarned
  LockedUntouched
