SPECIFICATION Spec
CONSTANTS
  h1 = h1
  h2 = h2
  h3 = h3
  s1 = s1
  s2 = s2
  Hashes = {h1}
  Slots = {s1, s2}
  Kind <- AllCall
  WantsStorage <- AllStorage
  Cooldown = 2
  StorageCost = 2
  Stake = 4
  Reserve = 3
  Amounts = {1, 3}
  Rewards = {0}
  MaxEpoch = 3
  AdminVerifies = FALSE
  BadResults = TRUE
SYMMETRY SlotSymmetry
CHECK_DEADLOCK FALSE
INVARIANTS
  TypeOK
  ClaimLedger
  NoOverpayment
  NoSettlementPanic
  OneLockPerHash
  DistinctEpochs
  TrackerLedger
PROPERTIES
  CooldownIndependence
