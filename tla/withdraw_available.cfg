SPECIFICATION Spec
CONSTANTS
  h1 = h1
  h2 = h2
  h3 = h3
  s1 = s1
  s2 = s2
  Hashes = {h1}
  Slots = {s1, s2}
  Kind <- AllNative
  WantsStorage <- NoStorage
  Cooldown = 2
  StorageCost = 2
  Stake = 2
  Reserve = 3
  Amounts = {1}
  Rewards = {0, 1}
  MaxEpoch = 4
  AdminVerifies = TRUE
  BadResults = FALSE
SYMMETRY SlotSymmetry
CHECK_DEADLOCK FALSE
INVARIANTS
  AvailableMeansWithdrawable
