SPECIFICATION FairSpec
CONSTANTS
  h1 = h1
  h2 = h2
  h3 = h3
  s1 = s1
  s2 = s2
  Hashes = {h1, h2, h3}
  Slots = {s1, s2}
  Kind <- CallNativeSelf
  WantsStorage <- FirstStorage
  Cooldown = 2
  StorageCost = 1
  Stake = 3
  Reserve = 2
  Amounts = {1, 2}
  Rewards = {0}
  MaxEpoch = 3
  AdminVerifies = TRUE
  BadResults = FALSE
CHECK_DEADLOCK FALSE
PROPERTIES
  LocksAreReleased
  KeepsClaims
