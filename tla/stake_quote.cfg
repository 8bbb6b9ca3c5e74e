SPECIFICATION Spec
CONSTANTS
  u1 = u1
  s1 = s1
  s2 = s2
  s3 = s3
  Users = {u1}
  Slots = {s1, s2}
  MaxChains = 2
  Deposits = {2, 4}
  StorageCost = 1
  Stake = 2
  Reserve = 3
  Rewards = {0, 2}
  Fees = {0}
  MaxEpoch = 1
  Messages <- PlainNative
SYMMETRY SlotSymmetry
CHECK_DEADLOCK FALSE
INVARIANTS
  MintsAtCurrentRate
