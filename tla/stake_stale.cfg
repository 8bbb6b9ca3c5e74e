SPECIFICATION Spec
CONSTANTS
  u1 = u1
  s1 = s1
  s2 = s2
  s3 = s3
  Users = {u1}
  Slots = {s1, s2, s3}
  MaxChains = 3
  Deposits = {4, 10}
  StorageCost = 1
  Stake = 1
  Reserve = 3
  Rewards = {3}
  Fees = {0}
  MaxEpoch = 1
  Messages <- PlainNative
SYMMETRY SlotSymmetry
CHECK_DEADLOCK FALSE
INVARIANTS
  TypeOK
