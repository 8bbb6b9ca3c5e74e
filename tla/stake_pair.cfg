SPECIFICATION Spec
CONSTANTS
  u1 = u1
  s1 = s1
  s2 = s2
  s3 = s3
  Users = {u1}
  Slots = {s1, s2}
  MaxChains = 2
  Deposits = {2, 3}
  StorageCost = 1
  Stake = 8
  Reserve = 3
  Rewards = {0, 10}
  Fees = {0, 2000}
  MaxEpoch = 1
  Messages <- AllMessages
SYMMETRY SlotSymmetry
CHECK_DEADLOCK FALSE
INVARIANTS
  PoolLstIsInFlight
  TrackerLedger
  Solvency
  OnlyEarnedIsRecognised
PROPERTIES
  RateNeverFalls
  OldQuotesBoundRate
