SPECIFICATION Spec
CONSTANTS
  s1 = s1
  s2 = s2
  k1 = k1
  bad = bad
  Slots = {s1, s2}
  Keys = {k1, bad}
  BadKeys = {bad}
  FirstKey = k1
  Amounts = {1, 2}
  Stake = 2
  MinStake = 2
  Reward = 1
  MaxTotal = 5
  MaxActions = 3
SYMMETRY Symmetry
INVARIANTS
  TypeOK
  ConcurrentStakesAreSafe
  BadKeyUnstakes
