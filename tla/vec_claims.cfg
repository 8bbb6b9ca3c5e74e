SPECIFICATION Spec
CONSTANTS
  Cooldown = 2
  Amounts = {1, 2}
  MaxUnstaked = 6
  MaxEpoch = 6
CHECK_DEADLOCK FALSE
INVARIANTS
  SetModelAgrees
  BoundedVec
PROPERTIES
  Implements
