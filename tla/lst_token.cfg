SPECIFICATION Spec
CONSTANTS
  u1 = u1
  u2 = u2
  s1 = s1
  s2 = s2
  Users = {u1, u2}
  Slots = {s1, s2}
  Amounts = {1, 2}
  Stake = 1
  MaxSupply = 3
SYMMETRY Symmetry
INVARIANTS
  TypeOK
  SupplyIsSum
  DelegatorsExact
  EscrowCovered
