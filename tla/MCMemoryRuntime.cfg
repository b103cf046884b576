SPECIFICATION Spec
CONSTANTS
  Memory = {m1, m2}
  Instance = {i1, i2}
  Addr = {a1, a2, a3}
  Shape <- MCShape
  Null = Null
  WordMax = 3
  MapLimit = 2
SYMMETRY Symmetry
INVARIANTS TypeOK NeverAborts UseSitesExact AddressesCurrent LimitsHold OneOwner
PROPERTIES GrowIsHonest SharesByReference
CHECK_DEADLOCK FALSE
