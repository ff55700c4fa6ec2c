SPECIFICATION Spec
CONSTANTS
  b1 = b1 b2 = b2 b3 = b3 g1 = g1 g2 = g2
  Order <- MCOrder
  Weight <- MCWeight
  MaxForgets = 1
INVARIANTS RoundsFollowWeights
PROPERTY NobodyStarves
