CONSTANTS
  k1 = k1
  k2 = k2
  v1 = v1
  v2 = v2
  Keys <- MCKeys
  Values <- MCValues
  Limits <- MCLimits
  N = 1
SPECIFICATION Spec
SYMMETRY Symm
INVARIANT GuessBudget
PROPERTY DeadSlotStaysDead
PROPERTY AccessNeedsPin
