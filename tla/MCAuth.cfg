CONSTANTS
  SqnMax = 3
  Rands = {1, 2}
  MaxLife = 1
  Infinite = Infinite
  NoKs = NoKs
SPECIFICATION Spec
INVARIANTS NoReplay KsIsNewest NafNeedsLiveKs
PROPERTY Resynchronised
