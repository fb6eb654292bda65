CONSTANTS
  MaxApplets = 2
  MaxSds = 0
  MaxLoadFiles = 0
  MaxInstances = 1
  Aids <- MCAids
  FileAids = {}
  SdAids = {}
  Levels <- MCLevels
  None = None
  Capacity = 2
  BlockMod = 3
  Sizes = {0, 1}
  MaxBlocks = 4
  LoadCap = 1
  MaxKeys = 2
  Kvns = {1, 2, 3}
  KeySets = {k1, k2}
SPECIFICATION SessionSpec
INVARIANT ChainContiguous
INVARIANT KeysAreNewest
INVARIANT NothingPendingWithoutSession
PROPERTY ChangesNeedSession
